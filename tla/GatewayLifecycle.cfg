SPECIFICATION Spec
CONSTANTS
  v1 = v1
  v2 = v2
  a1 = a1
  dev = dev
  Viewers <- ViewerPair
  Admins = {}
  Names <- OneName
  Ops = {"close"}
  MaxChannels = 2
  MaxSessions = 2
  MidCallDrop = FALSE
  Absent = Absent
  Unattached = Unattached
SYMMETRY ViewerSymmetry
CHECK_DEADLOCK FALSE
INVARIANTS
  OneCanonicalChannel
  EscalationArmed
PROPERTIES
  SessionSurvives
  IsBook
