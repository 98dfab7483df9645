SPECIFICATION FairSpec
CONSTANTS
  v1 = v1
  v2 = v2
  a1 = a1
  dev = dev
  Viewers <- OneViewer
  Admins <- OneAdmin
  Names <- OneName
  Ops = {"close", "kill", "killforce", "killclient", "stop", "stopforce"}
  MaxChannels = 2
  MaxSessions = 1
  MidCallDrop = FALSE
  Absent = Absent
  Unattached = Unattached
CHECK_DEADLOCK FALSE
INVARIANTS
  AttachSticks
PROPERTIES
  KillsEscalate
  ShutdownCompletes
