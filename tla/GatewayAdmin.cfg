\* Also violated here: ExitLeavesNoSession, NoGhostClients, UnforcedStopIsHarmless and,
\* as a PROPERTY, NoBlindKill; one at a time.
\* Also violated, with Viewers <- ViewerPair, Admins = {} and Ops = {}: NeverSplit.
SPECIFICATION Spec
CONSTANTS
  v1 = v1
  v2 = v2
  a1 = a1
  dev = dev
  Viewers <- OneViewer
  Admins <- OneAdmin
  Names <- OneName
  Ops = {"kill", "killclient", "stop"}
  MaxChannels = 2
  MaxSessions = 2
  MidCallDrop = FALSE
  Absent = Absent
  Unattached = Unattached
CHECK_DEADLOCK FALSE
INVARIANTS
  NobodySlipsIn
