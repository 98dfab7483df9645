\* Holds: what nobody uses any more goes away.
\* Violated here, in their place: SignalledSessionsDie.
SPECIFICATION FairSpec
CONSTANTS
  v1 = v1
  v2 = v2
  a1 = a1
  dev = dev
  Viewers <- OneViewer
  Admins <- OneAdmin
  Names <- OneName
  Ops = {"kill", "killforce", "killclient", "stop", "stopforce"}
  MaxChannels = 2
  MaxSessions = 1
  MidCallDrop = FALSE
  Absent = Absent
  Unattached = Unattached
CHECK_DEADLOCK FALSE
INVARIANT GatewayTypeOK
PROPERTIES
  IdleChannelsAreReaped
  DisconnectedClientsLeave
