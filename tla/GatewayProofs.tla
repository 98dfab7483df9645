--------------------------- MODULE GatewayProofs ---------------------------
(* Proofs about Gateway for any number of viewers, admins, names, channel  *)
(* instances and sessions.                                                 *)
EXTENDS Gateway, TLAPS

\* The calls that carry a channel name.
NamingPCs == {"lookup", "check", "create", "bind", "session", "close_lookup",
              "close_kill", "kill_lookup", "kill_kill", "kill_evict",
              "client_evict", "client_lookup", "client_prune"}

CallsOK ==
  /\ call \in [Conns -> CallType]
  /\ \A c \in Conns : call[c].pc \in NamingPCs => call[c].name \in Names

-----------------------------------------------------------------------------
(* The ways a call moves on.                                               *)

LEMMA BeginOK ==
  ASSUME CallsOK, created' = created, NEW c \in Conns, NEW r \in CallType,
         r.pc \in NamingPCs => r.name \in Names,
         call' = [call EXCEPT ![c] = r]
  PROVE  CallsOK'
  BY DEF CallsOK, CallType

LEMMA GotoWithOK ==
  ASSUME CallsOK, created' \in Nat, created \in Nat, created <= created',
         NEW c \in Conns, NEW l \in CallPCs, NEW x \in 0..created',
         l \in NamingPCs => call[c].pc \in NamingPCs,
         GotoWith(c, l, x)
  PROVE  CallsOK'
<1> DEFINE r == [call[c] EXCEPT !.pc = l, !.ch = x]
<1>1. call' = [call EXCEPT ![c] = r]
  BY DEF GotoWith, CallsOK, CallType
<1>2. \A d \in Conns : call[d] \in CallType'
  BY DEF CallsOK, CallType
<1>3. r \in CallType'
  BY <1>2 DEF CallType
<1>4. r.pc = l /\ r.name = call[c].name
  BY DEF CallsOK, CallType
<1> HIDE DEF r
<1> QED
  BY <1>1, <1>2, <1>3, <1>4 DEF CallsOK

LEMMA GotoOK ==
  ASSUME CallsOK, created' = created,
         NEW c \in Conns, NEW l \in CallPCs,
         l \in NamingPCs => call[c].pc \in NamingPCs,
         Goto(c, l)
  PROVE  CallsOK'
<1> DEFINE r == [call[c] EXCEPT !.pc = l]
<1>1. call' = [call EXCEPT ![c] = r]
  BY DEF Goto, CallsOK, CallType
<1>3. r \in CallType
  BY DEF CallType, CallsOK
<1>4. r.pc = l /\ r.name = call[c].name
  BY DEF CallsOK, CallType
<1> HIDE DEF r
<1> QED
  BY <1>1, <1>3, <1>4, BeginOK DEF CallsOK

LEMMA IdleCallOK ==
  ASSUME created \in Nat
  PROVE  IdleCall \in CallType /\ IdleCall.pc \notin NamingPCs
  BY DEF IdleCall, CallType, CallPCs, NamingPCs, None

LEMMA ReturnOK ==
  ASSUME CallsOK, created' = created, created \in Nat, NEW c \in Conns, Return(c)
  PROVE  CallsOK'
  BY IdleCallOK, BeginOK DEF Return

-----------------------------------------------------------------------------
(* Types of everything else, step by step.                                 *)

\* GatewayTypeOK without the calls, and whatever else names a channel names
\* one that can be in the table.
StateOK ==
  /\ stage \in [Conns -> {"new", "open", "attached", "joined", "closed"}]
  /\ conns \in [Viewers -> Names \cup {Absent, Unattached}]
  /\ connQ \subseteq Viewers /\ discQ \subseteq Viewers /\ evicted \subseteq Viewers
  /\ ev \in [pc : {"idle", "resolve", "prune"}, conn : Viewers \cup {None},
             name : Names \cup {Absent}, ch : 0..created]
  /\ ev.pc # "idle" => ev.name \in Names
  /\ shutting \in BOOLEAN /\ up \in BOOLEAN

ChannelsOK ==
  /\ chanMap \in [Names -> 0..created]
  /\ created \in 0..MaxChannels
  /\ chName \in [ChannelIds -> Names \cup {Absent}]
  /\ \A x \in 1..created : chName[x] \in Names
  /\ reaped \in [ChannelIds -> BOOLEAN]
  /\ clients \in [ChannelIds -> SUBSET Viewers]
  /\ killPending \in [ChannelIds -> BOOLEAN]
  /\ poll \in [ChannelIds -> {"none", "wait", "reap", "done"}]
  /\ \A x \in ChannelIds : poll[x] # "none" => x \in 1..created

SessionsOK ==
  /\ session \in [ChannelIds -> 0..spawned]
  /\ spawned \in 0..MaxSessions
  /\ procs \in [SessionIds -> {"unborn"} \cup Alive \cup Dead]
  /\ esc \subseteq [by : Conns, name : Names, ch : 0..created]

TypeInv == CallsOK /\ StateOK /\ ChannelsOK /\ SessionsOK

LEMMA TypeInvImplies == TypeInv => GatewayTypeOK
  BY DEF TypeInv, CallsOK, StateOK, ChannelsOK, SessionsOK, GatewayTypeOK

LEMMA TypeInvInit == Init => TypeInv
<1> SUFFICES ASSUME Init PROVE TypeInv
  OBVIOUS
<1> USE GatewayAssumption DEF Init, None
<1>1. CallsOK
  BY DEF CallsOK, CallType, CallPCs, NamingPCs, IdleCall
<1>2. StateOK
  <2>1. IdleEvent \in [pc : {"idle", "resolve", "prune"}, conn : Viewers \cup {None},
                      name : Names \cup {Absent}, ch : 0..created]
    BY DEF IdleEvent
  <2>2. IdleEvent.pc = "idle"
    BY DEF IdleEvent
  <2> QED
    BY <2>1, <2>2 DEF StateOK
<1>3. ChannelsOK
  BY DEF ChannelsOK, ChannelIds
<1>4. SessionsOK
  BY DEF SessionsOK, SessionIds, ChannelIds
<1> QED
  BY <1>1, <1>2, <1>3, <1>4 DEF TypeInv

\* Steps of the calls that only read the rest of the state.
LEMMA QuietOK ==
  ASSUME TypeInv, CallsOK',
         UNCHANGED <<connVars, mapVars, sessVars, taskVars, gateVars>>
  PROVE  TypeInv'
  BY DEF TypeInv, StateOK, ChannelsOK, SessionsOK, connVars, mapVars, sessVars,
         taskVars, gateVars

LEMMA ConnectionTypes ==
  ASSUME TypeInv,
         \/ \E c \in Conns : Connect(c)
         \/ \E c \in Viewers : Drop(c) \/ EvConnect(c) \/ EvEvict(c)
         \/ EvResolve
  PROVE  TypeInv'
<1> USE DEF TypeInv, CallsOK, StateOK, ChannelsOK, SessionsOK, CallType,
            mapVars, sessVars, taskVars, gateVars
<1>1. ASSUME NEW c \in Conns, Connect(c) PROVE TypeInv'
  BY <1>1 DEF Connect
<1>2. ASSUME NEW c \in Viewers, Drop(c) PROVE TypeInv'
  BY <1>2 DEF Drop, Conns
<1>3. ASSUME NEW c \in Viewers, EvConnect(c) PROVE TypeInv'
  BY <1>3 DEF EvConnect
<1>4. ASSUME NEW c \in Viewers, EvEvict(c) PROVE TypeInv'
  BY <1>4 DEF EvEvict, None
<1>5. ASSUME EvResolve PROVE TypeInv'
  <2>1. chanMap[ev.name] \in 0..created
    BY <1>5 DEF EvResolve
  <2>2. IdleEvent \in [pc : {"idle", "resolve", "prune"}, conn : Viewers \cup {None},
                      name : Names \cup {Absent}, ch : 0..created]
        /\ IdleEvent.pc = "idle"
    BY DEF IdleEvent, None
  <2> QED
    BY <1>5, <2>1, <2>2 DEF EvResolve
<1> QED
  BY <1>1, <1>2, <1>3, <1>4, <1>5

LEMMA AttachCallTypes ==
  ASSUME TypeInv, NEW c \in Viewers, NEW n \in Names, AttachCall(c, n)
  PROVE  TypeInv'
<1> DEFINE r == [IdleCall EXCEPT !.pc = "lookup", !.op = "attach", !.name = n]
<1>1. r \in CallType /\ r.name \in Names
  <2>1. IdleCall \in CallType
    BY IdleCallOK DEF TypeInv, ChannelsOK
  <2>2. n \in Names
    OBVIOUS
  <2> QED
    BY <2>1, <2>2 DEF CallType, CallPCs
<1>2. created' = created /\ call' = [call EXCEPT ![c] = r]
  BY DEF AttachCall, mapVars
<1> HIDE DEF r
<1>3. CallsOK'
  BY <1>1, <1>2, BeginOK DEF Conns, TypeInv
<1> QED
  BY <1>3, QuietOK DEF AttachCall

LEMMA SpawnCallTypes ==
  ASSUME TypeInv, NEW c \in Viewers, SpawnCall(c)
  PROVE  TypeInv'
<1> DEFINE r == [IdleCall EXCEPT !.pc = "lookup", !.op = "spawn", !.name = conns[c]]
<1>1. r \in CallType /\ r.name \in Names
  <2>1. IdleCall \in CallType
    BY IdleCallOK DEF TypeInv, ChannelsOK
  <2>2. conns[c] \in Names
    BY DEF SpawnCall
  <2> QED
    BY <2>1, <2>2 DEF CallType, CallPCs
<1>2. created' = created /\ call' = [call EXCEPT ![c] = r]
  BY DEF SpawnCall, mapVars
<1> HIDE DEF r
<1>3. CallsOK'
  BY <1>1, <1>2, BeginOK DEF Conns, TypeInv
<1> QED
  BY <1>3, QuietOK DEF SpawnCall

LEMMA CloseCallTypes ==
  ASSUME TypeInv, NEW c \in Viewers, CloseCall(c)
  PROVE  TypeInv'
<1> DEFINE r == [IdleCall EXCEPT !.pc = "close_lookup", !.name = conns[c]]
<1>1. r \in CallType /\ r.name \in Names
  <2>1. IdleCall \in CallType
    BY IdleCallOK DEF TypeInv, ChannelsOK
  <2>2. conns[c] \in Names
    BY DEF CloseCall
  <2> QED
    BY <2>1, <2>2 DEF CallType, CallPCs
<1>2. created' = created /\ call' = [call EXCEPT ![c] = r]
  BY DEF CloseCall, mapVars
<1> HIDE DEF r
<1>3. CallsOK'
  BY <1>1, <1>2, BeginOK DEF Conns, TypeInv
<1> QED
  BY <1>3, QuietOK DEF CloseCall

\* The sections of a call that read the channel table or one instance.
LEMMA ReadingTypes ==
  ASSUME TypeInv, NEW c \in Conns,
         Lookup(c) \/ Check(c) \/ CloseLookup(c) \/ KillLookup(c) \/ ClientLookup(c)
  PROVE  TypeInv'
<1>1. created' = created /\ created \in Nat /\ CallsOK
  <2>1. UNCHANGED mapVars
    BY DEF Lookup, Check, CloseLookup, KillLookup, ClientLookup
  <2>2. created \in Nat /\ CallsOK
    BY DEF TypeInv, ChannelsOK
  <2> QED
    BY <2>1, <2>2 DEF mapVars
<1>2. call[c].pc \in NamingPCs /\ call[c].name \in Names
  BY DEF TypeInv, CallsOK, Lookup, Check, CloseLookup, KillLookup, ClientLookup,
         NamingPCs
<1>3. Resolved(c) \in 0..created'
  BY <1>1, <1>2 DEF Resolved, TypeInv, ChannelsOK
<1>4. CallsOK'
  <2> USE <1>1, <1>2, <1>3 DEF CallPCs
  <2>1. CASE Lookup(c)
    BY <2>1, GotoWithOK DEF Lookup
  <2>2. CASE Check(c)
    BY <2>2, GotoOK DEF Check, AfterLookup
  <2>3. CASE CloseLookup(c)
    BY <2>3, GotoWithOK, ReturnOK DEF CloseLookup
  <2>4. CASE KillLookup(c)
    BY <2>4, GotoWithOK DEF KillLookup
  <2>5. CASE ClientLookup(c)
    BY <2>5, GotoWithOK, ReturnOK DEF ClientLookup
  <2> QED
    BY <2>1, <2>2, <2>3, <2>4, <2>5
<1> QED
  BY <1>4, QuietOK DEF Lookup, Check, CloseLookup, KillLookup, ClientLookup

LEMMA AdminCallTypes ==
  ASSUME TypeInv, NEW a \in Admins, NEW opts, NEW start \in CallType,
         start.pc \in NamingPCs => start.name \in Names,
         AdminCall(a, opts, start)
  PROVE  TypeInv'
<1>1. created' = created /\ CallsOK
  BY DEF AdminCall, mapVars, TypeInv
<1>2. CallsOK'
  BY <1>1, BeginOK DEF AdminCall, Conns
<1>3. StateOK' /\ ChannelsOK' /\ SessionsOK'
  BY DEF AdminCall, TypeInv, StateOK, ChannelsOK, SessionsOK, mapVars, sessVars,
         taskVars, gateVars
<1> QED
  BY <1>2, <1>3 DEF TypeInv

LEMMA KillCallTypes ==
  ASSUME TypeInv, NEW a \in Admins, NEW n \in Names, NEW f \in BOOLEAN,
         KillChannelCall(a, n, f)
  PROVE  TypeInv'
<1> DEFINE r == [IdleCall EXCEPT !.pc = "kill_lookup", !.name = n, !.force = f,
                                 !.targets = {c \in Viewers : conns[c] = n}]
<1>1. r \in CallType /\ r.name \in Names
  <2>1. IdleCall \in CallType
    BY IdleCallOK DEF TypeInv, ChannelsOK
  <2>2. {c \in Viewers : conns[c] = n} \in SUBSET Viewers
    OBVIOUS
  <2> QED
    BY <2>1, <2>2 DEF CallType, CallPCs
<1>2. PICK opts : AdminCall(a, opts, r)
  BY DEF KillChannelCall
<1> HIDE DEF r
<1> QED
  BY <1>1, <1>2, AdminCallTypes

LEMMA KillClientCallTypes ==
  ASSUME TypeInv, NEW a \in Admins, NEW c \in Viewers, KillClientCall(a, c)
  PROVE  TypeInv'
<1> DEFINE r == [IdleCall EXCEPT !.pc = "client_evict", !.name = conns[c],
                                 !.targets = {c}]
<1>1. r \in CallType /\ r.name \in Names
  <2>1. IdleCall \in CallType
    BY IdleCallOK DEF TypeInv, ChannelsOK
  <2>2. conns[c] \in Names
    BY DEF KillClientCall
  <2> QED
    BY <2>1, <2>2 DEF CallType, CallPCs
<1>2. PICK opts : AdminCall(a, opts, r)
  BY DEF KillClientCall
<1> HIDE DEF r
<1> QED
  BY <1>1, <1>2, AdminCallTypes

LEMMA MappedOK ==
  ASSUME ChannelsOK PROVE Mapped \subseteq 1..created
  BY DEF ChannelsOK, Mapped, None

LEMMA StopCallTypes ==
  ASSUME TypeInv, NEW a \in Admins, NEW f \in BOOLEAN, StopCall(a, f)
  PROVE  TypeInv'
<1> DEFINE l == IF f THEN "stop_seal" ELSE "stop_scan"
           r == [IdleCall EXCEPT !.pc = l, !.todo = Mapped, !.force = f]
<1>1. r \in CallType /\ r.pc \notin NamingPCs
  <2>1. IdleCall \in CallType /\ Mapped \in SUBSET (1..created)
    BY IdleCallOK, MappedOK DEF TypeInv, ChannelsOK
  <2>2. l \in CallPCs /\ l \notin NamingPCs
    BY DEF CallPCs, NamingPCs
  <2> HIDE DEF l
  <2> QED
    BY <2>1, <2>2 DEF CallType
<1>2. PICK opts : AdminCall(a, opts, r)
  BY DEF StopCall
<1> HIDE DEF r, l
<1> QED
  BY <1>1, <1>2, AdminCallTypes

\* get_or_create_channel, second look.
LEMMA CreateTypes ==
  ASSUME TypeInv, NEW c \in Viewers, Create(c) PROVE TypeInv'
<1> c \in Conns
  BY DEF Conns
<1>1. call[c].pc = "create" /\ call[c].name \in Names
  BY DEF Create, TypeInv, CallsOK, NamingPCs
<1>2. AfterLookup(c) \in CallPCs
  BY DEF AfterLookup, CallPCs
<1>3. created \in Nat /\ MaxChannels \in Nat /\ Resolved(c) \in 0..created
  BY <1>1, GatewayAssumption DEF TypeInv, ChannelsOK, Resolved
<1>4. CASE NewChannel(c)
  <2>1. created' = created + 1 /\ created' \in 1..MaxChannels
    BY <1>3, <1>4 DEF NewChannel
  <2>2. CallsOK'
    BY <1>1, <1>2, <1>3, <1>4, <2>1, GotoWithOK DEF NewChannel, TypeInv, NamingPCs
  <2>3. StateOK'
    BY <1>3, <2>1 DEF Create, TypeInv, StateOK, connVars, gateVars
  <2>4. SessionsOK'
    BY <1>3, <2>1 DEF Create, TypeInv, SessionsOK, sessVars
  <2>5. ChannelsOK'
    BY <1>1, <1>3, <1>4, <2>1
       DEF Create, NewChannel, TypeInv, ChannelsOK, ChannelIds, sessVars
  <2> QED
    BY <2>2, <2>3, <2>4, <2>5 DEF TypeInv
<1>5. CASE UNCHANGED <<mapVars, poll>> /\ GotoWith(c, AfterLookup(c), Resolved(c))
  <2>1. CallsOK'
    BY <1>1, <1>2, <1>3, <1>5, GotoWithOK DEF TypeInv, NamingPCs, mapVars
  <2> QED
    BY <1>5, <2>1, QuietOK DEF Create, taskVars
<1> QED
  BY <1>4, <1>5 DEF Create

LEMMA BindTypes ==
  ASSUME TypeInv, NEW c \in Viewers, Bind(c) PROVE TypeInv'
<1> c \in Conns
  BY DEF Conns
<1>1. created' = created /\ created \in Nat /\ CallsOK
  BY DEF Bind, mapVars, TypeInv, ChannelsOK
<1>2. CallsOK'
  BY <1>1, ReturnOK DEF Bind
<1>3. call[c].name \in Names
  BY <1>1 DEF CallsOK, Bind, NamingPCs
<1>4. StateOK'
  BY <1>1, <1>3 DEF Bind, TypeInv, StateOK, gateVars
<1>5. ChannelsOK' /\ SessionsOK'
  BY DEF Bind, TypeInv, ChannelsOK, SessionsOK, mapVars, sessVars, taskVars
<1> QED
  BY <1>2, <1>4, <1>5 DEF TypeInv

LEMMA SpawnSessionTypes ==
  ASSUME TypeInv, NEW c \in Viewers, SpawnSession(c) PROVE TypeInv'
<1> c \in Conns
  BY DEF Conns
<1>1. created' = created /\ created \in Nat /\ CallsOK
  BY DEF SpawnSession, mapVars, TypeInv, ChannelsOK
<1>2. CallsOK'
  BY <1>1, ReturnOK DEF SpawnSession
<1>3. StateOK'
  BY <1>1 DEF SpawnSession, TypeInv, StateOK, gateVars
<1>4. ChannelsOK'
  <2>1. clients' = [clients EXCEPT ![call[c].ch] = @ \cup {c}]
    BY DEF SpawnSession, Joined
  <2> QED
    BY <2>1 DEF SpawnSession, TypeInv, ChannelsOK, mapVars, taskVars
<1>5. SessionsOK'
  <2>1. CASE UNCHANGED <<session, spawned, procs>>
    BY <2>1, <1>1 DEF SpawnSession, TypeInv, SessionsOK, taskVars
  <2>2. CASE /\ spawned < MaxSessions
             /\ spawned' = spawned + 1
             /\ session' = [session EXCEPT ![call[c].ch] = spawned']
             /\ procs' = [procs EXCEPT ![spawned'] = "running"]
    <3>1. spawned \in Nat /\ spawned' \in 0..MaxSessions /\ spawned <= spawned'
      BY <2>2, GatewayAssumption DEF TypeInv, SessionsOK
    <3>2. session' \in [ChannelIds -> 0..spawned']
      <4>1. session \in [ChannelIds -> 0..spawned] /\ spawned' = spawned + 1
        BY <2>2 DEF TypeInv, SessionsOK
      <4>2. session \in [ChannelIds -> 0..spawned'] /\ spawned' \in 0..spawned'
        BY <3>1, <4>1
      <4> QED
        BY <2>2, <4>2
    <3>3. procs' \in [SessionIds -> {"unborn"} \cup Alive \cup Dead]
      BY <2>2 DEF TypeInv, SessionsOK, Alive
    <3> QED
      BY <3>1, <3>2, <3>3, <1>1 DEF SpawnSession, TypeInv, SessionsOK, taskVars
  <2> QED
    BY <2>1, <2>2 DEF SpawnSession, Joined
<1> QED
  BY <1>2, <1>3, <1>4, <1>5 DEF TypeInv

\* request_session_kill with the escalation task that every caller starts.
LEMMA RequestKillTypes ==
  ASSUME TypeInv, created' = created, NEW c \in Conns, NEW n \in Names, NEW x,
         RequestKill(x), SpawnEscalation(c, n), UNCHANGED <<session, spawned>>
  PROVE  SessionsOK' /\ killPending' \in [ChannelIds -> BOOLEAN]
<1>1. killPending' \in [ChannelIds -> BOOLEAN]
  BY DEF RequestKill, TypeInv, ChannelsOK
<1>2. procs' \in [SessionIds -> {"unborn"} \cup Alive \cup Dead]
  BY DEF RequestKill, TypeInv, SessionsOK, Alive
<1>3. esc' \subseteq [by : Conns, name : Names, ch : 0..created']
  BY GatewayAssumption DEF SpawnEscalation, TypeInv, SessionsOK, ChannelsOK, None
<1> QED
  BY <1>1, <1>2, <1>3 DEF TypeInv, SessionsOK

LEMMA CloseKillTypes ==
  ASSUME TypeInv, NEW c \in Viewers, CloseKill(c) PROVE TypeInv'
<1> c \in Conns
  BY DEF Conns
<1>1. created' = created /\ created \in Nat /\ CallsOK
  BY DEF CloseKill, mapVars, TypeInv, ChannelsOK
<1>2. CallsOK'
  BY <1>1, ReturnOK DEF CloseKill
<1>3. call[c].name \in Names
  BY <1>1 DEF CallsOK, CloseKill, NamingPCs
<1>4. SessionsOK' /\ killPending' \in [ChannelIds -> BOOLEAN]
  BY <1>1, <1>3, RequestKillTypes DEF CloseKill
<1>5. StateOK'
  BY DEF CloseKill, TypeInv, StateOK, connVars, mapVars, gateVars
<1>6. ChannelsOK'
  BY <1>4 DEF CloseKill, TypeInv, ChannelsOK, mapVars
<1> QED
  BY <1>2, <1>4, <1>5, <1>6 DEF TypeInv

LEMMA KillKillTypes ==
  ASSUME TypeInv, NEW a \in Admins, KillKill(a) PROVE TypeInv'
<1> a \in Conns
  BY DEF Conns
<1>1. created' = created /\ created \in Nat /\ CallsOK
  BY DEF KillKill, mapVars, TypeInv, ChannelsOK
<1>2. call[a].name \in Names /\ call[a].pc \in NamingPCs
  BY <1>1 DEF CallsOK, KillKill, NamingPCs
<1>3. StateOK'
  BY DEF KillKill, TypeInv, StateOK, connVars, mapVars, gateVars
<1>4. CASE Return(a) /\ UNCHANGED <<clients, killPending, procs, esc>>
  <2>1. CallsOK'
    BY <1>1, <1>4, ReturnOK
  <2> QED
    BY <1>3, <1>4, <2>1
       DEF KillKill, TypeInv, ChannelsOK, SessionsOK, mapVars
<1>5. CASE /\ RequestKill(call[a].ch)
           /\ clients' = [clients EXCEPT ![call[a].ch] = @ \ call[a].targets]
           /\ SpawnEscalation(a, call[a].name)
           /\ Goto(a, "kill_evict")
  <2>1. CallsOK'
    BY <1>1, <1>2, <1>5, GotoOK DEF CallPCs
  <2>2. SessionsOK' /\ killPending' \in [ChannelIds -> BOOLEAN]
    BY <1>1, <1>2, <1>5, RequestKillTypes DEF KillKill
  <2>3. ChannelsOK'
    BY <1>5, <2>2 DEF KillKill, TypeInv, ChannelsOK, mapVars
  <2> QED
    BY <1>3, <2>1, <2>2, <2>3 DEF TypeInv
<1> QED
  BY <1>4, <1>5 DEF KillKill

LEMMA UnrouteTypes ==
  ASSUME TypeInv, NEW a \in Admins, KillEvict(a) \/ ClientEvict(a)
  PROVE  TypeInv'
<1> a \in Conns
  BY DEF Conns
<1>1. created' = created /\ created \in Nat /\ CallsOK
  BY DEF KillEvict, ClientEvict, mapVars, TypeInv, ChannelsOK
<1>2. CallsOK'
  BY <1>1, ReturnOK, GotoOK DEF KillEvict, ClientEvict, CallPCs, NamingPCs
<1>3. Unroute(call[a].targets) /\ call[a].targets \subseteq Viewers
  BY <1>1 DEF KillEvict, ClientEvict, CallsOK, CallType
<1>4. StateOK'
  BY <1>1, <1>3
     DEF KillEvict, ClientEvict, Unroute, TypeInv, StateOK, gateVars
<1>5. ChannelsOK' /\ SessionsOK'
  BY DEF KillEvict, ClientEvict, TypeInv, ChannelsOK, SessionsOK, mapVars, sessVars,
         taskVars
<1> QED
  BY <1>2, <1>4, <1>5 DEF TypeInv

LEMMA ClientPruneTypes ==
  ASSUME TypeInv, NEW a \in Admins, ClientPrune(a) PROVE TypeInv'
<1>1. CallsOK'
  BY ReturnOK DEF ClientPrune, TypeInv, ChannelsOK, mapVars, Conns
<1> QED
  BY <1>1 DEF ClientPrune, TypeInv, StateOK, ChannelsOK, SessionsOK, connVars, mapVars,
              taskVars, gateVars

\* ShutdownGateway, after its call.
LEMMA StopTypes ==
  ASSUME TypeInv, NEW a \in Admins,
         StopScan(a) \/ StopSeal(a) \/ StopKill(a) \/ StopExit(a)
  PROVE  TypeInv'
<1> a \in Conns
  BY DEF Conns
<1>1. UNCHANGED mapVars /\ UNCHANGED connVars
  BY DEF StopScan, StopSeal, StopKill, StopExit
<1>2. created' = created /\ created \in Nat /\ CallsOK
  BY <1>1 DEF mapVars, TypeInv, ChannelsOK
<1>3. ASSUME NEW l \in CallPCs \ NamingPCs, NEW S \in SUBSET (1..created),
             call' = [call EXCEPT ![a].pc = l, ![a].todo = S]
      PROVE  CallsOK'
  <2> DEFINE r == [call[a] EXCEPT !.pc = l, !.todo = S]
  <2>1. call' = [call EXCEPT ![a] = r]
    BY <1>2, <1>3 DEF CallsOK, CallType
  <2>2. r \in CallType /\ r.pc \notin NamingPCs
    BY <1>2 DEF CallsOK, CallType
  <2> HIDE DEF r
  <2> QED
    BY <1>2, <2>1, <2>2, BeginOK
<1>4. ASSUME NEW x, Done(a, x), call[a].pc \notin NamingPCs PROVE CallsOK'
  <2> DEFINE r == [call[a] EXCEPT !.todo = @ \ {x}]
  <2>1. call' = [call EXCEPT ![a] = r]
    BY <1>2, <1>4 DEF CallsOK, CallType, Done
  <2>2. r \in CallType /\ r.pc \notin NamingPCs
    BY <1>2, <1>4 DEF CallsOK, CallType
  <2> HIDE DEF r
  <2> QED
    BY <1>2, <2>1, <2>2, BeginOK
<1>5. CASE StopScan(a)
  <2>1. CallsOK'
    BY <1>2, <1>4, <1>5, GotoOK, ReturnOK DEF StopScan, CallPCs, NamingPCs
  <2> QED
    BY <1>5, <2>1, QuietOK DEF StopScan
<1>6. CASE StopSeal(a)
  <2>1. CallsOK'
    BY <1>3, <1>6, MappedOK DEF StopSeal, CallPCs, NamingPCs, TypeInv
  <2> QED
    BY <1>6, <2>1 DEF StopSeal, TypeInv, StateOK, ChannelsOK, SessionsOK, connVars,
                      mapVars, sessVars, taskVars
<1>7. CASE StopKill(a)
  <2>1. StateOK'
    BY <1>1, <1>7 DEF StopKill, TypeInv, StateOK, connVars, mapVars, gateVars
  <2>2. CASE Goto(a, "stop_wait") /\ UNCHANGED <<killPending, procs, esc>>
    <3>1. CallsOK'
      BY <1>2, <2>2, GotoOK DEF CallPCs, NamingPCs
    <3> QED
      BY <1>7, <2>1, <2>2, <3>1
         DEF StopKill, TypeInv, ChannelsOK, SessionsOK, mapVars
  <2>3. ASSUME NEW x \in call[a].todo, RequestKill(x), SpawnEscalation(a, chName[x]),
               Done(a, x)
        PROVE  TypeInv'
    <3>1. CallsOK'
      BY <1>4, <1>7, <2>3 DEF StopKill, NamingPCs
    <3>2. chName[x] \in Names
      BY <1>2 DEF CallsOK, CallType, TypeInv, ChannelsOK
    <3>3. SessionsOK' /\ killPending' \in [ChannelIds -> BOOLEAN]
      BY <1>2, <1>7, <2>3, <3>2, RequestKillTypes DEF StopKill
    <3>4. ChannelsOK'
      BY <1>7, <3>3 DEF StopKill, TypeInv, ChannelsOK, mapVars
    <3> QED
      BY <2>1, <3>1, <3>3, <3>4 DEF TypeInv
  <2> QED
    BY <1>7, <2>2, <2>3 DEF StopKill
<1>8. CASE StopExit(a)
  <2>1. CallsOK'
    BY <1>2, <1>8, ReturnOK DEF StopExit
  <2> QED
    BY <1>8, <2>1 DEF StopExit, TypeInv, StateOK, ChannelsOK, SessionsOK, connVars,
                      mapVars, sessVars, taskVars
<1> QED
  BY <1>5, <1>6, <1>7, <1>8

\* The background tasks and the processes.
LEMMA TaskTypes ==
  ASSUME TypeInv,
         \/ EvPrune
         \/ \E x \in ChannelIds : Poll(x) \/ Reap(x)
         \/ \E s \in SessionIds : ProcExit(s)
         \/ \E e \in esc : EscalateWake(e) \/ Escalate(e)
  PROVE  TypeInv'
<1>1. UNCHANGED call /\ created' = created /\ created \in Nat
  BY DEF EvPrune, Poll, Reap, ProcExit, EscalateWake, Escalate, mapVars, TypeInv,
         ChannelsOK
<1>2. CallsOK'
  BY <1>1 DEF TypeInv, CallsOK, CallType
<1>3. CASE EvPrune
  <2>1. IdleEvent \in [pc : {"idle", "resolve", "prune"}, conn : Viewers \cup {None},
                      name : Names \cup {Absent}, ch : 0..created]
        /\ IdleEvent.pc = "idle"
    BY <1>1 DEF IdleEvent, None
  <2> QED
    BY <1>2, <1>3, <2>1 DEF EvPrune, TypeInv, StateOK, ChannelsOK, SessionsOK,
                            mapVars, taskVars, gateVars
<1>4. ASSUME NEW x \in ChannelIds, Poll(x) PROVE TypeInv'
  <2>1. StateOK'
    BY <1>4 DEF Poll, TypeInv, StateOK, connVars, mapVars, gateVars
  <2>2. ChannelsOK'
    <3>1. UNCHANGED <<mapVars, clients>> /\ poll[x] # "none"
      BY <1>4 DEF Poll
    <3>2. killPending' \in [ChannelIds -> BOOLEAN]
      BY <1>4 DEF Poll, ClearSession, TypeInv, ChannelsOK
    <3>3. PICK p \in {"wait", "reap", "done"} : poll' = [poll EXCEPT ![x] = p]
      BY <1>4 DEF Poll, ClearSession, TypeInv, ChannelsOK
    <3>4. /\ poll' \in [ChannelIds -> {"none", "wait", "reap", "done"}]
          /\ \A y \in ChannelIds : poll'[y] # "none" => poll[y] # "none"
      BY <3>1, <3>3 DEF TypeInv, ChannelsOK
    <3>5. UNCHANGED <<chanMap, created, chName, reaped, clients>>
      BY <3>1 DEF mapVars
    <3> QED
      BY <3>2, <3>4, <3>5 DEF TypeInv, ChannelsOK
  <2>3. SessionsOK'
    BY <1>4, GatewayAssumption
       DEF Poll, ClearSession, TypeInv, SessionsOK, mapVars, None
  <2> QED
    BY <1>2, <2>1, <2>2, <2>3 DEF TypeInv
<1>5. ASSUME NEW x \in ChannelIds, Reap(x) PROVE TypeInv'
  <2>1. StateOK' /\ SessionsOK'
    BY <1>1, <1>5 DEF Reap, TypeInv, StateOK, SessionsOK, connVars, sessVars, gateVars
  <2>2. UNCHANGED <<created, chName, clients, killPending>> /\ x \in 1..created
    BY <1>5 DEF Reap, TypeInv, ChannelsOK, sessVars
  <2>3. chanMap' \in [Names -> 0..created'] /\ reaped' \in [ChannelIds -> BOOLEAN]
    <3>1. chanMap \in [Names -> 0..created'] /\ 0 \in 0..created'
      BY <1>1 DEF TypeInv, ChannelsOK
    <3>2. CASE UNCHANGED <<reaped, chanMap>>
      BY <3>1, <3>2 DEF TypeInv, ChannelsOK
    <3>3. CASE Collect(chanMap[chName[x]])
      BY <3>1, <3>3 DEF Collect, TypeInv, ChannelsOK, None
    <3> QED
      BY <1>5, <3>2, <3>3 DEF Reap
  <2>4. /\ poll' \in [ChannelIds -> {"none", "wait", "reap", "done"}]
        /\ \A y \in ChannelIds : poll'[y] # "none" => poll[y] # "none"
    BY <1>5 DEF Reap, TypeInv, ChannelsOK
  <2>5. ChannelsOK'
    BY <2>2, <2>3, <2>4 DEF TypeInv, ChannelsOK
  <2> QED
    BY <1>2, <2>1, <2>5 DEF TypeInv
<1>6. ASSUME NEW s \in SessionIds, ProcExit(s) PROVE TypeInv'
  BY <1>2, <1>6 DEF ProcExit, TypeInv, StateOK, ChannelsOK, SessionsOK, connVars,
                    mapVars, taskVars, gateVars, Dead
<1>7. ASSUME NEW e \in esc, EscalateWake(e) PROVE TypeInv'
  <2>1. esc' \subseteq [by : Conns, name : Names, ch : 0..created]
    BY <1>7 DEF EscalateWake, TypeInv, SessionsOK, ChannelsOK
  <2> QED
    BY <1>2, <1>7, <2>1 DEF EscalateWake, TypeInv, StateOK, ChannelsOK, SessionsOK,
                            connVars, mapVars, sessVars, gateVars
<1>8. ASSUME NEW e \in esc, Escalate(e) PROVE TypeInv'
  <2>1. procs' \in [SessionIds -> {"unborn"} \cup Alive \cup Dead]
    BY <1>8 DEF Escalate, SigKill, TypeInv, SessionsOK, Alive, Dead
  <2>2. killPending' \in [ChannelIds -> BOOLEAN] /\ esc' \subseteq esc
    BY <1>8 DEF Escalate, TypeInv, ChannelsOK
  <2> QED
    BY <1>2, <1>8, <2>1, <2>2 DEF Escalate, TypeInv, StateOK, ChannelsOK, SessionsOK,
                                  connVars, mapVars, gateVars
<1> QED
  BY <1>3, <1>4, <1>5, <1>6, <1>7, <1>8

LEMMA TypeInvStep == TypeInv /\ [Next]_vars => TypeInv'
<1> SUFFICES ASSUME TypeInv, [Next]_vars PROVE TypeInv'
  OBVIOUS
<1>1. CASE UNCHANGED vars
  BY <1>1 DEF vars, TypeInv, CallsOK, CallType, StateOK, ChannelsOK, SessionsOK,
              connVars, mapVars, sessVars, taskVars, gateVars
<1>2. ASSUME NEW c \in Viewers, ViewerStep(c) PROVE TypeInv'
  BY <1>2, ReadingTypes, CreateTypes, BindTypes, SpawnSessionTypes, CloseKillTypes
     DEF ViewerStep, Conns
<1>3. ASSUME NEW a \in Admins, AdminStep(a) PROVE TypeInv'
  BY <1>3, ReadingTypes, KillKillTypes, UnrouteTypes, ClientPruneTypes, StopTypes
     DEF AdminStep, Conns
<1>4. CASE EventStep
  BY <1>4, ConnectionTypes, TaskTypes DEF EventStep
<1>5. CASE Environment
  BY <1>5, ConnectionTypes, AttachCallTypes, SpawnCallTypes, CloseCallTypes,
     KillCallTypes, KillClientCallTypes, StopCallTypes, TaskTypes DEF Environment
<1>6. ASSUME \/ \E x \in ChannelIds : Poll(x) \/ Reap(x)
             \/ \E e \in esc : EscalateWake(e) \/ Escalate(e)
      PROVE  TypeInv'
  BY <1>6, TaskTypes
<1> QED
  BY <1>1, <1>2, <1>3, <1>4, <1>5, <1>6 DEF Next

\* Every reachable state of the gateway is well typed: every call holds an
\* existing instance and every channel a session that was spawned.
THEOREM GatewayTyped == Spec => []GatewayTypeOK
<1>1. Init => TypeInv
  BY TypeInvInit
<1>2. TypeInv /\ [Next]_vars => TypeInv'
  BY TypeInvStep
<1>3. TypeInv => GatewayTypeOK
  BY TypeInvImplies
<1> QED
  BY <1>1, <1>2, <1>3, PTL DEF Spec

-----------------------------------------------------------------------------
(* The tombstone.                                                          *)

\* The table maps a name to an instance of that name, and what has not been
\* created has nothing in it: with these the tombstone is inductive.
TableInv ==
  /\ TypeInv
  /\ OneCanonicalChannel
  /\ \A n \in Names : chanMap[n] # None => chName[chanMap[n]] = n
  /\ \A x \in ChannelIds : x \notin 1..created => ~reaped[x]

LEMMA TableChanges ==
  ASSUME Next
  PROVE  \/ UNCHANGED mapVars
         \/ \E c \in Viewers : Create(c) /\ NewChannel(c)
         \/ \E x \in ChannelIds : Reap(x)
<1>1. ASSUME NEW c \in Viewers, ViewerStep(c)
      PROVE  UNCHANGED mapVars \/ (Create(c) /\ NewChannel(c))
  BY <1>1 DEF ViewerStep, Lookup, Check, Create, Bind, SpawnSession, CloseLookup,
              CloseKill
<1>2. ASSUME NEW a \in Admins, AdminStep(a) PROVE UNCHANGED mapVars
  BY <1>2 DEF AdminStep, KillLookup, KillKill, KillEvict, ClientEvict, ClientLookup,
              ClientPrune, StopScan, StopSeal, StopKill, StopExit
<1>3. CASE EventStep
  BY <1>3 DEF EventStep, EvConnect, EvEvict, EvResolve, EvPrune
<1>4. CASE Environment
  BY <1>4 DEF Environment, Connect, Drop, SpawnCall, CloseCall, AttachCall,
              KillChannelCall, KillClientCall, StopCall, AdminCall, ProcExit
<1>5. ASSUME NEW x \in ChannelIds, Poll(x) PROVE UNCHANGED mapVars
  BY <1>5 DEF Poll
<1>6. ASSUME NEW e \in esc, EscalateWake(e) \/ Escalate(e) PROVE UNCHANGED mapVars
  BY <1>6 DEF EscalateWake, Escalate
<1> QED
  BY <1>1, <1>2, <1>3, <1>4, <1>5, <1>6 DEF Next

LEMMA CreatedInRange == ASSUME ChannelsOK PROVE 1..created \subseteq ChannelIds
  BY GatewayAssumption DEF ChannelsOK, ChannelIds

LEMMA TableInvStep == TableInv /\ [Next]_vars => TableInv'
<1> SUFFICES ASSUME TableInv, [Next]_vars PROVE TableInv'
  OBVIOUS
<1> USE DEF None
<1>1. TypeInv'
  BY TypeInvStep DEF TableInv
<1>2. CASE UNCHANGED mapVars
  BY <1>1, <1>2 DEF TableInv, OneCanonicalChannel, mapVars
<1>3. ASSUME NEW c \in Viewers, Create(c), NewChannel(c) PROVE TableInv'
  <2> DEFINE n == call[c].name
             y == created'
  <2>1. n \in Names
    BY <1>3 DEF Create, TableInv, TypeInv, CallsOK, Conns, NamingPCs
  <2>2. /\ created \in Nat /\ y = created + 1 /\ y \in ChannelIds
        /\ chanMap' = [chanMap EXCEPT ![n] = y]
        /\ chName' = [chName EXCEPT ![y] = n]
        /\ reaped' = reaped
    BY <1>3, GatewayAssumption
       DEF NewChannel, TableInv, TypeInv, ChannelsOK, ChannelIds
  <2>3. /\ chanMap \in [Names -> 0..created]
        /\ chName \in [ChannelIds -> Names \cup {Absent}]
        /\ \A x \in 1..created : chName[x] \in Names /\ x \in ChannelIds
    BY CreatedInRange DEF TableInv, TypeInv, ChannelsOK
  <2>4. chanMap[n] = 0
    <3>1. CASE chanMap[n] # 0
      <4>1. chanMap[n] \in 1..created /\ chName[chanMap[n]] = n
        BY <2>1, <2>2, <2>3, <3>1 DEF TableInv
      <4>2. ~reaped[chanMap[n]]
        BY <4>1 DEF TableInv, OneCanonicalChannel
      <4>3. ~Usable(chanMap[n])
        BY <1>3, <2>1, <2>2, <2>3, <4>1 DEF Create, mapVars, Resolved, GotoWith
      <4> QED
        BY <4>2, <4>3, <3>1 DEF Usable
    <3> QED
      BY <3>1
  <2> HIDE DEF n, y
  <2>5. ~reaped[y]
    BY <2>2 DEF TableInv
  <2>6. \A x \in 1..y : ~reaped'[x] <=> chanMap'[chName'[x]] = x
    <3> SUFFICES ASSUME NEW x \in 1..y PROVE ~reaped'[x] <=> chanMap'[chName'[x]] = x
      OBVIOUS
    <3>1. CASE x = y
      BY <2>1, <2>2, <2>3, <2>5, <3>1
    <3>2. CASE x # y
      <4>1. x \in 1..created /\ chName'[x] = chName[x] /\ chName[x] \in Names
        BY <2>2, <2>3, <3>2
      <4>2. ~reaped[x] <=> chanMap[chName[x]] = x
        BY <4>1 DEF TableInv, OneCanonicalChannel
      <4>3. CASE chName[x] = n
        BY <2>1, <2>2, <2>3, <2>4, <3>2, <4>1, <4>2, <4>3
      <4>4. CASE chName[x] # n
        BY <2>1, <2>2, <2>3, <4>1, <4>2, <4>4
      <4> QED
        BY <4>3, <4>4
    <3> QED
      BY <3>1, <3>2
  <2>7. \A m \in Names : chanMap'[m] # 0 => chName'[chanMap'[m]] = m
    <3> SUFFICES ASSUME NEW m \in Names, chanMap'[m] # 0
                 PROVE  chName'[chanMap'[m]] = m
      OBVIOUS
    <3>1. CASE m = n
      BY <2>1, <2>2, <2>3, <3>1
    <3>2. CASE m # n
      <4>1. chanMap'[m] = chanMap[m] /\ chanMap[m] \in 1..created
        BY <2>1, <2>2, <2>3, <3>2
      <4> QED
        BY <2>2, <2>3, <4>1 DEF TableInv
    <3> QED
      BY <3>1, <3>2
  <2>8. \A x \in ChannelIds : x \notin 1..y => ~reaped'[x]
    BY <2>2 DEF TableInv
  <2> QED
    BY <1>1, <2>6, <2>7, <2>8 DEF TableInv, OneCanonicalChannel, y
<1>4. ASSUME NEW x \in ChannelIds, Reap(x) PROVE TableInv'
  <2>1. CASE UNCHANGED <<reaped, chanMap>>
    <3>1. UNCHANGED mapVars
      BY <1>4, <2>1 DEF Reap, mapVars
    <3> QED
      BY <1>2, <3>1
  <2>2. CASE chanMap[chName[x]] # 0 /\ Collect(chanMap[chName[x]])
    <3> DEFINE n == chName[x]
               y == chanMap[n]
    <3>1. n \in Names
      BY <1>4 DEF Reap, TableInv, TypeInv, ChannelsOK
    <3>2. /\ y \in 1..created /\ chName[y] = n
          /\ reaped' = [reaped EXCEPT ![y] = TRUE]
          /\ chanMap' = [chanMap EXCEPT ![n] = 0]
          /\ chName' = chName /\ created' = created
      <4>1. y \in 0..created /\ y # 0 /\ created \in Nat
        BY <2>2, <3>1 DEF TableInv, TypeInv, ChannelsOK
      <4>2. chName[y] = n
        BY <3>1, <4>1 DEF TableInv
      <4>3. chName' = chName /\ created' = created
        BY <1>4 DEF Reap
      <4> QED
        BY <2>2, <4>1, <4>2, <4>3 DEF Collect
    <3>3. /\ chanMap \in [Names -> 0..created]
          /\ reaped \in [ChannelIds -> BOOLEAN]
          /\ \A z \in 1..created : chName[z] \in Names /\ z \in ChannelIds
      BY CreatedInRange DEF TableInv, TypeInv, ChannelsOK
    <3>4. y = chanMap[n]
      OBVIOUS
    <3> HIDE DEF n, y
    <3>5. \A z \in 1..created : ~reaped'[z] <=> chanMap'[chName'[z]] = z
      BY <3>1, <3>2, <3>3, <3>4 DEF TableInv, OneCanonicalChannel
    <3>6. \A m \in Names : chanMap'[m] # 0 => chName'[chanMap'[m]] = m
      BY <3>1, <3>2, <3>3 DEF TableInv
    <3>7. \A z \in ChannelIds : z \notin 1..created => ~reaped'[z]
      BY <3>2, <3>3 DEF TableInv
    <3> QED
      BY <1>1, <3>2, <3>5, <3>6, <3>7 DEF TableInv, OneCanonicalChannel
  <2> QED
    BY <1>4, <2>1, <2>2 DEF Reap
<1>5. CASE UNCHANGED vars
  BY <1>2, <1>5 DEF vars
<1> QED
  BY <1>2, <1>3, <1>4, <1>5, TableChanges

LEMMA TableInvInit == Init => TableInv
<1>1. Init => TypeInv
  BY TypeInvInit
<1> QED
  BY <1>1 DEF Init, TableInv, OneCanonicalChannel, None, ChannelIds

\* For any number of concurrent lookups, creations and collections an
\* instance is either the one its name maps to or reaped.
THEOREM CanonicalChannels == Spec => []OneCanonicalChannel
<1>1. TableInv => OneCanonicalChannel
  BY DEF TableInv
<1> QED
  BY <1>1, TableInvInit, TableInvStep, PTL DEF Spec

\* The GC never collects an instance that is in use at that moment.
THEOREM OnlyIdleReaped == Spec => ReapOnlyIdle
<1>1. TableInv /\ [Next]_vars
      => [\A x \in ChannelIds :
            reaped'[x] /\ ~reaped[x] => session[x] = None /\ clients[x] = {}]_vars
  <2> SUFFICES ASSUME TableInv, Next, NEW x \in ChannelIds, reaped'[x], ~reaped[x]
               PROVE  session[x] = None /\ clients[x] = {}
    OBVIOUS
  <2>1. PICK y \in ChannelIds : Reap(y)
    BY TableChanges DEF mapVars, NewChannel
  <2> DEFINE cur == chanMap[chName[y]]
  <2>2. /\ session[cur] = None /\ clients[cur] = {}
        /\ reaped' = [reaped EXCEPT ![cur] = TRUE]
    BY <2>1 DEF Reap, Collect
  <2>3. x = cur
    BY <2>2 DEF TableInv, TypeInv, ChannelsOK
  <2> QED
    BY <2>2, <2>3
<1> QED
  BY <1>1, TableInvInit, TableInvStep, PTL DEF Spec, ReapOnlyIdle

-----------------------------------------------------------------------------
(* Sessions and the kill escalation.                                       *)

\* The steps that start, signal or end a session, or deal with an escalation.
KillStep ==
  \/ \E c \in Viewers : SpawnSession(c) \/ CloseKill(c)
  \/ \E a \in Admins : KillKill(a) \/ StopKill(a)
  \/ \E x \in ChannelIds : Poll(x)
  \/ \E s \in SessionIds : ProcExit(s)
  \/ \E e \in esc : EscalateWake(e) \/ Escalate(e)

killVars == <<session, killPending, procs, esc>>

LEMMA KillChanges ==
  ASSUME Next PROVE UNCHANGED killVars \/ KillStep
<1> USE DEF killVars, sessVars, taskVars
<1>1. ASSUME NEW c \in Viewers, ViewerStep(c) PROVE UNCHANGED killVars \/ KillStep
  BY <1>1 DEF ViewerStep, Lookup, Check, Create, Bind, CloseLookup, KillStep
<1>2. ASSUME NEW a \in Admins, AdminStep(a) PROVE UNCHANGED killVars \/ KillStep
  BY <1>2 DEF AdminStep, KillLookup, KillEvict, ClientEvict, ClientLookup,
              ClientPrune, StopScan, StopSeal, StopExit, KillStep
<1>3. CASE EventStep
  BY <1>3 DEF EventStep, EvConnect, EvEvict, EvResolve, EvPrune
<1>4. CASE Environment
  BY <1>4 DEF Environment, Connect, Drop, SpawnCall, CloseCall, AttachCall,
              KillChannelCall, KillClientCall, StopCall, AdminCall, KillStep
<1>5. ASSUME NEW x \in ChannelIds, Reap(x) PROVE UNCHANGED killVars
  BY <1>5 DEF Reap
<1> QED
  BY <1>1, <1>2, <1>3, <1>4, <1>5 DEF Next, KillStep

\* A live session is never detached from its channel or replaced in it.
THEOREM SessionsSurvive == Spec => SessionSurvives
<1>1. TypeInv /\ [Next]_vars
      => [\A x \in ChannelIds : session[x] # None /\ session'[x] # session[x]
                               => procs[session[x]] \in Dead]_vars
  <2> SUFFICES ASSUME TypeInv, Next, NEW x \in ChannelIds,
                      session[x] # None, session'[x] # session[x]
               PROVE  procs[session[x]] \in Dead
    OBVIOUS
  <2>1. CASE \E y \in ChannelIds : Poll(y)
    <3>1. PICK y \in ChannelIds : Poll(y)
      BY <2>1
    <3>2. CASE UNCHANGED session
      BY <3>2
    <3>3. CASE Over(y) /\ ClearSession(y)
      <4>1. x = y
        BY <3>3 DEF ClearSession, TypeInv, SessionsOK
      <4> QED
        BY <3>3, <4>1 DEF Over
    <3> QED
      BY <3>1, <3>2, <3>3 DEF Poll
  <2>2. CASE \E c \in Viewers : SpawnSession(c)
    <3>1. PICK c \in Viewers : SpawnSession(c)
      BY <2>2
    <3>2. UNCHANGED session \/ (session[call[c].ch] = None
                               /\ session' = [session EXCEPT ![call[c].ch] = spawned'])
      BY <3>1 DEF SpawnSession, Joined
    <3> QED
      BY <3>2 DEF TypeInv, SessionsOK
  <2>3. CASE UNCHANGED session
    BY <2>3
  <2> QED
    BY <2>1, <2>2, <2>3, KillChanges
       DEF killVars, KillStep, CloseKill, KillKill, StopKill, ProcExit, EscalateWake,
           Escalate, sessVars
<1> QED
  BY <1>1, TypeInvInit, TypeInvStep, PTL DEF Spec, SessionSurvives

\* What a kill holds when it signals.
KillPCs == {"close_kill", "kill_kill"}

Fits(c) == call[c].ch # None /\ chName[call[c].ch] = call[c].name

Signalled(x) == session[x] # None /\ procs[session[x]] = "terminating"

Reached(x) ==
  killPending[x] /\ \E e \in esc : e.name = chName[x] /\ e.ch \in {None, x}

\* A kill holds an instance of the name it was given, a session is in one
\* channel only: with these the armed escalation is inductive.
KillInv ==
  /\ TableInv
  /\ \A c \in Conns : call[c].pc \in KillPCs => Fits(c)
  /\ \A x, y \in ChannelIds : session[x] # None /\ session[x] = session[y] => x = y
  /\ \A x \in ChannelIds : ~reaped[x] /\ Signalled(x) => x \in 1..created /\ Reached(x)

\* How Goto, GotoWith and Return change the calls.
LEMMA CallMoves ==
  ASSUME CallsOK, NEW c \in Conns
  PROVE  /\ \A l : Goto(c, l) =>
                \A d \in Conns : call'[d] = call[d] \/ call'[d].pc = l
         /\ \A l, x : GotoWith(c, l, x) =>
                \A d \in Conns : \/ call'[d] = call[d]
                                \/ /\ d = c /\ call'[d].pc = l /\ call'[d].ch = x
                                   /\ call'[d].name = call[d].name
         /\ Return(c) => \A d \in Conns : call'[d] = call[d] \/ call'[d].pc = "idle"
<1>1. ASSUME NEW l, Goto(c, l), NEW d \in Conns
      PROVE  call'[d] = call[d] \/ call'[d].pc = l
  BY <1>1 DEF Goto, CallsOK, CallType
<1>2. ASSUME NEW l, NEW x, GotoWith(c, l, x), NEW d \in Conns
      PROVE  \/ call'[d] = call[d]
             \/ /\ d = c /\ call'[d].pc = l /\ call'[d].ch = x
                /\ call'[d].name = call[d].name
  BY <1>2 DEF GotoWith, CallsOK, CallType
<1>3. ASSUME Return(c), NEW d \in Conns
      PROVE  call'[d] = call[d] \/ call'[d].pc = "idle"
  BY <1>3 DEF Return, CallsOK, IdleCall
<1> QED
  BY <1>1, <1>2, <1>3

\* Only the lookups of CloseSession and KillChannel lead to a kill.
LEMMA KillPCsStep ==
  ASSUME TypeInv, Next, NEW d \in Conns, call'[d].pc \in KillPCs
  PROVE  \/ call'[d] = call[d]
         \/ /\ UNCHANGED mapVars /\ Resolved(d) # None
            /\ call[d].name \in Names /\ call'[d].name = call[d].name
            /\ call'[d].ch = Resolved(d)
<1> USE DEF KillPCs
<1>1. CallsOK
  BY DEF TypeInv
<1>2. ASSUME NEW c \in Viewers, ViewerStep(c)
      PROVE  call'[d] = call[d] \/ CloseLookup(d)
  <2>1. c \in Conns
    BY DEF Conns
  <2>2. CASE Lookup(c) \/ Check(c) \/ Create(c)
    BY <1>1, <2>1, <2>2, CallMoves DEF Lookup, Check, Create, NewChannel, AfterLookup
  <2>3. CASE Bind(c) \/ SpawnSession(c) \/ CloseKill(c)
    BY <1>1, <2>1, <2>3, CallMoves DEF Bind, SpawnSession, CloseKill
  <2>4. CASE CloseLookup(c)
    BY <1>1, <2>1, <2>4, CallMoves DEF CloseLookup
  <2> QED
    BY <1>2, <2>2, <2>3, <2>4 DEF ViewerStep
<1>3. ASSUME NEW a \in Admins, AdminStep(a)
      PROVE  call'[d] = call[d] \/ KillLookup(d)
  <2>1. a \in Conns
    BY DEF Conns
  <2>2. CASE KillLookup(a)
    BY <1>1, <2>1, <2>2, CallMoves DEF KillLookup
  <2>3. CASE KillKill(a) \/ KillEvict(a) \/ ClientEvict(a)
    BY <1>1, <2>1, <2>3, CallMoves DEF KillKill, KillEvict, ClientEvict
  <2>4. CASE ClientLookup(a) \/ ClientPrune(a) \/ StopExit(a)
    BY <1>1, <2>1, <2>4, CallMoves DEF ClientLookup, ClientPrune, StopExit
  <2>5. ASSUME NEW x, Done(a, x), call[a].pc \notin KillPCs PROVE call'[d] = call[d]
    BY <1>1, <2>1, <2>5 DEF Done, CallsOK, CallType
  <2>6. CASE StopScan(a) \/ StopKill(a)
    BY <1>1, <2>1, <2>5, <2>6, CallMoves DEF StopScan, StopKill
  <2>7. CASE StopSeal(a)
    BY <1>1, <2>1, <2>7 DEF StopSeal, CallsOK, CallType
  <2> QED
    BY <1>3, <2>2, <2>3, <2>4, <2>6, <2>7 DEF AdminStep
<1>4. CASE EventStep
  BY <1>4 DEF EventStep, EvConnect, EvEvict, EvResolve, EvPrune
<1>5. CASE Environment
  <2>1. CASE \E c \in Viewers : SpawnCall(c) \/ CloseCall(c)
    <3>1. PICK c \in Viewers : SpawnCall(c) \/ CloseCall(c)
      BY <2>1
    <3>2. CASE SpawnCall(c)
      BY <1>1, <3>2 DEF SpawnCall, CallsOK, IdleCall
    <3>3. CASE CloseCall(c)
      BY <1>1, <3>3 DEF CloseCall, CallsOK, IdleCall
    <3> QED BY <3>1, <3>2, <3>3
  <2>2. CASE \E c \in Viewers, n \in Names : AttachCall(c, n)
    BY <1>1, <2>2 DEF AttachCall, CallsOK, IdleCall
  <2>3. CASE \E a \in Admins, n \in Names, f \in BOOLEAN : KillChannelCall(a, n, f)
    BY <1>1, <2>3 DEF KillChannelCall, AdminCall, CallsOK, IdleCall
  <2>4. CASE \E a \in Admins, c \in Viewers : KillClientCall(a, c)
    BY <1>1, <2>4 DEF KillClientCall, AdminCall, CallsOK, IdleCall
  <2>5. CASE \E a \in Admins, f \in BOOLEAN : StopCall(a, f)
    BY <1>1, <2>5 DEF StopCall, AdminCall, CallsOK, IdleCall
  <2> QED
    BY <1>5, <2>1, <2>2, <2>3, <2>4, <2>5 DEF Environment, Connect, Drop, ProcExit
<1>6. CASE CloseLookup(d) \/ KillLookup(d)
  <2>1. UNCHANGED mapVars /\ call[d].name \in Names
    BY <1>1, <1>6 DEF CloseLookup, KillLookup, CallsOK, NamingPCs
  <2> QED
    BY <1>1, <1>6, <2>1, CallMoves DEF CloseLookup, KillLookup
<1> QED
  BY <1>2, <1>3, <1>4, <1>5, <1>6
     DEF Next, Poll, Reap, EscalateWake, Escalate

LEMMA FitsStep ==
  ASSUME KillInv, Next, NEW d \in Conns, call'[d].pc \in KillPCs
  PROVE  Fits(d)'
<1>1. TypeInv /\ TableInv /\ ChannelsOK /\ CallsOK
  BY DEF KillInv, TableInv, TypeInv
<1>2. CASE call'[d] = call[d]
  <2>1. Fits(d) /\ call[d].ch \in 1..created
    BY <1>1, <1>2 DEF KillInv, Fits, CallsOK, CallType, None, ChannelsOK
  <2>2. chName'[call[d].ch] = chName[call[d].ch]
    <3>1. CASE UNCHANGED mapVars
      BY <3>1 DEF mapVars
    <3>2. CASE \E x \in ChannelIds : Reap(x)
      BY <3>2 DEF Reap
    <3>3. ASSUME NEW c \in Viewers, NewChannel(c)
          PROVE  chName'[call[d].ch] = chName[call[d].ch]
      BY <1>1, <2>1, <3>3 DEF NewChannel, ChannelsOK
    <3> QED
      BY <3>1, <3>2, <3>3, TableChanges
  <2> QED
    BY <1>2, <2>1, <2>2 DEF Fits
<1>3. CASE /\ UNCHANGED mapVars /\ Resolved(d) # None
           /\ call[d].name \in Names /\ call'[d].name = call[d].name
           /\ call'[d].ch = Resolved(d)
  BY <1>1, <1>3 DEF TableInv, Fits, Resolved, mapVars
<1> QED
  BY <1>1, <1>2, <1>3, KillPCsStep

\* Sessions stay in one channel each, and only a kill signals one.
LEMMA OneChannelStep ==
  ASSUME KillInv, Next, NEW x \in ChannelIds, NEW y \in ChannelIds,
         session'[x] # None, session'[x] = session'[y]
  PROVE  x = y
<1>1. SessionsOK /\ \A z \in ChannelIds : session[z] \in 0..spawned /\ spawned \in Nat
  BY GatewayAssumption DEF KillInv, TableInv, TypeInv, SessionsOK
<1>2. CASE UNCHANGED session
  BY <1>2 DEF KillInv
<1>3. ASSUME NEW z \in ChannelIds, session' = [session EXCEPT ![z] = None]
      PROVE  x = y
  BY <1>1, <1>3 DEF KillInv, SessionsOK, None
<1>4. ASSUME NEW z, session' = [session EXCEPT ![z] = spawned + 1] PROVE x = y
  BY <1>1, <1>4 DEF KillInv, SessionsOK
<1>5. CASE \E c \in Viewers : SpawnSession(c)
  <2>1. PICK c \in Viewers : SpawnSession(c)
    BY <1>5
  <2> QED
    BY <1>2, <1>4, <2>1 DEF SpawnSession, Joined
<1>6. CASE \E z \in ChannelIds : Poll(z)
  BY <1>2, <1>3, <1>6 DEF Poll, ClearSession
<1> QED
  BY <1>2, <1>5, <1>6, KillChanges
     DEF killVars, KillStep, CloseKill, KillKill, StopKill, ProcExit, EscalateWake,
         Escalate, sessVars

\* A kill of x with the escalation of its name arms x and disarms nothing.
LEMMA RequestKillArms ==
  ASSUME KillInv, NEW x \in 1..created, NEW c,
         RequestKill(x), SpawnEscalation(c, chName[x]), UNCHANGED <<session, mapVars>>,
         NEW y \in ChannelIds, ~reaped[y], Signalled(y)'
  PROVE  y \in 1..created' /\ Reached(y)'
<1>1. /\ x \in ChannelIds /\ created' = created /\ chName' = chName
      /\ session' = session
  BY CreatedInRange DEF KillInv, TableInv, TypeInv, mapVars
<1>2. killPending' = [killPending EXCEPT ![x] = TRUE] /\ killPending \in [ChannelIds -> BOOLEAN]
  BY DEF RequestKill, KillInv, TableInv, TypeInv, ChannelsOK
<1>3. CASE y = x
  <2>1. [by |-> c, name |-> chName[x], ch |-> None] \in esc'
    BY DEF SpawnEscalation
  <2> QED
    BY <1>1, <1>2, <1>3, <2>1 DEF Reached
<1>4. CASE y # x
  <2>1. Signalled(y)
    <3>1. session[y] # None /\ procs'[session[y]] = "terminating"
      BY <1>1 DEF Signalled
    <3>2. CASE procs' = procs
      BY <3>1, <3>2 DEF Signalled
    <3>3. CASE session[x] # None /\ procs' = [procs EXCEPT ![session[x]] = "terminating"]
      <4>1. session[x] # session[y]
        BY <1>1, <1>4, <3>3 DEF KillInv
      <4> QED
        BY <3>1, <3>3, <4>1 DEF Signalled, KillInv, TableInv, TypeInv, SessionsOK
    <3> QED
      BY <3>2, <3>3 DEF RequestKill
  <2>2. y \in 1..created /\ Reached(y)
    BY <2>1 DEF KillInv
  <2> QED
    BY <1>1, <1>2, <1>4, <2>2 DEF Reached, SpawnEscalation
<1> QED
  BY <1>3, <1>4

\* A step that neither signals a session nor gives up an armed kill.
LEMMA HarmlessArmed ==
  ASSUME KillInv, UNCHANGED <<mapVars, killPending, esc>>,
         NEW y \in ChannelIds, ~reaped[y], Signalled(y)' => Signalled(y), Signalled(y)'
  PROVE  y \in 1..created' /\ Reached(y)'
  BY DEF KillInv, Reached, mapVars

LEMMA ArmedStep ==
  ASSUME KillInv, Next, NEW y \in ChannelIds, ~reaped'[y], Signalled(y)'
  PROVE  y \in 1..created' /\ Reached(y)'
<1>1. /\ TableInv /\ TypeInv /\ CallsOK /\ ChannelsOK /\ SessionsOK
      /\ created \in Nat /\ spawned \in Nat
  BY GatewayAssumption DEF KillInv, TableInv, TypeInv, ChannelsOK, SessionsOK
<1>2. CASE UNCHANGED killVars
  <2>1. Signalled(y)
    BY <1>2 DEF Signalled, killVars
  <2>2. CASE UNCHANGED mapVars
    BY <1>2, <2>1, <2>2 DEF KillInv, Reached, mapVars, killVars
  <2>3. CASE \E c \in Viewers : NewChannel(c)
    <3>1. reaped' = reaped /\ created' = created + 1
      BY <2>3 DEF NewChannel
    <3>2. y \in 1..created /\ Reached(y)
      BY <2>1, <3>1 DEF KillInv
    <3>3. chName'[y] = chName[y]
      BY <1>1, <2>3, <3>2 DEF NewChannel, ChannelsOK
    <3> QED
      BY <1>1, <1>2, <3>1, <3>2, <3>3 DEF Reached, killVars
  <2>4. CASE \E x \in ChannelIds : Reap(x)
    <3>1. chName' = chName /\ created' = created /\ (~reaped'[y] => ~reaped[y])
      BY <1>1, <2>4 DEF Reap, Collect, ChannelsOK
    <3> QED
      BY <1>2, <2>1, <3>1 DEF KillInv, Reached, killVars
  <2> QED
    BY <2>2, <2>3, <2>4, TableChanges
<1>3. CASE KillStep
  <2>1. UNCHANGED mapVars
    BY <1>3 DEF KillStep, SpawnSession, CloseKill, KillKill, StopKill, Poll, ProcExit,
                EscalateWake, Escalate
  <2>2. ~reaped[y]
    BY <2>1 DEF mapVars
  <2>3. ASSUME NEW c \in Viewers, SpawnSession(c)
        PROVE  y \in 1..created' /\ Reached(y)'
    <3>1. UNCHANGED <<mapVars, killPending, esc>>
      BY <2>3 DEF SpawnSession, taskVars
    <3>2. CASE UNCHANGED <<session, procs>>
      BY <2>2, <3>1, <3>2, HarmlessArmed DEF Signalled
    <3>3. CASE /\ session' = [session EXCEPT ![call[c].ch] = spawned + 1]
               /\ procs' = [procs EXCEPT ![spawned + 1] = "running"]
               /\ spawned < MaxSessions
      <4>1. Signalled(y)
        BY <1>1, <3>3, GatewayAssumption
           DEF Signalled, SessionsOK, SessionIds, None
      <4> QED
        BY <2>2, <3>1, <4>1, HarmlessArmed
    <3> QED
      BY <2>3, <3>2, <3>3 DEF SpawnSession, Joined
  <2>4. ASSUME NEW c \in Viewers, CloseKill(c)
        PROVE  y \in 1..created' /\ Reached(y)'
    <3>1. call[c].ch \in 1..created /\ chName[call[c].ch] = call[c].name
      BY <1>1, <2>4
         DEF CloseKill, KillInv, KillPCs, Fits, Conns, CallsOK, CallType, None
    <3> QED
      BY <2>1, <2>2, <2>4, <3>1, RequestKillArms DEF CloseKill
  <2>5. ASSUME NEW a \in Admins, KillKill(a)
        PROVE  y \in 1..created' /\ Reached(y)'
    <3>1. call[a].ch \in 1..created /\ chName[call[a].ch] = call[a].name
      BY <1>1, <2>5
         DEF KillKill, KillInv, KillPCs, Fits, Conns, CallsOK, CallType, None
    <3>2. CASE UNCHANGED <<clients, killPending, procs, esc>>
      BY <2>1, <2>2, <2>5, <3>2, HarmlessArmed DEF KillKill, Signalled
    <3>3. CASE RequestKill(call[a].ch) /\ SpawnEscalation(a, call[a].name)
      BY <2>1, <2>2, <2>5, <3>1, <3>3, RequestKillArms DEF KillKill
    <3> QED
      BY <2>5, <3>2, <3>3 DEF KillKill
  <2>6. ASSUME NEW a \in Admins, StopKill(a)
        PROVE  y \in 1..created' /\ Reached(y)'
    <3>1. CASE UNCHANGED <<killPending, procs, esc>>
      BY <2>1, <2>2, <2>6, <3>1, HarmlessArmed DEF StopKill, Signalled
    <3>2. ASSUME NEW x \in call[a].todo, RequestKill(x), SpawnEscalation(a, chName[x])
          PROVE  y \in 1..created' /\ Reached(y)'
      <4>1. x \in 1..created
        BY <1>1 DEF CallsOK, CallType, Conns
      <4> QED
        BY <2>1, <2>2, <2>6, <3>2, <4>1, RequestKillArms DEF StopKill
    <3> QED
      BY <2>6, <3>1, <3>2 DEF StopKill
  <2>7. ASSUME NEW x \in ChannelIds, Poll(x)
        PROVE  y \in 1..created' /\ Reached(y)'
    <3>1. UNCHANGED <<procs, esc>>
      BY <2>7 DEF Poll
    <3>2. CASE UNCHANGED <<session, killPending>>
      BY <2>1, <2>2, <3>1, <3>2, HarmlessArmed DEF Signalled
    <3>3. CASE ClearSession(x)
      <4>1. y # x /\ Signalled(y) /\ killPending'[y] = killPending[y]
        BY <1>1, <3>1, <3>3
           DEF ClearSession, Signalled, SessionsOK, ChannelsOK
      <4> QED
        BY <2>1, <2>2, <3>1, <4>1 DEF KillInv, Reached, mapVars
    <3> QED
      BY <2>7, <3>2, <3>3 DEF Poll
  <2>8. ASSUME NEW s \in SessionIds, ProcExit(s)
        PROVE  y \in 1..created' /\ Reached(y)'
    <3>1. UNCHANGED <<session, killPending, esc>> /\ Signalled(y)
      BY <1>1, <2>8 DEF ProcExit, Signalled, SessionsOK, taskVars
    <3> QED
      BY <2>1, <2>2, <3>1, HarmlessArmed
  <2>9. ASSUME NEW e \in esc, EscalateWake(e)
        PROVE  y \in 1..created' /\ Reached(y)'
    <3>1. UNCHANGED <<session, procs, killPending>> /\ Signalled(y)
      BY <2>9 DEF EscalateWake, sessVars, Signalled
    <3>2. y \in 1..created /\ Reached(y) /\ chanMap[chName[y]] = y
      BY <2>2, <3>1 DEF KillInv, TableInv, OneCanonicalChannel
    <3>3. PICK w \in esc : w.name = chName[y] /\ w.ch \in {None, y}
      BY <3>2 DEF Reached
    <3>4. CASE w # e
      BY <2>1, <2>9, <3>1, <3>2, <3>3, <3>4 DEF EscalateWake, Reached, mapVars
    <3>5. CASE w = e
      <4>1. y # None /\ e.ch = None /\ chanMap[e.name] = y
        BY <2>9, <3>2, <3>3, <3>5 DEF EscalateWake, None
      <4>2. [e EXCEPT !.ch = y] \in esc'
        BY <2>9, <4>1 DEF EscalateWake
      <4>3. [e EXCEPT !.ch = y].name = e.name /\ [e EXCEPT !.ch = y].ch = y
        BY <1>1 DEF SessionsOK
      <4> QED
        BY <2>1, <3>1, <3>2, <3>3, <3>5, <4>2, <4>3 DEF Reached, mapVars
    <3> QED
      BY <3>4, <3>5
  <2>10. ASSUME NEW e \in esc, Escalate(e)
         PROVE  y \in 1..created' /\ Reached(y)'
    <3>1. UNCHANGED session /\ Signalled(y)
      <4>1. UNCHANGED session /\ session[y] # None /\ procs'[session[y]] = "terminating"
        BY <2>10 DEF Escalate, Signalled
      <4>2. \A t \in SessionIds : procs'[t] = procs[t] \/ procs'[t] \in {"killed", "outlived"}
        BY <1>1, <2>10 DEF Escalate, SigKill, SessionsOK
      <4>3. session[y] \in SessionIds
        BY <1>1, <4>1, GatewayAssumption DEF SessionsOK, SessionIds, None
      <4> QED
        BY <4>1, <4>2, <4>3 DEF Signalled
    <3>2. y \in 1..created /\ Reached(y)
      BY <2>2, <3>1 DEF KillInv
    <3>3. CASE e.ch = y
      <4>1. session[y] # None /\ procs[session[y]] \in Alive /\ killPending[y]
        BY <3>1, <3>2 DEF Signalled, Reached, Alive
      <4>2. PICK end \in {"killed", "outlived"} :
              procs' = [procs EXCEPT ![session[y]] = end]
        BY <2>10, <3>3, <4>1 DEF Escalate, SigKill
      <4>3. session[y] \in SessionIds
        BY <1>1, <4>1, GatewayAssumption DEF SessionsOK, SessionIds, None
      <4>4. procs'[session[y]] = end /\ procs'[session[y]] = "terminating"
        BY <1>1, <3>1, <4>2, <4>3 DEF SessionsOK, Signalled
      <4> QED
        BY <4>4
    <3>4. CASE e.ch # y
      <4>1. killPending'[y] = killPending[y] /\ esc' = esc \ {e} /\ e.ch # None
        BY <1>1, <2>10, <3>4 DEF Escalate, ChannelsOK
      <4> QED
        BY <2>1, <3>2, <3>4, <4>1 DEF Reached, mapVars
    <3> QED
      BY <3>3, <3>4
  <2> QED
    BY <1>3, <2>3, <2>4, <2>5, <2>6, <2>7, <2>8, <2>9, <2>10 DEF KillStep
<1> QED
  BY <1>2, <1>3, KillChanges

LEMMA KillInvStep == KillInv /\ [Next]_vars => KillInv'
<1> SUFFICES ASSUME KillInv, [Next]_vars PROVE KillInv'
  OBVIOUS
<1>1. TableInv'
  BY TableInvStep DEF KillInv
<1>2. CASE Next
  BY <1>1, <1>2, FitsStep, OneChannelStep, ArmedStep DEF KillInv
<1>3. CASE UNCHANGED vars
  BY <1>1, <1>3 DEF KillInv, Fits, Signalled, Reached, vars, mapVars, sessVars, taskVars
<1> QED
  BY <1>2, <1>3

LEMMA KillInvInit == Init => KillInv
<1>1. Init => TableInv
  BY TableInvInit
<1> QED
  BY <1>1 DEF Init, KillInv, IdleCall, KillPCs, Signalled, None

\* However many kills of a channel overlap, a live session of the table that was
\* sent SIGTERM, and no SIGKILL since, has an escalation coming that will reach it.
THEOREM KillsAreArmed == Spec => []EscalationArmed
<1>1. KillInv => EscalationArmed
  <2> SUFFICES ASSUME KillInv, NEW x \in Mapped, Signalled(x) PROVE Reached(x)
    BY DEF EscalationArmed, Signalled, Reached
  <2>1. x \in ChannelIds /\ ~reaped[x]
    <3>1. TypeInv /\ ChannelsOK
      BY DEF KillInv, TableInv, TypeInv
    <3>2. PICK n \in Names : x = chanMap[n] /\ x # None
      BY DEF Mapped
    <3>3. x \in 1..created /\ chName[x] = n
      BY <3>1, <3>2, MappedOK DEF KillInv, TableInv
    <3>4. x \in ChannelIds
      BY <3>1, <3>3, CreatedInRange
    <3> QED
      BY <3>2, <3>3, <3>4 DEF KillInv, TableInv, OneCanonicalChannel
  <2> QED
    BY <2>1 DEF KillInv
<1> QED
  BY <1>1, KillInvInit, KillInvStep, PTL DEF Spec

-----------------------------------------------------------------------------
(* Bindings.                                                               *)

\* A call on its way to the last section of Spawn.
Joining(c) ==
  \/ call[c].pc \in {"lookup", "check", "create"} /\ call[c].op # "attach"
  \/ call[c].pc = "session"

AttachedOnce == {"attached", "joined", "closed"}

\* Whoever spawns has been attached: so only Bind makes a connection attached,
\* and that is where the routing table gets its name.
StickInv ==
  /\ TypeInv /\ AttachSticks
  /\ \A c \in Viewers : Joining(c) => stage[c] \in AttachedOnce

\* A call goes on as what it was begun for.
LEMMA GoingOn ==
  ASSUME CallsOK, NEW c \in Conns, NEW d \in Conns, NEW l, NEW x,
         Goto(c, l) \/ GotoWith(c, l, x)
  PROVE  \/ call'[d] = call[d]
         \/ d = c /\ call'[d].pc = l /\ call'[d].op = call[d].op
BY DEF Goto, GotoWith, CallsOK, CallType

\* Calls that have nothing to do with Spawn do not become one.
LEMMA NotJoining ==
  ASSUME CallsOK, NEW c \in Conns, NEW d \in Conns, NEW l, NEW x,
         l \notin {"lookup", "check", "create", "session"},
         Goto(c, l) \/ GotoWith(c, l, x) \/ Return(c), Joining(d)'
  PROVE  Joining(d)
<1>1. CASE Goto(c, l) \/ GotoWith(c, l, x)
  BY <1>1, GoingOn DEF Joining
<1>2. CASE Return(c)
  BY <1>2, CallMoves DEF Joining
<1> QED BY <1>1, <1>2

LEMMA JoiningStep ==
  ASSUME TypeInv, Next, NEW d \in Viewers, Joining(d)'
  PROVE  Joining(d) \/ stage[d] = "attached"
<1>1. CallsOK /\ d \in Conns
  BY DEF TypeInv, Conns
<1>2. ASSUME NEW c \in Viewers, ViewerStep(c) PROVE Joining(d)
  <2>1. c \in Conns
    BY DEF Conns
  <2>2. ASSUME NEW l, NEW x, Goto(c, l) \/ GotoWith(c, l, x),
               call[c].pc \in {"lookup", "check", "create"},
               l \in {"check", "create"} \/ l = AfterLookup(c)
        PROVE  Joining(d)
    <3>1. CASE call'[d] = call[d]
      BY <3>1 DEF Joining
    <3>2. CASE d = c /\ call'[d].pc = l /\ call'[d].op = call[d].op
      BY <2>2, <3>2 DEF Joining, AfterLookup
    <3> QED BY <1>1, <2>1, <2>2, <3>1, <3>2, GoingOn
  <2>3. CASE Lookup(c) \/ Check(c) \/ Create(c)
    BY <2>2, <2>3 DEF Lookup, Check, Create, NewChannel
  <2>4. CASE Bind(c) \/ SpawnSession(c) \/ CloseKill(c)
    BY <1>1, <2>1, <2>4, CallMoves DEF Bind, SpawnSession, CloseKill, Joining
  <2>5. CASE CloseLookup(c)
    BY <1>1, <2>1, <2>5, NotJoining DEF CloseLookup
  <2> QED BY <1>2, <2>3, <2>4, <2>5 DEF ViewerStep
<1>3. ASSUME NEW a \in Admins, AdminStep(a) PROVE Joining(d)
  <2>1. a \in Conns
    BY DEF Conns
  <2>2. CASE KillLookup(a)
    BY <1>1, <2>1, <2>2, NotJoining DEF KillLookup
  <2>3. CASE KillKill(a) \/ KillEvict(a) \/ ClientEvict(a)
    <3>1. Return(a) \/ Goto(a, "kill_evict") \/ Goto(a, "client_lookup")
      BY <2>3 DEF KillKill, KillEvict, ClientEvict
    <3> QED BY <1>1, <2>1, <3>1, CallMoves DEF Joining
  <2>4. CASE ClientLookup(a) \/ ClientPrune(a) \/ StopExit(a)
    BY <1>1, <2>1, <2>4, NotJoining DEF ClientLookup, ClientPrune, StopExit
  <2>5. ASSUME NEW x, Done(a, x) PROVE Joining(d)
    BY <1>1, <2>1, <2>5 DEF Done, Joining, CallsOK, CallType
  <2>6. CASE StopScan(a) \/ StopKill(a)
    BY <1>1, <2>1, <2>5, <2>6, NotJoining DEF StopScan, StopKill
  <2>7. CASE StopSeal(a)
    BY <1>1, <2>1, <2>7 DEF StopSeal, Joining, CallsOK, CallType
  <2> QED BY <1>3, <2>2, <2>3, <2>4, <2>6, <2>7 DEF AdminStep
<1>4. CASE EventStep
  BY <1>4 DEF EventStep, EvConnect, EvEvict, EvResolve, EvPrune, Joining
<1>5. CASE Environment
  <2>1. CASE \E c \in Viewers : SpawnCall(c) \/ CloseCall(c)
    <3>1. PICK c \in Viewers : SpawnCall(c) \/ CloseCall(c)
      BY <2>1
    <3>2. CASE SpawnCall(c)
      BY <1>1, <3>2 DEF SpawnCall, CallsOK, IdleCall, Joining
    <3>3. CASE CloseCall(c)
      BY <1>1, <3>3 DEF CloseCall, CallsOK, IdleCall, Joining
    <3> QED BY <3>1, <3>2, <3>3
  <2>2. CASE \E c \in Viewers, n \in Names : AttachCall(c, n)
    BY <1>1, <2>2 DEF AttachCall, CallsOK, IdleCall, Joining
  <2>3. ASSUME NEW a \in Admins, NEW opts, NEW r, AdminCall(a, opts, r)
        PROVE  Joining(d)
    <3>1. a # d /\ call' = [call EXCEPT ![a] = r]
      BY <2>3, GatewayAssumption DEF AdminCall
    <3> QED BY <1>1, <3>1 DEF CallsOK, Joining
  <2>4. CASE \E a \in Admins, n \in Names, f \in BOOLEAN : KillChannelCall(a, n, f)
    BY <2>3, <2>4 DEF KillChannelCall
  <2>5. CASE \E a \in Admins, c \in Viewers : KillClientCall(a, c)
    BY <2>3, <2>5 DEF KillClientCall
  <2>6. CASE \E a \in Admins, f \in BOOLEAN : StopCall(a, f)
    BY <2>3, <2>6 DEF StopCall
  <2> QED
    BY <1>5, <2>1, <2>2, <2>4, <2>5, <2>6 DEF Environment, Connect, Drop, ProcExit, Joining
<1> QED
  BY <1>2, <1>3, <1>4, <1>5
     DEF Next, Poll, Reap, EscalateWake, Escalate, Joining

\* The steps that touch a connection's entries.
LEMMA ConnectionSteps ==
  ASSUME TypeInv, Next
  PROVE  \/ UNCHANGED <<stage, conns, evicted>>
         \/ \E c \in Conns : Connect(c)
         \/ \E c \in Viewers : \/ Drop(c) \/ Bind(c) \/ SpawnSession(c)
                               \/ EvConnect(c) \/ EvEvict(c)
         \/ \E cs \in SUBSET Viewers : Unroute(cs) /\ UNCHANGED stage
         \/ \E a \in Admins : \E opts, r : AdminCall(a, opts, r)
<1> USE DEF connVars
<1>1. ASSUME NEW c \in Viewers, ViewerStep(c), ~Bind(c), ~SpawnSession(c)
      PROVE  UNCHANGED <<stage, conns, evicted>>
  BY <1>1 DEF ViewerStep, Lookup, Check, Create, CloseLookup, CloseKill
<1>2. ASSUME NEW a \in Admins, AdminStep(a), ~KillEvict(a), ~ClientEvict(a)
      PROVE  UNCHANGED <<stage, conns, evicted>>
  BY <1>2 DEF AdminStep, KillLookup, KillKill, ClientLookup, ClientPrune, StopScan,
              StopSeal, StopKill, StopExit
<1>3. ASSUME NEW a \in Admins, KillEvict(a) \/ ClientEvict(a)
      PROVE  \E cs \in SUBSET Viewers : Unroute(cs) /\ UNCHANGED stage
  <2>1. call[a].targets \in SUBSET Viewers
    BY DEF TypeInv, CallsOK, CallType, Conns
  <2> QED BY <1>3, <2>1 DEF KillEvict, ClientEvict
<1>4. CASE EventStep
  BY <1>4 DEF EventStep, EvResolve, EvPrune
<1>5. CASE Environment
  <2>1. ASSUME NEW a \in Admins, NEW n \in Names, NEW f \in BOOLEAN, KillChannelCall(a, n, f)
        PROVE  \E opts, r : AdminCall(a, opts, r)
    BY <2>1 DEF KillChannelCall
  <2>2. ASSUME NEW a \in Admins, NEW c \in Viewers, KillClientCall(a, c)
        PROVE  \E opts, r : AdminCall(a, opts, r)
    BY <2>2 DEF KillClientCall
  <2>3. ASSUME NEW a \in Admins, NEW f \in BOOLEAN, StopCall(a, f)
        PROVE  \E opts, r : AdminCall(a, opts, r)
    BY <2>3 DEF StopCall
  <2>4. CASE \/ \E c \in Conns : Connect(c)
             \/ \E c \in Viewers : Drop(c) \/ SpawnCall(c) \/ CloseCall(c)
             \/ \E c \in Viewers, n \in Names : AttachCall(c, n)
             \/ \E s \in SessionIds : ProcExit(s)
    <3>1. ASSUME NEW c \in Viewers, SpawnCall(c) \/ CloseCall(c)
          PROVE  UNCHANGED <<stage, conns, evicted>>
      BY <3>1 DEF SpawnCall, CloseCall
    <3>2. ASSUME NEW c \in Viewers, NEW n \in Names, AttachCall(c, n)
          PROVE  UNCHANGED <<stage, conns, evicted>>
      BY <3>2 DEF AttachCall
    <3>3. ASSUME NEW s \in SessionIds, ProcExit(s)
          PROVE  UNCHANGED <<stage, conns, evicted>>
      BY <3>3 DEF ProcExit
    <3> QED BY <2>4, <3>1, <3>2, <3>3
  <2>5. CASE \/ \E a \in Admins, n \in Names, f \in BOOLEAN : KillChannelCall(a, n, f)
             \/ \E a \in Admins, c \in Viewers : KillClientCall(a, c)
             \/ \E a \in Admins, f \in BOOLEAN : StopCall(a, f)
    BY <2>1, <2>2, <2>3, <2>5
  <2> QED BY <1>5, <2>4, <2>5 DEF Environment
<1>6. CASE \/ \E x \in ChannelIds : Poll(x) \/ Reap(x)
           \/ \E e \in esc : EscalateWake(e) \/ Escalate(e)
  BY <1>6 DEF Poll, Reap, EscalateWake, Escalate
<1> QED BY <1>1, <1>2, <1>3, <1>4, <1>5, <1>6 DEF Next

\* No step undoes a binding, but an eviction.
LEMMA StickStep ==
  ASSUME StickInv, Next, NEW c \in Viewers
  PROVE  /\ stage[c] \in AttachedOnce => stage'[c] \in AttachedOnce
         /\ stage'[c] \in {"attached", "joined"} /\ conns'[c] \notin Names => c \in evicted'
<1> USE DEF AttachedOnce
<1>1. /\ TypeInv /\ StateOK /\ CallsOK /\ c \in Conns
      /\ stage[c] \in {"attached", "joined"} /\ conns[c] \notin Names => c \in evicted
  BY DEF StickInv, TypeInv, Conns, AttachSticks
<1>2. CASE UNCHANGED <<stage, conns, evicted>>
  BY <1>1, <1>2
<1>3. ASSUME NEW d \in Conns, Connect(d) \/ Drop(d)
      PROVE  /\ stage[c] \in AttachedOnce => stage'[c] \in AttachedOnce
             /\ stage'[c] \in {"attached", "joined"} /\ conns'[c] \notin Names => c \in evicted'
  BY <1>1, <1>3 DEF Connect, Drop, StateOK
<1>4. ASSUME NEW d \in Viewers, Bind(d)
      PROVE  /\ stage[c] \in AttachedOnce => stage'[c] \in AttachedOnce
             /\ stage'[c] \in {"attached", "joined"} /\ conns'[c] \notin Names => c \in evicted'
  <2>1. call[d].name \in Names
    BY <1>1, <1>4 DEF Bind, CallsOK, NamingPCs, Conns
  <2> QED BY <1>1, <1>4, <2>1 DEF Bind, StateOK, Conns
<1>5. ASSUME NEW d \in Viewers, SpawnSession(d)
      PROVE  /\ stage[c] \in AttachedOnce => stage'[c] \in AttachedOnce
             /\ stage'[c] \in {"attached", "joined"} /\ conns'[c] \notin Names => c \in evicted'
  <2>1. stage[d] \in AttachedOnce /\ d \in Conns
    BY <1>5 DEF SpawnSession, StickInv, Joining, Conns
  <2>2. conns' = conns /\ evicted' = evicted
    BY <1>5 DEF SpawnSession
  <2>3. stage' = stage \/ stage' = [stage EXCEPT ![d] = IF @ = "closed" THEN @ ELSE "joined"]
    BY <1>5 DEF SpawnSession
  <2> QED BY <1>1, <2>1, <2>2, <2>3 DEF StateOK
<1>6. ASSUME NEW d \in Viewers, EvConnect(d) \/ EvEvict(d)
      PROVE  /\ stage[c] \in AttachedOnce => stage'[c] \in AttachedOnce
             /\ stage'[c] \in {"attached", "joined"} /\ conns'[c] \notin Names => c \in evicted'
  BY <1>1, <1>6, GatewayAssumption DEF EvConnect, EvEvict, StateOK
<1>7. ASSUME NEW cs \in SUBSET Viewers, Unroute(cs), UNCHANGED stage
      PROVE  /\ stage[c] \in AttachedOnce => stage'[c] \in AttachedOnce
             /\ stage'[c] \in {"attached", "joined"} /\ conns'[c] \notin Names => c \in evicted'
  BY <1>1, <1>7 DEF Unroute
<1>8. ASSUME NEW a \in Admins, NEW opts, NEW r, AdminCall(a, opts, r)
      PROVE  /\ stage[c] \in AttachedOnce => stage'[c] \in AttachedOnce
             /\ stage'[c] \in {"attached", "joined"} /\ conns'[c] \notin Names => c \in evicted'
  <2>1. a # c
    BY GatewayAssumption
  <2> QED BY <1>1, <1>8, <2>1 DEF AdminCall, StateOK
<1> QED
  BY <1>1, <1>2, <1>3, <1>4, <1>5, <1>6, <1>7, <1>8, ConnectionSteps DEF Conns

\* A connection whose Attach was answered stays bound until it is evicted.
THEOREM BindingsStick == Spec => []AttachSticks
<1>1. Init => StickInv
  <2>1. Init => AttachSticks /\ \A c \in Viewers : ~Joining(c)
    BY DEF Init, AttachSticks, Joining, IdleCall, Conns
  <2> QED BY <2>1, TypeInvInit DEF StickInv
<1>2. StickInv /\ [Next]_vars => StickInv'
  <2> SUFFICES ASSUME StickInv, [Next]_vars PROVE StickInv'
    OBVIOUS
  <2>1. TypeInv /\ TypeInv'
    BY TypeInvStep DEF StickInv
  <2>2. CASE Next
    <3>1. AttachSticks'
      BY <2>2, StickStep DEF AttachSticks
    <3>2. ASSUME NEW c \in Viewers, Joining(c)' PROVE stage'[c] \in AttachedOnce
      <4>1. stage[c] \in AttachedOnce
        BY <2>1, <2>2, <3>2, JoiningStep DEF StickInv, AttachedOnce
      <4> QED BY <2>2, <4>1, StickStep
    <3> QED BY <2>1, <3>1, <3>2 DEF StickInv
  <2>3. CASE UNCHANGED vars
    BY <2>1, <2>3 DEF vars, connVars, StickInv, AttachSticks, Joining
  <2> QED BY <2>2, <2>3
<1>3. StickInv => AttachSticks
  BY DEF StickInv
<1> QED BY <1>1, <1>2, <1>3, PTL DEF Spec

-----------------------------------------------------------------------------
(* The book of channels.                                                   *)

\* A lookup that has found or made an instance holds one, and an instance that
\* has not been created has no name: with the table these make every step a
\* step of the book.
HoldingPCs == {"check", "session"}

BookInv ==
  /\ TableInv
  /\ \A x \in ChannelIds : x \notin 1..created => chName[x] = Absent
  /\ \A c \in Viewers : call[c].pc \in HoldingPCs => call[c].ch # None

\* Only a lookup leads to these sections, and it holds what it has found.
LEMMA HoldingStep ==
  ASSUME BookInv, Next, NEW d \in Viewers, call'[d].pc \in HoldingPCs
  PROVE  call'[d].ch # None
<1> USE DEF HoldingPCs
<1>1. TypeInv /\ CallsOK /\ d \in Conns
  BY DEF BookInv, TableInv, TypeInv, Conns
<1>2. SUFFICES ASSUME call'[d] # call[d] PROVE call'[d].ch # None
  BY DEF BookInv
<1>3. ASSUME NEW c \in Viewers, ViewerStep(c) PROVE call'[d].ch # None
  <2>1. c \in Conns
    BY DEF Conns
  <2>2. CASE Lookup(c)
    BY <1>1, <1>2, <2>1, <2>2, CallMoves DEF Lookup
  <2>3. CASE Check(c)
    <3>1. call[c].ch # None
      BY <2>3 DEF Check, BookInv
    <3>2. d = c /\ call'[d].ch = call[d].ch
      BY <1>1, <1>2, <2>1, <2>3 DEF Check, Goto, CallsOK, CallType
    <3> QED BY <3>1, <3>2
  <2>4. CASE Create(c)
    <3>1. PICK x : GotoWith(c, AfterLookup(c), x) /\ x # None
      <4>1. CASE Usable(Resolved(c)) /\ GotoWith(c, AfterLookup(c), Resolved(c))
        BY <4>1 DEF Usable
      <4>2. CASE NewChannel(c)
        <5>1. created + 1 # None
          BY <1>1 DEF TypeInv, ChannelsOK, None
        <5> QED BY <4>2, <5>1 DEF NewChannel
      <4> QED BY <2>4, <4>1, <4>2 DEF Create
    <3> QED BY <1>1, <1>2, <2>1, <3>1, CallMoves
  <2>5. CASE Bind(c) \/ SpawnSession(c) \/ CloseKill(c)
    BY <1>1, <1>2, <2>1, <2>5, CallMoves DEF Bind, SpawnSession, CloseKill
  <2>6. CASE CloseLookup(c)
    BY <1>1, <1>2, <2>1, <2>6, CallMoves DEF CloseLookup
  <2> QED
    BY <1>3, <2>2, <2>3, <2>4, <2>5, <2>6 DEF ViewerStep
<1>4. ASSUME NEW a \in Admins, AdminStep(a) PROVE call'[d] = call[d]
  <2>1. a \in Conns /\ a # d
    BY GatewayAssumption DEF Conns
  <2>2. \A l, x : Goto(a, l) \/ GotoWith(a, l, x) \/ Return(a) => call'[d] = call[d]
    BY <1>1, <2>1 DEF Goto, GotoWith, Return, CallsOK
  <2>3. ASSUME NEW x, Done(a, x) PROVE call'[d] = call[d]
    BY <1>1, <2>1, <2>3 DEF Done, CallsOK
  <2>4. CASE StopSeal(a)
    BY <1>1, <2>1, <2>4 DEF StopSeal, CallsOK
  <2> QED
    BY <1>4, <2>2, <2>3, <2>4
       DEF AdminStep, KillLookup, KillKill, KillEvict, ClientEvict, ClientLookup,
           ClientPrune, StopScan, StopKill, StopExit
<1>5. CASE EventStep
  BY <1>2, <1>5 DEF EventStep, EvConnect, EvEvict, EvResolve, EvPrune
<1>6. CASE Environment
  <2>1. ASSUME NEW c \in Conns, NEW r, call' = [call EXCEPT ![c] = r],
               r.pc \notin HoldingPCs
        PROVE  FALSE
    BY <1>1, <1>2, <2>1 DEF CallsOK
  <2>2. ASSUME NEW c \in Viewers, SpawnCall(c) \/ CloseCall(c) PROVE FALSE
    BY <2>1, <2>2 DEF SpawnCall, CloseCall, IdleCall, Conns
  <2>3. ASSUME NEW c \in Viewers, NEW n \in Names, AttachCall(c, n) PROVE FALSE
    BY <2>1, <2>3 DEF AttachCall, IdleCall, Conns
  <2>4. ASSUME NEW a \in Admins, NEW opts, NEW r, AdminCall(a, opts, r) PROVE FALSE
    BY <1>1, <1>2, <2>4, GatewayAssumption DEF AdminCall, CallsOK
  <2> QED
    BY <1>2, <1>6, <2>2, <2>3, <2>4
       DEF Environment, Connect, Drop, ProcExit, KillChannelCall, KillClientCall,
           StopCall
<1> QED
  BY <1>2, <1>3, <1>4, <1>5, <1>6 DEF Next, Poll, Reap, EscalateWake, Escalate

LEMMA BookInvStep == BookInv /\ [Next]_vars => BookInv'
<1> SUFFICES ASSUME BookInv, [Next]_vars PROVE BookInv'
  OBVIOUS
<1>1. TableInv /\ TableInv' /\ ChannelsOK
  BY TableInvStep DEF BookInv, TableInv, TypeInv
<1>2. \A x \in ChannelIds : x \notin 1..created' => chName'[x] = Absent
  <2>1. CASE UNCHANGED mapVars
    BY <2>1 DEF mapVars, BookInv
  <2>2. ASSUME NEW c \in Viewers, NewChannel(c), NEW x \in ChannelIds, x \notin 1..created'
        PROVE  chName'[x] = Absent
    <3>1. x # created' /\ x \notin 1..created
      BY <1>1, <2>2, GatewayAssumption DEF NewChannel, ChannelsOK
    <3> QED BY <1>1, <2>2, <3>1 DEF NewChannel, BookInv, ChannelsOK
  <2>3. CASE \E x \in ChannelIds : Reap(x)
    BY <2>3 DEF Reap, BookInv
  <2>4. CASE UNCHANGED vars
    BY <2>1, <2>4 DEF vars
  <2> QED BY <2>1, <2>2, <2>3, <2>4, TableChanges
<1>3. \A c \in Viewers : call'[c].pc \in HoldingPCs => call'[c].ch # None
  <2>1. CASE Next
    BY <2>1, HoldingStep
  <2>2. CASE UNCHANGED vars
    BY <2>2 DEF vars, BookInv
  <2> QED BY <2>1, <2>2
<1> QED BY <1>1, <1>2, <1>3 DEF BookInv, None

LEMMA BookInvInit == Init => BookInv /\ Book!Init
  BY TableInvInit
     DEF Init, BookInv, Book!Init, HoldingPCs, IdleCall, Conns, None

\* What the book sees of a step that leaves sessions and clients alone.
LEMMA BookOpens ==
  ASSUME BookInv, NEW c \in Viewers, Create(c), NewChannel(c)
  PROVE  Book!Next
<1> DEFINE n == call[c].name
           y == created'
<1>1. TableInv /\ ChannelsOK /\ n \in Names
  BY DEF Create, BookInv, TableInv, TypeInv, CallsOK, Conns, NamingPCs
<1>2. y \in ChannelIds /\ y \notin 1..created
  BY <1>1, GatewayAssumption DEF NewChannel, ChannelsOK, ChannelIds
<1>3. chName[y] = Absent
  BY <1>2 DEF BookInv
<1>4. ASSUME NEW x \in ChannelIds, chName[x] = n PROVE reaped[x]
  <2>1. x \in 1..created
    BY <1>1, <1>4, GatewayAssumption DEF BookInv
  <2>2. CASE ~reaped[x]
    <3>1. chanMap[n] = x
      BY <1>4, <2>1, <2>2 DEF BookInv, TableInv, OneCanonicalChannel
    <3>2. Usable(chanMap[n])
      BY <2>1, <2>2, <3>1 DEF Usable, None
    <3>3. chanMap' = [chanMap EXCEPT ![n] = y] /\ y # x
      BY <1>2, <2>1 DEF NewChannel
    <3>4. chanMap'[n] # chanMap[n]
      BY <1>1, <3>1, <3>3 DEF ChannelsOK
    <3> QED
      BY <3>2, <3>4 DEF Create, mapVars, Resolved
  <2> QED BY <2>2
<1>5. /\ chName' = [chName EXCEPT ![y] = n]
      /\ UNCHANGED <<reaped, clients, session>>
  BY DEF NewChannel, Create, sessVars
<1>6. Book!Open(y, n)
  BY <1>2, <1>3, <1>4, <1>5 DEF Book!Open, Book!Opened
<1> QED
  BY <1>1, <1>2, <1>6 DEF Book!Next

LEMMA BookCollects ==
  ASSUME BookInv, NEW x \in ChannelIds, Reap(x)
  PROVE  Book!Next \/ UNCHANGED <<chName, reaped, clients, session>>
<1> DEFINE n == chName[x]
           y == chanMap[n]
<1>1. UNCHANGED <<chName, clients, session>>
  BY DEF Reap, sessVars
<1>2. CASE y # None /\ session[y] = None /\ clients[y] = {} /\ Collect(y)
  <2>1. TableInv /\ ChannelsOK /\ n \in Names
    BY DEF Reap, BookInv, TableInv, TypeInv, ChannelsOK
  <2>2. y \in 1..created /\ chName[y] = n
    BY <1>2, <2>1 DEF TableInv, ChannelsOK, None
  <2>3. y \in ChannelIds /\ ~reaped[y] /\ chName[y] # Absent
    <3>1. ~reaped[y] <=> chanMap[chName[y]] = y
      BY <2>1, <2>2 DEF TableInv, OneCanonicalChannel
    <3>2. chanMap[chName[y]] = y
      BY <2>2
    <3>3. y \in ChannelIds
      BY <2>1, <2>2, CreatedInRange
    <3>4. chName[y] # Absent
      BY <2>1, <2>2, GatewayAssumption
    <3> QED BY <3>1, <3>2, <3>3, <3>4
  <2>4. {z \in ChannelIds : reaped'[z]} = {z \in ChannelIds : reaped[z]} \cup {y}
    BY <1>2, <2>1, <2>3 DEF Collect, ChannelsOK
  <2>5. PICK z \in ChannelIds : z = y
    BY <2>3
  <2>6. Book!Collect(z)
    BY <1>1, <1>2, <2>3, <2>4, <2>5 DEF Book!Collect, Book!Opened
  <2> QED
    BY <2>6 DEF Book!Next
<1>3. CASE UNCHANGED reaped
  BY <1>1, <1>3
<1> QED
  BY <1>2, <1>3 DEF Reap

\* A viewer's Spawn is a client coming in.
LEMMA BookEnters ==
  ASSUME BookInv, NEW c \in Viewers, SpawnSession(c)
  PROVE  Book!Next
<1> DEFINE x == call[c].ch
<1>1. ChannelsOK /\ CallsOK /\ SessionsOK
  BY DEF BookInv, TableInv, TypeInv
<1>2. x \in 1..created
  <2>1. x \in 0..created /\ created \in Nat
    BY <1>1 DEF CallsOK, CallType, Conns, ChannelsOK
  <2>2. x # 0
    BY DEF SpawnSession, BookInv, HoldingPCs, None
  <2> QED BY <2>1, <2>2
<1>3. x \in ChannelIds /\ chName[x] # Absent
  BY <1>1, <1>2, CreatedInRange, GatewayAssumption DEF ChannelsOK
<1>4. clients' = [clients EXCEPT ![x] = @ \cup {c}]
  BY DEF SpawnSession, Joined
<1>5. UNCHANGED <<chName, reaped>>
  BY DEF SpawnSession, mapVars
<1>6. \/ {z \in ChannelIds : session'[z] # None} = {z \in ChannelIds : session[z] # None}
      \/ {z \in ChannelIds : session'[z] # None}
           = {z \in ChannelIds : session[z] # None} \cup {x}
  <2>1. CASE UNCHANGED session
    BY <2>1
  <2>2. CASE spawned' = spawned + 1 /\ session' = [session EXCEPT ![x] = spawned']
    <3>1. spawned' # None
      BY <1>1, <2>2 DEF SessionsOK, None
    <3> QED BY <1>1, <1>3, <2>2, <3>1 DEF SessionsOK
  <2> QED BY <2>1, <2>2 DEF SpawnSession, Joined
<1>7. Book!Enter(x, c)
  BY <1>3, <1>4, <1>5, <1>6 DEF Book!Enter, Book!Opened
<1> QED
  BY <1>3, <1>7 DEF Book!Next

\* Evictions and kills take clients away and nothing else.
LEMMA BookLeaves ==
  ASSUME ChannelsOK, NEW x \in ChannelIds, NEW cs,
         clients' = [clients EXCEPT ![x] = @ \ cs],
         UNCHANGED <<chName, reaped, session>>
  PROVE  Book!Next
<1> DEFINE gone == clients[x] \cap cs
<1>1. clients' = [clients EXCEPT ![x] = @ \ gone]
  BY DEF ChannelsOK
<1>2. gone \in SUBSET clients[x]
  OBVIOUS
<1> HIDE DEF gone
<1>3. Book!Leave(x, gone)
  BY <1>1 DEF Book!Leave
<1> QED
  BY <1>2, <1>3 DEF Book!Next

\* Only the polling task of an open instance sees a session end.
LEMMA BookEnds ==
  ASSUME BookInv, NEW x \in ChannelIds, Poll(x)
  PROVE  Book!Next \/ UNCHANGED <<chName, reaped, clients, session>>
<1>1. UNCHANGED <<chName, reaped, clients>>
  BY DEF Poll, mapVars
<1>2. CASE ~reaped[x] /\ Over(x) /\ ClearSession(x)
  <2>1. session \in [ChannelIds -> 0..spawned]
    BY DEF BookInv, TableInv, TypeInv, SessionsOK
  <2>2. {z \in ChannelIds : session'[z] # None}
          = {z \in ChannelIds : session[z] # None} \ {x}
    BY <1>2, <2>1 DEF ClearSession
  <2>3. Book!End(x)
    BY <1>1, <1>2, <2>2 DEF Book!End, Over
  <2> QED BY <2>3 DEF Book!Next
<1>3. CASE UNCHANGED session
  BY <1>1, <1>3
<1> QED
  BY <1>2, <1>3 DEF Poll

LEMMA BookStep ==
  ASSUME BookInv, Next
  PROVE  Book!Next \/ UNCHANGED <<chName, reaped, clients, session>>
<1> DEFINE Kept == UNCHANGED <<chName, reaped, clients, session>>
<1>1. /\ CallsOK /\ StateOK /\ ChannelsOK /\ TableInv /\ created \in Nat
      /\ 1..created \subseteq ChannelIds
  BY CreatedInRange DEF BookInv, TableInv, TypeInv, ChannelsOK
<1>2. ASSUME NEW c \in Viewers, ViewerStep(c) PROVE Book!Next \/ Kept
  <2>1. CASE SpawnSession(c)
    BY <2>1, BookEnters
  <2>2. CASE Create(c)
    <3>1. CASE NewChannel(c)
      BY <2>2, <3>1, BookOpens
    <3>2. CASE UNCHANGED mapVars
      BY <2>2, <3>2 DEF Create, mapVars, sessVars
    <3> QED BY <2>2, <3>1, <3>2 DEF Create
  <2> QED
    BY <1>2, <2>1, <2>2
       DEF ViewerStep, Lookup, Check, Bind, CloseLookup, CloseKill, mapVars, sessVars
<1>3. ASSUME NEW a \in Admins, AdminStep(a) PROVE Book!Next \/ Kept
  <2>1. CASE KillKill(a) /\ UNCHANGED clients
    BY <2>1 DEF KillKill, mapVars
  <2>2. CASE (KillKill(a) \/ ClientPrune(a)) /\ clients' # clients
    <3>1. PICK x, cs : /\ clients' = [clients EXCEPT ![x] = @ \ cs]
                       /\ UNCHANGED <<chName, reaped, session>>
      BY <2>2 DEF KillKill, ClientPrune, mapVars
    <3>2. x \in ChannelIds
      BY <1>1, <2>2, <3>1 DEF ChannelsOK
    <3> QED BY <1>1, <3>1, <3>2, BookLeaves
  <2>3. CASE ClientPrune(a) /\ UNCHANGED clients
    BY <2>3 DEF ClientPrune, mapVars
  <2> QED
    BY <1>3, <2>1, <2>2, <2>3
       DEF AdminStep, KillLookup, KillEvict, ClientEvict, ClientLookup, StopScan,
           StopSeal, StopKill, StopExit, mapVars, sessVars
<1>4. CASE EventStep
  <2>1. CASE EvPrune /\ UNCHANGED clients
    BY <2>1 DEF EvPrune, mapVars
  <2>2. CASE EvPrune /\ clients' # clients
    <3>1. /\ clients' = [clients EXCEPT ![ev.ch] = @ \ {ev.conn}]
          /\ UNCHANGED <<chName, reaped, session>>
      BY <2>2 DEF EvPrune, mapVars
    <3>2. ev.ch \in ChannelIds
      BY <1>1, <2>2, <3>1 DEF ChannelsOK
    <3> QED BY <1>1, <3>1, <3>2, BookLeaves
  <2> QED
    BY <1>4, <2>1, <2>2 DEF EventStep, EvConnect, EvEvict, EvResolve, mapVars, sessVars
<1>5. CASE Environment
  BY <1>5 DEF Environment, Connect, Drop, SpawnCall, CloseCall, AttachCall,
              KillChannelCall, KillClientCall, StopCall, AdminCall, ProcExit, mapVars,
              sessVars
<1>6. ASSUME NEW e \in esc, EscalateWake(e) \/ Escalate(e) PROVE Kept
  BY <1>6 DEF EscalateWake, Escalate, mapVars, sessVars
<1> QED
  BY <1>2, <1>3, <1>4, <1>5, <1>6, BookCollects, BookEnds DEF Next

\* However its handlers, tasks and events interleave, the gateway opens, fills,
\* empties and collects its channels as the abstract book of channels does.
THEOREM KeepsTheBook == Spec => IsBook
<1>1. Init => BookInv /\ Book!Init
  BY BookInvInit
<1>2. BookInv /\ [Next]_vars => BookInv'
  BY BookInvStep
<1>3. BookInv /\ [Next]_vars
      => [Book!Next]_<<chName, {x \in ChannelIds : reaped[x]}, clients,
                       {x \in ChannelIds : session[x] # None}>>
  BY BookStep DEF vars, mapVars, sessVars
<1> QED
  BY <1>1, <1>2, <1>3, PTL DEF Spec, IsBook, Book!Spec
=============================================================================
