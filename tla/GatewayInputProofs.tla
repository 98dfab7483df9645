-------------------------- MODULE GatewayInputProofs --------------------------
(* Input of connections that attach once arrives in the order it was sent,   *)
(* and a channel takes raw input again after a window manager that was bound *)
(* to it, for any connections, names, queues and bounds.                     *)
EXTENDS GatewayInput, SequenceTheorems, TLAPS

(***************************************************************************)
(* The invariant.                                                          *)
(***************************************************************************)
Tasks ==
  [conn : Viewers \cup {Absent}, queue : Seq(Chunks), batch : Seq(Chunks),
   pc : {"none", "recv", "bound", "resolve", "send"},
   name : Names \cup {Absent}, cached : 0..MaxChannels]
Batches == [batch : Seq(Chunks), to : 0..MaxSessions]

InTypes ==
  /\ online \subseteq Conns
  /\ attaching \in [Conns -> Names \cup {Absent}] /\ bound \in [Conns -> Names \cup {Absent}]
  /\ route \in [Conns -> Names \cup {Absent}] /\ leaving \in [Conns -> Names \cup {Absent}]
  /\ chanMap \in [Names -> 0..created] /\ created \in 0..MaxChannels
  /\ session \in [ChannelIds -> 0..spawned] /\ spawned \in 0..MaxSessions
  /\ mode \in [ChannelIds -> Wms \cup {Absent}]
  /\ sent \in [Viewers -> 0..MaxChunks] /\ hand \in [Viewers -> Seq(Chunks)]
  /\ fwd \in [Conns -> 0..started] /\ started \in 0..MaxTasks
  /\ task \in [TaskIds -> Tasks]
  /\ inputQ \in [ChannelIds -> [batches : Nat, chunks : Seq(Chunks)]]
  /\ writer \in [ChannelIds -> Batches]
  /\ \A x \in ChannelIds : writer[x].batch # NoBatch => writer[x].to \in SessionIds
  /\ pty \in [SessionIds -> Seq(Chunks)]

\* A connection attaches once, before it sends anything; a chunk is on its way
\* only while the connection is there.
RouteInv ==
  /\ \A c \in Conns : attaching[c] # Absent =>
       c \in online /\ bound[c] = Absent /\ route[c] = Absent
  /\ \A c \in Conns : leaving[c] # Absent => c \notin online
  /\ \A c \in Conns : c \in online /\ route[c] = Absent => fwd[c] = None
  /\ \A c \in Viewers : hand[c] # NoBatch =>
       /\ c \in online /\ route[c] # Absent
       /\ Len(hand[c]) = 1 /\ hand[c][1].from = c

\* A task that has not resolved its channel is looking for it; it has chunks of
\* its own connection only.
TaskOK(k) ==
  /\ k.conn = Absent => k.pc = "none" /\ k.queue = <<>> /\ k.batch = <<>>
  /\ k.pc \in {"bound", "resolve"} => k.cached = None
  /\ k.pc = "resolve" => k.name \in Names
  /\ \A a \in ToSet(k.queue) \cup ToSet(k.batch) : a.from = k.conn

\* Each connection has one drain task.
TaskInv ==
  /\ \A c \in Conns : fwd[c] # None => c \in Viewers /\ task[fwd[c]].conn = c
  /\ \A t \in TaskIds : t > started => task[t].conn = Absent
  /\ \A t \in TaskIds : TaskOK(task[t])
  /\ \A t, u \in TaskIds : task[t].conn = task[u].conn /\ task[t].conn # Absent => t = u

\* What has left the drain tasks and has not reached a PTY.
InChannel(x) == ToSet(inputQ[x].chunks) \cup ToSet(writer[x].batch)

\* The chunks of a viewer are in one channel, the one its task has resolved.
HomeInv ==
  /\ \A x, y \in ChannelIds : \A a \in InChannel(x), b \in InChannel(y) :
       a.from = b.from => x = y
  /\ \A t \in TaskIds, x \in ChannelIds : \A a \in InChannel(x) :
       a.from = task[t].conn => task[t].cached = x

\* Who has no task, but something to send, has never had one.
FreshInv ==
  \A c \in Viewers :
    fwd[c] = None /\ (hand[c] # NoBatch \/ (c \in online /\ sent[c] < MaxChunks)) =>
      /\ \A t \in TaskIds : task[t].conn # c
      /\ \A x \in ChannelIds : \A a \in InChannel(x) : a.from # c

\* The stages of the way, the last one first.
AtPty    == UNION {ToSet(pty[s]) : s \in SessionIds}
AtWriter == UNION {ToSet(writer[x].batch) : x \in ChannelIds}
AtInput  == UNION {ToSet(inputQ[x].chunks) : x \in ChannelIds}
AtBatch  == UNION {ToSet(task[t].batch) : t \in TaskIds}
AtQueue  == UNION {ToSet(task[t].queue) : t \in TaskIds}
AtHand   == UNION {ToSet(hand[c]) : c \in Viewers}

\* Each viewer has sent what it has in A before what it has in B.
Prior(A, B) == \A a \in A, b \in B : a.from = b.from => a.n < b.n

Ordered(A, B, C, D, E, F) ==
  /\ Prior(A, B) /\ Prior(A, C) /\ Prior(A, D) /\ Prior(A, E) /\ Prior(A, F)
  /\ Prior(B, C) /\ Prior(B, D) /\ Prior(B, E) /\ Prior(B, F)
  /\ Prior(C, D) /\ Prior(C, E) /\ Prior(C, F)
  /\ Prior(D, E) /\ Prior(D, F)
  /\ Prior(E, F)

StagesInv == Ordered(AtPty, AtWriter, AtInput, AtBatch, AtQueue, AtHand)

SeqsInv ==
  /\ \A s \in SessionIds : InSentOrder(pty[s])
  /\ \A x \in ChannelIds : InSentOrder(writer[x].batch) /\ InSentOrder(inputQ[x].chunks)
  /\ \A t \in TaskIds : InSentOrder(task[t].batch) /\ InSentOrder(task[t].queue)

SentInv ==
  \A a \in AtPty \cup AtWriter \cup AtInput \cup AtBatch \cup AtQueue \cup AtHand :
    a.n <= sent[a.from]

PipeInv ==
  InTypes /\ RouteInv /\ TaskInv /\ HomeInv /\ FreshInv /\ StagesInv /\ SeqsInv /\ SentInv

WmTypes ==
  /\ attaching \in [Conns -> Names \cup {Absent}] /\ bound \in [Conns -> Names \cup {Absent}]
  /\ leaving \in [Conns -> Names \cup {Absent}] /\ wasBound \in [Conns -> Names \cup {Absent}]
  /\ chanMap \in [Names -> 0..created] /\ created \in 0..MaxChannels
  /\ mode \in [ChannelIds -> Wms \cup {Absent}]
  /\ \A c \in Conns : leaving[c] # Absent => c \notin online

\* The window manager w of channel n may have it: it is there, or on its way
\* out of that channel, or was not bound to it.
MayHave(w, n) == w \in online \/ leaving[w] = n \/ wasBound[w] # n

WmInv ==
  /\ WmTypes
  /\ \A n \in Names : chanMap[n] # None /\ mode[chanMap[n]] # Absent =>
       MayHave(mode[chanMap[n]], n)
  /\ \A m, n \in Names : chanMap[m] = chanMap[n] /\ chanMap[n] # None => m = n
  /\ \A x \in ChannelIds : x > created => mode[x] = Absent

(***************************************************************************)
(* Sequences, sets and stages.                                             *)
(***************************************************************************)
LEMMA ConcatSets ==
  ASSUME NEW S, NEW q \in Seq(S), NEW r \in Seq(S)
  PROVE  q \o r \in Seq(S) /\ ToSet(q \o r) = ToSet(q) \cup ToSet(r)
<1>1. /\ q \o r \in Seq(S) /\ Len(q \o r) = Len(q) + Len(r)
      /\ Len(q) \in Nat /\ Len(r) \in Nat
      /\ \A i \in 1..(Len(q) + Len(r)) :
           (q \o r)[i] = IF i <= Len(q) THEN q[i] ELSE r[i - Len(q)]
  BY ConcatProperties
<1>2. ASSUME NEW a \in ToSet(q \o r) PROVE a \in ToSet(q) \cup ToSet(r)
  <2>1. PICK i \in 1..(Len(q) + Len(r)) : a = (q \o r)[i]
    BY <1>1 DEF ToSet
  <2>2. CASE i <= Len(q)
    BY <1>1, <2>1, <2>2 DEF ToSet
  <2>3. CASE ~(i <= Len(q))
    <3>1. i - Len(q) \in 1..Len(r) /\ a = r[i - Len(q)]
      BY <1>1, <2>1, <2>3
    <3> QED BY <3>1 DEF ToSet
  <2> QED BY <2>2, <2>3
<1>3. ASSUME NEW a \in ToSet(q) PROVE a \in ToSet(q \o r)
  <2>1. PICK i \in 1..Len(q) : a = q[i]
    BY DEF ToSet
  <2>2. i \in 1..Len(q \o r) /\ (q \o r)[i] = a
    BY <1>1, <2>1
  <2> QED BY <2>2 DEF ToSet
<1>4. ASSUME NEW a \in ToSet(r) PROVE a \in ToSet(q \o r)
  <2>1. PICK i \in 1..Len(r) : a = r[i]
    BY DEF ToSet
  <2>2. Len(q) + i \in 1..Len(q \o r) /\ (q \o r)[Len(q) + i] = a
    BY <1>1, <2>1
  <2> QED BY <2>2 DEF ToSet
<1> QED BY <1>1, <1>2, <1>3, <1>4

LEMMA MembersIn == ASSUME NEW S, NEW q \in Seq(S) PROVE ToSet(q) \subseteq S
BY DEF ToSet

LEMMA Nothing ==
  /\ <<>> \in Seq(Chunks) /\ Len(<<>>) = 0 /\ ToSet(<<>>) = {} /\ InSentOrder(<<>>)
  /\ \A A : Prior(A, {}) /\ Prior({}, A)
BY DEF ToSet, InSentOrder, Prior

LEMMA OrderJoined ==
  ASSUME NEW q \in Seq(Chunks), NEW r \in Seq(Chunks),
         InSentOrder(q), InSentOrder(r), Prior(ToSet(q), ToSet(r))
  PROVE  InSentOrder(q \o r)
<1>1. /\ q \o r \in Seq(Chunks) /\ Len(q \o r) = Len(q) + Len(r)
      /\ Len(q) \in Nat /\ Len(r) \in Nat
      /\ \A i \in 1..(Len(q) + Len(r)) :
           (q \o r)[i] = IF i <= Len(q) THEN q[i] ELSE r[i - Len(q)]
  BY ConcatProperties
<1> DEFINE p == q \o r
<1>2. SUFFICES ASSUME NEW i \in 1..Len(p), NEW j \in 1..Len(p), i < j, p[i].from = p[j].from
               PROVE  p[i].n < p[j].n
  BY DEF InSentOrder
<1>3. CASE j <= Len(q)
  <2>1. i \in 1..Len(q) /\ j \in 1..Len(q) /\ p[i] = q[i] /\ p[j] = q[j]
    BY <1>1, <1>2, <1>3
  <2> QED BY <1>2, <2>1 DEF InSentOrder
<1>4. CASE i <= Len(q) /\ ~(j <= Len(q))
  <2>1. /\ i \in 1..Len(q) /\ j - Len(q) \in 1..Len(r)
        /\ p[i] = q[i] /\ p[j] = r[j - Len(q)]
    BY <1>1, <1>2, <1>4
  <2>2. p[i] \in ToSet(q) /\ p[j] \in ToSet(r)
    BY <2>1 DEF ToSet
  <2> QED BY <1>2, <2>2 DEF Prior
<1>5. CASE ~(i <= Len(q))
  <2>1. /\ i - Len(q) \in 1..Len(r) /\ j - Len(q) \in 1..Len(r) /\ i - Len(q) < j - Len(q)
        /\ p[i] = r[i - Len(q)] /\ p[j] = r[j - Len(q)]
    BY <1>1, <1>2, <1>5
  <2> QED BY <1>2, <2>1 DEF InSentOrder
<1> QED BY <1>1, <1>3, <1>4, <1>5

\* A sequence of one.
LEMMA Single ==
  ASSUME NEW q \in Seq(Chunks), Len(q) = 1
  PROVE  InSentOrder(q) /\ ToSet(q) = {q[1]}
<1>1. DOMAIN q = {1}
  BY LenProperties
<1> QED BY <1>1 DEF InSentOrder, ToSet

LEMMA Shrunk ==
  ASSUME NEW A, NEW B, NEW C, NEW D, NEW E, NEW F, Ordered(A, B, C, D, E, F),
         NEW A2 \in SUBSET A, NEW B2 \in SUBSET B, NEW C2 \in SUBSET C,
         NEW D2 \in SUBSET D, NEW E2 \in SUBSET E, NEW F2 \in SUBSET F
  PROVE  Ordered(A2, B2, C2, D2, E2, F2)
BY DEF Ordered, Prior

\* What is moved on, M, leaves nothing of its viewers behind.
LEMMA MovedOn ==
  ASSUME NEW A, NEW B, NEW C, NEW D, NEW E, NEW F, Ordered(A, B, C, D, E, F), NEW M
  PROVE  /\ \A B2 \in SUBSET B : M \subseteq B /\ Prior(M, B2) =>
              Ordered(A \cup M, B2, C, D, E, F)
         /\ \A C2 \in SUBSET C : M \subseteq C /\ Prior(M, C2) =>
              Ordered(A, B \cup M, C2, D, E, F)
         /\ \A D2 \in SUBSET D : M \subseteq D /\ Prior(M, D2) =>
              Ordered(A, B, C \cup M, D2, E, F)
         /\ \A E2 \in SUBSET E : M \subseteq E /\ Prior(M, E2) =>
              Ordered(A, B, C, D \cup M, E2, F)
         /\ \A F2 \in SUBSET F : M \subseteq F /\ Prior(M, F2) =>
              Ordered(A, B, C, D, E \cup M, F2)
<1>1. ASSUME NEW B2 \in SUBSET B, M \subseteq B, Prior(M, B2)
      PROVE  Ordered(A \cup M, B2, C, D, E, F)
  BY <1>1 DEF Ordered, Prior
<1>2. ASSUME NEW C2 \in SUBSET C, M \subseteq C, Prior(M, C2)
      PROVE  Ordered(A, B \cup M, C2, D, E, F)
  BY <1>2 DEF Ordered, Prior
<1>3. ASSUME NEW D2 \in SUBSET D, M \subseteq D, Prior(M, D2)
      PROVE  Ordered(A, B, C \cup M, D2, E, F)
  BY <1>3 DEF Ordered, Prior
<1>4. ASSUME NEW E2 \in SUBSET E, M \subseteq E, Prior(M, E2)
      PROVE  Ordered(A, B, C, D \cup M, E2, F)
  BY <1>4 DEF Ordered, Prior
<1>5. ASSUME NEW F2 \in SUBSET F, M \subseteq F, Prior(M, F2)
      PROVE  Ordered(A, B, C, D, E \cup M, F2)
  BY <1>5 DEF Ordered, Prior
<1> QED BY <1>1, <1>2, <1>3, <1>4, <1>5

LEMMA StagesTyped ==
  ASSUME InTypes
  PROVE  /\ AtPty \subseteq Chunks /\ AtWriter \subseteq Chunks /\ AtInput \subseteq Chunks
         /\ AtBatch \subseteq Chunks /\ AtQueue \subseteq Chunks /\ AtHand \subseteq Chunks
<1>1. AtPty \subseteq Chunks
  BY MembersIn DEF InTypes, AtPty
<1>2. AtWriter \subseteq Chunks
  BY MembersIn DEF InTypes, AtWriter, Batches
<1>3. AtInput \subseteq Chunks
  BY MembersIn DEF InTypes, AtInput
<1>4. AtBatch \subseteq Chunks /\ AtQueue \subseteq Chunks
  BY MembersIn DEF InTypes, AtBatch, AtQueue, Tasks
<1>5. AtHand \subseteq Chunks
  BY MembersIn DEF InTypes, AtHand
<1> QED BY <1>1, <1>2, <1>3, <1>4, <1>5

(***************************************************************************)
(* Steps that move no chunk.                                               *)
(***************************************************************************)
LEMMA Numbered ==
  ASSUME InTypes
  PROVE  /\ \A c \in Conns : fwd[c] # None => fwd[c] \in TaskIds /\ fwd[c] <= started
         /\ started \in Nat /\ Viewers \subseteq Conns
<1>1. MaxTasks \in Nat
  BY InputAssumption DEF InputAssumption
<1>2. started \in 0..MaxTasks /\ \A c \in Conns : fwd[c] \in 0..started
  BY DEF InTypes
<1> QED BY <1>1, <1>2 DEF TaskIds, None, Conns

LEMMA Looked ==
  ASSUME InTypes, NEW n \in Names, NEW x \in ChannelIds, LookupOrCreate(n, x)
  PROVE  chanMap' \in [Names -> 0..created'] /\ created' \in 0..MaxChannels
<1>1. CASE UNCHANGED <<chanMap, created>>
  BY <1>1 DEF InTypes
<1>2. CASE ~UNCHANGED <<chanMap, created>>
  <2>1. x = created + 1 /\ created' = x /\ chanMap' = [chanMap EXCEPT ![n] = x]
    BY <1>2 DEF LookupOrCreate
  <2>2. created \in Nat /\ 0..created \subseteq 0..x /\ x \in 0..x /\ x \in 0..MaxChannels
    BY <2>1, InputAssumption DEF InTypes, InputAssumption, ChannelIds
  <2> QED BY <2>1, <2>2 DEF InTypes
<1> QED BY <1>1, <1>2

\* A forwarder may go, of a connection that will not send any more.
LEMMA QuietStep ==
  ASSUME PipeInv, InTypes', RouteInv', UNCHANGED <<pty, writer, inputQ, hand, started>>,
         online' \subseteq online, \A c \in Viewers : sent[c] <= sent'[c],
         \A t \in TaskIds : /\ task'[t].conn = task[t].conn
                            /\ task'[t].queue = task[t].queue /\ task'[t].batch = task[t].batch
                            /\ task'[t].cached = task[t].cached \/ task[t].cached = None
                            /\ TaskOK(task'[t]),
         \A c \in Conns : \/ fwd'[c] = fwd[c]
                          \/ fwd'[c] = None /\ (c \notin online' \/ c \notin Viewers)
                                            /\ (c \in Viewers => hand[c] = NoBatch)
                          \/ fwd'[c] = None /\ c \in Viewers /\ sent'[c] = MaxChunks
                                            /\ hand[c] = NoBatch
  PROVE  PipeInv'
<1>0. InTypes /\ RouteInv /\ TaskInv /\ HomeInv /\ FreshInv /\ StagesInv /\ SeqsInv /\ SentInv
  BY DEF PipeInv
<1>1. /\ AtPty' = AtPty /\ AtWriter' = AtWriter /\ AtInput' = AtInput /\ AtHand' = AtHand
      /\ \A x \in ChannelIds : InChannel(x)' = InChannel(x)
  BY DEF AtPty, AtWriter, AtInput, AtHand, InChannel
<1>2. AtBatch' = AtBatch /\ AtQueue' = AtQueue
  BY DEF AtBatch, AtQueue
<1>3. TaskInv'
  <2>1. \A c \in Conns : fwd'[c] # None => c \in Viewers /\ task'[fwd'[c]].conn = c
    <3> TAKE c \in Conns
    <3> HAVE fwd'[c] # None
    <3>1. fwd'[c] = fwd[c]
      OBVIOUS
    <3>2. fwd[c] \in TaskIds
      BY <1>0, <3>1, Numbered
    <3> QED BY <1>0, <3>1, <3>2 DEF TaskInv
  <2> QED BY <1>0, <2>1 DEF TaskInv
<1>4. HomeInv'
  <2>1. ASSUME NEW t \in TaskIds, NEW x \in ChannelIds, NEW a \in InChannel(x),
               a.from = task'[t].conn
        PROVE  task'[t].cached = x
    <3>1. task[t].cached = x /\ x # None
      BY <1>0, <2>1 DEF HomeInv, ChannelIds, None
    <3> QED BY <3>1
  <2> QED BY <1>0, <1>1, <2>1 DEF HomeInv
<1>5. FreshInv'
  <2>1. ASSUME NEW c \in Viewers, fwd'[c] = None,
               hand[c] # NoBatch \/ (c \in online' /\ sent'[c] < MaxChunks)
        PROVE  fwd[c] = None /\ (hand[c] # NoBatch \/ (c \in online /\ sent[c] < MaxChunks))
    <3>1. c \in Conns /\ sent[c] \in Nat /\ sent'[c] \in Nat /\ sent[c] <= sent'[c]
      BY <1>0 DEF Conns, InTypes
    <3>2. sent'[c] < MaxChunks => sent[c] < MaxChunks /\ sent'[c] # MaxChunks
      BY <3>1, InputAssumption DEF InputAssumption
    <3>3. fwd[c] = None
      BY <2>1, <3>1, <3>2
    <3> QED BY <2>1, <3>2, <3>3
  <2> QED BY <1>0, <1>1, <2>1 DEF FreshInv
<1>6. StagesInv' /\ SeqsInv'
  BY <1>0, <1>1, <1>2 DEF StagesInv, SeqsInv
<1>7. SentInv'
  <2> SUFFICES ASSUME NEW a \in AtPty \cup AtWriter \cup AtInput \cup AtBatch \cup AtQueue \cup AtHand
               PROVE  a.n <= sent'[a.from]
    BY <1>1, <1>2 DEF SentInv
  <2>1. a \in Chunks
    BY <1>0, StagesTyped
  <2>2. a.n \in Nat /\ a.from \in Viewers
    BY <2>1 DEF Chunks
  <2>3. sent[a.from] \in Nat /\ sent'[a.from] \in Nat /\ sent[a.from] <= sent'[a.from]
    BY <1>0, <2>2 DEF InTypes
  <2>4. a.n <= sent[a.from]
    BY <1>0 DEF SentInv
  <2> QED BY <2>2, <2>3, <2>4
<1> QED BY <1>3, <1>4, <1>5, <1>6, <1>7 DEF PipeInv

\* Steps of the handlers that leave the streams and their tasks alone.
LEMMA RoutingSteps ==
  ASSUME PipeInv, ~Reattach, UNCHANGED <<hand, task, started, inputQ, writer, pty>>,
         \/ \E c \in Conns, n \in Names : AttachCall(c, n)
         \/ \E c \in Conns : AttachBind(c) \/ EvictConn(c) \/ EvictChannel(c)
         \/ \E c \in Viewers : KillClient(c) \/ StreamEnd(c)
  PROVE  InTypes' /\ RouteInv' /\ PipeInv'
<1>0. InTypes /\ RouteInv /\ TaskInv
  BY DEF PipeInv
<1>1. \A t \in TaskIds : TaskOK(task[t])
  BY <1>0 DEF TaskInv
<1>2. \A c \in Viewers : sent[c] <= sent[c] /\ c \in Conns
  BY <1>0 DEF InTypes, Conns
<1>3. MaxChannels \in Nat
  BY InputAssumption DEF InputAssumption
<1>4. ASSUME NEW c \in Conns, NEW n \in Names, AttachCall(c, n) PROVE InTypes' /\ RouteInv' /\ PipeInv'
  <2>1. /\ c \in online /\ attaching[c] = Absent /\ bound[c] = Absent /\ route[c] = Absent
        /\ attaching' = [attaching EXCEPT ![c] = n]
        /\ fwd' = [fwd EXCEPT ![c] = None]
        /\ UNCHANGED <<online, bound, route, leaving, session, spawned, mode, sent>>
    BY <1>4 DEF AttachCall
  <2>2. fwd[c] = None /\ fwd' = fwd
    BY <1>0, <2>1 DEF RouteInv, InTypes
  <2>3. PICK x \in ChannelIds : LookupOrCreate(n, x)
    BY <1>4 DEF AttachCall
  <2>4. chanMap' \in [Names -> 0..created'] /\ created' \in 0..MaxChannels
    BY <1>0, <2>3, Looked
  <2>5. InTypes'
    BY <1>0, <2>1, <2>2, <2>4 DEF InTypes
  <2>6. RouteInv'
    BY <1>0, <2>1, <2>2 DEF RouteInv, InTypes
  <2> QED BY <1>1, <1>2, <2>1, <2>2, <2>5, <2>6, QuietStep
<1>5. ASSUME NEW c \in Conns, AttachBind(c) PROVE InTypes' /\ RouteInv' /\ PipeInv'
  <2>1. /\ attaching[c] # Absent /\ attaching' = [attaching EXCEPT ![c] = Absent]
        /\ bound' = [bound EXCEPT ![c] = attaching[c]]
        /\ route' = [route EXCEPT ![c] = attaching[c]]
        /\ UNCHANGED <<online, leaving, chanMap, created, session, spawned, mode, sent, fwd>>
    BY <1>5 DEF AttachBind, pipeVars
  <2>2. InTypes'
    BY <1>0, <2>1 DEF InTypes
  <2>3. RouteInv'
    BY <1>0, <2>1 DEF RouteInv, InTypes
  <2> QED BY <1>1, <1>2, <2>1, <2>2, <2>3, QuietStep
<1>6. ASSUME NEW c \in Conns, EvictConn(c) PROVE InTypes' /\ RouteInv' /\ PipeInv'
  <2>1. /\ c \in online /\ attaching[c] = Absent /\ (c \in Viewers => hand[c] = NoBatch)
        /\ online' = online \ {c} /\ fwd' = [fwd EXCEPT ![c] = None]
        /\ leaving' = [leaving EXCEPT ![c] = bound[c]] /\ bound' = [bound EXCEPT ![c] = Absent]
        /\ UNCHANGED <<attaching, route, chanMap, created, session, spawned, mode, sent>>
    BY <1>6 DEF EvictConn, chanVars
  <2>2. /\ c \notin online' /\ fwd' \in [Conns -> 0..started] /\ fwd'[c] = None
        /\ \A d \in Conns : d # c => fwd'[d] = fwd[d]
    BY <1>0, <2>1 DEF InTypes, None
  <2>3. InTypes'
    BY <1>0, <2>1, <2>2 DEF InTypes
  <2>4. RouteInv'
    BY <1>0, <2>1, <2>2 DEF RouteInv, InTypes
  <2> QED BY <1>1, <1>2, <2>1, <2>2, <2>3, <2>4, QuietStep
<1>7. ASSUME NEW c \in Conns, EvictChannel(c) PROVE InTypes' /\ RouteInv' /\ PipeInv'
  <2>1. /\ leaving[c] # Absent /\ leaving' = [leaving EXCEPT ![c] = Absent]
        /\ route' = route \/ route' = [route EXCEPT ![c] = Absent]
        /\ \/ mode' = mode
           \/ \E x \in ChannelIds : mode' = [mode EXCEPT ![x] = Absent]
        /\ UNCHANGED <<online, attaching, bound, chanMap, created, session, spawned, sent, fwd>>
    <3>1. leaving[c] \in Names /\ chanMap[leaving[c]] \in 0..MaxChannels
      BY <1>0, <1>3, <1>7 DEF EvictChannel, InTypes
    <3>2. chanMap[leaving[c]] # None => chanMap[leaving[c]] \in ChannelIds
      BY <3>1 DEF ChannelIds, None
    <3> QED BY <1>7, <3>2 DEF EvictChannel, pipeVars
  <2>2. InTypes'
    BY <1>0, <2>1 DEF InTypes
  <2>3. RouteInv'
    BY <1>0, <2>1 DEF RouteInv, InTypes
  <2> QED BY <1>1, <1>2, <2>1, <2>2, <2>3, QuietStep
<1>8. ASSUME NEW c \in Viewers, KillClient(c) PROVE InTypes' /\ RouteInv' /\ PipeInv'
  <2>1. /\ bound' = [bound EXCEPT ![c] = Absent]
        /\ UNCHANGED <<online, attaching, route, leaving, chanMap, created, session, spawned,
                       mode, sent, fwd>>
    BY <1>8 DEF KillClient, pipeVars
  <2>2. InTypes'
    BY <1>0, <2>1 DEF InTypes
  <2>3. RouteInv'
    BY <1>0, <2>1 DEF RouteInv, InTypes
  <2> QED BY <1>1, <1>2, <2>1, <2>2, <2>3, QuietStep
<1>9. ASSUME NEW c \in Viewers, StreamEnd(c) PROVE InTypes' /\ RouteInv' /\ PipeInv'
  <2>1. /\ hand[c] = NoBatch /\ sent[c] = MaxChunks /\ fwd' = [fwd EXCEPT ![c] = None]
        /\ UNCHANGED <<connVars, chanVars, sent>>
    BY <1>9 DEF StreamEnd
  <2>2. /\ c \in Conns /\ fwd' \in [Conns -> 0..started] /\ fwd'[c] = None
        /\ \A d \in Conns : d # c => fwd'[d] = fwd[d]
    BY <1>0, <1>2, <2>1 DEF InTypes, None
  <2>3. InTypes'
    BY <1>0, <2>1, <2>2 DEF InTypes, connVars, chanVars
  <2>4. RouteInv'
    BY <1>0, <2>1, <2>2 DEF RouteInv, connVars
  <2> QED BY <1>1, <1>2, <2>1, <2>2, <2>3, <2>4, QuietStep DEF connVars
<1> QED BY <1>4, <1>5, <1>6, <1>7, <1>8, <1>9

\* Steps around the channels and their sessions.
LEMMA ChannelSteps ==
  ASSUME PipeInv,
         \/ \E c \in Viewers : Spawn(c)
         \/ \E c \in Conns : EvictUnmark(c)
         \/ \E x \in ChannelIds : SessionEnd(x)
         \/ \E n \in Names : Reap(n)
         \/ \E w \in Wms, n \in Names : Subscribe(w, n)
         \/ \E e \in calls : Deliver(e)
         \/ \E c \in Viewers, n \in Names : SendAttributed(c, n)
         \/ UNCHANGED vars
  PROVE  PipeInv'
<1>0. InTypes /\ RouteInv /\ TaskInv
  BY DEF PipeInv
<1>1. \A t \in TaskIds : TaskOK(task[t])
  BY <1>0 DEF TaskInv
<1>2. MaxChannels \in Nat /\ MaxSessions \in Nat /\ MaxChunks \in Nat
  BY InputAssumption DEF InputAssumption
<1>3. UNCHANGED <<online, attaching, bound, route, leaving, pipeVars>>
  BY DEF Spawn, EvictUnmark, SessionEnd, Reap, Subscribe, Deliver, SendAttributed, connVars,
         vars
<1>4. RouteInv'
  BY <1>0, <1>3 DEF RouteInv, pipeVars
<1> DEFINE Typed ==
      /\ chanMap' \in [Names -> 0..created'] /\ created' \in 0..MaxChannels
      /\ session' \in [ChannelIds -> 0..spawned'] /\ spawned' \in 0..MaxSessions
      /\ mode' \in [ChannelIds -> Wms \cup {Absent}]
      /\ sent' \in [Viewers -> 0..MaxChunks] /\ \A c \in Viewers : sent[c] <= sent'[c]
<1>5. Typed
  <2>1. \A c \in Viewers : sent[c] <= sent[c]
    BY <1>0 DEF InTypes
  <2>2. ASSUME NEW c \in Viewers, Spawn(c) PROVE Typed
    <3>1. PICK x \in ChannelIds :
            /\ LookupOrCreate(bound[c], x)
            /\ \/ UNCHANGED <<session, spawned>>
               \/ /\ spawned < MaxSessions /\ spawned' = spawned + 1
                  /\ session' = [session EXCEPT ![x] = spawned']
      BY <2>2 DEF Spawn
    <3>2. bound[c] \in Names /\ mode' = mode /\ sent' = sent
      BY <1>0, <2>2 DEF Spawn, InTypes, Conns
    <3>3. chanMap' \in [Names -> 0..created'] /\ created' \in 0..MaxChannels
      BY <1>0, <3>1, <3>2, Looked
    <3>4. session' \in [ChannelIds -> 0..spawned'] /\ spawned' \in 0..MaxSessions
      <4>1. CASE UNCHANGED <<session, spawned>>
        BY <1>0, <4>1 DEF InTypes
      <4>2. CASE ~UNCHANGED <<session, spawned>>
        <5>1. /\ spawned \in Nat /\ spawned + 1 \in 0..MaxSessions
              /\ 0..spawned \subseteq 0..(spawned + 1)
          BY <1>0, <1>2, <3>1, <4>2 DEF InTypes
        <5>2. spawned' = spawned + 1 /\ session' = [session EXCEPT ![x] = spawned + 1]
          BY <3>1, <4>2
        <5> QED BY <1>0, <5>1, <5>2 DEF InTypes
      <4> QED BY <4>1, <4>2
    <3> QED BY <1>0, <2>1, <3>2, <3>3, <3>4 DEF InTypes
  <2>3. ASSUME NEW x \in ChannelIds, SessionEnd(x) PROVE Typed
    BY <1>0, <2>1, <2>3 DEF SessionEnd, InTypes, None
  <2>4. ASSUME NEW n \in Names, Reap(n) PROVE Typed
    BY <1>0, <2>1, <2>4 DEF Reap, InTypes, None
  <2>5. ASSUME NEW w \in Wms, NEW n \in Names, Subscribe(w, n) PROVE Typed
    <3>1. mode' \in [ChannelIds -> Wms \cup {Absent}]
      BY <1>0, <2>5 DEF Subscribe, InTypes
    <3> QED BY <1>0, <2>1, <2>5, <3>1 DEF Subscribe, InTypes
  <2>6. ASSUME NEW c \in Viewers, NEW n \in Names, SendAttributed(c, n) PROVE Typed
    BY <1>0, <1>2, <2>1, <2>6 DEF SendAttributed, InTypes, chanVars
  <2>7. CASE \/ \E c \in Conns : EvictUnmark(c)
             \/ \E e \in calls : Deliver(e)
             \/ UNCHANGED vars
    <3> DEFINE Same == UNCHANGED <<chanMap, created, session, spawned, mode, sent>>
    <3>1. Same
      <4>1. (\E c \in Conns : EvictUnmark(c)) => Same
        BY DEF EvictUnmark
      <4>2. (\E e \in calls : Deliver(e)) => Same
        BY DEF Deliver, chanVars
      <4>3. UNCHANGED vars => Same
        BY DEF vars, chanVars
      <4> QED BY <2>7, <4>1, <4>2, <4>3
    <3> QED BY <1>0, <2>1, <3>1 DEF InTypes
  <2> QED BY <2>2, <2>3, <2>4, <2>5, <2>6, <2>7
<1>6. InTypes'
  BY <1>0, <1>3, <1>5 DEF InTypes, pipeVars
<1> QED BY <1>1, <1>3, <1>4, <1>5, <1>6, QuietStep DEF pipeVars

(***************************************************************************)
(* Steps that move chunks.                                                 *)
(***************************************************************************)
\* A step after which no stage holds anything that was not on its way before.
LEMMA StagesKept ==
  ASSUME PipeInv, sent' = sent,
         NEW A, NEW B, NEW C, NEW D, NEW E, NEW F, Ordered(A, B, C, D, E, F),
         AtPty' \subseteq A, AtWriter' \subseteq B, AtInput' \subseteq C,
         AtBatch' \subseteq D, AtQueue' \subseteq E, AtHand' \subseteq F,
         A \cup B \cup C \cup D \cup E \cup F \subseteq
           AtPty \cup AtWriter \cup AtInput \cup AtBatch \cup AtQueue \cup AtHand
  PROVE  StagesInv' /\ SentInv'
<1>1. StagesInv'
  BY Shrunk DEF StagesInv
<1>2. SentInv'
  BY DEF PipeInv, SentInv
<1> QED BY <1>1, <1>2

\* The writer task of a channel has nothing that another one has, too.
LEMMA WriterStep ==
  ASSUME InTypes, RouteInv, TaskInv, HomeInv, FreshInv, InTypes',
         UNCHANGED <<connVars, chanVars, sent, hand, fwd, task, started>>,
         \A x \in ChannelIds : InChannel(x)' \subseteq InChannel(x)
  PROVE  RouteInv' /\ TaskInv' /\ HomeInv' /\ FreshInv'
<1>1. RouteInv' /\ TaskInv'
  BY DEF RouteInv, TaskInv, connVars
<1>2. HomeInv'
  BY DEF HomeInv
<1>3. FreshInv'
  BY DEF FreshInv, connVars
<1> QED BY <1>1, <1>2, <1>3

LEMMA WriterTakeStep ==
  ASSUME PipeInv, NEW x \in ChannelIds, WriterTake(x)
  PROVE  PipeInv'
<1>0. InTypes /\ RouteInv /\ TaskInv /\ HomeInv /\ FreshInv /\ StagesInv /\ SeqsInv /\ SentInv
  BY DEF PipeInv
<1> DEFINE q == inputQ[x].chunks
           M == ToSet(q)
<1>1. /\ writer[x].batch = <<>> /\ inputQ' = [inputQ EXCEPT ![x] = NoInput]
      /\ UNCHANGED <<connVars, chanVars, sent, hand, fwd, task, started, pty>>
  BY DEF WriterTake, NoBatch
<1>2. /\ q \in Seq(Chunks) /\ NoInput \in [batches : Nat, chunks : Seq(Chunks)]
      /\ NoInput.chunks = <<>>
  BY <1>0 DEF InTypes, NoInput
<1>3. /\ inputQ' \in [ChannelIds -> [batches : Nat, chunks : Seq(Chunks)]]
      /\ inputQ'[x].chunks = <<>> /\ \A y \in ChannelIds : y # x => inputQ'[y] = inputQ[y]
  BY <1>0, <1>1, <1>2 DEF InTypes
<1>4. /\ writer' \in [ChannelIds -> Batches]
      /\ writer'[x].batch \in {q, <<>>} /\ \A y \in ChannelIds : y # x => writer'[y] = writer[y]
      /\ writer'[x].batch # NoBatch => writer'[x].to \in SessionIds
  <2>1. CASE session[x] = None
    <3>1. writer' = [writer EXCEPT ![x] = writer[x]]
      BY <2>1 DEF WriterTake
    <3> QED BY <1>0, <1>1, <3>1 DEF InTypes, NoBatch
  <2>2. CASE session[x] # None
    <3>1. writer' = [writer EXCEPT ![x] = [batch |-> q, to |-> session[x]]]
      BY <2>2 DEF WriterTake
    <3>2. session[x] \in 0..MaxSessions /\ session[x] \in SessionIds
      BY <1>0, <2>2, InputAssumption DEF InTypes, InputAssumption, SessionIds, None
    <3>3. [batch |-> q, to |-> session[x]] \in Batches
      BY <1>2, <3>2 DEF Batches
    <3> QED BY <1>0, <3>1, <3>2, <3>3 DEF InTypes
  <2> QED BY <2>1, <2>2
<1>5. InTypes'
  BY <1>0, <1>1, <1>3, <1>4 DEF InTypes, connVars, chanVars
<1>6. \A y \in ChannelIds : InChannel(y)' \subseteq InChannel(y)
  BY <1>1, <1>3, <1>4, Nothing DEF InChannel
<1>7. RouteInv' /\ TaskInv' /\ HomeInv' /\ FreshInv'
  BY <1>0, <1>1, <1>5, <1>6, WriterStep
<1>8. /\ AtPty' = AtPty /\ AtBatch' = AtBatch /\ AtQueue' = AtQueue /\ AtHand' = AtHand
      /\ AtWriter' \subseteq AtWriter \cup M /\ AtInput' \subseteq AtInput /\ M \subseteq AtInput
  BY <1>1, <1>3, <1>4, Nothing DEF AtPty, AtWriter, AtInput, AtBatch, AtQueue, AtHand
<1>9. Prior(M, AtInput')
  <2> SUFFICES ASSUME NEW a \in M, NEW b \in AtInput', a.from = b.from PROVE FALSE
    BY DEF Prior
  <2>1. PICK y \in ChannelIds : b \in ToSet(inputQ'[y].chunks)
    BY DEF AtInput
  <2>2. y # x /\ b \in InChannel(y) /\ a \in InChannel(x)
    BY <1>3, <2>1, Nothing DEF InChannel
  <2> QED BY <1>0, <2>2 DEF HomeInv
<1>10. Ordered(AtPty, AtWriter \cup M, AtInput', AtBatch, AtQueue, AtHand)
  BY <1>0, <1>8, <1>9, MovedOn DEF StagesInv
<1>11. StagesInv' /\ SentInv'
  BY <1>1, <1>8, <1>10, StagesKept
<1>12. SeqsInv'
  BY <1>0, <1>1, <1>3, <1>4, Nothing DEF SeqsInv
<1> QED BY <1>5, <1>7, <1>11, <1>12 DEF PipeInv

LEMMA WriterWriteStep ==
  ASSUME PipeInv, NEW x \in ChannelIds, WriterWrite(x)
  PROVE  PipeInv'
<1>0. InTypes /\ RouteInv /\ TaskInv /\ HomeInv /\ FreshInv /\ StagesInv /\ SeqsInv /\ SentInv
  BY DEF PipeInv
<1> DEFINE q == writer[x].batch
           to == writer[x].to
           M  == ToSet(q)
<1>1. /\ q # NoBatch /\ pty' = [pty EXCEPT ![to] = @ \o q]
      /\ writer' = [writer EXCEPT ![x] = [batch |-> NoBatch, to |-> None]]
      /\ UNCHANGED <<connVars, chanVars, sent, hand, fwd, task, started, inputQ>>
  BY DEF WriterWrite
<1>2. q \in Seq(Chunks) /\ to \in SessionIds /\ pty[to] \in Seq(Chunks)
  BY <1>0, <1>1 DEF InTypes, Batches
<1>3. pty[to] \o q \in Seq(Chunks) /\ ToSet(pty[to] \o q) = ToSet(pty[to]) \cup M
  BY <1>2, ConcatSets
<1>4. /\ pty' \in [SessionIds -> Seq(Chunks)] /\ pty'[to] = pty[to] \o q
      /\ \A s \in SessionIds : s # to => pty'[s] = pty[s]
  BY <1>0, <1>1, <1>2, <1>3 DEF InTypes
<1>5. /\ writer' \in [ChannelIds -> Batches] /\ writer'[x].batch = <<>>
      /\ \A y \in ChannelIds : y # x => writer'[y] = writer[y]
  <2>1. [batch |-> NoBatch, to |-> None] \in Batches
    BY InputAssumption, Nothing DEF Batches, InputAssumption, NoBatch, None
  <2> QED BY <1>0, <1>1, <2>1 DEF InTypes, NoBatch
<1>6. InTypes'
  BY <1>0, <1>1, <1>4, <1>5 DEF InTypes, connVars, chanVars, NoBatch
<1>7. \A y \in ChannelIds : InChannel(y)' \subseteq InChannel(y)
  BY <1>1, <1>5, Nothing DEF InChannel
<1>8. RouteInv' /\ TaskInv' /\ HomeInv' /\ FreshInv'
  BY <1>0, <1>1, <1>6, <1>7, WriterStep
<1>9. /\ AtInput' = AtInput /\ AtBatch' = AtBatch /\ AtQueue' = AtQueue /\ AtHand' = AtHand
      /\ AtWriter' \subseteq AtWriter /\ M \subseteq AtWriter
  BY <1>1, <1>5, Nothing DEF AtWriter, AtInput, AtBatch, AtQueue, AtHand
<1>10. AtPty' \subseteq AtPty \cup M
  <2> SUFFICES ASSUME NEW a \in AtPty', a \notin M PROVE a \in AtPty
    OBVIOUS
  <2>1. PICK s \in SessionIds : a \in ToSet(pty'[s])
    BY DEF AtPty
  <2>2. a \in ToSet(pty[s])
    BY <1>3, <1>4, <2>1
  <2> QED BY <2>2 DEF AtPty
<1>11. Prior(M, AtWriter')
  <2> SUFFICES ASSUME NEW a \in M, NEW b \in AtWriter', a.from = b.from PROVE FALSE
    BY DEF Prior
  <2>1. PICK y \in ChannelIds : b \in ToSet(writer'[y].batch)
    BY DEF AtWriter
  <2>2. y # x /\ b \in InChannel(y) /\ a \in InChannel(x)
    BY <1>5, <2>1, Nothing DEF InChannel
  <2> QED BY <1>0, <2>2 DEF HomeInv
<1>12. Ordered(AtPty \cup M, AtWriter', AtInput, AtBatch, AtQueue, AtHand)
  BY <1>0, <1>9, <1>11, MovedOn DEF StagesInv
<1>13. StagesInv' /\ SentInv'
  BY <1>1, <1>9, <1>10, <1>12, StagesKept
<1>14. SeqsInv'
  <2>1. Prior(ToSet(pty[to]), M)
    BY <1>0, <1>2, <1>9 DEF StagesInv, Ordered, Prior, AtPty
  <2>2. InSentOrder(pty'[to])
    BY <1>0, <1>2, <1>4, <2>1, OrderJoined DEF SeqsInv
  <2> QED BY <1>0, <1>1, <1>4, <1>5, <2>2, Nothing DEF SeqsInv
<1> QED BY <1>6, <1>8, <1>13, <1>14 DEF PipeInv

(***************************************************************************)
(* Steps of the drain tasks.                                               *)
(***************************************************************************)
\* The task of a connection is the only one that has chunks of it.
LEMMA OwnChunks ==
  ASSUME InTypes, TaskInv, NEW t \in TaskIds, NEW u \in TaskIds, t # u,
         NEW a \in ToSet(task[t].queue) \cup ToSet(task[t].batch),
         NEW b \in ToSet(task[u].queue) \cup ToSet(task[u].batch)
  PROVE  a.from # b.from
<1>1. a.from = task[t].conn /\ b.from = task[u].conn
  BY DEF TaskInv, TaskOK
<1>2. task[t].conn # Absent
  BY Nothing DEF TaskInv, TaskOK
<1> QED BY <1>1, <1>2 DEF TaskInv

\* Looking for the channel.
LEMMA ResolveSteps ==
  ASSUME PipeInv, NEW t \in TaskIds, DrainBound(t) \/ DrainResolve(t)
  PROVE  PipeInv'
<1>0. InTypes /\ RouteInv /\ TaskInv
  BY DEF PipeInv
<1>1. UNCHANGED <<connVars, chanVars, sent, hand, fwd, started, writer, pty, inputQ>>
  BY DEF DrainBound, DrainResolve, TaskOnly
<1>2. task[t] \in Tasks /\ TaskOK(task[t]) /\ task[t].pc \in {"bound", "resolve"}
  BY <1>0 DEF DrainBound, DrainResolve, InTypes, TaskInv
<1>3. task[t].conn \in Viewers /\ task[t].cached = None
  BY <1>2 DEF Tasks, TaskOK
<1>4. PICK r \in Tasks : /\ task' = [task EXCEPT ![t] = r]
                         /\ r.conn = task[t].conn /\ r.queue = task[t].queue
                         /\ r.batch = task[t].batch
                         /\ TaskOK(r)
  <2>1. CASE DrainBound(t)
    <3> DEFINE b == bound[task[t].conn]
               r == [task[t] EXCEPT !.name = b, !.pc = IF b = Absent THEN "send" ELSE "resolve"]
    <3>1. b \in Names \cup {Absent}
      BY <1>0, <1>3 DEF InTypes, Conns
    <3>2. /\ r \in Tasks /\ r.conn = task[t].conn /\ r.queue = task[t].queue
          /\ r.batch = task[t].batch /\ r.cached = None
          /\ r.pc \in {"send", "resolve"} /\ (r.pc = "resolve" => r.name \in Names)
      BY <1>2, <1>3, <3>1 DEF Tasks
    <3>3. task' = [task EXCEPT ![t] = r]
      BY <1>0, <2>1 DEF DrainBound, InTypes
    <3>4. r.conn # Absent
      BY <1>3, <3>2, InputAssumption DEF InputAssumption
    <3>5. TaskOK(r)
      BY <1>2, <3>2, <3>4 DEF TaskOK
    <3> QED BY <3>2, <3>3, <3>5
  <2>2. CASE DrainResolve(t)
    <3> DEFINE r == [task[t] EXCEPT !.cached = chanMap[task[t].name], !.pc = "send"]
    <3>1. chanMap[task[t].name] \in 0..MaxChannels
      <4>1. task[t].name \in Names
        BY <1>2, <2>2 DEF DrainResolve, TaskOK
      <4> QED BY <1>0, <4>1, InputAssumption DEF InTypes, InputAssumption
    <3>2. /\ r \in Tasks /\ r.conn = task[t].conn /\ r.queue = task[t].queue
          /\ r.batch = task[t].batch /\ r.pc = "send"
      BY <1>2, <3>1 DEF Tasks
    <3>3. task' = [task EXCEPT ![t] = r]
      BY <1>0, <2>2 DEF DrainResolve, InTypes
    <3>4. r.conn # Absent
      BY <1>3, <3>2, InputAssumption DEF InputAssumption
    <3>5. TaskOK(r)
      BY <1>2, <3>2, <3>4 DEF TaskOK
    <3> QED BY <3>2, <3>3, <3>5
  <2> QED BY <2>1, <2>2
<1>5. task' \in [TaskIds -> Tasks] /\ task'[t] = r /\ \A u \in TaskIds : u # t => task'[u] = task[u]
  BY <1>0, <1>4 DEF InTypes
<1>6. InTypes'
  BY <1>0, <1>1, <1>5 DEF InTypes, connVars, chanVars
<1>7. RouteInv'
  BY <1>0, <1>1 DEF RouteInv, connVars
<1>8. \A c \in Viewers : sent[c] <= sent'[c]
  BY <1>0, <1>1 DEF InTypes
<1>9. \A u \in TaskIds : /\ task'[u].conn = task[u].conn
                         /\ task'[u].queue = task[u].queue /\ task'[u].batch = task[u].batch
                         /\ task'[u].cached = task[u].cached \/ task[u].cached = None
                         /\ TaskOK(task'[u])
  BY <1>0, <1>3, <1>4, <1>5 DEF TaskInv
<1> QED BY <1>1, <1>6, <1>7, <1>8, <1>9, QuietStep DEF connVars

\* A batch is what was queued.
LEMMA DrainRecvStep ==
  ASSUME PipeInv, NEW t \in TaskIds, DrainRecv(t)
  PROVE  PipeInv'
<1>0. InTypes /\ RouteInv /\ TaskInv /\ HomeInv /\ FreshInv /\ StagesInv /\ SeqsInv /\ SentInv
  BY DEF PipeInv
<1> DEFINE q == task[t].queue
           r == [task[t] EXCEPT !.batch = q, !.queue = <<>>,
                                !.pc = IF task[t].cached = None THEN "bound" ELSE "send"]
           M == ToSet(q)
<1>1. /\ task[t].pc = "recv" /\ task' = [task EXCEPT ![t] = r]
      /\ UNCHANGED <<connVars, chanVars, sent, hand, fwd, started, writer, pty, inputQ>>
  BY <1>0 DEF DrainRecv, TaskOnly, InTypes
<1>2. task[t] \in Tasks /\ TaskOK(task[t])
  BY <1>0 DEF InTypes, TaskInv
<1>3. /\ r \in Tasks /\ r.conn = task[t].conn /\ r.cached = task[t].cached
      /\ r.batch = q /\ r.queue = <<>> /\ q \in Seq(Chunks)
      /\ r.pc \in {"bound", "send"} /\ (r.pc = "bound" => r.cached = None)
  BY <1>2, Nothing DEF Tasks
<1>4. TaskOK(r)
  BY <1>1, <1>2, <1>3, Nothing DEF TaskOK
<1>5. task' \in [TaskIds -> Tasks] /\ task'[t] = r /\ \A u \in TaskIds : u # t => task'[u] = task[u]
  BY <1>0, <1>1, <1>3 DEF InTypes
<1>6. InTypes' /\ RouteInv'
  BY <1>0, <1>1, <1>5 DEF InTypes, RouteInv, connVars, chanVars
<1>7. \A u \in TaskIds : /\ task'[u].conn = task[u].conn /\ task'[u].cached = task[u].cached
                         /\ TaskOK(task'[u])
  BY <1>0, <1>3, <1>4, <1>5 DEF TaskInv
<1>8. TaskInv'
  BY <1>0, <1>1, <1>7, Numbered DEF TaskInv
<1>9. \A x \in ChannelIds : InChannel(x)' = InChannel(x)
  BY <1>1 DEF InChannel
<1>10. HomeInv' /\ FreshInv'
  BY <1>0, <1>1, <1>7, <1>9 DEF HomeInv, FreshInv, connVars
<1>11. /\ AtPty' = AtPty /\ AtWriter' = AtWriter /\ AtInput' = AtInput /\ AtHand' = AtHand
       /\ AtBatch' \subseteq AtBatch \cup M /\ AtQueue' \subseteq AtQueue /\ M \subseteq AtQueue
  BY <1>1, <1>3, <1>5, Nothing DEF AtPty, AtWriter, AtInput, AtBatch, AtQueue, AtHand
<1>12. Prior(M, AtQueue')
  <2> SUFFICES ASSUME NEW a \in M, NEW b \in AtQueue', a.from = b.from PROVE FALSE
    BY DEF Prior
  <2>1. PICK u \in TaskIds : b \in ToSet(task'[u].queue)
    BY DEF AtQueue
  <2>2. u # t /\ b \in ToSet(task[u].queue)
    BY <1>3, <1>5, <2>1, Nothing
  <2> QED BY <1>0, <2>2, OwnChunks
<1>13. Ordered(AtPty, AtWriter, AtInput, AtBatch \cup M, AtQueue', AtHand)
  BY <1>0, <1>11, <1>12, MovedOn DEF StagesInv
<1>14. StagesInv' /\ SentInv'
  BY <1>1, <1>11, <1>13, StagesKept
<1>15. SeqsInv'
  BY <1>0, <1>1, <1>3, <1>5, Nothing DEF SeqsInv
<1> QED BY <1>6, <1>8, <1>10, <1>14, <1>15 DEF PipeInv

\* The batch goes to the input queue of the channel that was resolved, or
\* nowhere.
LEMMA DrainSendStep ==
  ASSUME PipeInv, NEW t \in TaskIds, DrainSend(t)
  PROVE  PipeInv'
<1>0. InTypes /\ RouteInv /\ TaskInv /\ HomeInv /\ FreshInv /\ StagesInv /\ SeqsInv /\ SentInv
  BY DEF PipeInv
<1> DEFINE q == task[t].batch
           k == task[t].cached
           r == [task[t] EXCEPT !.batch = NoBatch, !.pc = "recv"]
           M == ToSet(q)
<1>1. /\ task[t].pc = "send" /\ task' = [task EXCEPT ![t] = r]
      /\ UNCHANGED <<connVars, chanVars, sent, hand, fwd, started, writer, pty>>
  BY <1>0 DEF DrainSend, TaskOnly, InTypes
<1>2. task[t] \in Tasks /\ TaskOK(task[t])
  BY <1>0 DEF InTypes, TaskInv
<1>3. /\ r \in Tasks /\ r.conn = task[t].conn /\ r.cached = k
      /\ r.batch = <<>> /\ r.queue = task[t].queue /\ q \in Seq(Chunks) /\ r.pc = "recv"
  BY <1>2, Nothing DEF Tasks, NoBatch
<1>4. TaskOK(r) /\ task[t].conn # Absent
  BY <1>1, <1>2, <1>3, Nothing DEF TaskOK
<1>5. task' \in [TaskIds -> Tasks] /\ task'[t] = r /\ \A u \in TaskIds : u # t => task'[u] = task[u]
  BY <1>0, <1>1, <1>3 DEF InTypes
<1>6. RouteInv'
  BY <1>0, <1>1 DEF RouteInv, connVars
<1>7. \A u \in TaskIds : /\ task'[u].conn = task[u].conn /\ task'[u].cached = task[u].cached
                         /\ TaskOK(task'[u])
  BY <1>0, <1>3, <1>4, <1>5 DEF TaskInv
<1>8. TaskInv'
  BY <1>0, <1>1, <1>7, Numbered DEF TaskInv
<1>9. /\ AtPty' = AtPty /\ AtWriter' = AtWriter /\ AtHand' = AtHand
      /\ AtBatch' \subseteq AtBatch /\ AtQueue' \subseteq AtQueue /\ M \subseteq AtBatch
  BY <1>1, <1>3, <1>5, Nothing DEF AtPty, AtWriter, AtBatch, AtQueue, AtHand
<1>10. CASE inputQ' = inputQ
  <2>1. InTypes'
    BY <1>0, <1>1, <1>5, <1>10 DEF InTypes, connVars, chanVars
  <2>2. \A y \in ChannelIds : InChannel(y)' = InChannel(y)
    BY <1>1, <1>10 DEF InChannel
  <2>3. HomeInv' /\ FreshInv'
    BY <1>0, <1>1, <1>7, <2>2 DEF HomeInv, FreshInv, connVars
  <2>4. AtInput' = AtInput
    BY <1>10 DEF AtInput
  <2>5. StagesInv' /\ SentInv'
    BY <1>0, <1>1, <1>9, <2>4, StagesKept DEF StagesInv
  <2>6. SeqsInv'
    BY <1>0, <1>1, <1>3, <1>5, <1>10, Nothing DEF SeqsInv
  <2> QED BY <1>6, <1>8, <2>1, <2>3, <2>5, <2>6 DEF PipeInv
<1>11. CASE inputQ' # inputQ
  <2>0. k \in ChannelIds
    <3>1. k # None
      BY <1>11 DEF DrainSend
    <3> QED BY <1>2, <3>1 DEF Tasks, ChannelIds, None
  <2>2. PICK x \in ChannelIds : x = k
    BY <2>0
  <2> DEFINE p == inputQ[x].chunks
             e == [batches |-> inputQ[x].batches + 1, chunks |-> p \o q]
  <2>1. inputQ' = [inputQ EXCEPT ![x] = e]
    BY <1>11, <2>2 DEF DrainSend
  <2>3. /\ inputQ[x] \in [batches : Nat, chunks : Seq(Chunks)]
        /\ p \in Seq(Chunks) /\ inputQ[x].batches + 1 \in Nat
    BY <1>0 DEF InTypes
  <2>4. p \o q \in Seq(Chunks) /\ ToSet(p \o q) = ToSet(p) \cup M
    BY <1>3, <2>3, ConcatSets
  <2>5. e \in [batches : Nat, chunks : Seq(Chunks)] /\ e.chunks = p \o q
    <3>1. e.chunks = p \o q
      OBVIOUS
    <3> QED BY <2>3, <2>4, <3>1
  <2>6. /\ inputQ' \in [ChannelIds -> [batches : Nat, chunks : Seq(Chunks)]]
        /\ inputQ'[x].chunks = p \o q
        /\ \A y \in ChannelIds : y # x => inputQ'[y] = inputQ[y]
    BY <1>0, <2>1, <2>2, <2>5 DEF InTypes
  <2>7. InTypes'
    BY <1>0, <1>1, <1>5, <2>6 DEF InTypes, connVars, chanVars
  <2>8. /\ InChannel(x)' = InChannel(x) \cup M
        /\ \A y \in ChannelIds : y # x => InChannel(y)' = InChannel(y)
    BY <1>1, <2>4, <2>6 DEF InChannel
  <2>9. \A a \in M : a.from = task[t].conn
    BY <1>2 DEF TaskOK
  <2>10. ASSUME NEW y \in ChannelIds, NEW b \in InChannel(y), b.from = task[t].conn
         PROVE  y = x
    BY <1>0, <2>2, <2>10 DEF HomeInv
  <2>11. HomeInv'
    <3>1. ASSUME NEW y \in ChannelIds, NEW z \in ChannelIds,
                 NEW a \in InChannel(y)', NEW b \in InChannel(z)', a.from = b.from
          PROVE  y = z
      <4>1. CASE a \in InChannel(y) /\ b \in InChannel(z)
        BY <1>0, <3>1, <4>1 DEF HomeInv
      <4>2. CASE a \in M /\ y = x
        BY <2>8, <2>9, <2>10, <3>1, <4>2
      <4>3. CASE b \in M /\ z = x
        BY <2>8, <2>9, <2>10, <3>1, <4>3
      <4> QED BY <2>8, <4>1, <4>2, <4>3
    <3>2. ASSUME NEW u \in TaskIds, NEW y \in ChannelIds, NEW a \in InChannel(y)',
                 a.from = task'[u].conn
          PROVE  task'[u].cached = y
      <4>1. CASE a \in InChannel(y)
        BY <1>0, <1>7, <3>2, <4>1 DEF HomeInv
      <4>2. CASE a \in M /\ y = x
        <5>1. task[u].conn = task[t].conn
          BY <1>7, <2>9, <3>2, <4>2
        <5>2. u = t
          BY <1>0, <1>4, <5>1 DEF TaskInv
        <5> QED BY <1>7, <2>2, <4>2, <5>2
      <4> QED BY <2>8, <4>1, <4>2
    <3> QED BY <3>1, <3>2 DEF HomeInv
  <2>12. FreshInv'
    <3> SUFFICES ASSUME NEW c \in Viewers, fwd[c] = None,
                        hand[c] # NoBatch \/ (c \in online /\ sent[c] < MaxChunks)
                 PROVE  /\ \A u \in TaskIds : task'[u].conn # c
                        /\ \A y \in ChannelIds : \A a \in InChannel(y)' : a.from # c
      BY <1>1 DEF FreshInv, connVars
    <3>1. /\ \A u \in TaskIds : task[u].conn # c
          /\ \A y \in ChannelIds : \A a \in InChannel(y) : a.from # c
      BY <1>0 DEF FreshInv
    <3> QED BY <1>7, <2>8, <2>9, <3>1
  <2>13. AtInput' \subseteq AtInput \cup M
    BY <2>2, <2>4, <2>6 DEF AtInput
  <2>14. Prior(M, AtBatch')
    <3> SUFFICES ASSUME NEW a \in M, NEW b \in AtBatch', a.from = b.from PROVE FALSE
      BY DEF Prior
    <3>1. PICK u \in TaskIds : b \in ToSet(task'[u].batch)
      BY DEF AtBatch
    <3>2. u # t /\ b \in ToSet(task[u].batch)
      BY <1>3, <1>5, <3>1, Nothing
    <3> QED BY <1>0, <3>2, OwnChunks
  <2>15. Ordered(AtPty, AtWriter, AtInput \cup M, AtBatch', AtQueue, AtHand)
    BY <1>0, <1>9, <2>14, MovedOn DEF StagesInv
  <2>16. StagesInv' /\ SentInv'
    BY <1>1, <1>9, <2>13, <2>15, StagesKept
  <2>17. SeqsInv'
    <3>1. Prior(ToSet(p), M)
      BY <1>0, <1>9, <2>2 DEF StagesInv, Ordered, Prior, AtInput
    <3>2. InSentOrder(p) /\ InSentOrder(q)
      BY <1>0, <2>2 DEF SeqsInv
    <3>3. InSentOrder(p \o q)
      BY <1>3, <2>3, <3>1, <3>2, OrderJoined
    <3> QED BY <1>0, <1>1, <1>3, <1>5, <2>6, <3>3, Nothing DEF SeqsInv
  <2> QED BY <1>6, <1>8, <2>7, <2>11, <2>12, <2>16, <2>17 DEF PipeInv
<1> QED BY <1>10, <1>11

\* A task that ends has nothing left, and no connection.
LEMMA DrainEndStep ==
  ASSUME PipeInv, NEW t \in TaskIds, DrainEnd(t)
  PROVE  PipeInv'
<1>0. InTypes /\ RouteInv /\ TaskInv /\ HomeInv /\ FreshInv /\ StagesInv /\ SeqsInv /\ SentInv
  BY DEF PipeInv
<1>1. /\ task' = [task EXCEPT ![t] = NoTask] /\ \A c \in Conns : fwd[c] # t
      /\ UNCHANGED <<connVars, chanVars, sent, hand, fwd, started, writer, pty, inputQ>>
  BY DEF DrainEnd, TaskOnly
<1>2. /\ NoTask \in Tasks /\ NoTask.conn = Absent /\ NoTask.queue = <<>> /\ NoTask.batch = <<>>
      /\ NoTask.pc = "none"
  BY InputAssumption, Nothing DEF NoTask, NoBatch, Tasks, None, InputAssumption
<1>3. task' \in [TaskIds -> Tasks] /\ task'[t] = NoTask
      /\ \A u \in TaskIds : u # t => task'[u] = task[u]
  BY <1>0, <1>1, <1>2 DEF InTypes
<1>4. InTypes' /\ RouteInv'
  BY <1>0, <1>1, <1>3 DEF InTypes, RouteInv, connVars, chanVars
<1>5. TaskOK(NoTask)
  BY <1>2, Nothing DEF TaskOK
<1>6. TaskInv'
  BY <1>0, <1>1, <1>2, <1>3, <1>5, Numbered DEF TaskInv
<1>7. \A x \in ChannelIds : InChannel(x)' = InChannel(x) /\ \A a \in InChannel(x) : a.from # Absent
  <2>1. \A x \in ChannelIds : InChannel(x)' = InChannel(x)
    BY <1>1 DEF InChannel
  <2>2. \A x \in ChannelIds : InChannel(x) \subseteq Chunks
    BY <1>0, MembersIn DEF InChannel, InTypes, Batches
  <2> QED BY <2>1, <2>2, InputAssumption DEF Chunks, InputAssumption
<1>8. HomeInv'
  BY <1>0, <1>2, <1>3, <1>7 DEF HomeInv
<1>9. FreshInv'
  BY <1>0, <1>1, <1>2, <1>3, <1>7, InputAssumption DEF FreshInv, connVars, InputAssumption
<1>10. /\ AtPty' = AtPty /\ AtWriter' = AtWriter /\ AtInput' = AtInput /\ AtHand' = AtHand
       /\ AtBatch' \subseteq AtBatch /\ AtQueue' \subseteq AtQueue
  BY <1>1, <1>2, <1>3, Nothing DEF AtPty, AtWriter, AtInput, AtBatch, AtQueue, AtHand
<1>11. StagesInv' /\ SentInv'
  BY <1>0, <1>1, <1>10, StagesKept DEF StagesInv
<1>12. SeqsInv'
  BY <1>0, <1>1, <1>2, <1>3, Nothing DEF SeqsInv
<1> QED BY <1>4, <1>6, <1>8, <1>9, <1>11, <1>12 DEF PipeInv

(***************************************************************************)
(* Steps of the stream's handler.                                          *)
(***************************************************************************)
\* A new chunk comes after all that its viewer has sent.
LEMMA StreamChunkStep ==
  ASSUME PipeInv, NEW c \in Viewers, StreamChunk(c)
  PROVE  PipeInv'
<1>0. InTypes /\ RouteInv /\ TaskInv /\ HomeInv /\ FreshInv /\ StagesInv /\ SeqsInv /\ SentInv
  BY DEF PipeInv
<1>1. /\ c \in online /\ hand[c] = NoBatch /\ sent[c] < MaxChunks
      /\ sent' = [sent EXCEPT ![c] = @ + 1]
      /\ UNCHANGED <<connVars, chanVars, fwd, task, started, inputQ, writer, pty>>
  BY DEF StreamChunk
<1> DEFINE k == Chunk(c)
<1>2. MaxChunks \in Nat /\ sent[c] \in Nat /\ sent[c] + 1 \in 1..MaxChunks /\ c \in Conns
  BY <1>0, <1>1, InputAssumption DEF InTypes, InputAssumption, Conns
<1>3. k.from = c /\ k.n = sent[c] + 1
  BY DEF Chunk
<1>4. PICK h \in Seq(Chunks) : /\ hand' = [hand EXCEPT ![c] = h]
                               /\ h = <<>> \/ (h = <<k>> /\ route[c] # Absent)
  <2>1. CASE route[c] = Absent \/ route[c] \in internal
    BY <2>1, Nothing DEF StreamChunk, NoBatch
  <2>2. CASE ~(route[c] = Absent \/ route[c] \in internal)
    <3>1. route[c] \in Names
      BY <1>0, <1>2, <2>2 DEF InTypes
    <3>2. k \in Chunks
      BY <1>2, <3>1 DEF Chunk, Chunks
    <3>3. <<k>> \in Seq(Chunks)
      <4> HIDE DEF k
      <4> QED BY <3>2
    <3>4. hand' = [hand EXCEPT ![c] = <<k>>]
      BY <2>2 DEF StreamChunk
    <3> QED BY <2>2, <3>3, <3>4
  <2> QED BY <2>1, <2>2
<1>5. /\ hand' \in [Viewers -> Seq(Chunks)] /\ hand'[c] = h
      /\ \A d \in Viewers : d # c => hand'[d] = hand[d]
  BY <1>0, <1>4 DEF InTypes
<1>6. /\ sent' \in [Viewers -> 0..MaxChunks] /\ sent'[c] = sent[c] + 1
      /\ \A d \in Viewers : d # c => sent'[d] = sent[d]
  BY <1>0, <1>1, <1>2 DEF InTypes
<1>7. InTypes'
  BY <1>0, <1>1, <1>5, <1>6 DEF InTypes, connVars, chanVars
<1>8. RouteInv'
  <2>1. ASSUME NEW d \in Viewers, hand'[d] # NoBatch
        PROVE  d \in online /\ route[d] # Absent /\ Len(hand'[d]) = 1 /\ hand'[d][1].from = d
    <3>1. CASE d = c
      <4>1. hand'[d] = <<k>> /\ route[c] # Absent
        BY <1>4, <1>5, <2>1, <3>1 DEF NoBatch
      <4> QED BY <1>1, <1>3, <3>1, <4>1
    <3>2. CASE d # c
      BY <1>0, <1>5, <2>1, <3>2 DEF RouteInv
    <3> QED BY <3>1, <3>2
  <2> QED BY <1>0, <1>1, <2>1 DEF RouteInv, connVars
<1>9. TaskInv'
  BY <1>0, <1>1 DEF TaskInv
<1>10. \A x \in ChannelIds : InChannel(x)' = InChannel(x)
  BY <1>1 DEF InChannel
<1>11. HomeInv'
  BY <1>0, <1>1, <1>10 DEF HomeInv
<1>12. FreshInv'
  <2>1. ASSUME NEW d \in Viewers, fwd[d] = None,
               hand'[d] # NoBatch \/ (d \in online /\ sent'[d] < MaxChunks)
        PROVE  hand[d] # NoBatch \/ (d \in online /\ sent[d] < MaxChunks)
    <3>1. CASE d = c
      BY <1>1, <3>1
    <3>2. CASE d # c
      BY <1>5, <1>6, <2>1, <3>2
    <3> QED BY <3>1, <3>2
  <2> QED BY <1>0, <1>1, <1>10, <2>1 DEF FreshInv, connVars
<1>13. /\ AtPty' = AtPty /\ AtWriter' = AtWriter /\ AtInput' = AtInput
       /\ AtBatch' = AtBatch /\ AtQueue' = AtQueue
  BY <1>1 DEF AtPty, AtWriter, AtInput, AtBatch, AtQueue
<1>14. AtHand' \subseteq AtHand \cup {k}
  <2> SUFFICES ASSUME NEW a \in AtHand', a # k PROVE a \in AtHand
    OBVIOUS
  <2>1. PICK d \in Viewers : a \in ToSet(hand'[d])
    BY DEF AtHand
  <2>2. d # c
    <3>1. ToSet(<<k>>) = {k}
      BY DEF ToSet
    <3> QED BY <1>4, <1>5, <2>1, <3>1, Nothing
  <2> QED BY <1>5, <2>1, <2>2 DEF AtHand
<1>15. ASSUME NEW a \in AtPty \cup AtWriter \cup AtInput \cup AtBatch \cup AtQueue \cup AtHand
       PROVE  /\ a.n <= sent'[a.from]
              /\ a.from = c => a.n < k.n
  <2>1. a \in Chunks
    BY <1>0, StagesTyped
  <2>2. a.n \in Nat /\ a.from \in Viewers /\ a.n <= sent[a.from] /\ sent[a.from] \in Nat
    BY <1>0, <2>1 DEF Chunks, SentInv, InTypes
  <2> QED BY <1>2, <1>3, <1>6, <2>2
<1>16. StagesInv'
  <2>1. \A A \in {AtPty, AtWriter, AtInput, AtBatch, AtQueue} : Prior(A, AtHand) => Prior(A, AtHand')
    BY <1>3, <1>14, <1>15 DEF Prior
  <2> QED BY <1>0, <1>13, <2>1 DEF StagesInv, Ordered
<1>17. SentInv'
  <2>1. k.n <= sent'[k.from]
    BY <1>2, <1>3, <1>6
  <2> QED BY <1>13, <1>14, <1>15, <2>1 DEF SentInv
<1>18. SeqsInv'
  BY <1>0, <1>1 DEF SeqsInv
<1> QED BY <1>7, <1>8, <1>9, <1>11, <1>12, <1>16, <1>17, <1>18 DEF PipeInv

\* The chunk goes to the task of its connection, or to a new one, or nowhere.
LEMMA StreamForwardStep ==
  ASSUME PipeInv, NEW c \in Viewers, StreamForward(c)
  PROVE  PipeInv'
<1>0. InTypes /\ RouteInv /\ TaskInv /\ HomeInv /\ FreshInv /\ StagesInv /\ SeqsInv /\ SentInv
  BY DEF PipeInv
<1> DEFINE q == hand[c]
           M == ToSet(q)
<1>1. /\ q # NoBatch /\ hand' = [hand EXCEPT ![c] = NoBatch]
      /\ UNCHANGED <<connVars, chanVars, sent, inputQ, writer, pty>>
  BY DEF StreamForward
<1>2. /\ q \in Seq(Chunks) /\ InSentOrder(q) /\ \A a \in M : a.from = c
      /\ c \in Conns /\ c \in online /\ route[c] # Absent /\ c # Absent
  <2>1. q \in Seq(Chunks) /\ Len(q) = 1 /\ q[1].from = c /\ c \in online /\ route[c] # Absent
    BY <1>0, <1>1 DEF RouteInv, InTypes
  <2> QED BY <2>1, Single, InputAssumption DEF Conns, InputAssumption
<1>3. /\ hand' \in [Viewers -> Seq(Chunks)] /\ hand'[c] = <<>>
      /\ \A d \in Viewers : d # c => hand'[d] = hand[d]
  BY <1>0, <1>1, Nothing DEF InTypes, NoBatch
<1>4. \A x \in ChannelIds : InChannel(x)' = InChannel(x)
  BY <1>1 DEF InChannel
<1>5. /\ AtPty' = AtPty /\ AtWriter' = AtWriter /\ AtInput' = AtInput
      /\ AtHand' \subseteq AtHand /\ M \subseteq AtHand
  BY <1>1, <1>3, Nothing DEF AtPty, AtWriter, AtInput, AtHand
<1>6. Prior(M, AtHand')
  <2> SUFFICES ASSUME NEW a \in M, NEW b \in AtHand', a.from = b.from PROVE FALSE
    BY DEF Prior
  <2>1. PICK d \in Viewers : b \in ToSet(hand'[d])
    BY DEF AtHand
  <2>2. d # c /\ hand[d] # NoBatch /\ b \in ToSet(hand[d])
    BY <1>3, <2>1, Nothing DEF NoBatch
  <2>3. hand[d] \in Seq(Chunks) /\ Len(hand[d]) = 1 /\ hand[d][1].from = d
    BY <1>0, <2>2 DEF RouteInv, InTypes
  <2> QED BY <1>2, <2>2, <2>3, Single
<1>7. CASE UNCHANGED <<fwd, started, task>>
  <2>1. InTypes'
    BY <1>0, <1>1, <1>3, <1>7 DEF InTypes, connVars, chanVars
  <2>2. RouteInv' /\ TaskInv'
    BY <1>0, <1>1, <1>3, <1>7 DEF RouteInv, TaskInv, connVars, NoBatch
  <2>3. HomeInv' /\ FreshInv'
    BY <1>0, <1>1, <1>3, <1>4, <1>7 DEF HomeInv, FreshInv, connVars, NoBatch
  <2>4. AtBatch' = AtBatch /\ AtQueue' = AtQueue
    BY <1>7 DEF AtBatch, AtQueue
  <2>5. StagesInv' /\ SentInv'
    BY <1>0, <1>1, <1>5, <2>4, StagesKept DEF StagesInv
  <2>6. SeqsInv'
    BY <1>0, <1>1, <1>7 DEF SeqsInv
  <2> QED BY <2>1, <2>2, <2>3, <2>5, <2>6 DEF PipeInv
<1>8. ASSUME fwd[c] # None, UNCHANGED <<fwd, started>>,
             task' = [task EXCEPT ![fwd[c]].queue = @ \o q]
      PROVE  PipeInv'
  <2>1. fwd[c] \in TaskIds
    BY <1>0, <1>2, <1>8, Numbered
  <2>2. PICK t \in TaskIds : t = fwd[c]
    BY <2>1
  <2> DEFINE p == task[t].queue
             r == [task[t] EXCEPT !.queue = p \o q]
  <2>3. task[t] \in Tasks /\ TaskOK(task[t]) /\ task[t].conn = c /\ p \in Seq(Chunks)
    BY <1>0, <1>2, <1>8, <2>2 DEF InTypes, TaskInv, Tasks
  <2>4. p \o q \in Seq(Chunks) /\ ToSet(p \o q) = ToSet(p) \cup M
    BY <1>2, <2>3, ConcatSets
  <2>5. /\ r \in Tasks /\ r.conn = c /\ r.batch = task[t].batch /\ r.queue = p \o q
        /\ r.pc = task[t].pc /\ r.cached = task[t].cached /\ r.name = task[t].name
    BY <2>3, <2>4 DEF Tasks
  <2>6. TaskOK(r)
    BY <1>2, <2>3, <2>4, <2>5 DEF TaskOK
  <2>7. task' = [task EXCEPT ![t] = r]
    BY <1>0, <1>8, <2>2 DEF InTypes
  <2>8. /\ task' \in [TaskIds -> Tasks] /\ task'[t] = r
        /\ \A u \in TaskIds : u # t => task'[u] = task[u]
    BY <1>0, <2>5, <2>7 DEF InTypes
  <2>9. InTypes'
    BY <1>0, <1>1, <1>3, <1>8, <2>8 DEF InTypes, connVars, chanVars
  <2>10. RouteInv'
    BY <1>0, <1>1, <1>3, <1>8 DEF RouteInv, connVars, NoBatch
  <2>11. \A u \in TaskIds : /\ task'[u].conn = task[u].conn /\ task'[u].cached = task[u].cached
                            /\ TaskOK(task'[u])
    BY <1>0, <2>3, <2>5, <2>6, <2>8 DEF TaskInv
  <2>12. TaskInv'
    <3>1. \A d \in Conns : fwd[d] # None => fwd[d] \in TaskIds
      BY <1>0, Numbered
    <3>2. \A d \in Conns : fwd'[d] # None => d \in Viewers /\ task'[fwd'[d]].conn = d
      BY <1>0, <1>8, <2>11, <3>1 DEF TaskInv
    <3>3. \A u \in TaskIds : u > started' => task'[u].conn = Absent
      BY <1>0, <1>8, <2>11 DEF TaskInv
    <3>4. \A u, v \in TaskIds : task'[u].conn = task'[v].conn /\ task'[u].conn # Absent => u = v
      BY <1>0, <2>11 DEF TaskInv
    <3> QED BY <2>11, <3>2, <3>3, <3>4 DEF TaskInv
  <2>13. HomeInv' /\ FreshInv'
    BY <1>0, <1>1, <1>3, <1>4, <1>8, <2>11 DEF HomeInv, FreshInv, connVars, NoBatch
  <2>14. AtBatch' = AtBatch
    <3> HIDE DEF r
    <3>1. \A u \in TaskIds : task'[u].batch = task[u].batch
      BY <2>5, <2>8
    <3> QED BY <3>1 DEF AtBatch
  <2>15. AtQueue' \subseteq AtQueue \cup M
    <3> SUFFICES ASSUME NEW a \in AtQueue', a \notin M PROVE a \in AtQueue
      OBVIOUS
    <3>1. PICK u \in TaskIds : a \in ToSet(task'[u].queue)
      BY DEF AtQueue
    <3>2. a \in ToSet(task[u].queue)
      BY <2>4, <2>5, <2>8, <3>1
    <3> QED BY <3>2 DEF AtQueue
  <2>16. Ordered(AtPty, AtWriter, AtInput, AtBatch, AtQueue \cup M, AtHand')
    BY <1>0, <1>5, <1>6, MovedOn DEF StagesInv
  <2>17. StagesInv' /\ SentInv'
    BY <1>1, <1>5, <2>14, <2>15, <2>16, StagesKept
  <2>18. SeqsInv'
    <3>1. Prior(ToSet(p), M)
      BY <1>0, <1>5 DEF StagesInv, Ordered, Prior, AtQueue
    <3>2. InSentOrder(p \o q)
      BY <1>0, <1>2, <2>3, <3>1, OrderJoined DEF SeqsInv
    <3>3. \A u \in TaskIds : InSentOrder(task'[u].batch) /\ InSentOrder(task'[u].queue)
      <4> HIDE DEF r
      <4> TAKE u \in TaskIds
      <4>1. InSentOrder(task[u].batch) /\ InSentOrder(task[u].queue)
        BY <1>0 DEF SeqsInv
      <4>2. CASE u = t
        BY <2>2, <2>5, <2>8, <3>2, <4>1, <4>2
      <4>3. CASE u # t
        BY <2>8, <4>1, <4>3
      <4> QED BY <4>2, <4>3
    <3> QED BY <1>0, <1>1, <3>3 DEF SeqsInv
  <2> QED BY <2>9, <2>10, <2>12, <2>13, <2>17, <2>18 DEF PipeInv
<1>9. ASSUME fwd[c] = None, started < MaxTasks, started' = started + 1,
             fwd' = [fwd EXCEPT ![c] = started'],
             task' = [task EXCEPT ![started'] =
                        [NoTask EXCEPT !.conn = c, !.pc = "recv", !.queue = q]]
      PROVE  PipeInv'
  <2>1. /\ started + 1 \in TaskIds /\ started \in Nat /\ started + 1 \in 0..MaxTasks
        /\ 0..started \subseteq 0..(started + 1) /\ started + 1 # None
    BY <1>0, <1>9, InputAssumption DEF InTypes, TaskIds, InputAssumption, None
  <2>2. PICK t \in TaskIds : t = started + 1
    BY <2>1
  <2> DEFINE r == [NoTask EXCEPT !.conn = c, !.pc = "recv", !.queue = q]
  <2>3. /\ r \in Tasks /\ r.conn = c /\ r.batch = <<>> /\ r.queue = q
        /\ r.pc = "recv" /\ r.cached = None
    <3>1. None \in 0..MaxChannels
      BY InputAssumption DEF InputAssumption, None
    <3>2. NoTask \in Tasks /\ NoTask.batch = <<>> /\ NoTask.cached = None
      BY <3>1, Nothing DEF NoTask, NoBatch, Tasks
    <3> QED BY <1>2, <3>2 DEF Tasks
  <2>4. TaskOK(r)
    BY <1>2, <2>3, Nothing DEF TaskOK
  <2>5. /\ task' \in [TaskIds -> Tasks] /\ task'[t] = r
        /\ \A u \in TaskIds : u # t => task'[u] = task[u]
    BY <1>0, <1>9, <2>2, <2>3 DEF InTypes
  <2>6. /\ fwd' \in [Conns -> 0..started'] /\ fwd'[c] = t
        /\ \A d \in Conns : d # c => fwd'[d] = fwd[d] /\ fwd[d] # t
    BY <1>0, <1>2, <1>9, <2>1, <2>2, Numbered DEF InTypes
  <2>7. InTypes'
    BY <1>0, <1>1, <1>3, <1>9, <2>1, <2>5, <2>6 DEF InTypes, connVars, chanVars
  <2>8. RouteInv'
    BY <1>0, <1>1, <1>2, <1>3, <2>6 DEF RouteInv, connVars, NoBatch
  <2>9. /\ task[t].conn = Absent /\ \A u \in TaskIds : task[u].conn # c
        /\ \A x \in ChannelIds : \A a \in InChannel(x) : a.from # c
    <3>1. t > started
      BY <2>1, <2>2
    <3> QED BY <1>0, <1>1, <1>9, <3>1 DEF TaskInv, FreshInv
  <2>10. TaskInv'
    <3>1. \A d \in Conns : fwd'[d] # None => d \in Viewers /\ task'[fwd'[d]].conn = d
      <4> TAKE d \in Conns
      <4>1. CASE d = c
        BY <2>3, <2>5, <2>6, <4>1
      <4>2. CASE d # c
        <5>1. fwd[d] # None => fwd[d] \in TaskIds
          BY <1>0, Numbered
        <5> QED BY <1>0, <2>5, <2>6, <4>2, <5>1 DEF TaskInv
      <4> QED BY <4>1, <4>2
    <3>2. \A u \in TaskIds : u > started' => task'[u].conn = Absent
      <4> TAKE u \in TaskIds
      <4> HAVE u > started'
      <4>1. u > started /\ u # t
        BY <1>9, <2>1, <2>2 DEF TaskIds
      <4> QED BY <1>0, <2>5, <4>1 DEF TaskInv
    <3>3. \A u \in TaskIds : TaskOK(task'[u])
      BY <1>0, <2>4, <2>5 DEF TaskInv
    <3>4. \A u, v \in TaskIds : task'[u].conn = task'[v].conn /\ task'[u].conn # Absent => u = v
      <4> HIDE DEF r
      <4>1. \A u \in TaskIds : u # t => task'[u].conn = task[u].conn /\ task'[u].conn # c
        BY <2>5, <2>9
      <4>2. task'[t].conn = c
        BY <2>3, <2>5
      <4> QED BY <1>0, <4>1, <4>2 DEF TaskInv
    <3> QED BY <3>1, <3>2, <3>3, <3>4 DEF TaskInv
  <2>11. HomeInv'
    <3> HIDE DEF r
    <3>1. ASSUME NEW u \in TaskIds, NEW x \in ChannelIds, NEW a \in InChannel(x),
                 a.from = task'[u].conn
          PROVE  task'[u].cached = x
      BY <1>0, <2>3, <2>5, <2>9, <3>1 DEF HomeInv
    <3>2. \A x, y \in ChannelIds : \A a \in InChannel(x), b \in InChannel(y) :
            a.from = b.from => x = y
      BY <1>0 DEF HomeInv
    <3> QED BY <1>4, <3>1, <3>2 DEF HomeInv
  <2>12. FreshInv'
    <3> SUFFICES ASSUME NEW d \in Viewers, fwd'[d] = None,
                        hand'[d] # NoBatch \/ (d \in online /\ sent[d] < MaxChunks)
                 PROVE  /\ \A u \in TaskIds : task'[u].conn # d
                        /\ \A y \in ChannelIds : \A a \in InChannel(y) : a.from # d
      BY <1>1, <1>4 DEF FreshInv, connVars
    <3>1. d # c /\ d \in Conns
      BY <2>1, <2>2, <2>6 DEF Conns
    <3>2. /\ \A u \in TaskIds : task[u].conn # d
          /\ \A y \in ChannelIds : \A a \in InChannel(y) : a.from # d
      BY <1>0, <1>3, <2>6, <3>1 DEF FreshInv
    <3> QED BY <2>3, <2>5, <3>1, <3>2
  <2>13. AtBatch' \subseteq AtBatch /\ AtQueue' \subseteq AtQueue \cup M
    <3> HIDE DEF r
    <3>1. ASSUME NEW u \in TaskIds
          PROVE  ToSet(task'[u].batch) \subseteq AtBatch /\ ToSet(task'[u].queue) \subseteq AtQueue \cup M
      <4>1. CASE u = t
        BY <2>3, <2>5, <4>1, Nothing
      <4>2. CASE u # t
        BY <2>5, <4>2 DEF AtBatch, AtQueue
      <4> QED BY <4>1, <4>2
    <3> QED BY <3>1 DEF AtBatch, AtQueue
  <2>14. Ordered(AtPty, AtWriter, AtInput, AtBatch, AtQueue \cup M, AtHand')
    BY <1>0, <1>5, <1>6, MovedOn DEF StagesInv
  <2>15. StagesInv' /\ SentInv'
    BY <1>1, <1>5, <2>13, <2>14, StagesKept
  <2>16. SeqsInv'
    BY <1>0, <1>1, <1>2, <2>3, <2>5, Nothing DEF SeqsInv
  <2> QED BY <2>7, <2>8, <2>10, <2>11, <2>12, <2>15, <2>16 DEF PipeInv
<1> QED BY <1>7, <1>8, <1>9 DEF StreamForward

(***************************************************************************)
(* The order of input.                                                     *)
(***************************************************************************)
LEMMA PipeInit == Init => PipeInv
<1> SUFFICES ASSUME Init PROVE PipeInv
  OBVIOUS
<1> USE DEF Init
<1>1. /\ MaxChannels \in Nat /\ MaxSessions \in Nat /\ MaxChunks \in Nat /\ MaxTasks \in Nat
      /\ Viewers \subseteq Conns /\ Wms \subseteq Conns
  BY InputAssumption DEF InputAssumption, Conns
<1>2. /\ NoTask \in Tasks /\ NoTask.conn = Absent /\ NoTask.queue = <<>>
      /\ NoTask.batch = <<>> /\ NoTask.pc = "none"
  BY <1>1, Nothing DEF NoTask, NoBatch, Tasks, None
<1>3. NoInput \in [batches : Nat, chunks : Seq(Chunks)] /\ NoInput.chunks = <<>>
  BY Nothing DEF NoInput
<1>4. [batch |-> NoBatch, to |-> None] \in Batches
  BY <1>1, Nothing DEF Batches, NoBatch, None
<1>5. InTypes
  BY <1>1, <1>2, <1>3, <1>4, Nothing DEF InTypes, NoBatch, None
<1>6. RouteInv
  BY <1>1 DEF RouteInv
<1>7. TaskOK(NoTask)
  BY <1>2, Nothing DEF TaskOK
<1>8. TaskInv
  BY <1>2, <1>7 DEF TaskInv
<1>9. \A x \in ChannelIds : InChannel(x) = {}
  BY <1>3, Nothing DEF InChannel, NoBatch
<1>10. HomeInv
  BY <1>9 DEF HomeInv
<1>11. FreshInv
  <2>1. \A t \in TaskIds : \A c \in Viewers : task[t].conn # c
    BY <1>2, InputAssumption DEF InputAssumption
  <2> QED BY <1>9, <2>1 DEF FreshInv
<1>12. /\ AtPty = {} /\ AtWriter = {} /\ AtInput = {} /\ AtBatch = {} /\ AtQueue = {}
       /\ AtHand = {}
  BY <1>2, <1>3, Nothing DEF AtPty, AtWriter, AtInput, AtBatch, AtQueue, AtHand, NoBatch
<1>13. StagesInv /\ SentInv
  BY <1>12, Nothing DEF StagesInv, SentInv, Ordered
<1>14. SeqsInv
  BY <1>2, <1>3, Nothing DEF SeqsInv, NoBatch
<1> QED BY <1>5, <1>6, <1>8, <1>10, <1>11, <1>13, <1>14 DEF PipeInv

LEMMA PipeSteps == ASSUME ~Reattach, PipeInv, [Next]_vars PROVE PipeInv'
<1>1. CASE UNCHANGED vars
  BY <1>1, ChannelSteps
<1>2. ASSUME NEW c \in Conns, NEW n \in Names, AttachCall(c, n) PROVE PipeInv'
  BY <1>2, RoutingSteps DEF AttachCall
<1>3. ASSUME NEW c \in Conns, AttachBind(c) \/ EvictConn(c) \/ EvictChannel(c) \/ EvictUnmark(c)
      PROVE  PipeInv'
  BY <1>3, RoutingSteps, ChannelSteps DEF AttachBind, EvictConn, EvictChannel, pipeVars
<1>4. ASSUME NEW c \in Viewers,
             Spawn(c) \/ KillClient(c) \/ StreamChunk(c) \/ StreamForward(c) \/ StreamEnd(c)
      PROVE  PipeInv'
  BY <1>4, RoutingSteps, ChannelSteps, StreamChunkStep, StreamForwardStep
     DEF KillClient, StreamEnd, pipeVars
<1>5. ASSUME NEW t \in TaskIds,
             DrainRecv(t) \/ DrainBound(t) \/ DrainResolve(t) \/ DrainSend(t) \/ DrainEnd(t)
      PROVE  PipeInv'
  BY <1>5, ResolveSteps, DrainRecvStep, DrainSendStep, DrainEndStep
<1>6. ASSUME NEW x \in ChannelIds, SessionEnd(x) \/ WriterTake(x) \/ WriterWrite(x) PROVE PipeInv'
  BY <1>6, ChannelSteps, WriterTakeStep, WriterWriteStep
<1>7. CASE \/ \E c \in Viewers, n \in Names : SendAttributed(c, n)
           \/ \E n \in Names : Reap(n)
           \/ \E w \in Wms, n \in Names : Subscribe(w, n)
           \/ \E e \in calls : Deliver(e)
  BY <1>7, ChannelSteps
<1> QED BY <1>1, <1>2, <1>3, <1>4, <1>5, <1>6, <1>7 DEF Next

LEMMA PipeAlways == ASSUME ~Reattach PROVE Spec => []PipeInv
<1>1. PipeInv /\ [Next]_vars => PipeInv'
  BY PipeSteps
<1> QED BY <1>1, PipeInit, PTL DEF Spec

\* Chunks of one viewer reach a PTY in the order its stream carried them, none
\* twice, whatever the queues, their capacity and the number of connections; a
\* connection attaches once, as the clients of this repository do.
THEOREM InputKeepsItsOrder ==
  ASSUME ~Reattach PROVE Spec => []InputInOrder
<1>1. PipeInv => InputInOrder
  BY DEF PipeInv, SeqsInv, InputInOrder
<1> QED BY <1>1, PipeAlways, PTL

(***************************************************************************)
(* A channel after its window manager.                                     *)
(***************************************************************************)
LEMMA WmInit == Init => WmInv
<1>1. MaxChannels \in Nat
  BY InputAssumption DEF InputAssumption
<1> QED BY <1>1 DEF Init, WmInv, WmTypes, None

\* What the tables hold are instances, and modes are connections.
LEMMA WmFacts ==
  ASSUME WmInv
  PROVE  /\ created \in Nat /\ \A n \in Names : chanMap[n] \in Nat /\ chanMap[n] <= created
         /\ \A n \in Names : chanMap[n] # None => chanMap[n] \in ChannelIds
         /\ \A y \in ChannelIds : mode[y] # Absent => mode[y] \in Wms
         /\ Wms \subseteq Conns /\ Absent \notin Names /\ Absent \notin Conns
<1>1. created \in 0..MaxChannels /\ MaxChannels \in Nat /\ \A n \in Names : chanMap[n] \in 0..created
  BY InputAssumption DEF InputAssumption, WmInv, WmTypes
<1>2. \A n \in Names : chanMap[n] # None => chanMap[n] \in ChannelIds
  BY <1>1 DEF ChannelIds, None
<1>3. Wms \subseteq Conns /\ Absent \notin Names /\ Absent \notin Conns
  BY InputAssumption DEF InputAssumption, Conns
<1>4. \A y \in ChannelIds : mode[y] # Absent => mode[y] \in Wms
  BY DEF WmInv, WmTypes
<1> QED BY <1>1, <1>2, <1>3, <1>4

\* Steps after which whoever might have a channel still may.
LEMMA WmKept ==
  ASSUME WmInv, WmTypes', UNCHANGED <<chanMap, created, mode>>,
         \A w \in Wms, n \in Names : MayHave(w, n) => MayHave(w, n)'
  PROVE  WmInv'
<1>1. ASSUME NEW n \in Names, chanMap[n] # None, mode[chanMap[n]] # Absent
      PROVE  MayHave(mode[chanMap[n]], n)'
  <2>1. mode[chanMap[n]] \in Wms /\ MayHave(mode[chanMap[n]], n)
    BY <1>1, WmFacts DEF WmInv
  <2>2. PICK w \in Wms : w = mode[chanMap[n]]
    BY <2>1
  <2>3. MayHave(w, n)'
    BY <2>1, <2>2
  <2> QED BY <2>2, <2>3
<1> QED BY <1>1 DEF WmInv

\* A new channel has no window manager, and no other name.
LEMMA WmCreates ==
  ASSUME WmInv, NEW n \in Names, NEW x \in ChannelIds, LookupOrCreate(n, x),
         UNCHANGED <<online, bound, leaving, wasBound, mode>>,
         attaching' \in [Conns -> Names \cup {Absent}]
  PROVE  WmInv'
<1>1. \A w, m : MayHave(w, m)' <=> MayHave(w, m)
  BY DEF MayHave
<1>2. CASE UNCHANGED <<chanMap, created>>
  BY <1>1, <1>2 DEF WmInv, WmTypes
<1>3. ASSUME x = created + 1, created' = x, chanMap' = [chanMap EXCEPT ![n] = x]
      PROVE  WmInv'
  <2>1. /\ chanMap'[n] = x /\ created \in Nat /\ created < x /\ mode[x] = Absent
        /\ \A m \in Names : m # n => chanMap'[m] = chanMap[m]
        /\ \A m \in Names : chanMap[m] \in Nat /\ chanMap[m] <= created
    BY <1>3, WmFacts DEF WmInv, WmTypes
  <2>2. ASSUME NEW m \in Names, chanMap'[m] # None, mode[chanMap'[m]] # Absent
        PROVE  MayHave(mode[chanMap'[m]], m)
    <3>1. m # n
      BY <2>1, <2>2
    <3> QED BY <2>1, <2>2, <3>1 DEF WmInv
  <2>3. ASSUME NEW l \in Names, NEW m \in Names, chanMap'[l] = chanMap'[m], chanMap'[m] # None
        PROVE  l = m
    <3>1. CASE l # n /\ m # n
      BY <2>1, <2>3, <3>1 DEF WmInv
    <3>2. CASE l = n \/ m = n
      <4>1. l = n /\ m = n
        BY <2>1, <2>3, <3>2
      <4> QED BY <4>1
    <3> QED BY <3>1, <3>2
  <2>4. \A y \in ChannelIds : y > created' => mode[y] = Absent
    BY <1>3, <2>1 DEF WmInv, ChannelIds
  <2>5. WmTypes'
    <3>1. created' \in 0..MaxChannels
      BY <1>3, InputAssumption DEF ChannelIds, InputAssumption
    <3>2. 0..created \subseteq 0..x /\ x \in 0..x
      BY <1>3, <2>1
    <3>3. chanMap' \in [Names -> 0..created']
      BY <1>3, <3>2 DEF WmInv, WmTypes
    <3> QED BY <3>1, <3>3 DEF WmInv, WmTypes
  <2> QED BY <1>1, <2>2, <2>3, <2>4, <2>5 DEF WmInv
<1> QED BY <1>2, <1>3 DEF LookupOrCreate

\* A connection is bound, goes, or is purged.
LEMMA WmConnSteps ==
  ASSUME WmInv, NEW c \in Conns, AttachBind(c) \/ EvictConn(c) \/ EvictChannel(c)
  PROVE  WmInv'
<1>1. CASE AttachBind(c)
  <2>1. UNCHANGED <<online, leaving, wasBound, chanMap, created, mode>>
    BY <1>1 DEF AttachBind
  <2>2. WmTypes'
    BY <1>1, <2>1 DEF AttachBind, WmInv, WmTypes
  <2> QED BY <2>1, <2>2, WmKept DEF MayHave
<1>2. CASE EvictConn(c)
  <2>1. /\ c \in online /\ online' = online \ {c} /\ leaving' = [leaving EXCEPT ![c] = bound[c]]
        /\ wasBound' = [wasBound EXCEPT ![c] = bound[c]] /\ bound' = [bound EXCEPT ![c] = Absent]
        /\ UNCHANGED <<attaching, chanMap, created, mode>>
    BY <1>2 DEF EvictConn, chanVars
  <2>2. WmTypes'
    BY <2>1 DEF WmInv, WmTypes
  <2>3. ASSUME NEW w \in Wms, NEW n \in Names, MayHave(w, n) PROVE MayHave(w, n)'
    <3>1. CASE w = c
      <4>1. leaving'[c] = bound[c] /\ wasBound'[c] = bound[c]
        BY <2>1 DEF WmInv, WmTypes
      <4> QED BY <3>1, <4>1 DEF MayHave
    <3>2. CASE w # c
      <4>1. w \in Conns
        BY WmFacts
      <4>2. leaving'[w] = leaving[w] /\ wasBound'[w] = wasBound[w]
        BY <2>1, <3>2, <4>1 DEF WmInv, WmTypes
      <4> QED BY <2>1, <2>3, <3>2, <4>2 DEF MayHave
    <3> QED BY <3>1, <3>2
  <2> QED BY <2>1, <2>2, <2>3, WmKept
<1>3. CASE EvictChannel(c)
  <2> DEFINE l == leaving[c]
             x == chanMap[l]
  <2>1. /\ l \in Names /\ leaving' = [leaving EXCEPT ![c] = Absent]
        /\ UNCHANGED <<online, attaching, bound, wasBound, chanMap, created>>
    BY <1>3 DEF EvictChannel, WmInv, WmTypes
  <2>2. /\ x # None /\ mode[x] = c => mode' = [mode EXCEPT ![x] = Absent]
        /\ ~(x # None /\ mode[x] = c) => mode' = mode
    BY <1>3 DEF EvictChannel
  <2>3. ASSUME NEW y \in ChannelIds, mode'[y] # Absent
        PROVE  mode'[y] = mode[y] /\ (mode[y] = c => x # y)
    <3> HIDE DEF x
    <3>1. mode \in [ChannelIds -> Wms \cup {Absent}]
      BY DEF WmInv, WmTypes
    <3>2. CASE x # None /\ mode[x] = c
      BY <2>2, <2>3, <3>1, <3>2
    <3>3. CASE x = None
      BY <2>2, <2>3, <3>3 DEF ChannelIds, None
    <3>4. CASE mode[x] # c
      BY <2>2, <2>3, <3>4
    <3> QED BY <3>2, <3>3, <3>4
  <2>4. ASSUME NEW n \in Names, chanMap[n] # None, mode'[chanMap[n]] # Absent
        PROVE  MayHave(mode[chanMap[n]], n)'
    <3>1. PICK y \in ChannelIds : y = chanMap[n]
      BY <2>4, WmFacts
    <3>2. mode'[y] = mode[y] /\ (mode[y] = c => x # y)
      BY <2>3, <2>4, <3>1
    <3>3. mode[y] \in Conns /\ MayHave(mode[y], n)
      <4>1. mode[y] # Absent /\ mode[y] \in Wms /\ Wms \subseteq Conns
        BY <2>4, <3>1, <3>2, WmFacts
      <4> QED BY <2>4, <3>1, <4>1 DEF WmInv
    <3>4. mode[y] \in online \/ wasBound[mode[y]] # n \/ leaving'[mode[y]] = n
      <4>1. CASE mode[y] = c
        <5>1. l # n
          BY <3>1, <3>2, <4>1
        <5> QED BY <3>3, <4>1, <5>1 DEF MayHave
      <4>2. CASE mode[y] # c
        <5>1. leaving'[mode[y]] = leaving[mode[y]]
          BY <2>1, <3>3, <4>2 DEF WmInv, WmTypes
        <5> QED BY <3>3, <5>1 DEF MayHave
      <4> QED BY <4>1, <4>2
    <3> QED BY <2>1, <3>1, <3>2, <3>4 DEF MayHave
  <2>5. \A y \in ChannelIds : y > created => mode'[y] = Absent
    BY <2>3 DEF WmInv
  <2>6. WmTypes'
    <3>1. mode' \in [ChannelIds -> Wms \cup {Absent}]
      BY <2>2 DEF WmInv, WmTypes
    <3> QED BY <2>1, <3>1 DEF WmInv, WmTypes
  <2> QED BY <2>1, <2>4, <2>5, <2>6 DEF WmInv
<1> QED BY <1>1, <1>2, <1>3

\* The last subscriber owns the channel.
LEMMA WmSubscribes ==
  ASSUME WmInv, NEW v \in Wms, NEW n \in Names, Subscribe(v, n)
  PROVE  WmInv'
<1> DEFINE x == chanMap[n]
<1>1. /\ v \in online /\ x # None /\ mode' = [mode EXCEPT ![x] = v]
      /\ UNCHANGED <<online, attaching, bound, leaving, wasBound, chanMap, created>>
  BY DEF Subscribe, connVars
<1>2. /\ x \in ChannelIds /\ x <= created /\ created \in Nat
      /\ \A m \in Names : chanMap[m] # None => chanMap[m] \in ChannelIds
  BY <1>1, WmFacts
<1> HIDE DEF x
<1>3. mode'[x] = v /\ \A y \in ChannelIds : y # x => mode'[y] = mode[y]
  BY <1>1, <1>2 DEF WmInv, WmTypes
<1>4. ASSUME NEW m \in Names, chanMap[m] # None, mode'[chanMap[m]] # Absent
      PROVE  MayHave(mode[chanMap[m]], m)'
  <2>1. CASE chanMap[m] = x
    BY <1>1, <1>3, <2>1 DEF MayHave
  <2>2. CASE chanMap[m] # x
    <3>1. mode'[chanMap[m]] = mode[chanMap[m]]
      BY <1>2, <1>3, <1>4, <2>2
    <3>2. MayHave(mode[chanMap[m]], m)
      BY <1>4, <3>1 DEF WmInv
    <3> QED BY <1>1, <3>1, <3>2 DEF MayHave
  <2> QED BY <2>1, <2>2
<1>5. \A y \in ChannelIds : y > created => mode'[y] = Absent
  BY <1>2, <1>3 DEF WmInv, ChannelIds
<1>6. WmTypes'
  <2>1. mode' \in [ChannelIds -> Wms \cup {Absent}]
    BY <1>1 DEF WmInv, WmTypes
  <2> QED BY <1>1, <2>1 DEF WmInv, WmTypes
<1> QED BY <1>1, <1>4, <1>5, <1>6 DEF WmInv

LEMMA WmSteps == ASSUME WmInv, [Next]_vars PROVE WmInv'
<1>1. ASSUME UNCHANGED <<online, attaching, bound, leaving, wasBound, chanMap, created, mode>>
      PROVE  WmInv'
  BY <1>1 DEF WmInv, WmTypes, MayHave
<1>2. CASE UNCHANGED vars
  BY <1>1, <1>2 DEF vars, connVars, chanVars
<1>3. ASSUME NEW c \in Conns, NEW n \in Names, AttachCall(c, n) PROVE WmInv'
  <2>1. attaching' \in [Conns -> Names \cup {Absent}]
    BY <1>3 DEF AttachCall, WmInv, WmTypes
  <2> QED BY <1>3, <2>1, WmCreates DEF AttachCall
<1>4. ASSUME NEW c \in Conns, AttachBind(c) \/ EvictConn(c) \/ EvictChannel(c) \/ EvictUnmark(c)
      PROVE  WmInv'
  <2>1. CASE EvictUnmark(c)
    BY <1>1, <2>1 DEF EvictUnmark
  <2> QED BY <1>4, <2>1, WmConnSteps
<1>5. ASSUME NEW c \in Viewers,
             Spawn(c) \/ KillClient(c) \/ StreamChunk(c) \/ StreamForward(c) \/ StreamEnd(c)
      PROVE  WmInv'
  <2>1. CASE Spawn(c)
    <3>1. bound[c] \in Names /\ attaching' \in [Conns -> Names \cup {Absent}]
          /\ UNCHANGED <<online, bound, leaving, wasBound, mode>>
      BY <2>1 DEF Spawn, WmInv, WmTypes, connVars, Conns
    <3> QED BY <2>1, <3>1, WmCreates DEF Spawn
  <2>2. CASE KillClient(c)
    <3>1. /\ bound' = [bound EXCEPT ![c] = Absent]
          /\ UNCHANGED <<online, attaching, leaving, wasBound, chanMap, created, mode>>
      BY <2>2 DEF KillClient
    <3>2. WmTypes'
      BY <3>1 DEF WmInv, WmTypes
    <3> QED BY <3>1, <3>2, WmKept DEF MayHave
  <2>3. CASE StreamChunk(c) \/ StreamForward(c) \/ StreamEnd(c)
    BY <1>1, <2>3 DEF StreamChunk, StreamForward, StreamEnd, connVars, chanVars
  <2> QED BY <1>5, <2>1, <2>2, <2>3
<1>6. ASSUME NEW t \in TaskIds,
             DrainRecv(t) \/ DrainBound(t) \/ DrainResolve(t) \/ DrainSend(t) \/ DrainEnd(t)
      PROVE  WmInv'
  BY <1>1, <1>6 DEF DrainRecv, DrainBound, DrainResolve, DrainSend, DrainEnd, TaskOnly,
                    connVars, chanVars
<1>7. ASSUME NEW y \in ChannelIds, SessionEnd(y) \/ WriterTake(y) \/ WriterWrite(y) PROVE WmInv'
  BY <1>1, <1>7 DEF SessionEnd, WriterTake, WriterWrite, connVars, chanVars
<1>8. ASSUME NEW n \in Names, Reap(n) PROVE WmInv'
  <2>1. /\ chanMap' = [chanMap EXCEPT ![n] = None]
        /\ UNCHANGED <<online, attaching, bound, leaving, wasBound, created, mode>>
    BY <1>8 DEF Reap, connVars
  <2>2. \A m \in Names : chanMap'[m] # None => chanMap'[m] = chanMap[m]
    BY <2>1 DEF WmInv, WmTypes
  <2>3. WmTypes'
    <3>1. None \in 0..created
      BY WmFacts DEF None
    <3>2. chanMap' \in [Names -> 0..created]
      BY <2>1, <3>1 DEF WmInv, WmTypes
    <3> QED BY <2>1, <3>2 DEF WmInv, WmTypes
  <2>4. ASSUME NEW m \in Names, chanMap'[m] # None, mode[chanMap'[m]] # Absent
        PROVE  MayHave(mode[chanMap[m]], m)'
    <3>1. MayHave(mode[chanMap'[m]], m)
      BY <2>2, <2>4 DEF WmInv
    <3> QED BY <2>1, <3>1 DEF MayHave
  <2>5. ASSUME NEW l \in Names, NEW m \in Names, chanMap'[l] = chanMap'[m], chanMap'[m] # None
        PROVE  l = m
    BY <2>2, <2>5 DEF WmInv
  <2> QED BY <2>1, <2>3, <2>4, <2>5 DEF WmInv
<1>9. ASSUME NEW w \in Wms, NEW n \in Names, Subscribe(w, n) PROVE WmInv'
  BY <1>9, WmSubscribes
<1>10. CASE \/ \E c \in Viewers, n \in Names : SendAttributed(c, n)
            \/ \E e \in calls : Deliver(e)
  BY <1>1, <1>10 DEF SendAttributed, Deliver, connVars, chanVars
<1> QED BY <1>2, <1>3, <1>4, <1>5, <1>6, <1>7, <1>8, <1>9, <1>10 DEF Next

\* A channel is left to a window manager that has gone, its eviction over, only
\* if that window manager was not bound to the channel when it went, whoever
\* subscribed, attached, collected, created or left in between.
THEOREM BoundWmGivesBack == Spec => []RawAfterBoundWm
<1>1. WmInv /\ [Next]_vars => WmInv'
  BY WmSteps
<1>2. WmInv => RawAfterBoundWm
  <2> SUFFICES ASSUME WmInv, NEW n \in Names,
                      chanMap[n] # None, mode[chanMap[n]] # Absent
               PROVE  LET w == mode[chanMap[n]] IN
                      w \in online \/ leaving[w] # Absent \/ wasBound[w] # n
    BY DEF RawAfterBoundWm
  <2>1. MayHave(mode[chanMap[n]], n) /\ n # Absent
    BY WmFacts DEF WmInv
  <2> QED BY <2>1 DEF MayHave
<1> QED BY <1>1, <1>2, WmInit, PTL DEF Spec
===============================================================================
