------------------------ MODULE GatewayOutputProofs ------------------------
(* What the output streams of GatewayOutput promise, for any viewers,      *)
(* sessions, chunks and cap.                                               *)
EXTENDS GatewayOutput, SequenceTheorems, TLAPS

(***************************************************************************)
(* The invariant.  Chunks are numbered without gaps, so where they are is  *)
(* told by the number before the first of them: Base of what is pending,   *)
(* RawBase of what the poll has drained and not yet sent.  Between the two *)
(* the reader may have dropped a buffer.                                   *)
(***************************************************************************)
SubStates == {"none", "lookup", "lost", "lock", "take", "look", "snap", "on"}

\* A task in one of these holds the lock of the channel.
Holding == {"take", "look", "snap"}

OutTypes ==
  /\ session \in {0, spawned} /\ spawned \in 0..MaxSessions /\ dead \in BOOLEAN
  /\ written \in 0..MaxChunks /\ appended \in 0..written
  /\ rpc \in {"read", "parse", "check"} /\ dirty \in BOOLEAN
  /\ unrendered \in 0..Budget /\ (rpc = "read" => unrendered < Budget)
  /\ rpc = "parse" => appended > 0
  /\ Len(pending) <= PendingCap
  /\ pending \in Seq(ChunkIds) /\ raw \in Seq(ChunkIds)
  /\ cache \in Seq(ChunkIds) /\ Len(cache) <= RetainCap
  /\ bound \subseteq Viewers /\ evicting \subseteq Viewers \ bound
  /\ subscribers \subseteq Viewers
  /\ sub \in [Viewers -> SubStates]
  /\ early \in [Viewers -> Seq(ChunkIds)] /\ stream \in [Viewers -> Seq(Items)]
  /\ poll \in {"idle", "take", "send", "final", "join"}
  /\ quiet \in BOOLEAN /\ killing \in BOOLEAN
  /\ handed \subseteq ChunkIds /\ dropped \subseteq ChunkIds

\* One task at a time holds the lock of the channel, and all but the last of them only
\* where there is a session; who is not registered has had nothing yet.
LockInv ==
  /\ \A u, v \in Viewers : sub[u] \in Holding /\ sub[v] \in Holding => u = v
  /\ \A v \in Viewers : sub[v] \in Holding => poll = "idle" /\ ~killing
  /\ killing => poll = "idle"
  /\ \A v \in Viewers : sub[v] # "on" => v \notin subscribers /\ stream[v] = <<>>
  /\ poll # "send" => raw = <<>>
  /\ poll # "idle" \/ killing => session # 0
  /\ \A v \in Viewers : sub[v] \in {"take", "look"} => session # 0

\* q holds chunks k + 1, k + 2, ... of session s.
Consecutive(q, s, k) == \A i \in 1..Len(q) : q[i] = [of |-> s, n |-> k + i]

Base == appended - Len(pending)

RawBase == IF raw = <<>> THEN Base ELSE raw[1].n - 1

\* A chunk that is not pending has been drained, or was dropped with a full buffer.
Gone(n) == [of |-> spawned, n |-> n] \in handed \/ Overrun(n)

ChunksInv ==
  /\ session = 0 => pending = <<>>
  /\ Len(pending) <= appended
  /\ Consecutive(pending, session, Base)
  /\ RawBase \in Nat /\ RawBase + Len(raw) <= Base
  /\ Consecutive(raw, session, RawBase)
  /\ session # 0 => cache = <<>> /\ ~quiet
  /\ session # 0 => \A n \in 1..Base : Gone(n)
  /\ \E k \in Nat : Consecutive(cache, spawned, k)

\* What a new subscriber is given comes before what is pending.
EarlyInv ==
  \A v \in Viewers : sub[v] \in Holding =>
    /\ sub[v] = "take" => early[v] = <<>>
    /\ \E k \in Nat : /\ Consecutive(early[v], spawned, k)
                      /\ session # 0 => k + Len(early[v]) <= Base

\* Item b may follow a in a stream.
MayFollow(a, b) ==
  b.kind # "eof" => /\ a.kind = "data" => Before(a, b)
                    /\ a.kind = "eof"  => a.of < b.of
                    /\ a.kind = "snap" => a.of <= b.of

InOrder(q) == \A i, j \in 1..Len(q) : i < j => MayFollow(q[i], q[j])

\* Chunks of session s after the k-th may follow a.
Past(a, s, k) ==
  /\ a.kind = "data" => a.of < s \/ (a.of = s /\ a.n <= k)
  /\ a.kind = "eof"  => a.of < s
  /\ a.kind = "snap" => a.of <= s

AllPast(q, s, k) == \A i \in 1..Len(q) : Past(q[i], s, k)

\* What the subscribers get next: chunks of this session, after that one.
Coming == IF session = 0 THEN spawned + 1 ELSE session
Mark   == IF session = 0 THEN 0 ELSE RawBase

StreamInv ==
  /\ \A v \in Viewers : InOrder(stream[v])
  /\ \A v \in subscribers : AllPast(stream[v], Coming, Mark)

OutInv == OutTypes /\ LockInv /\ ChunksInv /\ EarlyInv /\ StreamInv

(***************************************************************************)
(* Sequences.                                                              *)
(***************************************************************************)
\* The members of two sequences in a row.
LEMMA Joined ==
  ASSUME NEW S, NEW q \in Seq(S), NEW r \in Seq(S)
  PROVE  /\ q \o r \in Seq(S) /\ Len(q \o r) = Len(q) + Len(r)
         /\ \A i \in 1..Len(q) : (q \o r)[i] = q[i]
         /\ \A i \in 1..Len(r) : (q \o r)[Len(q) + i] = r[i]
         /\ \A i \in 1..Len(q \o r) : \/ i \in 1..Len(q)
                                      \/ i - Len(q) \in 1..Len(r) /\ i = Len(q) + (i - Len(q))
<1>1. Len(q) \in Nat /\ Len(r) \in Nat
  OBVIOUS
<1>2. Len(q \o r) = Len(q) + Len(r)
  BY ConcatProperties
<1> QED BY <1>1, <1>2, ConcatProperties

LEMMA Regrouped ==
  ASSUME NEW q \in Seq(Items), NEW r \in Seq(Items), NEW t \in Seq(Items)
  PROVE  (q \o r) \o t = q \o (r \o t)
BY ConcatAssociative

LEMMA MembersIn == ASSUME NEW S, NEW q \in Seq(S) PROVE ToSet(q) \subseteq S
BY DEF ToSet

\* A function on 1..n is a sequence of length n.
LEMMA Tabulated ==
  ASSUME NEW S, NEW n \in Nat, NEW f \in [1..n -> S]
  PROVE  f \in Seq(S) /\ Len(f) = n
<1>1. f \in Seq(S)
  BY SeqDef
<1>2. DOMAIN f = 1..Len(f) /\ DOMAIN f = 1..n /\ Len(f) \in Nat
  BY <1>1, LenProperties
<1>3. Len(f) = n
  <2>1. CASE n = 0
    BY <1>2, <2>1
  <2>2. CASE n # 0
    <3>1. n \in 1..Len(f)
      BY <1>2, <2>2
    <3>2. Len(f) \in 1..n
      BY <1>2, <3>1
    <3> QED BY <1>2, <3>1, <3>2
  <2> QED BY <2>1, <2>2
<1> QED BY <1>1, <1>3

LEMMA DataItems ==
  ASSUME OutputAssumption, NEW q \in Seq(ChunkIds)
  PROVE  /\ Data(q) \in Seq(Items) /\ Len(Data(q)) = Len(q)
         /\ \A i \in 1..Len(q) : /\ Data(q)[i].kind = "data"
                                 /\ Data(q)[i].of = q[i].of /\ Data(q)[i].n = q[i].n
<1>1. Len(q) \in Nat /\ \A i \in 1..Len(q) : q[i] \in ChunkIds
  BY ElementOfSeq
<1>2. \A i \in 1..Len(q) : [kind |-> "data", of |-> q[i].of, n |-> q[i].n] \in Items
  <2> TAKE i \in 1..Len(q)
  <2>1. q[i].of \in 1..MaxSessions /\ q[i].n \in 1..MaxChunks
    BY <1>1 DEF ChunkIds
  <2>2. 1..MaxSessions \subseteq 0..MaxSessions /\ 1..MaxChunks \subseteq 0..MaxChunks
    BY DEF OutputAssumption
  <2> QED BY <2>1, <2>2 DEF Items
<1>3. Data(q) \in [1..Len(q) -> Items]
  BY <1>2 DEF Data
<1>4. Data(q) \in Seq(Items) /\ Len(Data(q)) = Len(q)
  BY <1>1, <1>3, Tabulated
<1> QED BY <1>4 DEF Data

LEMMA ItemFields ==
  ASSUME OutputAssumption, NEW x \in Items
  PROVE  x.of \in Nat /\ x.n \in Nat /\ x.kind \in {"snap", "data", "eof"}
<1>1. MaxSessions \in Nat /\ MaxChunks \in Nat
  BY DEF OutputAssumption
<1>2. x.of \in 0..MaxSessions /\ x.n \in 0..MaxChunks /\ x.kind \in {"snap", "data", "eof"}
  BY DEF Items
<1> QED BY <1>1, <1>2

LEMMA EofItem ==
  ASSUME OutputAssumption, spawned \in 0..MaxSessions
  PROVE  Eof \in Seq(Items) /\ Len(Eof) = 1 /\ Eof[1].kind = "eof" /\ Eof[1].of = spawned
<1>1. [kind |-> "eof", of |-> spawned, n |-> 0] \in Items
  BY DEF OutputAssumption, Items
<1> QED BY <1>1 DEF Eof

\* What holds of every member, and of every two, holds of a longer sequence.
LEMMA InOrderJoined ==
  ASSUME NEW q \in Seq(Items), NEW r \in Seq(Items), InOrder(q), InOrder(r),
         \A i \in 1..Len(q), j \in 1..Len(r) : MayFollow(q[i], r[j])
  PROVE  InOrder(q \o r)
<1>1. /\ Len(q) \in Nat /\ Len(r) \in Nat /\ Len(q \o r) = Len(q) + Len(r)
      /\ \A i \in 1..Len(q) : (q \o r)[i] = q[i]
      /\ \A i \in 1..Len(r) : (q \o r)[Len(q) + i] = r[i]
  BY Joined
<1>2. SUFFICES ASSUME NEW i \in 1..Len(q \o r), NEW j \in 1..Len(q \o r), i < j
               PROVE  MayFollow((q \o r)[i], (q \o r)[j])
  BY DEF InOrder
<1>3. CASE i \in 1..Len(q) /\ j \in 1..Len(q)
  BY <1>1, <1>2, <1>3 DEF InOrder
<1>4. CASE i \in 1..Len(q) /\ j \notin 1..Len(q)
  <2>1. j - Len(q) \in 1..Len(r) /\ j = Len(q) + (j - Len(q))
    BY <1>1, <1>4
  <2> QED BY <1>1, <1>4, <2>1
<1>5. CASE i \notin 1..Len(q)
  <2>1. /\ i - Len(q) \in 1..Len(r) /\ i = Len(q) + (i - Len(q))
        /\ j - Len(q) \in 1..Len(r) /\ j = Len(q) + (j - Len(q))
        /\ i - Len(q) < j - Len(q)
    BY <1>1, <1>2, <1>5
  <2> QED BY <1>1, <2>1 DEF InOrder
<1> QED BY <1>3, <1>4, <1>5

LEMMA AllPastJoined ==
  ASSUME NEW q \in Seq(Items), NEW r \in Seq(Items), NEW s, NEW k,
         AllPast(q, s, k), AllPast(r, s, k)
  PROVE  AllPast(q \o r, s, k)
<1>1. /\ Len(q) \in Nat /\ Len(r) \in Nat /\ Len(q \o r) = Len(q) + Len(r)
      /\ \A i \in 1..Len(q) : (q \o r)[i] = q[i]
      /\ \A i \in 1..Len(r) : (q \o r)[Len(q) + i] = r[i]
  BY Joined
<1>2. SUFFICES ASSUME NEW i \in 1..Len(q \o r) PROVE Past((q \o r)[i], s, k)
  BY DEF AllPast
<1>3. CASE i \in 1..Len(q)
  BY <1>1, <1>3 DEF AllPast
<1>4. CASE i \notin 1..Len(q)
  <2>1. i - Len(q) \in 1..Len(r) /\ i = Len(q) + (i - Len(q))
    BY <1>1, <1>4
  <2> QED BY <1>1, <2>1 DEF AllPast
<1> QED BY <1>3, <1>4

\* What more may follow, once more has been sent, or a session has ended.
LEMMA PastLater ==
  ASSUME OutputAssumption,
         NEW q \in Seq(Items), NEW s \in Nat, NEW k \in Nat, NEW t \in Nat, NEW l \in Nat,
         AllPast(q, s, k), s < t \/ (s = t /\ k <= l)
  PROVE  AllPast(q, t, l)
<1> SUFFICES ASSUME NEW i \in 1..Len(q) PROVE Past(q[i], t, l)
  BY DEF AllPast
<1>1. q[i] \in Items
  BY ElementOfSeq
<1>2. Past(q[i], s, k)
  BY DEF AllPast
<1>3. q[i].of \in Nat /\ q[i].n \in Nat /\ q[i].kind \in {"snap", "data", "eof"}
  BY <1>1, ItemFields
<1>4. CASE s < t
  BY <1>2, <1>3, <1>4 DEF Past
<1>5. CASE s = t /\ k <= l
  BY <1>2, <1>3, <1>5 DEF Past
<1> QED BY <1>4, <1>5

\* Consecutive chunks may be sent to whoever is waiting for the first of them.
LEMMA Sends ==
  ASSUME OutputAssumption, NEW q \in Seq(Items), NEW r \in Seq(ChunkIds),
         NEW s \in Nat, NEW k \in Nat,
         Consecutive(r, s, k), InOrder(q), AllPast(q, s, k)
  PROVE  /\ q \o Data(r) \in Seq(Items)
         /\ InOrder(q \o Data(r)) /\ AllPast(q \o Data(r), s, k + Len(r))
<1>1. /\ Data(r) \in Seq(Items) /\ Len(Data(r)) = Len(r) /\ Len(r) \in Nat
      /\ \A i \in 1..Len(r) : /\ Data(r)[i].kind = "data"
                              /\ Data(r)[i].of = s /\ Data(r)[i].n = k + i
  <2>1. \A i \in 1..Len(r) : r[i].of = s /\ r[i].n = k + i
    <3> TAKE i \in 1..Len(r)
    <3>1. r[i] = [of |-> s, n |-> k + i]
      BY DEF Consecutive
    <3> QED BY <3>1
  <2> QED BY <2>1, DataItems
<1>2. InOrder(Data(r))
  <2> SUFFICES ASSUME NEW i \in 1..Len(r), NEW j \in 1..Len(r), i < j
               PROVE  MayFollow(Data(r)[i], Data(r)[j])
    BY <1>1 DEF InOrder
  <2> QED BY <1>1 DEF MayFollow, Before
<1>3. AllPast(Data(r), s, k + Len(r))
  <2> SUFFICES ASSUME NEW i \in 1..Len(r) PROVE Past(Data(r)[i], s, k + Len(r))
    BY <1>1 DEF AllPast
  <2> QED BY <1>1 DEF Past
<1>4. \A i \in 1..Len(q), j \in 1..Len(Data(r)) : MayFollow(q[i], Data(r)[j])
  <2> TAKE i \in 1..Len(q), j \in 1..Len(Data(r))
  <2>1. Past(q[i], s, k)
    BY DEF AllPast
  <2>2. q[i].of \in Nat /\ q[i].n \in Nat /\ q[i].kind \in {"snap", "data", "eof"}
    BY ItemFields, ElementOfSeq
  <2>3. Data(r)[j].kind = "data" /\ Data(r)[j].of = s /\ Data(r)[j].n = k + j
    BY <1>1
  <2>4. k + j > k /\ k + j \in Nat
    BY <1>1
  <2> QED BY <2>1, <2>2, <2>3, <2>4 DEF Past, MayFollow, Before
<1>5. AllPast(q, s, k + Len(r))
  BY <1>1, PastLater
<1> QED BY <1>1, <1>2, <1>3, <1>4, <1>5, Joined, InOrderJoined, AllPastJoined

\* The end of a stream may always be sent; only later sessions come after it.
LEMMA Closes ==
  ASSUME OutputAssumption, spawned \in 0..MaxSessions, NEW q \in Seq(Items), InOrder(q)
  PROVE  /\ q \o Eof \in Seq(Items) /\ InOrder(q \o Eof)
         /\ \A s \in Nat, k \in Nat :
              AllPast(q, s, k) /\ spawned < s => AllPast(q \o Eof, s, k)
<1>1. Eof \in Seq(Items) /\ Len(Eof) = 1 /\ Eof[1].kind = "eof" /\ Eof[1].of = spawned
  BY EofItem
<1>2. InOrder(Eof)
  BY <1>1 DEF InOrder
<1>3. \A i \in 1..Len(q), j \in 1..Len(Eof) : MayFollow(q[i], Eof[j])
  BY <1>1 DEF MayFollow
<1>4. ASSUME NEW s \in Nat, NEW k \in Nat, AllPast(q, s, k), spawned < s
      PROVE  AllPast(q \o Eof, s, k)
  <2>1. AllPast(Eof, s, k)
    BY <1>1, <1>4 DEF AllPast, Past
  <2> QED BY <1>1, <1>4, <2>1, AllPastJoined
<1> QED BY <1>1, <1>2, <1>3, <1>4, Joined, InOrderJoined

\* An empty stream is in order, and anything may follow it.
LEMMA NothingYet ==
  /\ <<>> \in Seq(Items) /\ InOrder(<<>>)
  /\ \A s, k : AllPast(<<>>, s, k)
BY DEF InOrder, AllPast

(***************************************************************************)
(* Steps.                                                                  *)
(***************************************************************************)
\* Where the next chunk for a subscriber comes from.
LEMMA NextChunk ==
  ASSUME OutputAssumption, OutInv
  PROVE  /\ spawned \in Nat /\ session \in Nat /\ appended \in Nat
         /\ Len(pending) \in Nat /\ Len(raw) \in Nat /\ Base \in Nat
         /\ RawBase \in Nat /\ Coming \in Nat /\ Mark \in Nat
         /\ session # 0 => session = spawned /\ session \in 1..MaxSessions
BY DEF OutInv, OutTypes, ChunksInv, Base, Coming, Mark, OutputAssumption

\* Steps that leave the output alone, and register nobody.
ChunkVars == <<session, spawned, appended, pending, cache, raw, handed, dropped, early,
               stream>>

LEMMA SilentStep ==
  ASSUME OutputAssumption, OutInv, OutTypes', UNCHANGED ChunkVars,
         quiet' = quiet, subscribers' \subseteq subscribers,
         \/ poll' = poll /\ killing' = killing
         \/ poll' \in {"idle", "take", "final"} /\ killing' = killing /\ session # 0 /\ Unlocked
         \/ poll = "final" /\ poll' = "join" /\ killing' = killing
         \/ poll' = poll /\ session # 0 /\ Unlocked,
         \A v \in Viewers : \/ sub'[v] = sub[v]
                            \/ sub[v] = "look" /\ sub'[v] = "snap"
                            \/ /\ sub[v] \notin Holding \cup {"on"}
                               /\ sub'[v] \notin Holding \cup {"on"}
  PROVE  OutInv'
<1> USE DEF ChunkVars, OutInv
<1>1. LockInv'
  <2>1. \A v \in Viewers : /\ (sub'[v] \in Holding) = (sub[v] \in Holding)
                           /\ (sub'[v] # "on") => (sub[v] # "on")
                           /\ (sub'[v] \in {"take", "look"}) => (sub[v] \in {"take", "look"})
    BY DEF Holding
  <2>2. Unlocked => poll = "idle" /\ ~killing /\ \A v \in Viewers : sub[v] \notin Holding
    BY DEF Unlocked, Holding
  <2> QED BY <2>1, <2>2 DEF LockInv
<1>2. ChunksInv' /\ Base' = Base /\ RawBase' = RawBase
  BY DEF ChunksInv, Consecutive, Base, RawBase, Gone, Overrun
<1>3. EarlyInv'
  BY <1>2 DEF EarlyInv, Consecutive, Holding
<1>4. StreamInv'
  BY <1>2 DEF StreamInv, Coming, Mark, InOrder, AllPast
<1> QED BY <1>1, <1>2, <1>3, <1>4

LEMMA SilentSteps ==
  ASSUME OutputAssumption, OutInv,
         \/ Write \/ Die \/ ReaderParse \/ ReaderGoOn
         \/ KillChannel \/ PollRead \/ PollUnheard \/ PollJoin
         \/ \E v \in Viewers : \/ SubOpen(v) \/ SubLookup(v) \/ SubLook(v)
                              \/ KillClient(v) \/ Disconnect(v)
  PROVE  OutInv'
<1> USE DEF lifeVars, ptyVars, subVars, pollVars, otherVars
<1>1. /\ OutTypes /\ MaxChunks \in Nat /\ Budget \in Nat \ {0}
      /\ session # 0 => spawned \in Nat \ {0}
  BY NextChunk DEF OutInv, OutputAssumption
<1>2. CASE Write
  <2>1. written + 1 \in 0..MaxChunks
    BY <1>1, <1>2 DEF Write, OutTypes
  <2>2. OutTypes'
    BY <1>1, <1>2, <2>1 DEF Write, OutTypes
  <2> QED BY <1>2, <2>2, SilentStep DEF Write, ChunkVars
<1>3. CASE Die
  <2>1. OutTypes'
    BY <1>1, <1>3 DEF Die, OutTypes
  <2> QED BY <1>3, <2>1, SilentStep DEF Die, ChunkVars
<1>4. CASE ReaderParse \/ ReaderGoOn
  <2>1. OutTypes'
    <3>1. unrendered' \in 0..Budget /\ (rpc' = "read" => unrendered' < Budget)
      BY <1>1, <1>4 DEF ReaderParse, ReaderGoOn, OutTypes
    <3> QED BY <1>1, <1>4, <3>1 DEF ReaderParse, ReaderGoOn, OutTypes
  <2> QED BY <1>4, <2>1, SilentStep DEF ReaderParse, ReaderGoOn, ChunkVars
<1>5. CASE KillChannel \/ PollRead \/ PollUnheard \/ PollJoin
  <2>1. OutTypes'
    BY <1>1, <1>5 DEF KillChannel, PollRead, PollUnheard, PollJoin, OutTypes
  <2> QED BY <1>5, <2>1, SilentStep DEF KillChannel, PollRead, PollUnheard, PollJoin, ChunkVars
<1>6. ASSUME NEW v \in Viewers, SubOpen(v) \/ SubLookup(v) \/ SubLook(v) PROVE OutInv'
  <2>1. PICK l \in {"lookup", "lock", "lost", "snap"} : sub' = [sub EXCEPT ![v] = l]
    BY <1>6 DEF SubOpen, SubLookup, SubLook
  <2>2. OutTypes'
    <3>1. sub' \in [Viewers -> SubStates]
      BY <1>1, <2>1 DEF OutTypes, SubStates
    <3>2. dirty' \in BOOLEAN /\ UNCHANGED <<ptyVars, cache, subscribers, early, stream,
                                          pollVars, otherVars, handed>>
      BY <1>1, <1>6 DEF SubOpen, SubLookup, SubLook, OutTypes
    <3> QED BY <1>1, <3>1, <3>2 DEF OutTypes
  <2>3. \A u \in Viewers : \/ sub'[u] = sub[u]
                           \/ sub[u] = "look" /\ sub'[u] = "snap"
                           \/ /\ sub[u] \notin Holding \cup {"on"}
                              /\ sub'[u] \notin Holding \cup {"on"}
    BY <1>1, <1>6, <2>1 DEF SubOpen, SubLookup, SubLook, OutTypes, Holding
  <2> QED BY <1>6, <2>2, <2>3, SilentStep DEF SubOpen, SubLookup, SubLook, ChunkVars
<1>7. ASSUME NEW v \in Viewers, KillClient(v) \/ Disconnect(v) PROVE OutInv'
  <2>1. OutTypes'
    <3>1. /\ bound' \subseteq Viewers /\ evicting' \subseteq Viewers \ bound'
          /\ subscribers' \subseteq Viewers
      BY <1>1, <1>7 DEF KillClient, Disconnect, OutTypes
    <3>2. UNCHANGED <<ptyVars, dirty, cache, subVars, stream, pollVars, killing, handed>>
      BY <1>7 DEF KillClient, Disconnect
    <3> QED BY <1>1, <3>1, <3>2 DEF OutTypes
  <2> QED BY <1>7, <2>1, SilentStep DEF KillClient, Disconnect, ChunkVars
<1> QED BY <1>2, <1>3, <1>4, <1>5, <1>6, <1>7

\* A chunk that is not drained yet has its place among the pending ones.
LEMMA PendingPlace ==
  ASSUME NEW b \in Nat, NEW l \in Nat, NEW n \in 1..(b + l), n \notin 1..b
  PROVE  n - b \in 1..l /\ b + (n - b) = n
OBVIOUS

LEMMA BaseSum ==
  ASSUME OutputAssumption, OutInv
  PROVE  Base \in Nat /\ Len(pending) \in Nat /\ appended = Base + Len(pending)
<1>1. appended \in Nat /\ Len(pending) \in Nat /\ Base \in Nat
  BY NextChunk
<1>2. \A a, l \in Nat : a = (a - l) + l
  OBVIOUS
<1>3. Base = appended - Len(pending)
  BY DEF Base
<1> QED BY <1>1, <1>2, <1>3

\* What is gone and what is pending is all that was appended.
LEMMA Drained ==
  ASSUME OutputAssumption, OutInv, session # 0, NEW n \in 1..appended
  PROVE  Gone(n) \/ [of |-> spawned, n |-> n] \in ToSet(pending)
<1>0. ChunksInv /\ session = spawned
  BY NextChunk DEF OutInv
<1>1. CASE n \in 1..Base
  BY <1>0, <1>1 DEF ChunksInv
<1>2. CASE n \notin 1..Base
  <2>1. n - Base \in 1..Len(pending) /\ Base + (n - Base) = n
    BY <1>2, BaseSum, PendingPlace
  <2>2. pending[n - Base] = [of |-> session, n |-> n]
    BY <1>0, <2>1 DEF ChunksInv, Consecutive
  <2> QED BY <1>0, <2>1, <2>2 DEF ToSet
<1> QED BY <1>1, <1>2

\* After a drain, everything that was appended is gone.
LEMMA AllDrained ==
  ASSUME OutputAssumption, OutInv, session # 0,
         UNCHANGED <<spawned, dropped>>, handed' = handed \cup ToSet(pending)
  PROVE  \A n \in 1..appended : Gone(n)'
<1> TAKE n \in 1..appended
<1>1. Gone(n) \/ [of |-> spawned, n |-> n] \in ToSet(pending)
  BY Drained
<1> QED BY <1>1 DEF Gone, Overrun

\* With the lock free the poll has nothing in hand, and no task is half done.
LEMMA LockFree ==
  ASSUME OutInv, Unlocked
  PROVE  raw = <<>> /\ poll = "idle" /\ ~killing /\ \A v \in Viewers : sub[v] \notin Holding
BY DEF OutInv, LockInv, Unlocked, Holding

\* With nothing in hand, what is next comes after what was drained.
LEMMA NoRaw ==
  ASSUME OutputAssumption, OutInv, raw = <<>>
  PROVE  RawBase = Base /\ (session # 0 => Mark = Base)
BY DEF RawBase, Mark

LEMMA NoChunks ==
  /\ <<>> \in Seq(ChunkIds) /\ Len(<<>>) = 0 /\ ToSet(<<>>) = {}
  /\ \A s, k : Consecutive(<<>>, s, k)
BY DEF ToSet, Consecutive

LEMMA ReaderAppendStep ==
  ASSUME OutputAssumption, OutInv, ReaderAppend PROVE OutInv'
<1> DEFINE c == [of |-> session, n |-> appended + 1]
           all == Append(pending, c)
<1>0. OutTypes /\ LockInv /\ ChunksInv /\ EarlyInv /\ StreamInv
  BY DEF OutInv
<1>1. /\ session # 0 /\ rpc = "read" /\ appended < written
      /\ appended' = appended + 1 /\ rpc' = "parse" /\ unrendered' = unrendered + 1
      /\ IF Len(all) > PendingCap
         THEN pending' = <<>> /\ dropped' = dropped \cup ToSet(all)
         ELSE pending' = all /\ dropped' = dropped
      /\ UNCHANGED <<lifeVars, dirty, cache, subscribers, subVars, stream, pollVars,
                     otherVars, handed>>
  BY DEF ReaderAppend
<1>2. /\ MaxSessions \in Nat /\ MaxChunks \in Nat /\ session \in 1..MaxSessions
      /\ session = spawned /\ PendingCap \in Nat \ {0} /\ Budget \in Nat \ {0}
      /\ appended + 1 \in 0..written /\ appended + 1 \in 1..MaxChunks
      /\ Len(pending) \in Nat /\ Base \in Nat /\ pending \in Seq(ChunkIds)
      /\ Len(raw) \in Nat /\ appended = Base + Len(pending)
  BY <1>0, <1>1, NextChunk, BaseSum DEF OutTypes, OutputAssumption
<1>3. c \in ChunkIds
  BY <1>2 DEF ChunkIds
<1>4. /\ all \in Seq(ChunkIds) /\ Len(all) = Len(pending) + 1 /\ ToSet(all) \subseteq ChunkIds
      /\ \A i \in 1..Len(pending) : all[i] = pending[i]
      /\ all[Len(pending) + 1] = c
  <2> HIDE DEF c
  <2>1. /\ all \in Seq(ChunkIds) /\ Len(all) = Len(pending) + 1
        /\ \A i \in 1..Len(pending) : all[i] = pending[i]
        /\ all[Len(pending) + 1] = c
    BY <1>2, <1>3, AppendProperties
  <2> HIDE DEF all
  <2> QED BY <2>1, MembersIn
<1> HIDE DEF c, all
<1>5. Len(all) \in Nat /\ Base + Len(all) = appended + 1
  BY <1>2, <1>4
<1>6. Consecutive(all, spawned, Base)
  <2>1. ASSUME NEW i \in 1..Len(all) PROVE all[i] = [of |-> spawned, n |-> Base + i]
    <3>1. CASE i \in 1..Len(pending)
      BY <1>0, <1>2, <1>4, <3>1 DEF ChunksInv, Consecutive
    <3>2. CASE i \notin 1..Len(pending)
      <4>1. i = Len(pending) + 1 /\ Base + i = appended + 1
        BY <1>2, <1>4, <3>2
      <4> QED BY <1>2, <1>4, <4>1 DEF c
    <3> QED BY <3>1, <3>2
  <2> QED BY <2>1 DEF Consecutive
<1>7. /\ pending' \in Seq(ChunkIds) /\ Len(pending') <= PendingCap /\ dropped' \subseteq ChunkIds
  <2>1. /\ dropped \subseteq ChunkIds /\ <<>> \in Seq(ChunkIds)
        /\ Len(<<>>) = 0 /\ 0 <= PendingCap
    BY <1>0, <1>2, NoChunks DEF OutTypes
  <2>2. CASE Len(all) > PendingCap
    BY <1>1, <1>4, <2>1, <2>2
  <2>3. CASE ~(Len(all) > PendingCap)
    BY <1>1, <1>2, <1>4, <2>1, <2>3
  <2> QED BY <2>2, <2>3
<1>8. OutTypes'
  <2>1. unrendered' \in 0..Budget
    BY <1>0, <1>1, <1>2 DEF OutTypes
  <2>2. appended' \in 0..written /\ appended' > 0
    BY <1>0, <1>1, <1>2 DEF OutTypes
  <2> QED BY <1>0, <1>1, <1>7, <2>1, <2>2
     DEF OutTypes, lifeVars, subVars, pollVars, otherVars
<1>9. LockInv'
  BY <1>0, <1>1 DEF LockInv, lifeVars, subVars, pollVars, otherVars
<1>10. /\ Base' \in Nat /\ Base <= Base' /\ Len(pending') <= appended'
       /\ Consecutive(pending', session', Base')
  <2>1. CASE Len(all) > PendingCap
    <3>1. pending' = <<>> /\ Len(pending') = 0 /\ Base' = appended + 1
      BY <1>1, <1>2, <2>1, NoChunks DEF Base
    <3> QED BY <1>1, <1>2, <3>1, NoChunks
  <2>2. CASE ~(Len(all) > PendingCap)
    <3>1. pending' = all /\ session' = session
      BY <1>1, <2>2 DEF lifeVars
    <3>2. Base' = (appended + 1) - Len(all)
      BY <1>1, <3>1 DEF Base
    <3>3. Base' = Base /\ Len(all) <= appended + 1
      BY <1>2, <1>5, <3>2
    <3> QED BY <1>1, <1>2, <1>6, <3>1, <3>3
  <2> QED BY <2>1, <2>2
<1>11. ASSUME NEW n \in 1..Base' PROVE Gone(n)'
  <2>1. spawned' = spawned /\ handed' = handed /\ dropped \subseteq dropped'
    BY <1>1 DEF lifeVars
  <2>2. CASE n \in 1..Base
    <3>1. Gone(n)
      BY <1>0, <1>1, <2>2 DEF ChunksInv
    <3> QED BY <2>1, <3>1 DEF Gone, Overrun
  <2>3. CASE n \notin 1..Base
    <3>1. Len(all) > PendingCap /\ dropped' = dropped \cup ToSet(all) /\ Base' = appended + 1
      <4>1. CASE Len(all) > PendingCap
        BY <1>1, <1>2, <4>1, NoChunks DEF Base
      <4>2. CASE ~(Len(all) > PendingCap)
        <5>1. pending' = all
          BY <1>1, <4>2
        <5>2. Base' = (appended + 1) - Len(all)
          BY <1>1, <5>1 DEF Base
        <5>3. Base' = Base
          BY <1>2, <1>5, <5>2
        <5> QED BY <2>3, <5>3
      <4> QED BY <4>1, <4>2
    <3>2. Len(all) = PendingCap + 1
      BY <1>0, <1>2, <1>4, <3>1 DEF OutTypes
    <3> DEFINE m == appended + 1
    <3>3. m \in 1..MaxChunks /\ m - PendingCap = Base + 1 /\ m - PendingCap <= n /\ n <= m
      BY <1>2, <1>5, <2>3, <3>1, <3>2
    <3>4. ASSUME NEW i \in (m - PendingCap)..m
          PROVE  [of |-> spawned, n |-> i] \in dropped'
      <4>1. i - Base \in 1..Len(all) /\ Base + (i - Base) = i
        BY <1>2, <1>5, <3>2, <3>3
      <4>2. all[i - Base] = [of |-> spawned, n |-> i]
        BY <1>6, <4>1 DEF Consecutive
      <4> QED BY <3>1, <4>1, <4>2 DEF ToSet
    <3> HIDE DEF m
    <3>5. Overrun(n)'
      BY <2>1, <3>3, <3>4 DEF Overrun
    <3> QED BY <3>5 DEF Gone
  <2> QED BY <2>2, <2>3
<1>12. /\ raw' = raw /\ RawBase' \in Nat /\ RawBase <= RawBase' /\ RawBase' + Len(raw') <= Base'
       /\ Consecutive(raw', session', RawBase')
  <2>1. raw' = raw /\ session' = session
    BY <1>1 DEF pollVars, lifeVars
  <2>2. CASE raw = <<>>
    <3>1. RawBase' = Base' /\ RawBase = Base /\ Len(raw') = 0
      <4>1. raw' = <<>> /\ Len(<<>>) = 0
        BY <2>1, <2>2, NoChunks
      <4> QED BY <2>2, <4>1 DEF RawBase
    <3>2. \A b \in Nat : b + 0 <= b
      OBVIOUS
    <3>4. RawBase' \in Nat /\ RawBase <= RawBase' /\ RawBase' + Len(raw') <= Base'
      BY <1>10, <3>1, <3>2
    <3>3. Consecutive(raw', session', RawBase')
      BY <2>1, <2>2, NoChunks
    <3> QED BY <2>1, <3>3, <3>4
  <2>3. CASE raw # <<>>
    <3>1. RawBase' = RawBase
      BY <2>1, <2>3 DEF RawBase
    <3> QED BY <1>0, <1>2, <1>10, <2>1, <3>1 DEF ChunksInv
  <2> QED BY <2>2, <2>3
<1>13. ChunksInv'
  <2>1. UNCHANGED <<session, spawned, cache, quiet>>
    BY <1>1 DEF lifeVars, pollVars
  <2>2. session' # 0 => \A n \in 1..Base' : Gone(n)'
    BY <1>11
  <2>3. \E k \in Nat : Consecutive(cache', spawned', k)
    BY <1>0, <2>1 DEF ChunksInv
  <2> QED BY <1>0, <1>1, <1>10, <1>12, <2>1, <2>2, <2>3 DEF ChunksInv
<1>14. EarlyInv'
  <2>1. UNCHANGED <<sub, early, session, spawned>>
    BY <1>1 DEF lifeVars, subVars
  <2> SUFFICES ASSUME NEW v \in Viewers, sub[v] \in Holding
               PROVE  /\ sub[v] = "take" => early[v] = <<>>
                      /\ \E k \in Nat : /\ Consecutive(early[v], spawned, k)
                                        /\ session # 0 => k + Len(early[v]) <= Base'
    BY <2>1 DEF EarlyInv, Consecutive
  <2>2. PICK k \in Nat : /\ Consecutive(early[v], spawned, k)
                         /\ session # 0 => k + Len(early[v]) <= Base
    BY <1>0 DEF EarlyInv
  <2>3. Len(early[v]) \in Nat
    BY <1>0 DEF OutTypes
  <2>4. k + Len(early[v]) <= Base'
    BY <1>1, <1>2, <1>10, <2>2, <2>3
  <2> QED BY <1>0, <2>2, <2>4 DEF EarlyInv
<1>15. Coming' = Coming /\ Mark' \in Nat /\ Mark <= Mark'
  BY <1>1, <1>12 DEF Coming, Mark, lifeVars
<1>16. \A u \in subscribers' : AllPast(stream'[u], Coming', Mark')
  <2> TAKE u \in subscribers'
  <2>1. stream[u] \in Seq(Items) /\ AllPast(stream[u], Coming, Mark) /\ stream' = stream
    BY <1>0, <1>1 DEF OutTypes, StreamInv
  <2> QED BY <1>15, <2>1, PastLater, NextChunk
<1>17. StreamInv'
  BY <1>0, <1>1, <1>16 DEF StreamInv, InOrder
<1> QED BY <1>8, <1>9, <1>13, <1>14, <1>17 DEF OutInv

LEMMA SpawnStep ==
  ASSUME OutputAssumption, OutInv, NEW v \in Viewers, Spawn(v) PROVE OutInv'
<1>0. OutTypes /\ LockInv /\ ChunksInv /\ EarlyInv /\ StreamInv
  BY DEF OutInv
<1> USE DEF Spawn, subVars, otherVars
<1>1. /\ spawned + 1 \in 0..MaxSessions /\ spawned + 1 # 0 /\ 0 \in 0..MaxChunks
      /\ 0 \in 0..0 /\ 0 <= RetainCap /\ 0 <= PendingCap /\ 0 \in 0..Budget /\ 0 < Budget
  BY <1>0, NextChunk DEF OutTypes, OutputAssumption
<1>2. raw = <<>> /\ poll = "idle" /\ ~killing /\ \A u \in Viewers : sub[u] \notin Holding
  BY LockFree
<1>3. OutTypes'
  BY <1>0, <1>1, NoChunks DEF OutTypes
<1>4. LockInv'
  BY <1>0, <1>1, <1>2 DEF LockInv, Holding
<1>5. Base' = 0 /\ RawBase' = 0 /\ Len(raw') = 0 /\ Len(pending') = 0
  <2>1. appended' = 0 /\ Len(pending') = 0 /\ Len(raw') = 0 /\ raw' = <<>>
    BY <1>2, NoChunks
  <2> HIDE DEF Spawn
  <2> QED BY <2>1 DEF Base, RawBase
<1>6. ChunksInv'
  <2>1. \A n \in 1..Base' : Gone(n)'
    BY <1>5
  <2>2. \E k \in Nat : Consecutive(cache', spawned', k)
    BY NoChunks
  <2>3. Consecutive(pending', session', Base') /\ Consecutive(raw', session', RawBase')
    BY <1>2, NoChunks
  <2>4. appended' = 0 /\ session' # 0 /\ cache' = <<>> /\ quiet' = FALSE
    BY <1>1
  <2> HIDE DEF Spawn
  <2> QED BY <1>5, <2>1, <2>2, <2>3, <2>4 DEF ChunksInv
<1>7. EarlyInv'
  BY <1>0, <1>2 DEF EarlyInv
<1>8. Coming' = Coming /\ Mark' = Mark
  BY <1>1, <1>5 DEF Coming, Mark
<1>9. StreamInv'
  BY <1>0, <1>8 DEF StreamInv, InOrder, AllPast
<1> QED BY <1>3, <1>4, <1>6, <1>7, <1>9 DEF OutInv

LEMMA SubLockStep ==
  ASSUME OutputAssumption, OutInv, NEW v \in Viewers, SubLock(v) PROVE OutInv'
<1>0. OutTypes /\ LockInv /\ ChunksInv /\ EarlyInv /\ StreamInv
  BY DEF OutInv
<1>1. /\ sub[v] = "lock" /\ sub' = [sub EXCEPT ![v] = IF session = 0 THEN "snap" ELSE "take"]
      /\ early' = [early EXCEPT ![v] = cache] /\ dirty' = FALSE
      /\ UNCHANGED <<ptyVars, cache, subscribers, stream, pollVars, otherVars, handed>>
  BY DEF SubLock
<1>2. raw = <<>> /\ poll = "idle" /\ ~killing /\ \A u \in Viewers : sub[u] \notin Holding
  BY LockFree DEF SubLock
<1>3. /\ sub' \in [Viewers -> SubStates] /\ sub'[v] \in {"snap", "take"}
      /\ sub'[v] = "take" => session # 0
      /\ \A u \in Viewers : u # v => sub'[u] = sub[u] /\ early'[u] = early[u]
      /\ early' \in [Viewers -> Seq(ChunkIds)] /\ early'[v] = cache
  BY <1>0, <1>1 DEF OutTypes, SubStates
<1>4. OutTypes'
  BY <1>0, <1>1, <1>3 DEF OutTypes, lifeVars, ptyVars, pollVars, otherVars
<1>5. LockInv'
  BY <1>0, <1>1, <1>2, <1>3 DEF LockInv, Holding, lifeVars, ptyVars, pollVars, otherVars
<1>6. ChunksInv' /\ Base' = Base /\ RawBase' = RawBase
  BY <1>0, <1>1
     DEF ChunksInv, Consecutive, Base, RawBase, Gone, Overrun, lifeVars, ptyVars, pollVars
<1>7. \E k \in Nat : /\ Consecutive(cache, spawned, k)
                     /\ session # 0 => k + Len(cache) <= Base
  <2>1. CASE session = 0
    BY <1>0, <2>1 DEF ChunksInv
  <2>2. CASE session # 0
    <3>1. cache = <<>> /\ Len(cache) = 0 /\ Base \in Nat /\ 0 + 0 <= Base
      BY <1>0, <2>2, NextChunk, NoChunks DEF ChunksInv
    <3> QED BY <3>1, NoChunks
  <2> QED BY <2>1, <2>2
<1>8. EarlyInv'
  <2>1. session' = session /\ spawned' = spawned /\ (session # 0 => cache = <<>>)
    BY <1>0, <1>1 DEF ChunksInv, lifeVars, ptyVars
  <2> QED BY <1>2, <1>3, <1>6, <1>7, <2>1 DEF EarlyInv, Consecutive
<1>9. Coming' = Coming /\ Mark' = Mark
  BY <1>1, <1>6 DEF Coming, Mark, lifeVars, ptyVars
<1>10. StreamInv'
  BY <1>0, <1>1, <1>9 DEF StreamInv, InOrder, AllPast
<1> QED BY <1>4, <1>5, <1>6, <1>8, <1>10 DEF OutInv

LEMMA SubTakeStep ==
  ASSUME OutputAssumption, OutInv, NEW v \in Viewers, SubTake(v) PROVE OutInv'
<1>0. OutTypes /\ LockInv /\ ChunksInv /\ EarlyInv /\ StreamInv
  BY DEF OutInv
<1>1. /\ sub[v] = "take" /\ sub' = [sub EXCEPT ![v] = "look"]
      /\ early' = [early EXCEPT ![v] = early[v] \o pending] /\ pending' = <<>>
      /\ handed' = handed \cup ToSet(pending)
      /\ UNCHANGED <<lifeVars, appended, rpc, unrendered, dropped, dirty, cache,
                     subscribers, stream, pollVars, otherVars>>
  BY DEF SubTake
<1>2. /\ session # 0 /\ session = spawned /\ raw = <<>> /\ poll = "idle" /\ ~killing
      /\ \A u \in Viewers : u # v => sub[u] \notin Holding
      /\ early[v] = <<>>
  BY <1>0, <1>1, NextChunk DEF LockInv, EarlyInv, Holding
<1>3. /\ ToSet(pending) \subseteq ChunkIds /\ pending \in Seq(ChunkIds)
      /\ early[v] \o pending = pending
  BY <1>0, <1>2, ConcatEmptySeq, MembersIn DEF OutTypes
<1>4. /\ sub' \in [Viewers -> SubStates] /\ sub'[v] = "look"
      /\ \A u \in Viewers : u # v => sub'[u] = sub[u] /\ early'[u] = early[u]
      /\ early' \in [Viewers -> Seq(ChunkIds)] /\ early'[v] = pending
  BY <1>0, <1>1, <1>3 DEF OutTypes, SubStates
<1>5. OutTypes'
  BY <1>0, <1>1, <1>3, <1>4, NoChunks
     DEF OutTypes, lifeVars, pollVars, otherVars, OutputAssumption
<1>6. LockInv'
  BY <1>0, <1>1, <1>2, <1>4 DEF LockInv, Holding, lifeVars, pollVars, otherVars
<1>7. Base' = appended /\ RawBase' = appended /\ Len(raw') = 0 /\ Len(pending') = 0
      /\ raw' = <<>> /\ appended \in Nat /\ Base <= appended /\ Len(pending) \in Nat
      /\ Base + Len(pending) = appended /\ RawBase = Base
  BY <1>1, <1>2, NoChunks, NextChunk, BaseSum, NoRaw DEF Base, RawBase, pollVars
<1>8. ChunksInv'
  <2>1. Consecutive(pending', session', Base') /\ Consecutive(raw', session', RawBase')
    BY <1>1, <1>7, NoChunks
  <2>2. \A n \in 1..Base' : Gone(n)'
    BY <1>1, <1>2, <1>7, AllDrained DEF lifeVars
  <2> QED BY <1>0, <1>1, <1>7, <2>1, <2>2 DEF ChunksInv, lifeVars, pollVars
<1>9. EarlyInv'
  <2>1. Consecutive(early'[v], spawned', Base) /\ Base \in Nat /\ Base + Len(early'[v]) <= Base'
    BY <1>0, <1>1, <1>2, <1>4, <1>7, NextChunk DEF ChunksInv, lifeVars
  <2> QED BY <1>2, <1>4, <2>1 DEF EarlyInv
<1>10. Coming' = Coming /\ Mark' \in Nat /\ Mark <= Mark'
  BY <1>1, <1>2, <1>7 DEF Coming, Mark, lifeVars
<1>11. \A u \in subscribers' : AllPast(stream'[u], Coming', Mark')
  <2> TAKE u \in subscribers'
  <2>1. stream[u] \in Seq(Items) /\ AllPast(stream[u], Coming, Mark) /\ stream' = stream
    BY <1>0, <1>1 DEF OutTypes, StreamInv
  <2> QED BY <1>10, <2>1, PastLater, NextChunk
<1>12. StreamInv'
  BY <1>0, <1>1, <1>11 DEF StreamInv, InOrder
<1> QED BY <1>5, <1>6, <1>8, <1>9, <1>12 DEF OutInv

\* The emulator is at most one chunk behind.
LEMMA ScreenedRange ==
  ASSUME OutputAssumption, OutTypes
  PROVE  Screened \in 0..MaxChunks /\ Screened \in 0..appended
BY DEF OutTypes, Screened, OutputAssumption

\* The stream of a new subscriber, from what it was given.
LEMMA SnapStream ==
  ASSUME OutputAssumption, OutInv, NEW q \in Seq(ChunkIds), NEW k \in Nat,
         Consecutive(q, spawned, k), session # 0 => k + Len(q) <= Base, raw = <<>>,
         NEW p \in Seq(Items),
         p = IF session = 0 THEN Data(q) \o Eof
             ELSE <<[kind |-> "snap", of |-> session, n |-> Screened]>> \o Data(q)
  PROVE  InOrder(p) /\ AllPast(p, Coming, Mark)
<1>0. OutTypes
  BY DEF OutInv
<1>1. CASE session = 0
  <2>1. Data(q) \in Seq(Items) /\ <<>> \o Data(q) = Data(q) /\ Len(q) \in Nat
    BY DataItems, ConcatEmptySeq
  <2>2. InOrder(Data(q)) /\ AllPast(Data(q), spawned, k + Len(q))
    <3>1. spawned \in Nat
      BY NextChunk
    <3>2. InOrder(<<>> \o Data(q)) /\ AllPast(<<>> \o Data(q), spawned, k + Len(q))
      BY <3>1, Sends, NothingYet
    <3> QED BY <2>1, <3>2
  <2>3. spawned \in Nat /\ spawned + 1 \in Nat /\ spawned < spawned + 1 /\ k + Len(q) \in Nat
    <3>1. spawned \in Nat
      BY NextChunk
    <3> QED BY <2>1, <3>1
  <2>4. AllPast(Data(q), spawned + 1, 0)
    BY <2>1, <2>2, <2>3, PastLater
  <2>5. InOrder(Data(q) \o Eof) /\ AllPast(Data(q) \o Eof, spawned + 1, 0)
    BY <1>0, <2>1, <2>2, <2>3, <2>4, Closes DEF OutTypes
  <2> QED BY <1>1, <2>5 DEF Coming, Mark
<1>2. CASE session # 0
  <2> DEFINE x == [kind |-> "snap", of |-> session, n |-> Screened]
  <2>1. MaxChunks \in Nat /\ Screened \in 0..MaxChunks /\ session \in 0..MaxSessions
    <3>1. session \in 0..MaxSessions
      BY <1>0 DEF OutTypes
    <3> QED BY <1>0, <3>1, ScreenedRange DEF OutputAssumption
  <2>2. x \in Items
    BY <2>1 DEF Items
  <2>3. <<x>> \in Seq(Items) /\ Len(<<x>>) = 1 /\ <<x>>[1] = x
    BY <2>2
  <2>4. InOrder(<<x>>) /\ AllPast(<<x>>, session, k)
    BY <2>1, <2>3 DEF InOrder, AllPast, Past
  <2>5. session = spawned /\ session \in Nat
    BY <1>2, NextChunk
  <2>6. InOrder(<<x>> \o Data(q)) /\ AllPast(<<x>> \o Data(q), session, k + Len(q))
    BY <2>3, <2>4, <2>5, Sends
  <2>7. k + Len(q) \in Nat /\ k + Len(q) <= Mark /\ Mark \in Nat /\ Coming = session
    BY <1>2, NextChunk, NoRaw DEF Coming
  <2> QED BY <1>2, <2>5, <2>6, <2>7, PastLater
<1> QED BY <1>1, <1>2

LEMMA SubSnapStep ==
  ASSUME OutputAssumption, OutInv, NEW v \in Viewers, SubSnap(v) PROVE OutInv'
<1> DEFINE p == IF session = 0 THEN Data(early[v]) \o Eof
                ELSE <<[kind |-> "snap", of |-> session, n |-> Screened]>> \o Data(early[v])
<1>0. OutTypes /\ LockInv /\ ChunksInv /\ EarlyInv /\ StreamInv
  BY DEF OutInv
<1>1. /\ sub[v] = "snap" /\ sub' = [sub EXCEPT ![v] = "on"]
      /\ early' = [early EXCEPT ![v] = <<>>] /\ subscribers' = subscribers \cup {v}
      /\ stream' = [stream EXCEPT ![v] = @ \o p]
      /\ UNCHANGED <<ptyVars, dirty, cache, pollVars, otherVars, handed>>
  BY DEF SubSnap
<1>2. /\ stream[v] = <<>> /\ poll = "idle" /\ raw = <<>>
      /\ \A u \in Viewers : sub[u] \in Holding => u = v
  BY <1>0, <1>1 DEF LockInv, Holding
<1>3. early[v] \in Seq(ChunkIds) /\ Data(early[v]) \in Seq(Items) /\ Eof \in Seq(Items)
  BY <1>0, DataItems, EofItem DEF OutTypes
<1>4. p \in Seq(Items)
  <2>1. MaxChunks \in Nat /\ Screened \in 0..MaxChunks /\ session \in 0..MaxSessions
    <3>1. session \in 0..MaxSessions
      BY <1>0 DEF OutTypes
    <3> QED BY <1>0, <3>1, ScreenedRange DEF OutputAssumption
  <2>2. [kind |-> "snap", of |-> session, n |-> Screened] \in Items
    BY <2>1 DEF Items
  <2>3. <<[kind |-> "snap", of |-> session, n |-> Screened]>> \in Seq(Items)
    BY <2>2
  <2> QED BY <1>3, <2>3, ConcatProperties
<1>5. InOrder(p) /\ AllPast(p, Coming, Mark)
  <2>1. PICK k \in Nat : /\ Consecutive(early[v], spawned, k)
                         /\ session # 0 => k + Len(early[v]) <= Base
    BY <1>0, <1>1 DEF EarlyInv, Holding
  <2> QED BY <1>2, <1>3, <1>4, <2>1, SnapStream
<1>6. /\ stream'[v] = p /\ stream' \in [Viewers -> Seq(Items)]
      /\ \A u \in Viewers : u # v => stream'[u] = stream[u]
  <2>1. stream[v] \o p = p
    BY <1>2, <1>4, ConcatEmptySeq
  <2> QED BY <1>0, <1>1, <1>4, <2>1 DEF OutTypes
<1>7. OutTypes'
  BY <1>0, <1>1, <1>6, NoChunks
     DEF OutTypes, SubStates, lifeVars, ptyVars, pollVars, otherVars
<1>8. LockInv'
  BY <1>0, <1>1, <1>2, <1>6
     DEF LockInv, Holding, OutTypes, lifeVars, ptyVars, pollVars, otherVars
<1>9. ChunksInv' /\ Base' = Base /\ RawBase' = RawBase
  BY <1>0, <1>1
     DEF ChunksInv, Consecutive, Base, RawBase, Gone, Overrun, lifeVars, ptyVars, pollVars
<1>10. EarlyInv'
  <2>1. \A u \in Viewers : sub'[u] \notin Holding
    BY <1>0, <1>1, <1>2 DEF OutTypes, Holding
  <2> QED BY <2>1 DEF EarlyInv
<1>11. Coming' = Coming /\ Mark' = Mark
  BY <1>1, <1>9 DEF Coming, Mark, lifeVars, ptyVars, pollVars
<1>12. StreamInv'
  BY <1>0, <1>1, <1>5, <1>6, <1>11 DEF StreamInv, OutTypes
<1> QED BY <1>7, <1>8, <1>9, <1>10, <1>12 DEF OutInv

\* A stream ends: its subscriber is no longer there.
LEMMA KillPruneStep ==
  ASSUME OutputAssumption, OutInv, NEW v \in Viewers, KillPrune(v) PROVE OutInv'
<1>0. OutTypes /\ LockInv /\ ChunksInv /\ EarlyInv /\ StreamInv
  BY DEF OutInv
<1>1. /\ evicting' = evicting \ {v} /\ subscribers' = subscribers \ {v}
      /\ stream' = [stream EXCEPT ![v] = IF v \in subscribers THEN @ \o Eof ELSE @]
      /\ UNCHANGED <<ptyVars, dirty, cache, subVars, pollVars, bound, killing, handed>>
  BY DEF KillPrune
<1>2. stream[v] \in Seq(Items) /\ InOrder(stream[v]) /\ spawned \in 0..MaxSessions
  BY <1>0 DEF OutTypes, StreamInv
<1>3. stream[v] \o Eof \in Seq(Items) /\ InOrder(stream[v] \o Eof)
  BY <1>2, Closes
<1>4. /\ stream' \in [Viewers -> Seq(Items)] /\ InOrder(stream'[v])
      /\ \A u \in Viewers : u # v => stream'[u] = stream[u]
      /\ v \notin subscribers => stream'[v] = stream[v]
  BY <1>0, <1>1, <1>2, <1>3 DEF OutTypes
<1>5. OutTypes'
  BY <1>0, <1>1, <1>4 DEF OutTypes, lifeVars, ptyVars, subVars, pollVars
<1>6. LockInv'
  BY <1>0, <1>1, <1>4 DEF LockInv, OutTypes, lifeVars, ptyVars, subVars, pollVars
<1>7. ChunksInv' /\ Base' = Base /\ RawBase' = RawBase
  BY <1>0, <1>1
     DEF ChunksInv, Consecutive, Base, RawBase, Gone, Overrun, lifeVars, ptyVars, pollVars
<1>8. EarlyInv'
  BY <1>0, <1>1, <1>7 DEF EarlyInv, Consecutive, lifeVars, ptyVars, subVars
<1>9. Coming' = Coming /\ Mark' = Mark
  BY <1>1, <1>7 DEF Coming, Mark, lifeVars, ptyVars, pollVars
<1>10. \A u \in subscribers' : u \in subscribers /\ stream'[u] = stream[u]
  BY <1>0, <1>1, <1>4 DEF OutTypes
<1>11. \A u \in Viewers : InOrder(stream'[u])
  BY <1>0, <1>4 DEF StreamInv
<1>12. StreamInv'
  BY <1>0, <1>9, <1>10, <1>11 DEF StreamInv
<1> QED BY <1>5, <1>6, <1>7, <1>8, <1>12 DEF OutInv

\* Everyone's stream gets the chunks in q that are next, and then its end.
LEMMA Finalized ==
  ASSUME OutputAssumption, OutInv, NEW q \in Seq(ChunkIds),
         q = <<>> \/ Consecutive(q, Coming, Mark),
         NEW e \in {Data(q) \o Eof, Eof}, Broadcast(e)
  PROVE  /\ stream' \in [Viewers -> Seq(Items)]
         /\ \A v \in Viewers : InOrder(stream'[v])
         /\ \A v \in Viewers : v \notin subscribers => stream'[v] = stream[v]
<1>0. OutTypes /\ StreamInv
  BY DEF OutInv
<1>1. Data(q) \in Seq(Items) /\ Eof \in Seq(Items) /\ spawned \in 0..MaxSessions
  BY <1>0, DataItems, EofItem DEF OutTypes
<1>2. e \in Seq(Items)
  BY <1>1, ConcatProperties
<1>3. \A v \in Viewers :
        stream'[v] = IF v \in subscribers THEN stream[v] \o e ELSE stream[v]
  BY DEF Broadcast
<1>4. stream' \in [Viewers -> Seq(Items)]
  <2>1. \A v \in Viewers : stream[v] \in Seq(Items) /\ stream[v] \o e \in Seq(Items)
    BY <1>0, <1>2, ConcatProperties DEF OutTypes
  <2> QED BY <2>1 DEF Broadcast
<1>5. ASSUME NEW v \in Viewers PROVE InOrder(stream'[v])
  <2>1. stream[v] \in Seq(Items) /\ InOrder(stream[v])
    BY <1>0 DEF OutTypes, StreamInv
  <2>2. CASE v \notin subscribers
    BY <1>3, <2>1, <2>2
  <2>3. CASE v \in subscribers /\ e = Eof
    BY <1>1, <1>3, <2>1, <2>3, Closes
  <2>4. CASE v \in subscribers /\ e = Data(q) \o Eof
    <3>1. AllPast(stream[v], Coming, Mark) /\ Coming \in Nat /\ Mark \in Nat
      BY <1>0, <2>4, NextChunk DEF StreamInv
    <3>2. Consecutive(q, Coming, Mark)
      BY NoChunks
    <3>3. stream[v] \o Data(q) \in Seq(Items) /\ InOrder(stream[v] \o Data(q))
      BY <2>1, <3>1, <3>2, Sends
    <3>4. InOrder((stream[v] \o Data(q)) \o Eof)
      BY <1>1, <3>3, Closes
    <3>5. (stream[v] \o Data(q)) \o Eof = stream[v] \o (Data(q) \o Eof)
      BY <1>1, <2>1, Regrouped
    <3> QED BY <1>3, <2>4, <3>4, <3>5
  <2> QED BY <2>2, <2>3, <2>4
<1> QED BY <1>3, <1>4, <1>5

\* Where everything starts over.
LEMMA StartOver ==
  ASSUME OutputAssumption
  PROVE  0 \in 0..Budget /\ 0 < Budget /\ Len(<<>>) <= PendingCap /\ <<>> \in Seq(ChunkIds)
BY NoChunks DEF OutputAssumption

\* What is pending comes next, if the poll has nothing in hand.
LEMMA PendingNext ==
  ASSUME OutputAssumption, OutInv, raw = <<>>
  PROVE  /\ pending \in Seq(ChunkIds) /\ ToSet(pending) \subseteq ChunkIds
         /\ pending = <<>> \/ Consecutive(pending, Coming, Mark)
<1>1. OutTypes /\ ChunksInv
  BY DEF OutInv
<1> QED BY <1>1, NoRaw, MembersIn DEF OutTypes, ChunksInv, Coming

LEMMA KillTakeStep ==
  ASSUME OutputAssumption, OutInv, KillTake PROVE OutInv'
<1>0. OutTypes /\ LockInv /\ ChunksInv /\ EarlyInv /\ StreamInv
  BY DEF OutInv
<1>1. /\ killing /\ killing' = FALSE /\ subscribers' = {}
      /\ Broadcast(Data(pending) \o Eof)
      /\ pending' = <<>> /\ handed' = handed \cup ToSet(pending)
      /\ UNCHANGED <<lifeVars, appended, rpc, unrendered, dropped, dirty, cache, subVars,
                     pollVars, bound, evicting>>
  BY DEF KillTake
<1>2. session # 0 /\ raw = <<>> /\ poll = "idle" /\ \A u \in Viewers : sub[u] \notin Holding
  BY <1>0, <1>1 DEF LockInv
<1>3. /\ stream' \in [Viewers -> Seq(Items)]
      /\ \A v \in Viewers : InOrder(stream'[v])
      /\ \A v \in Viewers : v \notin subscribers => stream'[v] = stream[v]
  BY <1>1, <1>2, PendingNext, Finalized
<1>4. OutTypes'
  <2>1. /\ pending' \in Seq(ChunkIds) /\ Len(pending') <= PendingCap
        /\ handed' \subseteq ChunkIds
    BY <1>0, <1>1, <1>2, PendingNext, StartOver DEF OutTypes
  <2> QED BY <1>0, <1>1, <1>3, <2>1 DEF OutTypes, lifeVars, subVars, pollVars
<1>5. LockInv'
  BY <1>0, <1>1, <1>3 DEF LockInv, lifeVars, subVars, pollVars
<1>6. /\ Base' = appended /\ RawBase' = appended /\ Len(raw') = 0 /\ Len(pending') = 0
      /\ raw' = <<>> /\ appended \in Nat
  BY <1>1, <1>2, NoChunks, NextChunk DEF Base, RawBase, pollVars
<1>7. ChunksInv'
  <2>1. Consecutive(pending', session', Base') /\ Consecutive(raw', session', RawBase')
    BY <1>1, <1>6, NoChunks
  <2>2. \A n \in 1..Base' : Gone(n)'
    BY <1>1, <1>2, <1>6, AllDrained DEF lifeVars
  <2> QED BY <1>0, <1>1, <1>6, <2>1, <2>2 DEF ChunksInv, lifeVars, pollVars
<1>8. EarlyInv'
  BY <1>1, <1>2 DEF EarlyInv, subVars
<1>9. StreamInv'
  BY <1>1, <1>3 DEF StreamInv
<1> QED BY <1>4, <1>5, <1>7, <1>8, <1>9 DEF OutInv

LEMMA PollDeadStep ==
  ASSUME OutputAssumption, OutInv, PollDead \/ KillDead PROVE OutInv'
<1>0. OutTypes /\ LockInv /\ ChunksInv /\ EarlyInv /\ StreamInv
  BY DEF OutInv
<1>1. /\ subscribers' = {} /\ Broadcast(Eof)
      /\ UNCHANGED <<ptyVars, dirty, cache, subVars, pollVars, otherVars, handed>>
  BY DEF PollDead, KillDead
<1>2. /\ stream' \in [Viewers -> Seq(Items)]
      /\ \A v \in Viewers : InOrder(stream'[v])
      /\ \A v \in Viewers : v \notin subscribers => stream'[v] = stream[v]
  BY <1>1, NoChunks, Finalized
<1>3. OutTypes'
  BY <1>0, <1>1, <1>2 DEF OutTypes, lifeVars, ptyVars, subVars, pollVars, otherVars
<1>4. LockInv'
  BY <1>0, <1>1, <1>2 DEF LockInv, lifeVars, ptyVars, subVars, pollVars, otherVars
<1>5. ChunksInv' /\ Base' = Base
  BY <1>0, <1>1
     DEF ChunksInv, Consecutive, Base, RawBase, Gone, Overrun, lifeVars, ptyVars, pollVars
<1>6. EarlyInv'
  BY <1>0, <1>1, <1>5 DEF EarlyInv, Consecutive, lifeVars, ptyVars, subVars
<1>7. StreamInv'
  BY <1>1, <1>2 DEF StreamInv
<1> QED BY <1>3, <1>4, <1>5, <1>6, <1>7 DEF OutInv

LEMMA PollTakeStep ==
  ASSUME OutputAssumption, OutInv, PollTake PROVE OutInv'
<1>0. OutTypes /\ LockInv /\ ChunksInv /\ EarlyInv /\ StreamInv
  BY DEF OutInv
<1>1. /\ poll = "take" /\ poll' = "send" /\ raw' = pending /\ pending' = <<>>
      /\ handed' = handed \cup ToSet(pending)
      /\ UNCHANGED <<lifeVars, appended, rpc, unrendered, dropped, dirty, cache,
                     subscribers, subVars, stream, quiet, otherVars>>
  BY DEF PollTake
<1>2. session # 0 /\ raw = <<>> /\ ~killing /\ \A u \in Viewers : sub[u] \notin Holding
  BY <1>0, <1>1 DEF LockInv
<1>3. OutTypes'
  BY <1>0, <1>1, <1>2, PendingNext, NoChunks
     DEF OutTypes, lifeVars, subVars, otherVars, OutputAssumption
<1>4. LockInv'
  BY <1>0, <1>1, <1>2 DEF LockInv, lifeVars, subVars, otherVars
<1>5. /\ Base' = appended /\ Len(pending') = 0 /\ appended \in Nat
      /\ Base \in Nat /\ Len(pending) \in Nat /\ Base + Len(pending) = appended
  BY <1>1, NoChunks, NextChunk, BaseSum DEF Base
<1>6. RawBase' = Base
  <2>1. CASE pending = <<>>
    <3>1. raw' = <<>> /\ Base' = Base
      BY <1>1, <1>5, <2>1, NoChunks
    <3> QED BY <3>1 DEF RawBase
  <2>2. CASE pending # <<>>
    <3>1. pending[1] = [of |-> session, n |-> Base + 1]
      <4>1. 1 \in 1..Len(pending)
        BY <1>0, <1>5, <2>2 DEF OutTypes
      <4> QED BY <1>0, <4>1 DEF ChunksInv, Consecutive
    <3>2. RawBase' = pending[1].n - 1
      BY <1>1, <2>2 DEF RawBase
    <3> QED BY <1>5, <3>1, <3>2
  <2> QED BY <2>1, <2>2
<1>7. ChunksInv'
  <2>1. Consecutive(pending', session', Base') /\ Consecutive(raw', session', RawBase')
    BY <1>0, <1>1, <1>6, NoChunks DEF ChunksInv, lifeVars
  <2>2. \A n \in 1..Base' : Gone(n)'
    BY <1>1, <1>2, <1>5, AllDrained DEF lifeVars
  <2>3. Len(pending') <= appended' /\ RawBase' \in Nat /\ RawBase' + Len(raw') <= Base'
    BY <1>1, <1>5, <1>6
  <2> QED BY <1>0, <1>1, <2>1, <2>2, <2>3 DEF ChunksInv, lifeVars
<1>8. EarlyInv'
  BY <1>1, <1>2 DEF EarlyInv, subVars
<1>9. Coming' = Coming /\ Mark' = Mark
  BY <1>1, <1>2, <1>6, NoRaw DEF Coming, Mark, lifeVars
<1>10. StreamInv'
  BY <1>0, <1>1, <1>9 DEF StreamInv, InOrder, AllPast
<1> QED BY <1>3, <1>4, <1>7, <1>8, <1>10 DEF OutInv

LEMMA PollSendStep ==
  ASSUME OutputAssumption, OutInv, PollSend PROVE OutInv'
<1>0. OutTypes /\ LockInv /\ ChunksInv /\ EarlyInv /\ StreamInv
  BY DEF OutInv
<1>1. /\ poll = "send" /\ poll' = "idle" /\ raw' = <<>>
      /\ UNCHANGED <<cache, subVars, quiet, otherVars, handed>>
      /\ UNCHANGED <<spawned, dead, written, appended, dropped>>
  BY DEF PollSend, SessionOver, lifeVars, ptyVars
<1>2. session # 0 /\ ~killing /\ \A u \in Viewers : sub[u] \notin Holding
  BY <1>0, <1>1 DEF LockInv
<1>3. raw \in Seq(ChunkIds) /\ Consecutive(raw, Coming, Mark)
  BY <1>0, <1>2 DEF OutTypes, ChunksInv, Coming, Mark
<1>4. EarlyInv'
  BY <1>1, <1>2 DEF EarlyInv, subVars
<1>5. CASE dead
  <2>1. /\ session' = 0 /\ pending' = <<>> /\ subscribers' = {}
        /\ rpc' = "read" /\ unrendered' = 0 /\ dirty' = FALSE
        /\ Broadcast(Data(raw) \o Eof)
    BY <1>5 DEF PollSend, SessionOver
  <2>2. /\ stream' \in [Viewers -> Seq(Items)]
        /\ \A v \in Viewers : InOrder(stream'[v])
        /\ \A v \in Viewers : v \notin subscribers => stream'[v] = stream[v]
    BY <1>3, <2>1, Finalized
  <2>3. OutTypes'
    <3>1. /\ pending' \in Seq(ChunkIds) /\ Len(pending') <= PendingCap
          /\ raw' \in Seq(ChunkIds) /\ unrendered' \in 0..Budget /\ unrendered' < Budget
      BY <1>1, <2>1, StartOver
    <3>2. written' \in 0..MaxChunks /\ appended' \in 0..written'
      BY <1>0, <1>1 DEF OutTypes
    <3> QED BY <1>0, <1>1, <2>1, <2>2, <3>1, <3>2 DEF OutTypes, subVars, otherVars
  <2>4. LockInv'
    BY <1>0, <1>1, <1>2, <2>1, <2>2 DEF LockInv, Holding, subVars, otherVars
  <2>5. ChunksInv'
    <3>1. /\ Len(pending') <= appended' /\ Base' = appended /\ RawBase' = appended
          /\ appended \in Nat /\ Len(raw') = 0 /\ appended + 0 <= appended
      BY <1>1, <2>1, NoChunks, NextChunk DEF Base, RawBase
    <3>2. \A s, k : Consecutive(pending', s, k) /\ Consecutive(raw', s, k)
      BY <1>1, <2>1, NoChunks
    <3> QED BY <1>0, <1>1, <2>1, <3>1, <3>2 DEF ChunksInv
  <2>6. StreamInv'
    BY <2>1, <2>2 DEF StreamInv
  <2> QED BY <1>4, <2>3, <2>4, <2>5, <2>6 DEF OutInv
<1>6. CASE ~dead
  <2>1. UNCHANGED <<ptyVars, dirty, subscribers>> /\ Broadcast(Data(raw))
    <3>1. UNCHANGED <<ptyVars, dirty, subscribers>> /\ Broadcast(Data(raw) \o <<>>)
      BY <1>6 DEF PollSend
    <3>2. Data(raw) \o <<>> = Data(raw)
      BY <1>3, DataItems, ConcatEmptySeq
    <3> QED BY <3>1, <3>2
  <2>2. /\ stream' = [v \in Viewers |-> stream'[v]]
        /\ \A v \in Viewers :
             stream'[v] = IF v \in subscribers THEN stream[v] \o Data(raw) ELSE stream[v]
    BY <2>1 DEF Broadcast
  <2>3. /\ Base' = Base /\ RawBase' = Base /\ Base \in Nat /\ Len(raw) \in Nat
        /\ RawBase \in Nat /\ RawBase + Len(raw) <= Base /\ raw' = <<>>
    BY <1>0, <1>1, <2>1, NextChunk DEF Base, RawBase, ChunksInv, lifeVars, ptyVars
  <2>4. Coming' = Coming /\ Mark + Len(raw) <= Mark' /\ Mark' \in Nat /\ Mark \in Nat
    BY <1>2, <2>1, <2>3 DEF Coming, Mark, lifeVars, ptyVars
  <2>5. ASSUME NEW v \in Viewers
        PROVE  /\ stream'[v] \in Seq(Items) /\ InOrder(stream'[v])
               /\ v \in subscribers => AllPast(stream'[v], Coming', Mark')
    <3>1. stream[v] \in Seq(Items) /\ InOrder(stream[v])
      BY <1>0 DEF OutTypes, StreamInv
    <3>2. CASE v \notin subscribers
      BY <2>2, <3>1, <3>2
    <3>3. CASE v \in subscribers
      <4>1. AllPast(stream[v], Coming, Mark) /\ Coming \in Nat /\ Mark \in Nat
        BY <1>0, <3>3, NextChunk DEF StreamInv
      <4>2. /\ stream[v] \o Data(raw) \in Seq(Items) /\ InOrder(stream[v] \o Data(raw))
            /\ AllPast(stream[v] \o Data(raw), Coming, Mark + Len(raw))
        BY <1>3, <3>1, <4>1, Sends
      <4>3. AllPast(stream[v] \o Data(raw), Coming, Mark')
        <5>1. Mark + Len(raw) \in Nat
          BY <2>3, <2>4
        <5> QED BY <2>4, <4>1, <4>2, <5>1, PastLater
      <4> QED BY <2>2, <2>4, <3>3, <4>2, <4>3
    <3> QED BY <3>2, <3>3
  <2>6. stream' \in [Viewers -> Seq(Items)]
    BY <2>2, <2>5
  <2>7. OutTypes'
    BY <1>0, <1>1, <2>1, <2>6, NoChunks DEF OutTypes, lifeVars, ptyVars, subVars, otherVars
  <2>8. LockInv'
    BY <1>0, <1>1, <1>2, <2>1, <2>2
       DEF LockInv, Holding, lifeVars, ptyVars, subVars, otherVars
  <2>9. ChunksInv'
    <3>1. /\ Len(raw') = 0 /\ RawBase' + Len(raw') <= Base' /\ RawBase' \in Nat
          /\ Consecutive(raw', session', RawBase')
      BY <2>3, NoChunks
    <3>2. Consecutive(pending', session', Base') /\ Len(pending') <= appended'
      BY <1>0, <2>1, <2>3 DEF ChunksInv, lifeVars, ptyVars
    <3>3. \A n \in 1..Base' : Gone(n)'
      BY <1>0, <1>1, <1>2, <2>3 DEF ChunksInv, Gone, Overrun
    <3> QED BY <1>0, <1>1, <1>2, <2>1, <3>1, <3>2, <3>3 DEF ChunksInv, lifeVars, ptyVars
  <2>10. StreamInv'
    <3>1. subscribers' = subscribers /\ subscribers \subseteq Viewers
      BY <1>0, <2>1 DEF OutTypes
    <3> QED BY <2>5, <3>1 DEF StreamInv
  <2> QED BY <1>4, <2>7, <2>8, <2>9, <2>10 DEF OutInv
<1> QED BY <1>5, <1>6

\* What is retained of q is all of it, or as much as the cap allows of its end.
LEMMA RetainedTail ==
  ASSUME OutputAssumption, NEW q \in Seq(ChunkIds), NEW s, NEW k \in Nat, Consecutive(q, s, k)
  PROVE  /\ Retained(q) \in Seq(ChunkIds) /\ Len(Retained(q)) <= RetainCap
         /\ \E l \in Nat : /\ Consecutive(Retained(q), s, l)
                           /\ l + Len(Retained(q)) = k + Len(q)
                           /\ l = k \/ Len(Retained(q)) = RetainCap
<1>1. Len(q) \in Nat /\ RetainCap \in Nat
  BY DEF OutputAssumption
<1>2. CASE Len(q) <= RetainCap
  <2>1. Retained(q) = q
    BY <1>1, <1>2 DEF Retained
  <2> QED BY <1>2, <2>1
<1>3. CASE Len(q) > RetainCap
  <2> DEFINE d == Len(q) - RetainCap
  <2>1. d \in Nat /\ k + d \in Nat /\ d + 1 \in Int /\ Len(q) \in Int
    BY <1>1, <1>3
  <2>2. \A i \in (d + 1)..Len(q) : q[i] \in ChunkIds
    BY <1>1, <2>1, ElementOfSeq
  <2>3. /\ SubSeq(q, d + 1, Len(q)) \in Seq(ChunkIds)
        /\ Len(SubSeq(q, d + 1, Len(q))) = IF d + 1 <= Len(q) THEN Len(q) - (d + 1) + 1 ELSE 0
        /\ \A i \in 1..(Len(q) - (d + 1) + 1) : SubSeq(q, d + 1, Len(q))[i] = q[d + 1 + i - 1]
    BY <2>1, <2>2, SubSeqProperties
  <2>4. Retained(q) = SubSeq(q, d + 1, Len(q))
    BY <1>1, <1>3 DEF Retained
  <2>5. Len(Retained(q)) = RetainCap
    BY <1>1, <1>3, <2>3, <2>4
  <2>6. ASSUME NEW i \in 1..RetainCap
        PROVE  Retained(q)[i] = [of |-> s, n |-> (k + d) + i]
    <3>1. Len(q) - (d + 1) + 1 = RetainCap /\ d + 1 + i - 1 = d + i /\ d + i \in 1..Len(q)
          /\ k + (d + i) = (k + d) + i
      BY <1>1, <1>3
    <3>2. Retained(q)[i] = q[d + i]
      BY <2>3, <2>4, <3>1
    <3>3. q[d + i] = [of |-> s, n |-> k + (d + i)]
      BY <3>1 DEF Consecutive
    <3> QED BY <3>1, <3>2, <3>3
  <2>7. Consecutive(Retained(q), s, k + d)
    BY <2>5, <2>6 DEF Consecutive
  <2>8. (k + d) + Len(Retained(q)) = k + Len(q) /\ Len(Retained(q)) <= RetainCap
    BY <1>1, <2>5
  <2> QED BY <2>1, <2>3, <2>4, <2>5, <2>7, <2>8
<1> QED BY <1>1, <1>2, <1>3

\* What PollFinal leaves in the cache.
LEMMA FinalCache ==
  ASSUME OutputAssumption, OutInv, PollFinal
  PROVE  /\ session # 0 /\ session = spawned /\ raw = <<>> /\ Base \in Nat
         /\ cache' = Retained(pending) /\ pending \in Seq(ChunkIds)
         /\ Consecutive(pending, spawned, Base) /\ Base + Len(pending) = appended
         /\ ~killing /\ \A u \in Viewers : sub[u] \notin Holding
<1>0. OutTypes /\ LockInv /\ ChunksInv
  BY DEF OutInv
<1>1. poll = "join" /\ cache' = Retained(cache \o pending)
  BY DEF PollFinal
<1>2. session # 0 /\ raw = <<>> /\ ~killing /\ \A u \in Viewers : sub[u] \notin Holding
  BY <1>0, <1>1 DEF LockInv
<1>3. cache = <<>> /\ pending \in Seq(ChunkIds) /\ Consecutive(pending, session, Base)
  BY <1>0, <1>2 DEF OutTypes, ChunksInv
<1>4. cache \o pending = pending
  BY <1>3, ConcatEmptySeq
<1>5. session = spawned /\ Base \in Nat /\ Base + Len(pending) = appended
  BY <1>2, NextChunk DEF Base
<1> QED BY <1>1, <1>2, <1>3, <1>4, <1>5

LEMMA PollFinalStep ==
  ASSUME OutputAssumption, OutInv, PollFinal PROVE OutInv'
<1>0. OutTypes /\ LockInv /\ ChunksInv /\ EarlyInv /\ StreamInv
  BY DEF OutInv
<1>1. /\ poll' = "idle" /\ session' = 0 /\ pending' = <<>>
      /\ rpc' = "read" /\ unrendered' = 0 /\ dirty' = FALSE
      /\ quiet' = TRUE /\ raw' = raw
      /\ UNCHANGED <<spawned, dead, written, appended, dropped>>
      /\ UNCHANGED <<subscribers, subVars, stream, otherVars, handed>>
  BY DEF PollFinal, SessionOver
<1>2. cache' \in Seq(ChunkIds) /\ Len(cache') <= RetainCap
      /\ \E l \in Nat : Consecutive(cache', spawned, l)
  BY FinalCache, RetainedTail
<1>3. OutTypes'
  <2>1. /\ pending' \in Seq(ChunkIds) /\ Len(pending') <= PendingCap
        /\ unrendered' \in 0..Budget /\ unrendered' < Budget
    BY <1>1, StartOver
  <2>2. written' \in 0..MaxChunks /\ appended' \in 0..written'
    BY <1>0, <1>1 DEF OutTypes
  <2> QED BY <1>0, <1>1, <1>2, <2>1, <2>2 DEF OutTypes, subVars, otherVars
<1>4. LockInv'
  BY <1>0, <1>1, FinalCache DEF LockInv, Holding, subVars, otherVars
<1>5. ChunksInv'
  <2>1. /\ Len(pending') <= appended' /\ Base' = appended /\ RawBase' = appended
        /\ appended \in Nat /\ Len(raw') = 0 /\ appended + 0 <= appended
    BY <1>1, FinalCache, NoChunks, NextChunk DEF Base, RawBase
  <2>2. \A s, k : Consecutive(pending', s, k) /\ Consecutive(raw', s, k)
    BY <1>1, FinalCache, NoChunks
  <2> QED BY <1>1, <1>2, <2>1, <2>2 DEF ChunksInv
<1>6. EarlyInv'
  BY <1>1, FinalCache DEF EarlyInv, subVars
<1>7. Coming \in Nat /\ Coming' \in Nat /\ Coming < Coming' /\ Mark \in Nat /\ Mark' = 0
  BY <1>1, FinalCache, NextChunk DEF Coming, Mark
<1>8. \A u \in subscribers' : AllPast(stream'[u], Coming', Mark')
  <2> TAKE u \in subscribers'
  <2>1. stream[u] \in Seq(Items) /\ AllPast(stream[u], Coming, Mark) /\ stream' = stream
    BY <1>0, <1>1 DEF OutTypes, StreamInv
  <2> QED BY <1>7, <2>1, PastLater
<1>9. StreamInv'
  BY <1>0, <1>1, <1>8 DEF StreamInv
<1> QED BY <1>3, <1>4, <1>5, <1>6, <1>9 DEF OutInv

(***************************************************************************)
(* The theorems.                                                           *)
(***************************************************************************)
LEMMA OutInit == ASSUME OutputAssumption, Init PROVE OutInv
<1> USE DEF Init
<1>1. /\ 0 \in 0..MaxSessions /\ 0 \in 0..MaxChunks /\ 0 \in 0..0 /\ 0 <= RetainCap
      /\ 0 <= PendingCap /\ 0 \in 0..Budget /\ 0 < Budget
  BY DEF OutputAssumption
<1>2. early \in [Viewers -> Seq(ChunkIds)] /\ stream \in [Viewers -> Seq(Items)]
  BY NoChunks, NothingYet
<1>3. OutTypes
  BY <1>1, <1>2, NoChunks DEF OutTypes, SubStates
<1>4. LockInv
  BY DEF LockInv, Holding
<1>5. Len(pending) = 0 /\ Len(raw) = 0 /\ Base = 0 /\ RawBase = 0
  <2>1. appended = 0 /\ Len(pending) = 0 /\ Len(raw) = 0 /\ raw = <<>>
    BY NoChunks
  <2> HIDE DEF Init
  <2> QED BY <2>1 DEF Base, RawBase
<1>6. ChunksInv
  <2>1. \E k \in Nat : Consecutive(cache, spawned, k)
    BY NoChunks
  <2>2. \A s, k : Consecutive(pending, s, k) /\ Consecutive(raw, s, k)
    BY NoChunks
  <2> QED BY <1>5, <2>1, <2>2 DEF ChunksInv
<1>7. EarlyInv
  BY DEF EarlyInv, Holding
<1>8. StreamInv
  BY NothingYet DEF StreamInv
<1> QED BY <1>3, <1>4, <1>6, <1>7, <1>8 DEF OutInv

LEMMA OutSteps == ASSUME OutputAssumption, OutInv, [Next]_vars PROVE OutInv'
<1>1. CASE UNCHANGED vars
  <2>1. OutTypes' /\ LockInv'
    BY <1>1
       DEF OutInv, OutTypes, LockInv, vars, lifeVars, ptyVars, subVars, pollVars, otherVars
  <2>2. UNCHANGED ChunkVars /\ quiet' = quiet /\ subscribers' = subscribers
        /\ poll' = poll /\ killing' = killing /\ sub' = sub
    BY <1>1 DEF ChunkVars, vars, lifeVars, ptyVars, subVars, pollVars, otherVars
  <2> QED BY <2>1, <2>2, SilentStep
<1>2. CASE Next
  <2>1. CASE Write \/ Die \/ KillChannel \/ KillTake \/ KillDead
    BY <2>1, SilentSteps, KillTakeStep, PollDeadStep
  <2>2. CASE Reader
    BY <2>2, SilentSteps, ReaderAppendStep DEF Reader
  <2>3. CASE Poll
    BY <2>3, SilentSteps, PollDeadStep, PollTakeStep, PollSendStep, PollFinalStep DEF Poll
  <2>4. ASSUME NEW v \in Viewers, Spawn(v) \/ SubOpen(v) \/ KillClient(v) \/ Disconnect(v)
        PROVE  OutInv'
    BY <2>4, SilentSteps, SpawnStep
  <2>5. ASSUME NEW v \in Viewers, Task(v) PROVE OutInv'
    BY <2>5, SilentSteps, SubLockStep, SubTakeStep, SubSnapStep, KillPruneStep DEF Task
  <2> QED BY <1>2, <2>1, <2>2, <2>3, <2>4, <2>5 DEF Next
<1> QED BY <1>1, <1>2

LEMMA OutAlways == Spec => []OutInv
BY OutputAssumption, OutInit, OutSteps, PTL DEF Spec

\* Every variable keeps its type, and what is pending or retained its cap: what is
\* drained, cached and sent is never anything but chunks of sessions.
THEOREM OutputTyped == Spec => []OutputTypeOK
<1>1. OutInv => OutputTypeOK
  <2> SUFFICES ASSUME OutInv PROVE OutputTypeOK
    OBVIOUS
  <2>0. OutTypes
    BY DEF OutInv
  <2>1. (pending \o cache) \o raw \in Seq(ChunkIds)
    BY <2>0, ConcatProperties DEF OutTypes
  <2>2. ToSet(pending \o cache \o raw) \subseteq ChunkIds
    BY <2>1, MembersIn
  <2>3. \A v \in Viewers : ToSet(early[v]) \subseteq ChunkIds /\ ToSet(stream[v]) \subseteq Items
    BY <2>0, MembersIn DEF OutTypes
  <2> QED BY <2>0, <2>2, <2>3, ScreenedRange, OutputAssumption
     DEF OutTypes, OutputTypeOK, SubStates
<1> QED BY <1>1, OutAlways, PTL

\* The output in a stream is in order and without repetition, from wherever it
\* came; none follows the end of its session, and none is of an earlier session than
\* the snapshot.
THEOREM StreamsInOrder == Spec => []StreamsOrdered
<1>1. OutInv => StreamsOrdered
  BY DEF OutInv, StreamInv, InOrder, MayFollow, StreamsOrdered
<1> QED BY <1>1, OutAlways, PTL

\* The final output is retained, up to the cap, if the reader always finishes
\* within its grace; a full buffer may have been dropped before.
LEMMA TailStep ==
  ASSUME OutputAssumption, GraceEnough, OutInv, LateSubscribersGetTheTail, [Next]_vars
  PROVE  LateSubscribersGetTheTail'
<1>1. CASE PollFinal
  <2>1. /\ session # 0 /\ session = spawned /\ Base \in Nat
        /\ cache' = Retained(pending) /\ pending \in Seq(ChunkIds)
        /\ Consecutive(pending, spawned, Base) /\ Base + Len(pending) = appended
    BY <1>1, FinalCache
  <2>2. /\ appended = written /\ written' = written /\ spawned' = spawned
        /\ handed' = handed /\ dropped' = dropped
    BY <1>1 DEF PollFinal, SessionOver
  <2>3. cache' \in Seq(ChunkIds) /\ Len(cache') \in Nat /\ Len(pending) \in Nat
    BY <2>1, RetainedTail
  <2>4. PICK l \in Nat : /\ Consecutive(cache', spawned, l)
                         /\ l + Len(cache') = Base + Len(pending)
                         /\ l = Base \/ Len(cache') = RetainCap
    BY <2>1, RetainedTail
  <2>5. ASSUME NEW n \in 1..written
        PROVE  \/ Gone(n) \/ Contains(cache', [of |-> spawned, n |-> n])
               \/ Len(cache') = RetainCap /\ (cache' = <<>> \/ n < Head(cache').n)
    <3>1. CASE n > l
      <4>1. n - l \in 1..Len(cache') /\ l + (n - l) = n
        BY <2>1, <2>2, <2>3, <2>4, <3>1
      <4>2. cache'[n - l] = [of |-> spawned, n |-> n]
        BY <2>4, <4>1 DEF Consecutive
      <4> QED BY <4>1, <4>2 DEF Contains
    <3>2. CASE n <= l /\ l = Base
      BY <2>1, <3>2 DEF OutInv, ChunksInv
    <3>3. CASE n <= l /\ Len(cache') = RetainCap
      <4>1. CASE cache' # <<>>
        <5>1. 1 \in 1..Len(cache') /\ Head(cache') = cache'[1]
          BY <2>3, <4>1
        <5>2. cache'[1] = [of |-> spawned, n |-> l + 1]
          BY <2>4, <5>1 DEF Consecutive
        <5>3. Head(cache').n = l + 1
          BY <5>1, <5>2
        <5> QED BY <3>3, <5>3
      <4> QED BY <3>3, <4>1
    <3> QED BY <2>4, <3>1, <3>2, <3>3
  <2> QED BY <2>2, <2>5 DEF LateSubscribersGetTheTail, Gone, Overrun
<1>2. CASE session # 0 /\ ~PollFinal
  <2>1. ~quiet
    BY <1>2 DEF OutInv, ChunksInv
  <2>2. quiet' = quiet \/ quiet' = FALSE
    BY <1>2 DEF Next, Reader, Poll, Task, vars, pollVars, Write, Die, ReaderAppend, ReaderParse,
       ReaderGoOn, PollDead, PollRead, PollTake, PollSend, PollUnheard, PollJoin, KillChannel,
       KillTake, KillDead, Spawn, SubOpen, SubLookup, SubLock, SubTake, SubLook, SubSnap,
       KillPrune, KillClient, Disconnect
  <2> QED BY <2>1, <2>2 DEF LateSubscribersGetTheTail
<1>3. CASE session = 0 /\ ~PollFinal
  <2>1. CASE \E v \in Viewers : Spawn(v)
    BY <2>1 DEF Spawn, LateSubscribersGetTheTail
  <2>2. CASE ~\E v \in Viewers : Spawn(v)
    <3>1. UNCHANGED <<quiet, session, written, spawned, cache, handed, dropped>>
      <4>1. poll = "idle" /\ ~killing /\ \A v \in Viewers : sub[v] # "take"
        BY <1>3 DEF OutInv, LockInv
      <4> QED BY <1>3, <2>2, <4>1
         DEF Next, Reader, Poll, Task, vars, lifeVars, ptyVars, pollVars, Write, Die,
             ReaderAppend, ReaderParse, ReaderGoOn, PollDead, PollRead, PollTake, PollSend,
             PollUnheard, PollJoin, KillChannel, KillTake, KillDead, SubOpen, SubLookup,
             SubLock, SubTake, SubLook, SubSnap, KillPrune, KillClient, Disconnect
    <3> QED BY <3>1 DEF LateSubscribersGetTheTail, Overrun
  <2> QED BY <2>1, <2>2
<1> QED BY <1>1, <1>2, <1>3

\* Of a session that ended without subscribers every chunk was drained while it lived,
\* or is retained, or is older than the cap keeps, or went with a full buffer.
THEOREM TailKept ==
  ASSUME GraceEnough PROVE Spec => []LateSubscribersGetTheTail
<1>1. Init => LateSubscribersGetTheTail
  BY DEF Init, LateSubscribersGetTheTail
<1>2. OutInv /\ LateSubscribersGetTheTail /\ [Next]_vars => LateSubscribersGetTheTail'
  BY OutputAssumption, TailStep
<1> QED BY <1>1, <1>2, OutAlways, PTL DEF Spec
=============================================================================
