--------------------------- MODULE GeometryProofs ---------------------------
(***************************************************************************)
(* The two places where sizes are decided.  The session fits the terminals *)
(* of all its viewers, however many they are and whatever their sizes; and *)
(* the layout engine divides a screen of any size among the windows of any *)
(* tree, so that nothing is left out and nothing is covered twice.         *)
(***************************************************************************)
EXTENDS Geometry, Splits, SequenceTheorems, WellFoundedInduction, TLAPS

Side   == Nat \ {0}
Extent == Side \X Side
Maybe  == Nat \X Nat

\* A handler that is about to put a size into the table of clients has one.
Asks(v) == call[v].at = "section" /\ call[v].does \in {"spawn", "resize"}

Stage   == {"idle", "section", "recalculate", "notify", "reply"}
Deed    == {"nothing", "spawn", "resize", "evict", "kill"}
Request == [at : Stage, does : Deed, size : Maybe, to : SUBSET Viewers]

FitsInv ==
  /\ clients \subseteq Viewers /\ size \in Maybe
  /\ entry \in [Viewers -> Maybe] /\ \A v \in clients : entry[v] \in Extent
  /\ call \in [Viewers -> Request] /\ \A v \in Viewers : Asks(v) => call[v].size \in Extent
  /\ FitsEveryone

(***************************************************************************)
(* The smallest size.                                                      *)
(***************************************************************************)
\* The least of some numbers is one of them, and none is less.
LEMMA LeastNumber ==
  ASSUME NEW N \in SUBSET Nat, N # {}
  PROVE  Min(N) \in N /\ \A n \in N : Min(N) <= n
<1>1. \E m \in N : \A n \in N : m <= n
  <2>1. PICK m \in N : \A n \in N : <<n, m>> \notin OpToRel(<, Nat)
    BY NatLessThanWellFounded, WFMin
  <2>2. \A n \in N : ~(n < m)
    BY <2>1 DEF OpToRel
  <2> QED BY <2>2
<1> QED BY <1>1 DEF Min

\* Each side of the least size is a side of one of the sizes, and fits all.
LEMMA LeastFits ==
  ASSUME NEW S \in SUBSET Extent, S # {}
  PROVE  Least(S) \in Extent /\ \A s \in S : Least(S)[1] <= s[1] /\ Least(S)[2] <= s[2]
<1> DEFINE W == {s[1] : s \in S}
           H == {s[2] : s \in S}
<1>1. W \in SUBSET Side /\ W # {} /\ H \in SUBSET Side /\ H # {}
  BY DEF Extent
<1>2. Min(W) \in W /\ \A n \in W : Min(W) <= n
  BY <1>1, LeastNumber DEF Side
<1>3. Min(H) \in H /\ \A n \in H : Min(H) <= n
  BY <1>1, LeastNumber DEF Side
<1>4. Least(S) = <<Min(W), Min(H)>>
  BY DEF Least
<1> HIDE DEF W, H
<1>5. Least(S) \in Extent
  BY <1>1, <1>2, <1>3, <1>4 DEF Extent
<1>6. \A s \in S : s[1] \in W /\ s[2] \in H
  BY DEF W, H
<1> QED BY <1>2, <1>3, <1>4, <1>5, <1>6

\* The session has the smallest size its viewers have reported.
LEMMA SmallestFits ==
  ASSUME clients' # {}, \A v \in clients' : entry'[v] \in Extent, size' = Smallest'
  PROVE  size' \in Extent /\ FitsEveryone'
<1>1. Reported' \in SUBSET Extent /\ Reported' # {}
  BY DEF Reported
<1>2. size' \in Extent /\ \A s \in Reported' : size'[1] <= s[1] /\ size'[2] <= s[2]
  BY <1>1, LeastFits DEF Smallest
<1>3. \A v \in clients' : entry'[v] \in Reported'
  BY DEF Reported
<1> QED BY <1>2, <1>3 DEF FitsEveryone

\* recalculate_pty_size makes the session fit, whatever has been changed.
LEMMA RecalculateFits ==
  ASSUME size \in Maybe, \A v \in clients' : entry'[v] \in Extent, Recalculate
  PROVE  size' \in Maybe /\ FitsEveryone'
<1>1. CASE clients' = {} \/ ~Live
  BY <1>1 DEF Recalculate, FitsEveryone, Live
<1>2. CASE ~(clients' = {} \/ ~Live)
  <2>1. clients' # {} /\ size' = Smallest'
    BY <1>2 DEF Recalculate
  <2> QED BY <2>1, SmallestFits DEF Extent, Side, Maybe
<1> QED BY <1>1, <1>2

\* What run_session reports is a size.
LEMMA ClampedIsArea == ASSUME NEW s \in Extent PROVE Clamped(s) \in Extent
<1>1. \A n \in Side : Max({2, n}) \in Side
  <2> TAKE n \in Side
  <2>1. \E m \in {2, n} : \A k \in {2, n} : m >= k
    BY DEF Side
  <2>2. Max({2, n}) \in {2, n}
    BY <2>1 DEF Max
  <2> QED BY <2>2 DEF Side
<1> QED BY <1>1 DEF Extent, Clamped

(***************************************************************************)
(* Calls.                                                                  *)
(***************************************************************************)
\* Telling the viewers takes a call past the section it was in.
LEMMA TellKeeps ==
  ASSUME FitsInv, NEW v \in Viewers, NEW s \in Maybe, clients' \subseteq Viewers, Tell(v, s)
  PROVE  call' \in [Viewers -> Request] /\ \A u \in Viewers : Asks(u)' => call'[u].size \in Extent
<1> DEFINE new == [at |-> "notify", does |-> call[v].does, size |-> s, to |-> clients']
<1>1. call' = [call EXCEPT ![v] = new] /\ call \in [Viewers -> Request]
  BY DEF Tell, FitsInv
<1>2. new \in Request /\ new.at = "notify"
  <2>1. call[v] \in Request
    BY <1>1
  <2> QED BY <2>1 DEF Request, Stage
<1> HIDE DEF new
<1>3. call' \in [Viewers -> Request] /\ call'[v] = new
      /\ \A u \in Viewers \ {v} : call'[u] = call[u]
  BY <1>1, <1>2
<1>4. ASSUME NEW u \in Viewers, Asks(u)' PROVE call'[u].size \in Extent
  BY <1>2, <1>3, <1>4 DEF Asks, FitsInv
<1> QED BY <1>3, <1>4

\* Who is idle reports nothing.
LEMMA IdleKeeps ==
  ASSUME FitsInv, NEW v \in Viewers, call' = [call EXCEPT ![v] = Idle]
  PROVE  call' \in [Viewers -> Request] /\ \A u \in Viewers : Asks(u)' => call'[u].size \in Extent
<1>1. Idle \in Request /\ Idle.at = "idle"
  BY DEF Idle, Request, Stage, Deed, Unset, Maybe
<1>2. call' \in [Viewers -> Request] /\ call'[v] = Idle
      /\ \A u \in Viewers \ {v} : call'[u] = call[u]
  BY <1>1 DEF FitsInv
<1>3. ASSUME NEW u \in Viewers, Asks(u)' PROVE call'[u].size \in Extent
  BY <1>1, <1>2, <1>3 DEF Asks, FitsInv
<1> QED BY <1>2, <1>3

\* Telling the other viewers does the same.
LEMMA TellOthersKeeps ==
  ASSUME FitsInv, NEW v \in Viewers, size' \in Maybe, clients' \subseteq Viewers, TellOthers(v)
  PROVE  call' \in [Viewers -> Request] /\ \A u \in Viewers : Asks(u)' => call'[u].size \in Extent
<1>1. CASE Live
  BY <1>1, TellKeeps DEF TellOthers
<1>2. CASE ~Live
  BY <1>2, IdleKeeps DEF TellOthers
<1> QED BY <1>1, <1>2

\* A new request carries a size, if it is to be reported.
LEMMA CallsKeeps ==
  ASSUME FitsInv, NEW v \in Viewers, NEW what \in Deed, NEW s \in Maybe, Calls(v, what, s),
         what \in {"spawn", "resize"} => s \in Extent
  PROVE  call' \in [Viewers -> Request] /\ \A u \in Viewers : Asks(u)' => call'[u].size \in Extent
<1> DEFINE new == [at |-> "section", does |-> what, size |-> s, to |-> {}]
<1>2. call' = [call EXCEPT ![v] = new]
  BY DEF Calls
<1>5. new \in Request /\ new.does = what /\ new.size = s
  BY DEF Request, Stage
<1> HIDE DEF new
<1>3. call' \in [Viewers -> Request] /\ call'[v] = new
      /\ \A u \in Viewers \ {v} : call'[u] = call[u]
  BY <1>2, <1>5 DEF FitsInv
<1>4. ASSUME NEW u \in Viewers, Asks(u)' PROVE call'[u].size \in Extent
  BY <1>3, <1>4, <1>5 DEF Asks, FitsInv
<1> QED BY <1>3, <1>4

(***************************************************************************)
(* Steps.                                                                  *)
(***************************************************************************)
\* A step that leaves the sizes of the gateway alone, and asks for nothing
\* that is not a size.
LEMMA QuietStep ==
  ASSUME FitsInv, clients' \subseteq clients, UNCHANGED <<entry, size>>,
         call' \in [Viewers -> Request], \A u \in Viewers : Asks(u)' => call'[u].size \in Extent
  PROVE  FitsInv'
  BY DEF FitsInv, FitsEveryone, Live

\* A step that changes the clients and recalculates.
LEMMA LoudStep ==
  ASSUME FitsInv, clients' \subseteq Viewers,
         entry' \in [Viewers -> Maybe], \A v \in clients' : entry'[v] \in Extent,
         size' \in Maybe, FitsEveryone',
         call' \in [Viewers -> Request], \A u \in Viewers : Asks(u)' => call'[u].size \in Extent
  PROVE  FitsInv'
  BY DEF FitsInv

\* handle_client_message, SpawnShell: the last section of the handler.
LEMMA SpawnFits == ASSUME FitsInv, NEW v \in Viewers, SpawnSection(v) PROVE FitsInv'
<1>1. call[v].size \in Extent
  BY DEF SpawnSection, Section, Asks, FitsInv
<1>2. clients' \subseteq Viewers /\ v \in clients'
  BY DEF SpawnSection, FitsInv
<1>3. entry' \in [Viewers -> Maybe] /\ \A u \in clients' : entry'[u] \in Extent
  BY <1>1 DEF SpawnSection, FitsInv, Extent, Side, Maybe
<1>4. size' \in Maybe /\ FitsEveryone'
  <2>1. CASE Live
    BY <2>1, <1>3, RecalculateFits DEF SpawnSection, FitsInv
  <2>2. CASE ~Live
    <3>1. size' = Smallest'
      BY <2>2 DEF SpawnSection
    <3> QED BY <3>1, <1>2, <1>3, SmallestFits DEF Extent, Side, Maybe
  <2> QED BY <2>1, <2>2
<1>5. call' \in [Viewers -> Request] /\ \A u \in Viewers : Asks(u)' => call'[u].size \in Extent
  BY <1>2, <1>4, TellKeeps DEF SpawnSection
<1> QED BY <1>2, <1>3, <1>4, <1>5, LoudStep

\* handle_client_message, Resize.
LEMMA ResizeFits == ASSUME FitsInv, NEW v \in Viewers, ResizeSection(v) PROVE FitsInv'
<1>1. call[v].size \in Extent
  BY DEF ResizeSection, Section, Asks, FitsInv
<1>2. clients' = clients /\ Recalculate
  BY DEF ResizeSection
<1>3. entry' \in [Viewers -> Maybe] /\ \A u \in clients' : entry'[u] \in Extent
  BY <1>1 DEF ResizeSection, FitsInv, Extent, Side, Maybe
<1>4. size' \in Maybe /\ FitsEveryone'
  BY <1>2, <1>3, RecalculateFits DEF FitsInv
<1>5. (IF Live THEN size' ELSE call[v].size) \in Maybe
  BY <1>1, <1>4 DEF Extent, Side, Maybe
<1>6. call' \in [Viewers -> Request] /\ \A u \in Viewers : Asks(u)' => call'[u].size \in Extent
  BY <1>2, <1>5, TellKeeps DEF ResizeSection, FitsInv
<1> QED BY <1>2, <1>3, <1>4, <1>6, LoudStep DEF FitsInv

\* A client that is evicted, killed or gone.
LEMMA DepartureFits ==
  ASSUME FitsInv, NEW v \in Viewers, EvictRecalculate(v) \/ KillSection(v) PROVE FitsInv'
<1>1. clients' \subseteq clients /\ entry' = entry /\ Recalculate /\ TellOthers(v)
  BY DEF EvictRecalculate, KillSection
<1>2. size' \in Maybe /\ FitsEveryone'
  BY <1>1, RecalculateFits DEF FitsInv
<1>3. call' \in [Viewers -> Request] /\ \A u \in Viewers : Asks(u)' => call'[u].size \in Extent
  BY <1>1, <1>2, TellOthersKeeps DEF FitsInv
<1> QED BY <1>1, <1>2, <1>3, LoudStep DEF FitsInv

\* A handler that goes on to a stage in which it reports nothing.
LEMMA StageFits ==
  ASSUME FitsInv, NEW v \in Viewers, EvictRemove(v) \/ Notify(v) \/ Replied(v) PROVE FitsInv'
<1>1. clients' \subseteq clients /\ UNCHANGED <<entry, size>>
  BY DEF EvictRemove, Notify, Replied, gatewayVars
<1>2. CASE call' = [call EXCEPT ![v] = Idle]
  BY <1>1, <1>2, IdleKeeps, QuietStep
<1>3. ASSUME NEW s \in {"recalculate", "reply"}, call' = [call EXCEPT ![v].at = s] PROVE FitsInv'
  <2>1. call' \in [Viewers -> Request]
    BY <1>3 DEF FitsInv, Request, Stage
  <2>2. ASSUME NEW u \in Viewers, Asks(u)' PROVE call'[u].size \in Extent
    BY <1>3, <2>2 DEF FitsInv, Asks, Request
  <2> QED BY <1>1, <2>1, <2>2, QuietStep
<1> QED BY <1>2, <1>3 DEF EvictRemove, Notify, Replied

\* What the viewer asks for is the size of a terminal.
LEMMA RequestFits ==
  ASSUME GeometryAssumption, FitsInv, NEW v \in Viewers,
         Join(v) \/ TerminalResized(v) \/ Leave(v)
  PROVE  FitsInv'
<1>1. UNCHANGED <<clients, entry, size>>
  BY DEF Join, TerminalResized, Leave, gatewayVars
<1>2. Sizes \subseteq Extent /\ Extent \subseteq Maybe /\ Unset \in Maybe
  BY DEF GeometryAssumption, Extent, Side, Maybe, Unset
<1>3. PICK what \in Deed, s \in Maybe :
        Calls(v, what, s) /\ (what \in {"spawn", "resize"} => s \in Extent)
  BY <1>2, ClampedIsArea DEF Join, TerminalResized, Leave, Deed
<1>4. call' \in [Viewers -> Request] /\ \A u \in Viewers : Asks(u)' => call'[u].size \in Extent
  BY <1>3, CallsKeeps
<1> QED BY <1>1, <1>4, QuietStep

\* All else moves sizes that have been decided on, or drops the session.
LEMMA RestFits ==
  ASSUME FitsInv, UNCHANGED <<clients, entry, call>>, size' = size \/ size' = Unset
  PROVE  FitsInv'
<1>1. CASE size' = size
  BY <1>1, QuietStep DEF FitsInv, Asks
<1>2. CASE size' = Unset
  <2>1. FitsEveryone' /\ size' \in Maybe
    BY <1>2 DEF FitsEveryone, Live, Unset, Maybe
  <2> QED BY <2>1, LoudStep DEF FitsInv, Asks
<1> QED BY <1>1, <1>2

(***************************************************************************)
(* The session is never larger than the terminal of any of its viewers.    *)
(***************************************************************************)
LEMMA InitFits == ASSUME GeometryAssumption, Init PROVE FitsInv
<1> DEFINE Given == {Clamped(s) : s \in Sizes}
<1>1. Given \subseteq Extent
  BY ClampedIsArea DEF GeometryAssumption, Extent, Side
<1>2. clients \subseteq Viewers /\ entry \in [Viewers -> Given \cup {Unset}]
      /\ clients = {v \in Viewers : entry[v] # Unset}
  BY DEF Init
<1>3. Unset \notin Extent /\ Unset \in Maybe /\ Extent \subseteq Maybe
  BY DEF Unset, Extent, Side, Maybe
<1>4. size \in IF clients # {} THEN {Smallest} ELSE {Unset} \cup Given
  BY DEF Init
<1>5. call = [v \in Viewers |-> Idle]
  BY DEF Init
<1> HIDE DEF Given
<1>6. entry \in [Viewers -> Maybe] /\ \A v \in clients : entry[v] \in Extent
  BY <1>1, <1>2, <1>3
<1>7. size \in Maybe /\ FitsEveryone
  <2>1. CASE clients = {}
    BY <2>1, <1>1, <1>3, <1>4 DEF FitsEveryone
  <2>2. CASE clients # {}
    <3>1. Reported \in SUBSET Extent /\ Reported # {}
      BY <2>2, <1>6 DEF Reported
    <3>2. size \in Extent /\ \A s \in Reported : size[1] <= s[1] /\ size[2] <= s[2]
      BY <2>2, <3>1, <1>4, LeastFits DEF Smallest
    <3>3. \A v \in clients : entry[v] \in Reported
      BY DEF Reported
    <3> QED BY <3>2, <3>3, <1>3 DEF FitsEveryone
  <2> QED BY <2>1, <2>2
<1>8. call \in [Viewers -> Request] /\ \A v \in Viewers : ~Asks(v)
  BY <1>5 DEF Idle, Request, Stage, Deed, Unset, Maybe, Asks
<1> QED BY <1>2, <1>6, <1>7, <1>8 DEF FitsInv

\* Every step keeps the session within the terminals of its viewers.
LEMMA NextFits == ASSUME GeometryAssumption, FitsInv, [Next]_vars PROVE FitsInv'
<1>1. ASSUME NEW v \in Viewers, Handler(v) PROVE FitsInv'
  BY <1>1, SpawnFits, ResizeFits, DepartureFits, StageFits DEF Handler
<1>2. ASSUME NEW v \in Viewers, MainThread(v) PROVE FitsInv'
  <2>1. CASE Replied(v)
    BY <2>1, StageFits
  <2>2. CASE ApplySwap(v) \/ ApplyRead(v)
    BY <2>2, RestFits DEF ApplySwap, ApplyRead, gatewayVars
  <2> QED BY <1>2, <2>1, <2>2 DEF MainThread
<1>3. ASSUME NEW v \in Viewers, Delivery(v) PROVE FitsInv'
  BY <1>3, RestFits DEF Delivery, Store, gatewayVars
<1>4. ASSUME NEW v \in Viewers, Join(v) \/ TerminalResized(v) \/ Leave(v) PROVE FitsInv'
  BY <1>4, RequestFits
<1>5. CASE Apply \/ Exit
  BY <1>5, RestFits DEF Apply, Exit
<1>6. CASE UNCHANGED vars
  BY <1>6, RestFits DEF vars, gatewayVars
<1> QED BY <1>1, <1>2, <1>3, <1>4, <1>5, <1>6 DEF Next

\* For any number of viewers, any sizes and any order of handlers.
THEOREM SessionFits == Spec => []FitsEveryone
<1>1. Init => FitsInv
  BY InitFits, GeometryAssumption
<1>2. FitsInv /\ [Next]_vars => FitsInv'
  BY NextFits, GeometryAssumption
<1>3. FitsInv => FitsEveryone
  BY DEF FitsInv
<1> QED BY <1>1, <1>2, <1>3, PTL DEF Spec

(***************************************************************************)
(* What is under way.                                                      *)
(***************************************************************************)
Note   == [size : Maybe, step : {"sent", "half", "seen"}]
Thread == {"out", "joining", "loop", "asking", "reading", "left"}

ViewerTypes ==
  /\ notes \in [Viewers -> Seq(Note)] /\ main \in [Viewers -> Thread]
  /\ regs \in [Viewers -> Maybe] /\ screen \in [Viewers -> Maybe]
  /\ flag \in [Viewers -> BOOLEAN]

\* A handler at work has its viewer waiting for the reply, or gone, and only the
\* former gets one; who has not come yet has no handler.
AtWork ==
  \A v \in Viewers :
    /\ main[v] = "out" => call[v].at = "idle" /\ v \notin clients
    /\ call[v].at # "idle" =>
         IF call[v].does \in {"spawn", "resize"} THEN main[v] \in {"joining", "asking"}
                                                 ELSE main[v] = "left"
    /\ call[v].at = "reply" => call[v].does \in {"spawn", "resize"}

Telling(v) == call[v].at = "notify"

OrderTypes == teller \in [Viewers -> SUBSET Viewers] /\ overtaken \subseteq Viewers

\* The one who has last taken down to tell a viewer is going to, and that the size
\* of the session.
TellersTell == \A v \in Viewers : \A u \in teller[v] :
                 teller[v] = {u} /\ Telling(u) /\ v \in call[u].to
TellersNew  == Live => \A v \in clients : \A u \in teller[v] : call[u].size = size

\* Who asks is told what all are told, before it gets its reply; and the main loop,
\* which waits for that, leaves the flag alone.
AskersTold  == \A v \in clients : Telling(v) => v \in call[v].to
ReplyIsLast == \A v \in clients : call[v].at = "reply" =>
                 flag[v] \/ \E i \in 1..Len(notes[v]) : notes[v][i].step # "seen"

\* Who is not overtaken, and has been told the last: nobody is to tell it anything
\* older; if that last is on its way, nothing has been stored before its time; and
\* it is the size of the session.
Reached(v) == v \in clients \ overtaken /\ main[v] # "left" /\ teller[v] = {}
NoneOlder  == \A v \in Viewers : Reached(v) =>
                \A u \in Viewers : Telling(u) => v \notin call[u].to
LastIsLast == \A v \in Viewers : Reached(v) /\ notes[v] # <<>> =>
                LET n == Last(notes[v])
                IN  /\ n.step = "half" => Len(notes[v]) = 1 /\ regs[v][1] = n.size[1]
                    /\ n.step = "seen" => Len(notes[v]) = 1 /\ (flag[v] \/ main[v] = "reading")
LastIsNew  == Live => \A v \in Viewers : Reached(v) => Latest(v) = size

InOrder == /\ OrderTypes /\ TellersTell /\ TellersNew /\ AskersTold /\ ReplyIsLast
           /\ NoneOlder /\ LastIsLast /\ LastIsNew

SizeSet == size = Unset \/ size \in Extent

UnderWay ==
  /\ FitsInv /\ SizeSet /\ ViewerTypes /\ AtWork
  /\ ResizeOwed
  /\ InOrder

LEMMA InOrderShows == ASSUME UnderWay PROVE NobodyLeftBehind
<1> SUFFICES ASSUME Live, NEW v \in clients \ overtaken, main[v] # "left"
             PROVE  Coming(v) = {size}
  BY DEF NobodyLeftBehind
<1>1. InOrder /\ v \in Viewers
  BY DEF UnderWay, FitsInv
<1>2. CASE teller[v] = {}
  BY <1>1, <1>2 DEF InOrder, LastIsNew, Reached, Coming
<1>3. CASE teller[v] # {}
  <2>1. PICK u \in teller[v] : teller[v] = {u}
    BY <1>1, <1>3 DEF InOrder, TellersTell
  <2>2. call[u].size = size
    BY <1>1, <2>1 DEF InOrder, TellersNew
  <2>3. {call[w].size : w \in {u}} = {size}
    BY <2>2
  <2> QED BY <1>3, <2>1, <2>3 DEF Coming
<1> QED BY <1>2, <1>3

\* One of some notifications is handled, and the others stay.
LEMMA OneGoes ==
  ASSUME NEW q \in Seq(Note), NEW i \in 1..Len(q)
  PROVE  /\ RemoveAt(q, i) \in Seq(Note) /\ Len(RemoveAt(q, i)) = Len(q) - 1
         /\ \A k \in 1..Len(q) : /\ k < i => RemoveAt(q, i)[k] = q[k]
                                 /\ k > i => RemoveAt(q, i)[k - 1] = q[k]
<1> DEFINE a == SubSeq(q, 1, i - 1)
           b == SubSeq(q, i + 1, Len(q))
<1>1. a \in Seq(Note) /\ Len(a) = i - 1 /\ \A k \in 1..(i - 1) : a[k] = q[k]
  OBVIOUS
<1>2. b \in Seq(Note) /\ Len(b) = Len(q) - i /\ \A k \in 1..(Len(q) - i) : b[k] = q[i + k]
  OBVIOUS
<1>3. RemoveAt(q, i) = a \o b
  BY DEF RemoveAt
<1> HIDE DEF a, b
<1>4. /\ a \o b \in Seq(Note) /\ Len(a \o b) = Len(q) - 1
      /\ \A k \in 1..(Len(q) - 1) : (a \o b)[k] = IF k <= i - 1 THEN a[k] ELSE b[k - (i - 1)]
  <2>1. Len(a) + Len(b) = Len(q) - 1
    BY <1>1, <1>2
  <2>2. a \in Seq(Note) /\ b \in Seq(Note)
    BY <1>1, <1>2
  <2>3. /\ a \o b \in Seq(Note) /\ Len(a \o b) = Len(a) + Len(b)
        /\ \A k \in 1..(Len(a) + Len(b)) : (a \o b)[k] = IF k <= Len(a) THEN a[k] ELSE b[k - Len(a)]
    BY <2>2, ConcatProperties
  <2>4. Len(a) = i - 1
    BY <1>1
  <2> QED BY <2>1, <2>3, <2>4
<1>5. ASSUME NEW k \in 1..Len(q), k < i PROVE (a \o b)[k] = q[k]
  BY <1>1, <1>4, <1>5
<1>6. ASSUME NEW k \in 1..Len(q), k > i PROVE (a \o b)[k - 1] = q[k]
  <2>1. k - 1 \in 1..(Len(q) - 1) /\ ~(k - 1 <= i - 1) /\ k - i \in 1..(Len(q) - i)
        /\ (k - 1) - (i - 1) = k - i /\ i + (k - i) = k
    BY <1>6
  <2> QED BY <1>2, <1>4, <2>1
<1> QED BY <1>3, <1>4, <1>5, <1>6

LEMMA UnderWayInit == ASSUME Init PROVE UnderWay
<1> DEFINE Given == {Clamped(s) : s \in Sizes}
<1>1. FitsInv /\ Given \subseteq Extent
  BY InitFits, ClampedIsArea, GeometryAssumption DEF GeometryAssumption, Extent, Side
<1>2. /\ \A v \in Viewers : call[v] = Idle /\ notes[v] = <<>> /\ flag[v] = FALSE
      /\ \A v \in Viewers : main[v] = IF v \in clients THEN "loop" ELSE "out"
      /\ \A v \in Viewers : regs[v] = IF v \in clients THEN size ELSE Unset
      /\ screen = regs /\ pty = size /\ pending = Unset
  BY DEF Init
<1>3. SizeSet
  <2>1. CASE clients = {}
    BY <1>1, <2>1 DEF Init, SizeSet
  <2>2. CASE clients # {}
    <3>1. size = Smallest
      BY <2>2 DEF Init
    <3>2. Reported \in SUBSET Extent /\ Reported # {}
      BY <1>1, <2>2 DEF FitsInv, Reported
    <3> QED BY <3>1, <3>2, LeastFits DEF Smallest, SizeSet
  <2> QED BY <2>1, <2>2
<1>4. ViewerTypes
  <2>1. /\ notes = [v \in Viewers |-> <<>>] /\ flag = [v \in Viewers |-> FALSE]
        /\ main = [v \in Viewers |-> IF v \in clients THEN "loop" ELSE "out"]
        /\ regs = [v \in Viewers |-> IF v \in clients THEN size ELSE Unset]
        /\ screen = regs
    BY DEF Init
  <2>2. size \in Maybe /\ Unset \in Maybe
    BY <1>1 DEF FitsInv, Unset, Maybe
  <2> QED BY <2>1, <2>2 DEF ViewerTypes, Thread
<1>5. AtWork
  BY <1>2 DEF AtWork, Idle
<1>6. ResizeOwed
  BY <1>2 DEF ResizeOwed, Init
<1>7. InOrder
  <2>1. \A v \in Viewers : call[v].at = "idle" /\ notes[v] = <<>> /\ teller[v] = {}
    BY <1>2 DEF Idle, Init
  <2>2. \A v \in clients : Latest(v) = size
    BY <1>1, <1>2 DEF Latest, FitsInv
  <2>3. OrderTypes
    BY DEF Init, OrderTypes
  <2> QED
    BY <1>1, <2>1, <2>2, <2>3
       DEF InOrder, TellersTell, TellersNew, AskersTold, ReplyIsLast, NoneOlder, LastIsLast,
           LastIsNew, Reached, Telling, FitsInv
<1> QED BY <1>1, <1>3, <1>4, <1>5, <1>6, <1>7 DEF UnderWay

(***************************************************************************)
(* No resize is lost on its way to the PTY.                                *)
(***************************************************************************)
\* Who recalculates owes nothing.
LEMMA RecalculateOwes ==
  ASSUME FitsInv, SizeSet, ResizeOwed, clients' \subseteq Viewers,
         \A v \in clients' : entry'[v] \in Extent, Recalculate, pty' = pty
  PROVE  SizeSet' /\ ResizeOwed'
<1>1. CASE clients' = {} \/ ~Live
  BY <1>1 DEF Recalculate, SizeSet, ResizeOwed, Live, TooSmall
<1>2. CASE ~(clients' = {} \/ ~Live)
  <2>1. /\ size' = Smallest' /\ clients' # {}
        /\ pending' = IF TooSmall(size') THEN pending ELSE size'
    BY <1>2 DEF Recalculate
  <2>2. size' \in Extent
    BY <2>1, SmallestFits
  <2> QED BY <2>1, <2>2 DEF SizeSet, ResizeOwed, TooSmall
<1> QED BY <1>1, <1>2

\* A step that changes neither sizes nor clients, and takes no handler from its
\* recalculation.
LEMMA NothingOwed ==
  ASSUME SizeSet, ResizeOwed, UNCHANGED gatewayVars,
         \A v \in Viewers : call[v].at = "recalculate" => call'[v].at = "recalculate"
  PROVE  SizeSet' /\ ResizeOwed'
  BY DEF gatewayVars, SizeSet, ResizeOwed, Live, Smallest, Reported, TooSmall

LEMMA OwedStep ==
  ASSUME GeometryAssumption, UnderWay, [Next]_vars PROVE SizeSet' /\ ResizeOwed'
<1>1. FitsInv /\ FitsInv' /\ SizeSet /\ ResizeOwed /\ AtWork
  BY NextFits DEF UnderWay
<1>2. /\ clients' \subseteq Viewers /\ \A v \in clients' : entry'[v] \in Extent
      /\ call \in [Viewers -> Request]
  BY <1>1 DEF FitsInv
<1>3. ASSUME NEW v \in Viewers, SpawnSection(v) PROVE SizeSet' /\ ResizeOwed'
  <2>1. CASE Live
    BY <1>1, <1>2, <1>3, <2>1, RecalculateOwes DEF SpawnSection
  <2>2. CASE ~Live
    <3>1. /\ size' = Smallest' /\ v \in clients'
          /\ pending' = IF TooSmall(size') THEN Unset ELSE size'
      BY <1>3, <2>2 DEF SpawnSection
    <3>2. size' \in Extent
      BY <1>2, <3>1, SmallestFits
    <3> QED BY <3>1, <3>2 DEF SizeSet, ResizeOwed, TooSmall
  <2> QED BY <2>1, <2>2
<1>4. ASSUME NEW v \in Viewers, ResizeSection(v) \/ EvictRecalculate(v) \/ KillSection(v)
      PROVE  SizeSet' /\ ResizeOwed'
  BY <1>1, <1>2, <1>4, RecalculateOwes DEF ResizeSection, EvictRecalculate, KillSection
<1>5. ASSUME NEW v \in Viewers, EvictRemove(v) PROVE SizeSet' /\ ResizeOwed'
  <2>1. call'[v].at = "recalculate" /\ UNCHANGED <<size, pty, pending>>
    BY <1>2, <1>5 DEF EvictRemove, Request
  <2> QED BY <1>1, <2>1 DEF SizeSet, ResizeOwed, Live, TooSmall
<1>6. ASSUME NEW v \in Viewers, NEW r, call' = [call EXCEPT ![v] = r],
             call[v].at # "recalculate", UNCHANGED gatewayVars
      PROVE  SizeSet' /\ ResizeOwed'
  BY <1>1, <1>2, <1>6, NothingOwed
<1>7. ASSUME NEW v \in Viewers, Notify(v) \/ Replied(v) PROVE SizeSet' /\ ResizeOwed'
  BY <1>6, <1>7 DEF Notify, Replied
<1>8. ASSUME NEW v \in Viewers, Join(v) \/ TerminalResized(v) \/ Leave(v)
      PROVE  SizeSet' /\ ResizeOwed'
  <2>1. call[v].at = "idle" /\ UNCHANGED gatewayVars
    BY <1>1, <1>8 DEF Join, TerminalResized, Leave, AtWork
  <2>2. PICK r : call' = [call EXCEPT ![v] = r]
    BY <1>8 DEF Join, TerminalResized, Leave, Calls
  <2> QED BY <1>6, <2>1, <2>2
<1>9. ASSUME NEW v \in Viewers, ApplySwap(v) \/ ApplyRead(v) \/ Delivery(v)
      PROVE  SizeSet' /\ ResizeOwed'
  <2>1. UNCHANGED <<gatewayVars, call>>
    BY <1>9 DEF ApplySwap, ApplyRead, Delivery, Store
  <2> QED BY <1>1, <2>1, NothingOwed
<1>10. CASE Apply
  <2>1. UNCHANGED <<clients, entry, size, call>> /\ pty' = pending /\ pending' = Unset
    BY <1>10 DEF Apply
  <2> QED BY <1>1, <1>10, <2>1 DEF Apply, SizeSet, ResizeOwed, Live, Smallest, Reported, TooSmall
<1>11. CASE Exit
  BY <1>11 DEF Exit, SizeSet, ResizeOwed, Live
<1>12. CASE UNCHANGED vars
  BY <1>1, <1>12, NothingOwed DEF vars
<1> QED
  BY <1>3, <1>4, <1>5, <1>7, <1>8, <1>9, <1>10, <1>11, <1>12 DEF Next, Handler, MainThread

(***************************************************************************)
(* What is under way to the viewers.                                       *)
(***************************************************************************)
\* All that is sent, stored and shown is a size.
LEMMA ViewersStep ==
  ASSUME GeometryAssumption, FitsInv, ViewerTypes, [Next]_vars PROVE ViewerTypes'
<1>1. call \in [Viewers -> Request] /\ Unset \in Maybe
      /\ \A s \in Sizes : Clamped(s) \in Maybe
  <2>1. \A s \in Sizes : Clamped(s) \in Extent
    BY ClampedIsArea DEF GeometryAssumption, Extent, Side
  <2> QED BY <2>1 DEF FitsInv, Unset, Extent, Side, Maybe
<1>2. ASSUME UNCHANGED <<notes, main, regs, flag, screen>> PROVE ViewerTypes'
  BY <1>2 DEF ViewerTypes
<1>3. ASSUME NEW v \in Viewers, NEW t \in Thread, main' = [main EXCEPT ![v] = t],
             UNCHANGED <<notes, regs>>, flag' = flag \/ flag' = [flag EXCEPT ![v] = FALSE],
             screen' = screen \/ \E s \in Maybe : screen' = [screen EXCEPT ![v] = s]
      PROVE  ViewerTypes'
  BY <1>3 DEF ViewerTypes
<1>4. ASSUME NEW v \in Viewers, Notify(v) PROVE ViewerTypes'
  <2> DEFINE note == [size |-> call[v].size, step |-> "sent"]
             sent(u) == IF u \in call[v].to /\ main[u] # "left"
                        THEN Append(notes[u], note) ELSE notes[u]
  <2>1. note \in Note
    BY <1>1 DEF Request, Note
  <2> HIDE DEF note
  <2>2. \A u \in Viewers : sent(u) \in Seq(Note)
    BY <2>1 DEF ViewerTypes
  <2>3. notes' = [u \in Viewers |-> sent(u)]
    BY <1>4 DEF Notify, note
  <2> HIDE DEF sent
  <2>4. notes' \in [Viewers -> Seq(Note)]
    BY <2>2, <2>3
  <2> QED BY <1>4, <2>4 DEF Notify, viewerVars, ViewerTypes
<1>5. ASSUME NEW v \in Viewers, Replied(v) PROVE ViewerTypes'
  <2>1. call[v].size \in Maybe
    BY <1>1 DEF Request
  <2> QED BY <1>3, <1>5, <2>1 DEF Replied, Thread
<1>6. ASSUME NEW v \in Viewers, Join(v) \/ TerminalResized(v) PROVE ViewerTypes'
  BY <1>1, <1>3, <1>6 DEF Join, TerminalResized, Thread
<1>7. ASSUME NEW v \in Viewers, ApplySwap(v) \/ ApplyRead(v) PROVE ViewerTypes'
  <2>1. regs[v] \in Maybe /\ screen[v] \in Maybe
    BY DEF ViewerTypes
  <2>2. CASE ApplySwap(v)
    BY <1>3, <2>2 DEF ApplySwap, Thread
  <2>3. CASE ApplyRead(v)
    <3>1. PICK s \in Maybe : screen' = [screen EXCEPT ![v] = s]
      BY <2>1, <2>3 DEF ApplyRead
    <3> QED BY <1>3, <2>3, <3>1 DEF ApplyRead, Thread
  <2> QED BY <1>7, <2>2, <2>3
<1>8. ASSUME NEW v \in Viewers, Delivery(v) PROVE ViewerTypes'
  <2>1. PICK i \in DOMAIN notes[v] : Store(v, i)
    BY <1>8 DEF Delivery
  <2> DEFINE q == notes[v]
  <2>2. q \in Seq(Note) /\ i \in 1..Len(q) /\ q[i] \in Note /\ q[i].size \in Maybe
    <3>1. q \in Seq(Note)
      BY DEF ViewerTypes
    <3>2. i \in 1..Len(q)
      BY <3>1
    <3> HIDE DEF q
    <3>3. q[i] \in Note
      BY <3>1, <3>2
    <3> QED BY <3>1, <3>2, <3>3 DEF Note
  <2>3. regs[v] \in Maybe
    BY DEF ViewerTypes
  <2>4. regs' \in [Viewers -> Maybe]
    <3>1. /\ [regs[v] EXCEPT ![1] = q[i].size[1]] \in Maybe
          /\ [regs[v] EXCEPT ![2] = q[i].size[2]] \in Maybe
      BY <2>2, <2>3 DEF Maybe
    <3> QED BY <2>1, <2>2, <3>1 DEF Store, ViewerTypes
  <2>5. notes' \in [Viewers -> Seq(Note)]
    <3>1. ASSUME NEW step \in {"half", "seen"} PROVE [q EXCEPT ![i].step = step] \in Seq(Note)
      <4>1. [q[i] EXCEPT !.step = step] \in Note
        BY <2>2 DEF Note
      <4> QED BY <2>2, <4>1
    <3>2. RemoveAt(q, i) \in Seq(Note)
      BY <2>2 DEF RemoveAt
    <3>3. \/ \E step \in {"half", "seen"} : notes' = [notes EXCEPT ![v] = [q EXCEPT ![i].step = step]]
          \/ notes' = [notes EXCEPT ![v] = RemoveAt(q, i)]
      BY <2>1 DEF Store
    <3> HIDE DEF q
    <3> QED BY <3>1, <3>2, <3>3 DEF ViewerTypes
  <2>6. flag' \in [Viewers -> BOOLEAN]
    BY <2>1 DEF Store, ViewerTypes
  <2> QED BY <2>1, <2>4, <2>5, <2>6 DEF Store, ViewerTypes
<1>9. ASSUME NEW v \in Viewers, Leave(v) PROVE ViewerTypes'
  BY <1>1, <1>9 DEF Leave, ViewerTypes, Thread
<1>10. ASSUME NEW v \in Viewers, Handler(v), ~Notify(v) PROVE ViewerTypes'
  BY <1>2, <1>10
     DEF Handler, SpawnSection, ResizeSection, EvictRemove, EvictRecalculate, KillSection,
         viewerVars
<1>11. CASE Apply \/ Exit \/ UNCHANGED vars
  BY <1>2, <1>11 DEF Apply, Exit, vars, viewerVars
<1> QED
  BY <1>4, <1>5, <1>6, <1>7, <1>8, <1>9, <1>10, <1>11 DEF Next, MainThread

\* A handler goes on for the same viewer and to the same end, or ends.
LEMMA HandlerGoesOn ==
  ASSUME FitsInv, NEW v \in Viewers, Handler(v)
  PROVE  /\ call[v].at # "idle" /\ \A u \in Viewers \ {v} : call'[u] = call[u]
         /\ call'[v].at # "idle" => call'[v].does = call[v].does
         /\ call'[v].at = "reply" => call[v].does \in {"spawn", "resize"}
         /\ UNCHANGED viewerVars
         /\ clients' \subseteq clients \/ (clients' = clients \cup {v})
<1>1. call \in [Viewers -> Request]
  BY DEF FitsInv
<1>2. ASSUME NEW r, call' = [call EXCEPT ![v] = r], call[v].at # "idle",
             r.at # "idle" => r.does = call[v].does,
             r.at = "reply" => call[v].does \in {"spawn", "resize"}
      PROVE  /\ call[v].at # "idle" /\ \A u \in Viewers \ {v} : call'[u] = call[u]
             /\ call'[v].at # "idle" => call'[v].does = call[v].does
             /\ call'[v].at = "reply" => call[v].does \in {"spawn", "resize"}
  BY <1>1, <1>2
<1>3. Idle.at = "idle"
  BY DEF Idle
<1>4. ASSUME NEW s, Tell(v, s)
      PROVE  \E r : /\ call' = [call EXCEPT ![v] = r] /\ r.at # "reply"
                    /\ r.at # "idle" => r.does = call[v].does
  <2> DEFINE r == [at |-> "notify", does |-> call[v].does, size |-> s, to |-> clients']
  <2>1. call' = [call EXCEPT ![v] = r]
    BY <1>4 DEF Tell
  <2>2. r.does = call[v].does /\ r.at # "reply"
    OBVIOUS
  <2> HIDE DEF r
  <2> QED BY <2>1, <2>2
<1>5. ASSUME TellOthers(v)
      PROVE  \E r : /\ call' = [call EXCEPT ![v] = r] /\ r.at # "reply"
                    /\ r.at # "idle" => r.does = call[v].does
  BY <1>3, <1>4, <1>5 DEF TellOthers
<1>6. CASE SpawnSection(v)
  BY <1>2, <1>4, <1>6 DEF SpawnSection, Section
<1>7. CASE ResizeSection(v)
  BY <1>2, <1>4, <1>7 DEF ResizeSection, Section
<1>8. CASE EvictRemove(v)
  <2>1. call[v] \in Request
    BY <1>1
  <2> DEFINE r == [call[v] EXCEPT !.at = "recalculate"]
  <2>2. call' = [call EXCEPT ![v] = r]
    BY <1>8 DEF EvictRemove
  <2>3. r.does = call[v].does /\ r.at = "recalculate"
    BY <2>1 DEF Request
  <2> HIDE DEF r
  <2> QED BY <1>2, <1>8, <2>2, <2>3 DEF EvictRemove
<1>9. CASE EvictRecalculate(v)
  BY <1>2, <1>5, <1>9 DEF EvictRecalculate
<1>10. CASE KillSection(v)
  BY <1>2, <1>5, <1>10 DEF KillSection, Section
<1>11. CASE Notify(v)
  <2>1. call[v] \in Request
    BY <1>1
  <2> DEFINE r == IF call[v].does \in {"spawn", "resize"}
                  THEN [call[v] EXCEPT !.at = "reply"] ELSE Idle
  <2>2. call' = [call EXCEPT ![v] = r]
    BY <1>11 DEF Notify
  <2>3. /\ r.at # "idle" => r.does = call[v].does
        /\ r.at = "reply" => call[v].does \in {"spawn", "resize"}
    BY <1>3, <2>1 DEF Request
  <2> HIDE DEF r
  <2> QED BY <1>2, <1>11, <2>2, <2>3 DEF Notify, gatewayVars
<1> QED BY <1>6, <1>7, <1>8, <1>9, <1>10, <1>11 DEF Handler

\* A handler at work keeps having its viewer waiting, or gone.
LEMMA AtWorkStep ==
  ASSUME FitsInv, ViewerTypes, AtWork, [Next]_vars PROVE AtWork'
<1>1. call \in [Viewers -> Request] /\ main \in [Viewers -> Thread] /\ clients \subseteq Viewers
  BY DEF FitsInv, ViewerTypes
<1>2. ASSUME NEW v \in Viewers, Handler(v) PROVE AtWork'
  <2>1. /\ call[v].at # "idle" /\ \A u \in Viewers \ {v} : call'[u] = call[u]
        /\ call'[v].at # "idle" => call'[v].does = call[v].does
        /\ call'[v].at = "reply" => call[v].does \in {"spawn", "resize"}
        /\ main' = main /\ clients' \subseteq clients \cup {v}
    BY <1>2, HandlerGoesOn DEF viewerVars
  <2> QED BY <1>1, <2>1 DEF AtWork
<1>3. ASSUME NEW v \in Viewers, Replied(v) PROVE AtWork'
  <2>1. /\ call'[v].at = "idle" /\ main'[v] = "loop" /\ clients' = clients
        /\ \A u \in Viewers \ {v} : call'[u] = call[u] /\ main'[u] = main[u]
    BY <1>1, <1>3 DEF Replied, Idle, gatewayVars
  <2> QED BY <2>1 DEF AtWork
<1>4. ASSUME NEW v \in Viewers, Join(v) \/ TerminalResized(v) \/ Leave(v) PROVE AtWork'
  <2>1. /\ IF call'[v].does \in {"spawn", "resize"} THEN main'[v] \in {"joining", "asking"}
                                                    ELSE main'[v] = "left"
        /\ clients' = clients /\ main'[v] # "out" /\ call'[v].at # "reply"
        /\ \A u \in Viewers \ {v} : call'[u] = call[u] /\ main'[u] = main[u]
    BY <1>1, <1>4 DEF Join, TerminalResized, Leave, Calls, gatewayVars
  <2> QED BY <2>1 DEF AtWork
<1>5. ASSUME NEW v \in Viewers, ApplySwap(v) \/ ApplyRead(v) PROVE AtWork'
  <2>1. /\ call' = call /\ clients' = clients /\ main[v] \in {"loop", "reading"}
        /\ main'[v] # "out" /\ \A u \in Viewers \ {v} : main'[u] = main[u]
    BY <1>1, <1>5 DEF ApplySwap, ApplyRead, gatewayVars
  <2> QED BY <2>1 DEF AtWork
<1>6. ASSUME UNCHANGED <<clients, call, main>> PROVE AtWork'
  BY <1>6 DEF AtWork
<1>7. ASSUME NEW v \in Viewers, Delivery(v) PROVE AtWork'
  BY <1>6, <1>7 DEF Delivery, Store, gatewayVars
<1>8. CASE Apply \/ Exit \/ UNCHANGED vars
  BY <1>6, <1>8 DEF Apply, Exit, vars, gatewayVars, viewerVars
<1> QED BY <1>2, <1>3, <1>4, <1>5, <1>7, <1>8 DEF Next, MainThread

\* A step that tells nobody, takes back nothing that is under way, and leaves
\* every viewer with what it would have rendered with; or has one leave.
LEMMA QuietInOrder ==
  ASSUME FitsInv, InOrder, clients' \subseteq clients, size' = size \/ ~Live',
         UNCHANGED orderVars,
         \A u \in Viewers : call'[u] = call[u] \/ ~(Telling(u) \/ Telling(u)' \/ call'[u].at = "reply"),
         \A u \in clients :
           \/ main'[u] = "left" /\ notes'[u] = <<>> /\ call'[u].at # "reply"
           \/ /\ notes'[u] = notes[u] /\ regs'[u] = regs[u]
              /\ main'[u] # "left" => main[u] # "left" /\ Latest(u)' = Latest(u)
              /\ call'[u].at = "reply" /\ flag[u] => flag'[u]
              /\ flag[u] \/ main[u] = "reading" => flag'[u] \/ main'[u] = "reading"
  PROVE  InOrder'
<1> USE DEF orderVars
<1>1. clients \subseteq Viewers /\ \A u \in Viewers : Telling(u)' = Telling(u)
  BY DEF FitsInv, Telling
<1>2. \A u \in Viewers : Telling(u) => call'[u] = call[u]
  OBVIOUS
<1>3. \A u \in Viewers : Reached(u)' => Reached(u) /\ u \in clients /\ main'[u] # "left"
  BY DEF Reached
<1>4. OrderTypes' /\ TellersTell' /\ TellersNew' /\ NoneOlder'
  <2>1. OrderTypes' /\ TellersTell'
    BY <1>1, <1>2 DEF InOrder, OrderTypes, TellersTell
  <2>2. TellersNew'
    <3> SUFFICES ASSUME Live', NEW u \in clients', NEW w \in teller[u] PROVE call'[w].size = size'
      BY DEF TellersNew
    <3>1. u \in Viewers /\ w \in Viewers
      BY <1>1 DEF InOrder, OrderTypes
    <3>2. Live /\ Telling(w) /\ call[w].size = size
      BY <3>1 DEF InOrder, TellersTell, TellersNew, Live
    <3> QED BY <1>2, <3>1, <3>2
  <2>3. NoneOlder'
    BY <1>1, <1>2, <1>3 DEF InOrder, NoneOlder
  <2> QED BY <2>1, <2>2, <2>3
<1>5. AskersTold' /\ ReplyIsLast'
  <2>1. AskersTold'
    BY <1>1, <1>2 DEF InOrder, AskersTold
  <2>2. ReplyIsLast'
    <3> SUFFICES ASSUME NEW u \in clients', call'[u].at = "reply"
                 PROVE  flag'[u] \/ \E i \in 1..Len(notes'[u]) : notes'[u][i].step # "seen"
      BY DEF ReplyIsLast
    <3>1. u \in clients /\ u \in Viewers /\ call[u].at = "reply" /\ notes'[u] = notes[u]
      BY <1>1
    <3>2. flag[u] \/ \E i \in 1..Len(notes[u]) : notes[u][i].step # "seen"
      BY <3>1 DEF InOrder, ReplyIsLast
    <3> QED BY <3>1, <3>2
  <2> QED BY <2>1, <2>2
<1>6. LastIsLast'
  <2> SUFFICES ASSUME NEW u \in Viewers, Reached(u)', notes'[u] # <<>>
               PROVE  LET n == Last(notes'[u])
                      IN  /\ n.step = "half" => Len(notes'[u]) = 1 /\ regs'[u][1] = n.size[1]
                          /\ n.step = "seen" => Len(notes'[u]) = 1
                                                /\ (flag'[u] \/ main'[u] = "reading")
    BY DEF LastIsLast
  <2>1. /\ Reached(u) /\ notes'[u] = notes[u] /\ regs'[u] = regs[u]
        /\ flag[u] \/ main[u] = "reading" => flag'[u] \/ main'[u] = "reading"
    BY <1>3
  <2> QED BY <2>1 DEF InOrder, LastIsLast
<1>7. LastIsNew'
  <2> SUFFICES ASSUME Live', NEW u \in Viewers, Reached(u)'
               PROVE  Latest(u)' = size'
    BY DEF LastIsNew
  <2>1. Live /\ size' = size /\ Reached(u) /\ Latest(u)' = Latest(u)
    BY <1>3 DEF Live, Reached
  <2> QED BY <2>1 DEF InOrder, LastIsNew
<1> QED BY <1>4, <1>5, <1>6, <1>7 DEF InOrder

\* A section that takes down to tell them all: what was under way does not count
\* any more.
LEMMA TellInOrder ==
  ASSUME FitsInv, InOrder, NEW v \in Viewers, NEW s, Tell(v, s), Live' => s = size',
         UNCHANGED <<notes, viewerVars>>, call[v].at \in {"section", "recalculate"},
         clients' \subseteq clients \cup {v}
  PROVE  InOrder'
<1>1. /\ clients \subseteq Viewers /\ clients' \subseteq Viewers
      /\ call \in [Viewers -> Request] /\ \A u \in Viewers \ {v} : call'[u] = call[u]
      /\ teller' = [u \in Viewers |-> IF u \in clients' THEN {v} ELSE teller[u]]
      /\ overtaken' = overtaken \ clients' /\ ~Telling(v)
  BY DEF FitsInv, Tell, Telling
<1>2. Telling(v)' /\ call'[v].to = clients' /\ call'[v].size = s
  <2> DEFINE r == [at |-> "notify", does |-> call[v].does, size |-> s, to |-> clients']
  <2>1. call' = [call EXCEPT ![v] = r]
    BY DEF Tell
  <2>2. r.at = "notify" /\ r.to = clients' /\ r.size = s
    OBVIOUS
  <2> HIDE DEF r
  <2>3. call'[v] = r
    BY <1>1, <2>1
  <2> QED BY <2>2, <2>3 DEF Telling
<1>3. OrderTypes'
  BY <1>1 DEF InOrder, OrderTypes
<1>4. TellersTell'
  <2> SUFFICES ASSUME NEW u \in Viewers, NEW w \in teller'[u]
               PROVE  teller'[u] = {w} /\ Telling(w)' /\ u \in call'[w].to
    BY DEF TellersTell
  <2>1. CASE u \in clients'
    BY <1>1, <1>2, <2>1
  <2>2. CASE u \notin clients'
    <3>1. teller'[u] = teller[u]
      BY <1>1, <2>2
    <3>2. teller[u] = {w} /\ Telling(w) /\ u \in call[w].to /\ w \in Viewers
      BY <3>1 DEF InOrder, TellersTell, OrderTypes
    <3> QED BY <1>1, <3>1, <3>2 DEF Telling
  <2> QED BY <2>1, <2>2
<1>5. TellersNew'
  BY <1>1, <1>2 DEF TellersNew
<1>6. \A u \in Viewers : ~Reached(u)'
  BY <1>1 DEF Reached
<1>7. NoneOlder' /\ LastIsLast' /\ LastIsNew'
  BY <1>6 DEF NoneOlder, LastIsLast, LastIsNew
<1>8. AskersTold'
  BY <1>1, <1>2 DEF InOrder, AskersTold, Telling
<1>9. ReplyIsLast'
  BY <1>1, <1>2 DEF InOrder, ReplyIsLast, Telling, viewerVars
<1> QED BY <1>3, <1>4, <1>5, <1>7, <1>8, <1>9 DEF InOrder

\* The first sections and the recalculation of who is gone.
LEMMA SectionsInOrder ==
  ASSUME FitsInv, AtWork, InOrder, NEW v \in Viewers, Handler(v), ~Notify(v)
  PROVE  InOrder'
<1>1. /\ \A u \in Viewers \ {v} : call'[u] = call[u]
      /\ UNCHANGED <<notes, viewerVars>> /\ clients' \subseteq clients \cup {v}
      /\ call[v].at \in {"section", "recalculate"} /\ call \in [Viewers -> Request]
  BY HandlerGoesOn
     DEF FitsInv, Handler, SpawnSection, ResizeSection, EvictRemove, EvictRecalculate, KillSection,
         Section
<1>2. Live' /\ Recalculate => Live
  BY DEF Recalculate, Live
<1>3. ASSUME call'[v].at \notin {"notify", "reply"}, UNCHANGED orderVars,
             clients' \subseteq clients, size' = size \/ ~Live'
      PROVE  InOrder'
  <2>1. \A u \in Viewers : Latest(u)' = Latest(u)
    BY <1>1 DEF viewerVars, Latest
  <2> QED BY <1>1, <1>3, <2>1, QuietInOrder DEF viewerVars, Telling, FitsInv
<1>4. ASSUME TellOthers(v), Recalculate, clients' \subseteq clients PROVE InOrder'
  <2>1. CASE Live
    BY <1>1, <1>4, <2>1, TellInOrder DEF TellOthers
  <2>2. CASE ~Live
    <3>1. call'[v] = Idle /\ UNCHANGED orderVars
      BY <1>1, <1>4, <2>2 DEF TellOthers
    <3> QED BY <1>2, <1>3, <1>4, <2>2, <3>1 DEF Idle
  <2> QED BY <2>1, <2>2
<1>5. CASE SpawnSection(v)
  <2>1. Tell(v, size')
    BY <1>5 DEF SpawnSection
  <2> QED BY <1>1, <2>1, TellInOrder
<1>6. CASE ResizeSection(v)
  <2>1. Recalculate /\ Tell(v, IF Live THEN size' ELSE call[v].size)
    BY <1>6 DEF ResizeSection
  <2> QED BY <1>1, <1>2, <2>1, TellInOrder
<1>7. CASE EvictRemove(v)
  <2>1. /\ clients' \subseteq clients /\ size' = size /\ UNCHANGED orderVars
        /\ call'[v].at = "recalculate"
    BY <1>1, <1>7 DEF EvictRemove, Request
  <2> QED BY <1>3, <2>1
<1>8. CASE EvictRecalculate(v) \/ KillSection(v)
  <2>1. Recalculate /\ TellOthers(v) /\ clients' \subseteq clients
    BY <1>8 DEF EvictRecalculate, KillSection
  <2> QED BY <1>4, <2>1
<1> QED BY <1>5, <1>6, <1>7, <1>8 DEF Handler

\* notify_clients: who is told the last by this handler has the size of the session
\* on its way, and nothing older to come, or it is overtaken.
LEMMA NotifyInOrder ==
  ASSUME FitsInv, ViewerTypes, AtWork, InOrder, NEW v \in Viewers, Notify(v)
  PROVE  InOrder'
<1>1. /\ clients \subseteq Viewers /\ call \in [Viewers -> Request] /\ Telling(v)
      /\ UNCHANGED <<clients, size, regs, main, flag, screen>>
      /\ teller' = [u \in Viewers |-> teller[u] \ {v}]
      /\ overtaken \subseteq overtaken' /\ overtaken' \subseteq Viewers
      /\ \A u \in Viewers \ overtaken', w \in Viewers \ {v} :
           v \in teller[u] /\ Telling(w) => u \notin call[w].to
  BY DEF FitsInv, Notify, gatewayVars, viewerVars, Telling, InOrder, OrderTypes
<1>2. \A u \in Viewers : u # v => call'[u] = call[u] /\ Telling(u)' = Telling(u)
  BY <1>1 DEF Notify, Telling
<1>3. call[v] \in Request /\ ~Telling(v)'
  <2>1. call[v] \in Request
    BY <1>1
  <2>2. call'[v] = IF call[v].does \in {"spawn", "resize"}
                  THEN [call[v] EXCEPT !.at = "reply"] ELSE Idle
    BY <1>1 DEF Notify
  <2> QED BY <2>1, <2>2 DEF Telling, Idle, Request
<1> DEFINE note == [size |-> call[v].size, step |-> "sent"]
           sent == {u \in call[v].to : main[u] # "left"}
<1>4. /\ \A u \in Viewers : notes[u] \in Seq(Note)
      /\ \A u \in Viewers : notes'[u] = IF u \in sent THEN Append(notes[u], note) ELSE notes[u]
      /\ note \in Note /\ note.step = "sent" /\ note.size = call[v].size
  BY <1>1, <1>3 DEF ViewerTypes, Notify, Request, Note
<1>5. \A u \in Viewers : u \in sent <=> u \in call[v].to /\ main[u] # "left"
  OBVIOUS
<1> HIDE DEF note, sent
<1>6. ASSUME NEW u \in Viewers, u \in sent
      PROVE  /\ notes'[u] # <<>> /\ Last(notes'[u]) = note
             /\ Len(notes'[u]) = Len(notes[u]) + 1 /\ notes'[u][Len(notes[u]) + 1] = note
             /\ \A i \in 1..Len(notes[u]) : notes'[u][i] = notes[u][i]
  <2>1. notes[u] \in Seq(Note) /\ note \in Note /\ notes'[u] = Append(notes[u], note)
    BY <1>4, <1>6
  <2> QED BY <2>1 DEF Last
<1>7. OrderTypes' /\ TellersTell' /\ TellersNew'
  <2>1. ASSUME NEW u \in Viewers, NEW w \in teller'[u]
        PROVE  /\ w \in teller[u] /\ w # v /\ w \in Viewers /\ teller[u] = {w} /\ teller'[u] = {w}
               /\ call'[w] = call[w] /\ Telling(w)' /\ u \in call'[w].to
    <3>1. w \in teller[u] /\ w # v /\ teller'[u] = teller[u] \ {v} /\ w \in Viewers
      BY <1>1, <2>1 DEF InOrder, OrderTypes
    <3>2. teller[u] = {w} /\ Telling(w) /\ u \in call[w].to
      BY <3>1 DEF InOrder, TellersTell
    <3> QED BY <1>2, <3>1, <3>2
  <2>2. OrderTypes'
    BY <1>1 DEF InOrder, OrderTypes
  <2>3. TellersTell'
    BY <2>1 DEF TellersTell
  <2>4. TellersNew'
    BY <1>1, <2>1 DEF InOrder, TellersNew, Live
  <2> QED BY <2>2, <2>3, <2>4
<1>8. AskersTold'
  BY <1>1, <1>2, <1>3 DEF InOrder, AskersTold
<1>9. ReplyIsLast'
  <2> SUFFICES ASSUME NEW u \in clients, call'[u].at = "reply"
               PROVE  flag[u] \/ \E i \in 1..Len(notes'[u]) : notes'[u][i].step # "seen"
    BY <1>1 DEF ReplyIsLast
  <2>1. u \in Viewers /\ Len(notes[u]) \in Nat
    BY <1>1, <1>4
  <2>2. CASE u = v
    <3>1. call[v].does \in {"spawn", "resize"}
      BY <1>1, <2>2 DEF Notify, Idle
    <3>2. main[v] # "left" /\ v \in call[v].to
      BY <1>1, <2>2, <3>1 DEF AtWork, Telling, InOrder, AskersTold
    <3>3. v \in sent /\ Len(notes[v]) + 1 \in 1..(Len(notes[v]) + 1)
      BY <1>5, <2>1, <2>2, <3>2
    <3> QED BY <1>4, <1>6, <2>2, <3>3
  <2>3. CASE u # v
    <3>1. flag[u] \/ \E i \in 1..Len(notes[u]) : notes[u][i].step # "seen"
      BY <1>2, <2>1, <2>3 DEF InOrder, ReplyIsLast
    <3>2. Len(notes[u]) <= Len(notes'[u])
          /\ \A i \in 1..Len(notes[u]) : i \in 1..Len(notes'[u]) /\ notes'[u][i] = notes[u][i]
      BY <1>4, <1>6, <2>1
    <3> QED BY <3>1, <3>2
  <2> QED BY <2>2, <2>3
<1>10. ASSUME NEW u \in Viewers, Reached(u)'
       PROVE  \/ Reached(u) /\ notes'[u] = notes[u] /\ u \notin call[v].to
              \/ v \in teller[u] /\ u \in call[v].to
  <2>1. u \in clients /\ u \notin overtaken /\ main[u] # "left" /\ teller[u] \ {v} = {}
    BY <1>1, <1>10 DEF Reached
  <2>2. CASE v \in teller[u]
    BY <2>2 DEF InOrder, TellersTell
  <2>3. CASE v \notin teller[u]
    <3>1. Reached(u)
      BY <2>1, <2>3 DEF Reached
    <3>2. u \notin call[v].to
      BY <1>1, <3>1 DEF InOrder, NoneOlder
    <3> QED BY <1>4, <1>5, <3>1, <3>2
  <2> QED BY <2>2, <2>3
<1>11. NoneOlder'
  <2> SUFFICES ASSUME NEW u \in Viewers, Reached(u)', NEW w \in Viewers, Telling(w)'
               PROVE  u \notin call'[w].to
    BY DEF NoneOlder
  <2>1. w # v /\ Telling(w) /\ call'[w] = call[w] /\ u \notin overtaken'
    BY <1>2, <1>3 DEF Reached
  <2> QED BY <1>1, <1>10, <2>1 DEF InOrder, NoneOlder
<1>12. LastIsLast'
  <2> SUFFICES ASSUME NEW u \in Viewers, Reached(u)', notes'[u] # <<>>
               PROVE  LET n == Last(notes'[u])
                      IN  /\ n.step = "half" => Len(notes'[u]) = 1 /\ regs[u][1] = n.size[1]
                          /\ n.step = "seen" => Len(notes'[u]) = 1
                                                /\ (flag[u] \/ main[u] = "reading")
    BY <1>1 DEF LastIsLast
  <2>1. CASE Reached(u) /\ notes'[u] = notes[u]
    BY <2>1 DEF InOrder, LastIsLast
  <2>2. CASE u \in call[v].to
    <3>1. u \in sent
      BY <1>1, <1>5, <2>2 DEF Reached
    <3> QED BY <1>4, <1>6, <3>1
  <2> QED BY <1>10, <2>1, <2>2
<1>13. LastIsNew'
  <2> SUFFICES ASSUME Live, NEW u \in Viewers, Reached(u)'
               PROVE  Latest(u)' = size
    BY <1>1 DEF LastIsNew, Live
  <2>1. CASE Reached(u) /\ notes'[u] = notes[u]
    <3>1. Latest(u) = size
      BY <2>1 DEF InOrder, LastIsNew
    <3> QED BY <1>1, <2>1, <3>1 DEF Latest
  <2>2. CASE v \in teller[u] /\ u \in call[v].to
    <3>1. notes'[u] # <<>> /\ Last(notes'[u]) = note
      BY <1>1, <1>5, <1>6, <2>2 DEF Reached
    <3>2. u \in clients /\ call[v].size = size
      BY <1>1, <2>2 DEF Reached, InOrder, TellersNew
    <3> QED BY <1>4, <3>1, <3>2 DEF Latest
  <2> QED BY <1>10, <2>1, <2>2
<1> QED BY <1>7, <1>8, <1>9, <1>11, <1>12, <1>13 DEF InOrder

\* The handler of OnPtyResized: if nothing goes before something older, what it has
\* stored is the size it was sent once both registers are.
LEMMA StoreInOrder ==
  ASSUME FitsInv, ViewerTypes, InOrder, NEW v \in Viewers, NEW i \in DOMAIN notes[v], Store(v, i)
  PROVE  InOrder'
<1> DEFINE q == notes[v]
           p == notes'[v]
           r == regs'[v]
<1>1. /\ UNCHANGED <<clients, size, call, main, screen, teller>> /\ clients \subseteq Viewers
      /\ overtaken' = overtaken \cup (IF i = 1 THEN {} ELSE {v})
  BY DEF Store, gatewayVars, FitsInv
<1>2. /\ q \in Seq(Note) /\ i \in 1..Len(q) /\ q[i] \in Note /\ q[i].size \in Maybe
      /\ regs[v] \in Maybe /\ Len(q) \in Nat /\ q # <<>>
  <2>1. q \in Seq(Note) /\ regs[v] \in Maybe
    BY DEF ViewerTypes
  <2>2. i \in 1..Len(q)
    BY <2>1
  <2> HIDE DEF q
  <2>3. q[i] \in Note
    BY <2>1, <2>2
  <2> QED BY <2>1, <2>2, <2>3 DEF Note
<1>3. \A u \in Viewers \ {v} : notes'[u] = notes[u] /\ regs'[u] = regs[u] /\ flag'[u] = flag[u]
  BY DEF Store, ViewerTypes
\* What becomes of the notification, the registers and the flag of this viewer.
<1>4. \/ /\ q[i].step = "sent" /\ p = [q EXCEPT ![i].step = "half"]
         /\ r = [regs[v] EXCEPT ![1] = q[i].size[1]] /\ flag'[v] = flag[v]
      \/ /\ q[i].step = "half" /\ p = RemoveAt(q, i)
         /\ r = [regs[v] EXCEPT ![2] = q[i].size[2]] /\ flag'[v] = TRUE
      \/ /\ q[i].step = "sent" /\ p = [q EXCEPT ![i].step = "seen"]
         /\ r = regs[v] /\ flag'[v] = TRUE
      \/ /\ q[i].step = "seen" /\ p = RemoveAt(q, i)
         /\ r = q[i].size /\ flag'[v] = flag[v]
  BY DEF Store, ViewerTypes
<1> HIDE DEF q, p, r
<1>5. ASSUME NEW step \in {"half", "seen"}, p = [q EXCEPT ![i].step = step]
      PROVE  /\ Len(p) = Len(q) /\ p # <<>> /\ p[i].step = step /\ p[i].size = q[i].size
             /\ \A k \in 1..Len(q) : k # i => p[k] = q[k]
  <2> DEFINE n == [q[i] EXCEPT !.step = step]
  <2>1. p = [q EXCEPT ![i] = n] /\ n.step = step /\ n.size = q[i].size
    BY <1>2, <1>5 DEF Note
  <2> HIDE DEF n
  <2> QED BY <1>2, <2>1
<1>6. ASSUME p = RemoveAt(q, i)
      PROVE  /\ Len(p) = Len(q) - 1
             /\ \A k \in 1..Len(q) : /\ k < i => p[k] = q[k]
                                     /\ k > i => p[k - 1] = q[k]
  BY <1>2, <1>6, OneGoes
<1>7. OrderTypes' /\ TellersTell' /\ TellersNew' /\ AskersTold' /\ NoneOlder'
  BY <1>1 DEF InOrder, OrderTypes, TellersTell, TellersNew, AskersTold, NoneOlder, Reached,
              Telling, Live
<1>8. ReplyIsLast'
  <2>1. ASSUME v \in clients, call[v].at = "reply"
        PROVE  flag'[v] \/ \E k \in 1..Len(p) : p[k].step # "seen"
    <3>1. flag[v] \/ \E k \in 1..Len(q) : q[k].step # "seen"
      BY <2>1 DEF InOrder, ReplyIsLast, q
    <3>2. CASE p = [q EXCEPT ![i].step = "half"]
      BY <1>2, <1>5, <3>2
    <3>3. CASE flag'[v] = TRUE
      BY <3>3
    <3>4. CASE q[i].step = "seen" /\ p = RemoveAt(q, i) /\ flag'[v] = flag[v]
      <4>1. ASSUME NEW k \in 1..Len(q), q[k].step # "seen"
            PROVE  \E j \in 1..Len(p) : p[j].step # "seen"
        <5>1. k < i \/ k > i
          BY <1>2, <3>4, <4>1
        <5>2. CASE k < i
          <6>1. k \in 1..Len(p) /\ p[k] = q[k]
            BY <1>2, <1>6, <3>4, <5>2
          <6> QED BY <4>1, <6>1
        <5>3. CASE k > i
          <6>1. k - 1 \in 1..Len(p) /\ p[k - 1] = q[k]
            BY <1>2, <1>6, <3>4, <5>3
          <6> QED BY <4>1, <6>1
        <5> QED BY <5>1, <5>2, <5>3
      <4> QED BY <3>1, <3>4, <4>1
    <3> QED BY <1>4, <3>2, <3>3, <3>4
  <2> QED BY <1>1, <1>3, <2>1 DEF InOrder, ReplyIsLast, p
<1>9. \A u \in Viewers : Reached(u)' => Reached(u) /\ (u = v => i = 1)
  BY <1>1 DEF Reached
<1>10. ASSUME Reached(v), i = 1
       PROVE  /\ Latest(v)' = Latest(v)
              /\ p # <<>> => /\ Last(p).step = "half" => Len(p) = 1 /\ r[1] = Last(p).size[1]
                             /\ Last(p).step = "seen" => Len(p) = 1 /\ flag'[v]
  <2>1. LET n == Last(q)
        IN  /\ n.step = "half" => Len(q) = 1 /\ regs[v][1] = n.size[1]
            /\ n.step = "seen" => Len(q) = 1 /\ (flag[v] \/ main[v] = "reading")
    BY <1>2, <1>10 DEF InOrder, LastIsLast, q
  <2>2. Latest(v) = Last(q).size /\ Last(q) = q[Len(q)]
    BY <1>2 DEF Latest, Last, q
  <2>3. p # <<>> => Latest(v)' = Last(p).size /\ Last(p) = p[Len(p)]
    BY DEF Latest, Last, p
  <2>4. p = <<>> => Latest(v)' = IF flag'[v] \/ main[v] = "reading" THEN r ELSE screen[v]
    BY <1>1 DEF Latest, p, r
  <2>5. CASE Len(q) # 1
    <3>1. Last(q).step \notin {"half", "seen"}
      BY <2>1, <2>5
    <3>2. Last(p) = Last(q) /\ p # <<>>
      <4>1. ASSUME NEW step \in {"half", "seen"}, p = [q EXCEPT ![i].step = step]
            PROVE  Last(p) = Last(q) /\ p # <<>>
        <5>1. Len(p) = Len(q) /\ p[Len(q)] = q[Len(q)] /\ p # <<>>
          BY <1>2, <1>5, <1>10, <2>5, <4>1
        <5> QED BY <2>2, <2>3, <5>1
      <4>2. CASE p = RemoveAt(q, i)
        <5>1. Len(p) = Len(q) - 1 /\ p[Len(q) - 1] = q[Len(q)] /\ Len(p) # 0
          BY <1>2, <1>6, <1>10, <2>5, <4>2
        <5>2. p # <<>>
          BY <5>1
        <5> QED BY <2>2, <2>3, <5>1, <5>2
      <4> QED BY <1>4, <4>1, <4>2
    <3> QED BY <2>2, <2>3, <3>1, <3>2
  <2>6. CASE Len(q) = 1
    <3>1. Last(q) = q[i]
      BY <1>10, <2>2, <2>6
    <3>2. ASSUME NEW step \in {"half", "seen"}, p = [q EXCEPT ![i].step = step]
          PROVE  p # <<>> /\ Len(p) = 1 /\ Last(p).step = step /\ Last(p).size = q[i].size
      <4>1. Len(p) = 1 /\ p # <<>> /\ p[i].step = step /\ p[i].size = q[i].size
        BY <1>5, <2>6, <3>2
      <4>2. Last(p) = p[i]
        BY <1>10, <2>3, <4>1
      <4> QED BY <4>1, <4>2
    <3>3. ASSUME p = RemoveAt(q, i) PROVE p = <<>>
      <4>1. p \in Seq(Note) /\ Len(p) = 0
        BY <1>2, <1>6, <2>6, <3>3, OneGoes
      <4> QED BY <4>1
    <3>4. CASE p = [q EXCEPT ![i].step = "half"] /\ r = [regs[v] EXCEPT ![1] = q[i].size[1]]
      <4>1. r[1] = q[i].size[1]
        BY <1>2, <3>4 DEF Maybe
      <4> QED BY <2>2, <2>3, <3>1, <3>2, <3>4, <4>1
    <3>5. CASE /\ q[i].step = "half" /\ p = RemoveAt(q, i)
               /\ r = [regs[v] EXCEPT ![2] = q[i].size[2]] /\ flag'[v] = TRUE
      <4>1. regs[v][1] = q[i].size[1]
        BY <2>1, <3>1, <3>5
      <4>2. r = q[i].size
        BY <1>2, <3>5, <4>1 DEF Maybe
      <4> QED BY <2>2, <2>4, <3>1, <3>3, <3>5, <4>2
    <3>6. CASE p = [q EXCEPT ![i].step = "seen"] /\ flag'[v] = TRUE
      BY <2>2, <2>3, <3>1, <3>2, <3>6
    <3>7. CASE /\ q[i].step = "seen" /\ p = RemoveAt(q, i)
               /\ r = q[i].size /\ flag'[v] = flag[v]
      <4>1. flag[v] \/ main[v] = "reading"
        BY <2>1, <3>1, <3>7
      <4> QED BY <2>2, <2>4, <3>1, <3>3, <3>7, <4>1
    <3> QED BY <1>4, <3>4, <3>5, <3>6, <3>7
  <2> QED BY <2>5, <2>6
<1>11. LastIsLast'
  <2> SUFFICES ASSUME NEW u \in Viewers, Reached(u)', notes'[u] # <<>>
               PROVE  LET n == Last(notes'[u])
                      IN  /\ n.step = "half" => Len(notes'[u]) = 1 /\ regs'[u][1] = n.size[1]
                          /\ n.step = "seen" => Len(notes'[u]) = 1
                                                /\ (flag'[u] \/ main'[u] = "reading")
    BY DEF LastIsLast
  <2>1. CASE u = v
    BY <1>9, <1>10, <2>1 DEF p, r
  <2>2. CASE u # v
    BY <1>1, <1>3, <1>9, <2>2 DEF InOrder, LastIsLast
  <2> QED BY <2>1, <2>2
<1>12. LastIsNew'
  <2> SUFFICES ASSUME Live, NEW u \in Viewers, Reached(u)' PROVE Latest(u)' = size
    BY <1>1 DEF LastIsNew, Live
  <2>1. Reached(u) /\ Latest(u) = size
    BY <1>9 DEF InOrder, LastIsNew
  <2>2. CASE u = v
    BY <1>9, <1>10, <2>1, <2>2
  <2>3. CASE u # v
    BY <1>1, <1>3, <2>1, <2>3 DEF Latest
  <2> QED BY <2>2, <2>3
<1> QED BY <1>7, <1>8, <1>11, <1>12 DEF InOrder

\* The reply sets the size, but what the viewer has been told comes after it.
LEMMA RepliedInOrder ==
  ASSUME FitsInv, ViewerTypes, AtWork, InOrder, NEW v \in Viewers, Replied(v)
  PROVE  InOrder'
<1>1. /\ UNCHANGED <<clients, size, notes, regs, flag, orderVars>> /\ clients \subseteq Viewers
      /\ call[v].at = "reply" /\ call'[v].at = "idle" /\ main[v] # "left"
      /\ \A u \in Viewers \ {v} : /\ call'[u] = call[u] /\ main'[u] = main[u]
                                  /\ screen'[u] = screen[u]
      /\ main'[v] = "loop" /\ main[v] # "reading"
  <2>1. main[v] \in {"joining", "asking", "left"}
    BY DEF AtWork, Replied
  <2>2. main[v] # "left"
    BY DEF AtWork, Replied
  <2> QED BY <2>1, <2>2 DEF Replied, gatewayVars, FitsInv, ViewerTypes, Idle
<1>2. \A u \in clients : Latest(u)' = Latest(u)
  <2>1. ASSUME v \in clients PROVE Latest(v)' = Latest(v)
    <3>1. notes[v] # <<>> \/ flag[v]
      <4>1. flag[v] \/ \E i \in 1..Len(notes[v]) : TRUE
        BY <1>1, <2>1 DEF InOrder, ReplyIsLast
      <4>2. notes[v] = <<>> => 1..Len(notes[v]) = {}
        OBVIOUS
      <4> QED BY <4>1, <4>2
    <3> QED BY <1>1, <3>1 DEF Latest
  <2>2. ASSUME NEW u \in clients, u # v PROVE Latest(u)' = Latest(u)
    BY <1>1, <2>2 DEF Latest
  <2> QED BY <2>1, <2>2
<1>3. \A u \in clients : /\ main'[u] # "left" => main[u] # "left"
                         /\ flag[u] \/ main[u] = "reading" => flag'[u] \/ main'[u] = "reading"
  BY <1>1
<1>4. \A u \in Viewers :
        call'[u] = call[u] \/ ~(Telling(u) \/ Telling(u)' \/ call'[u].at = "reply")
  BY <1>1 DEF Telling
<1> QED BY <1>1, <1>2, <1>3, <1>4, QuietInOrder

\* apply_pending_resize: the flag goes first, and the registers are what it
\* was about, unless they are yet to be seen.
LEMMA ApplyInOrder ==
  ASSUME FitsInv, ViewerTypes, AtWork, InOrder, SizeSet, NEW v \in Viewers,
         ApplySwap(v) \/ ApplyRead(v)
  PROVE  InOrder'
<1>1. /\ UNCHANGED <<clients, size, call, notes, regs, teller>> /\ clients \subseteq Viewers
      /\ \A u \in Viewers \ {v} : /\ main'[u] = main[u] /\ flag'[u] = flag[u]
                                  /\ screen'[u] = screen[u]
      /\ main[v] \in {"loop", "reading"} /\ main'[v] \in {"loop", "reading"}
  BY DEF ApplySwap, ApplyRead, gatewayVars, orderVars, FitsInv, ViewerTypes
<1>2. call[v].at = "idle"
  BY <1>1 DEF AtWork
<1>3. CASE ApplySwap(v)
  <2>1. Latest(v)' = Latest(v) /\ main'[v] = "reading" /\ UNCHANGED orderVars
    BY <1>1, <1>3 DEF ApplySwap, Latest, ViewerTypes
  <2>2. \A u \in Viewers : Latest(u)' = Latest(u)
    BY <1>1, <2>1 DEF Latest
  <2> QED BY <1>1, <1>2, <2>1, <2>2, QuietInOrder
<1>4. CASE ApplyRead(v)
  <2>1. /\ flag' = flag /\ main[v] = "reading"
        /\ screen'[v] = IF 0 \in {regs[v][1], regs[v][2]} THEN screen[v] ELSE regs[v]
        /\ overtaken' = overtaken \cup (IF TooEarly(v) THEN {v} ELSE {})
    BY <1>4 DEF ApplyRead, ViewerTypes
  <2>2. OrderTypes' /\ TellersTell' /\ TellersNew' /\ AskersTold' /\ ReplyIsLast'
    BY <1>1, <2>1
       DEF InOrder, OrderTypes, TellersTell, TellersNew, AskersTold, ReplyIsLast, Telling, Live
  <2>3. \A u \in Viewers : Reached(u)' => Reached(u) /\ (u = v => ~TooEarly(v))
    BY <1>1, <2>1 DEF Reached
  <2>4. NoneOlder'
    BY <1>1, <2>3 DEF InOrder, NoneOlder, Telling
  <2>5. LastIsLast'
    <3> SUFFICES ASSUME NEW u \in Viewers, Reached(u)', notes[u] # <<>>
                 PROVE  LET n == Last(notes[u])
                        IN  /\ n.step = "half" => Len(notes[u]) = 1 /\ regs[u][1] = n.size[1]
                            /\ n.step = "seen" => Len(notes[u]) = 1
                                                  /\ (flag[u] \/ main'[u] = "reading")
      BY <1>1, <2>1 DEF LastIsLast
    <3> QED BY <1>1, <2>3 DEF InOrder, LastIsLast, TooEarly
  <2>6. LastIsNew'
    <3> SUFFICES ASSUME Live, NEW u \in Viewers, Reached(u)' PROVE Latest(u)' = size
      BY <1>1 DEF LastIsNew, Live
    <3>1. Latest(u) = size
      BY <2>3 DEF InOrder, LastIsNew
    <3>2. CASE u # v
      BY <1>1, <3>1, <3>2 DEF Latest
    <3>3. CASE u = v
      <4>1. CASE notes[v] # <<>>
        BY <1>1, <3>1, <3>3, <4>1 DEF Latest
      <4>2. CASE notes[v] = <<>>
        <5>1. regs[v] = size
          BY <2>1, <3>1, <3>3, <4>2 DEF Latest
        <5>2. size \in Extent
          BY DEF SizeSet, Live
        <5>3. screen'[v] = size
          BY <2>1, <5>1, <5>2 DEF Extent, Side
        <5> QED BY <1>1, <3>3, <4>2, <5>1, <5>3 DEF Latest
      <4> QED BY <4>1, <4>2
    <3> QED BY <3>2, <3>3
  <2> QED BY <2>2, <2>4, <2>5, <2>6 DEF InOrder
<1> QED BY <1>3, <1>4

\* Who is about to come is no client yet, who asks to be resized goes on
\* rendering, and who has left is told nothing.
LEMMA RequestInOrder ==
  ASSUME FitsInv, ViewerTypes, AtWork, InOrder, NEW v \in Viewers,
         Join(v) \/ TerminalResized(v) \/ Leave(v)
  PROVE  InOrder'
<1>1. /\ UNCHANGED <<clients, size, orderVars>> /\ clients \subseteq Viewers
      /\ call[v].at = "idle" /\ call'[v].at = "section"
      /\ \A u \in Viewers \ {v} : call'[u] = call[u]
  <2>1. call[v].at = "idle"
    BY DEF AtWork, Join, TerminalResized, Leave
  <2> QED BY <2>1 DEF Join, TerminalResized, Leave, Calls, gatewayVars, FitsInv
<1>2. \A u \in Viewers \ {v} : /\ notes'[u] = notes[u] /\ regs'[u] = regs[u] /\ flag'[u] = flag[u]
                             /\ main'[u] = main[u] /\ screen'[u] = screen[u]
  BY DEF Join, TerminalResized, Leave, ViewerTypes
<1>3. \A u \in Viewers \ {v} : Latest(u)' = Latest(u)
  BY <1>2 DEF Latest
<1>4. v \in clients =>
        \/ main'[v] = "left" /\ notes'[v] = <<>>
        \/ /\ notes'[v] = notes[v] /\ regs'[v] = regs[v] /\ flag'[v] = flag[v]
           /\ main[v] = "loop" /\ Latest(v)' = Latest(v)
  <2>1. CASE Join(v)
    BY <2>1 DEF Join, AtWork
  <2>2. CASE TerminalResized(v)
    BY <2>2 DEF TerminalResized, Latest, ViewerTypes
  <2>3. CASE Leave(v)
    BY <2>3 DEF Leave, ViewerTypes
  <2> QED BY <2>1, <2>2, <2>3
<1>5. \A u \in Viewers :
        call'[u] = call[u] \/ ~(Telling(u) \/ Telling(u)' \/ call'[u].at = "reply")
  BY <1>1 DEF Telling
<1>6. \A u \in clients :
        \/ main'[u] = "left" /\ notes'[u] = <<>> /\ call'[u].at # "reply"
        \/ /\ notes'[u] = notes[u] /\ regs'[u] = regs[u]
           /\ main'[u] # "left" => main[u] # "left" /\ Latest(u)' = Latest(u)
           /\ call'[u].at = "reply" /\ flag[u] => flag'[u]
           /\ flag[u] \/ main[u] = "reading" => flag'[u] \/ main'[u] = "reading"
  BY <1>1, <1>2, <1>3, <1>4
<1> QED BY <1>1, <1>5, <1>6, QuietInOrder

LEMMA OrderStep ==
  ASSUME GeometryAssumption, UnderWay, [Next]_vars PROVE InOrder'
<1>1. FitsInv /\ ViewerTypes /\ AtWork /\ SizeSet /\ InOrder
  BY DEF UnderWay
<1>2. ASSUME NEW v \in Viewers, Handler(v) PROVE InOrder'
  BY <1>1, <1>2, SectionsInOrder, NotifyInOrder
<1>3. ASSUME NEW v \in Viewers, MainThread(v) PROVE InOrder'
  BY <1>1, <1>3, RepliedInOrder, ApplyInOrder DEF MainThread
<1>4. ASSUME NEW v \in Viewers, Delivery(v) PROVE InOrder'
  BY <1>1, <1>4, StoreInOrder DEF Delivery
<1>5. ASSUME NEW v \in Viewers, Join(v) \/ TerminalResized(v) \/ Leave(v) PROVE InOrder'
  BY <1>1, <1>5, RequestInOrder
<1>6. ASSUME UNCHANGED <<clients, call, notes, viewerVars, orderVars>>, size' = size \/ ~Live'
      PROVE  InOrder'
  <2>1. \A u \in Viewers : Latest(u)' = Latest(u)
    BY <1>6 DEF viewerVars, Latest
  <2>2. /\ notes' = notes /\ regs' = regs /\ main' = main /\ flag' = flag /\ call' = call
        /\ clients' = clients /\ UNCHANGED orderVars
    BY <1>6 DEF viewerVars
  <2>3. clients' \subseteq clients /\ clients \subseteq Viewers
    BY <1>1, <2>2 DEF FitsInv
  <2>4. \A u \in Viewers : call'[u] = call[u]
    BY <2>2
  <2>5. \A u \in clients :
          /\ notes'[u] = notes[u] /\ regs'[u] = regs[u]
          /\ main'[u] # "left" => main[u] # "left" /\ Latest(u)' = Latest(u)
          /\ call'[u].at = "reply" /\ flag[u] => flag'[u]
          /\ flag[u] \/ main[u] = "reading" => flag'[u] \/ main'[u] = "reading"
    BY <2>1, <2>2, <2>3
  <2>6. UNCHANGED orderVars /\ (size' = size \/ ~Live')
    BY <1>6, <2>2
  <2> QED BY <1>1, <2>3, <2>4, <2>5, <2>6, QuietInOrder
<1>7. CASE Apply \/ Exit \/ UNCHANGED vars
  BY <1>6, <1>7 DEF Apply, Exit, vars, gatewayVars, Live
<1> QED BY <1>2, <1>3, <1>4, <1>5, <1>7 DEF Next

LEMMA UnderWayStep == ASSUME GeometryAssumption, UnderWay, [Next]_vars PROVE UnderWay'
<1>1. FitsInv' /\ ViewerTypes' /\ AtWork'
  BY NextFits, ViewersStep, AtWorkStep DEF UnderWay
<1> QED BY <1>1, OwedStep, OrderStep DEF UnderWay

\* Whatever handlers do to each other, no resize is lost on its way to the PTY.
THEOREM ResizesAreOwed == Spec => []ResizeOwed
<1>1. Init => UnderWay
  BY UnderWayInit, GeometryAssumption
<1>2. UnderWay /\ [Next]_vars => UnderWay'
  BY UnderWayStep, GeometryAssumption
<1>3. UnderWay => ResizeOwed
  BY DEF UnderWay
<1> QED BY <1>1, <1>2, <1>3, PTL DEF Spec

\* However handlers, notifications, replies and stores overtake each other, the last
\* that is under way to a viewer is the size of the session, unless that viewer is
\* one of those for whom something old comes after it.
THEOREM NoViewerLeftBehind == Spec => []NobodyLeftBehind
<1>1. Init => UnderWay
  BY UnderWayInit, GeometryAssumption
<1>2. UnderWay /\ [Next]_vars => UnderWay'
  BY UnderWayStep, GeometryAssumption
<1>3. UnderWay => NobodyLeftBehind
  BY InOrderShows
<1> QED BY <1>1, <1>2, <1>3, PTL DEF Spec

-----------------------------------------------------------------------------
\* What holds at 0, and next to wherever it holds, holds everywhere.
LEMMA Induction ==
  ASSUME NEW T \in SUBSET Nat, 0 \in T, \A n \in T : n + 1 \in T
  PROVE  T = Nat
<1> SUFFICES ASSUME T # Nat PROVE FALSE
  OBVIOUS
<1>1. PICK m \in Nat \ T : \A n \in Nat \ T : <<n, m>> \notin OpToRel(<, Nat)
  BY NatLessThanWellFounded, WFMin
<1>2. \A n \in Nat \ T : ~(n < m)
  BY <1>1 DEF OpToRel
<1>3. m - 1 \in Nat /\ m - 1 < m /\ (m - 1) + 1 = m
  BY m # 0
<1>4. m - 1 \in T
  BY <1>2, <1>3
<1> QED BY <1>1, <1>3, <1>4

(***************************************************************************)
(* Splits: sums.                                                           *)
(***************************************************************************)
\* The recursive function Sums(s) exists, and adds one member after another.
LEMMA SumsAdd ==
  ASSUME NEW n \in Nat, NEW s \in [1..n -> Int], Len(s) = n
  PROVE  /\ Sums(s) \in [0..n -> Int] /\ Sums(s)[0] = 0
         /\ \A i \in 1..n : Sums(s)[i] = Sums(s)[i - 1] + s[i]
<1> DEFINE Step(f, i) == IF i = 0 THEN 0 ELSE f[i - 1] + s[i]
           Upto(m) == \E f \in [0..m -> Int] : f = [i \in 0..m |-> Step(f, i)]
           F == CHOOSE f : f = [i \in 0..Len(s) |-> Step(f, i)]
           T == {m \in Nat : m <= n => Upto(m)}
<1>1. 0 \in T
  <2> DEFINE f == [i \in 0..0 |-> 0]
  <2>1. f \in [0..0 -> Int] /\ f = [i \in 0..0 |-> Step(f, i)]
    OBVIOUS
  <2> QED BY <2>1
<1>2. ASSUME NEW m \in T PROVE m + 1 \in T
  <2> HIDE DEF Upto
  <2>0. m \in Nat /\ m + 1 \in Nat /\ (m + 1 <= n => Upto(m))
    OBVIOUS
  <2> SUFFICES ASSUME m + 1 <= n PROVE Upto(m + 1)
    BY <2>0
  <2> HIDE DEF T
  <2> USE DEF Upto
  <2>1. PICK f \in [0..m -> Int] : f = [i \in 0..m |-> Step(f, i)]
    BY <2>0
  <2> DEFINE g == [i \in 0..(m + 1) |-> IF i = m + 1 THEN f[m] + s[m + 1] ELSE f[i]]
  <2>2. m \in 0..m /\ m + 1 \in 1..n /\ s[m + 1] \in Int
    BY <2>0
  <2>3. g \in [0..(m + 1) -> Int]
    BY <2>1, <2>2
  <2>4. ASSUME NEW i \in 0..(m + 1) PROVE g[i] = Step(g, i)
    <3>1. CASE i = m + 1
      <4>1. i - 1 = m /\ m \in 0..(m + 1) /\ m # m + 1 /\ i # 0
        BY <2>0, <3>1
      <4>2. g[m] = f[m]
        BY <4>1
      <4> QED BY <3>1, <4>1, <4>2
    <3>2. CASE i = 0
      BY <2>0, <2>1, <3>2
    <3>3. CASE i # m + 1 /\ i # 0
      <4>1. i \in 0..m /\ i - 1 \in 0..m /\ i - 1 \in 0..(m + 1) /\ i - 1 # m + 1
        BY <2>0, <3>3
      <4>2. g[i - 1] = f[i - 1] /\ g[i] = f[i]
        BY <3>3, <4>1
      <4>3. f[i] = Step(f, i)
        BY <2>1, <4>1
      <4> QED BY <4>2, <4>3
    <3> QED BY <3>1, <3>2, <3>3
  <2>5. g = [i \in 0..(m + 1) |-> Step(g, i)]
    BY <2>4
  <2> QED BY <2>3, <2>5
<1>3. Upto(n)
  <2> HIDE DEF Upto
  <2>1. T \in SUBSET Nat
    OBVIOUS
  <2>2. n \in T
    <3> HIDE DEF T
    <3> QED BY <1>1, <1>2, <2>1, Induction
  <2> QED BY <2>2
<1>4. PICK f \in [0..n -> Int] : f = [i \in 0..n |-> Step(f, i)]
  BY <1>3
<1>5. F = [i \in 0..Len(s) |-> Step(F, i)]
  BY <1>4
<1>6. Sums(s) = F
  BY DEF Sums
<1> HIDE DEF F
<1>7. \A i \in 0..n : F[i] = Step(F, i)
  BY <1>5
<1>8. DOMAIN F = 0..n /\ F = [i \in 0..n |-> F[i]]
  BY <1>5
<1>9. \A i \in 0..n : F[i] \in Int
  <2> DEFINE R == {m \in Nat : m <= n => F[m] \in Int}
  <2>1. 0 \in R
    BY <1>7
  <2>2. ASSUME NEW m \in R PROVE m + 1 \in R
    <3> SUFFICES ASSUME m + 1 <= n PROVE F[m + 1] \in Int
      OBVIOUS
    <3>1. m + 1 \in 0..n /\ m + 1 \in 1..n /\ m + 1 # 0 /\ (m + 1) - 1 = m /\ F[m] \in Int
      OBVIOUS
    <3>2. F[m + 1] = F[m] + s[m + 1]
      BY <1>7, <3>1
    <3> QED BY <3>1, <3>2
  <2>3. R = Nat
    <3>1. R \in SUBSET Nat
      OBVIOUS
    <3> HIDE DEF R
    <3> QED BY <2>1, <2>2, <3>1, Induction
  <2> QED BY <2>3
<1>10. F \in [0..n -> Int]
  BY <1>8, <1>9
<1>11. \A i \in 1..n : F[i] = F[i - 1] + s[i]
  BY <1>7
<1>12. F[0] = 0
  BY <1>7
<1> QED BY <1>6, <1>10, <1>11, <1>12

\* What grows from each place to the next grows from any place to a later one.
LEMMA Grows ==
  ASSUME NEW n \in Nat, NEW B \in [0..n -> Int], \A i \in 1..n : B[i - 1] <= B[i]
  PROVE  \A i, j \in 0..n : i <= j => B[i] <= B[j]
<1> TAKE i \in 0..n
<1> DEFINE T == {j \in Nat : i <= j /\ j <= n => B[i] <= B[j]}
<1>1. 0 \in T
  OBVIOUS
<1>2. ASSUME NEW j \in T PROVE j + 1 \in T
  <2>1. j \in Nat /\ j + 1 \in Nat /\ (i <= j /\ j <= n => B[i] <= B[j])
    OBVIOUS
  <2> SUFFICES ASSUME i <= j + 1, j + 1 <= n PROVE B[i] <= B[j + 1]
    BY <2>1
  <2>2. CASE i = j + 1
    BY <2>2
  <2>3. CASE i # j + 1
    <3>1. i <= j /\ j <= n /\ j + 1 \in 1..n /\ (j + 1) - 1 = j /\ j \in 0..n /\ j + 1 \in 0..n
      BY <2>1, <2>3
    <3>2. B[j] <= B[j + 1] /\ B[i] \in Int /\ B[j] \in Int /\ B[j + 1] \in Int
      BY <3>1
    <3> QED BY <2>1, <3>1, <3>2
  <2> QED BY <2>2, <2>3
<1>3. T = Nat
  <2>1. T \in SUBSET Nat
    OBVIOUS
  <2> HIDE DEF T
  <2> QED BY <1>1, <1>2, <2>1, Induction
<1>4. ASSUME NEW j \in 0..n, i <= j PROVE B[i] <= B[j]
  <2>1. j \in Nat /\ j <= n
    OBVIOUS
  <2>2. j \in T
    <3> HIDE DEF T
    <3> QED BY <1>3, <2>1
  <2> QED BY <1>4, <2>1, <2>2
<1> HIDE DEF T
<1> QED BY <1>4

\* The sums of sizes are sizes, and never decrease.
LEMMA SumsGrow ==
  ASSUME NEW n \in Nat, NEW s \in [1..n -> Nat], Len(s) = n
  PROVE  /\ Sums(s) \in [0..n -> Nat] /\ \A i \in 1..n : Sums(s)[i - 1] <= Sums(s)[i]
         /\ \A i, j \in 0..n : i <= j => Sums(s)[i] <= Sums(s)[j]
<1> DEFINE B == Sums(s)
<1>1. /\ B \in [0..n -> Int] /\ B[0] = 0
      /\ \A i \in 1..n : B[i] = B[i - 1] + s[i]
  <2>1. s \in [1..n -> Int]
    OBVIOUS
  <2> QED BY <2>1, SumsAdd
<1> HIDE DEF B
<1>2. ASSUME NEW i \in 1..n PROVE B[i - 1] <= B[i]
  <2>1. i - 1 \in 0..n /\ i \in 0..n /\ s[i] \in Nat
    OBVIOUS
  <2>2. B[i - 1] \in Int /\ B[i] \in Int /\ B[i] = B[i - 1] + s[i]
    BY <1>1, <2>1
  <2> QED BY <2>1, <2>2
<1>3. \A i, j \in 0..n : i <= j => B[i] <= B[j]
  BY <1>1, <1>2, Grows
<1>4. ASSUME NEW i \in 0..n PROVE B[i] \in Nat
  <2>1. 0 \in 0..n /\ 0 <= i /\ B[i] \in Int
    BY <1>1
  <2> QED BY <1>1, <1>3, <2>1
<1>5. B \in [0..n -> Nat]
  BY <1>1, <1>4
<1> QED BY <1>2, <1>3, <1>5 DEF B

\* Consecutive bands leave nothing out between the first and the last border,
\* and have nothing in common.
LEMMA Bands ==
  ASSUME NEW n \in Nat, NEW B \in [0..n -> Nat], B[0] = 0, \A i \in 1..n : B[i - 1] <= B[i]
  PROVE  /\ \A x \in Nat : x < B[n] => \E i \in 1..n : B[i - 1] <= x /\ x < B[i]
         /\ \A x \in Int, i, j \in 1..n :
              B[i - 1] <= x /\ x < B[i] /\ B[j - 1] <= x /\ x < B[j] => i = j
<1>1. \A i, j \in 0..n : i <= j => B[i] <= B[j]
  <2>1. B \in [0..n -> Int]
    OBVIOUS
  <2> QED BY <2>1, Grows
<1>2. ASSUME NEW x \in Nat, x < B[n] PROVE \E i \in 1..n : B[i - 1] <= x /\ x < B[i]
  <2> SUFFICES ASSUME \A i \in 1..n : B[i - 1] <= x => B[i] <= x PROVE FALSE
    OBVIOUS
  <2> DEFINE T == {i \in Nat : i <= n => B[i] <= x}
  <2>1. 0 \in T
    OBVIOUS
  <2>2. ASSUME NEW i \in T PROVE i + 1 \in T
    <3> SUFFICES ASSUME i + 1 <= n PROVE B[i + 1] <= x
      OBVIOUS
    <3>1. i + 1 \in 1..n /\ (i + 1) - 1 = i /\ B[i] <= x
      OBVIOUS
    <3> QED BY <3>1
  <2>3. T = Nat
    <3>1. T \in SUBSET Nat
      OBVIOUS
    <3> HIDE DEF T
    <3> QED BY <2>1, <2>2, <3>1, Induction
  <2>4. B[n] <= x /\ B[n] \in Nat
    BY <2>3
  <2> QED BY <1>2, <2>4
<1>3. ASSUME NEW x \in Int, NEW i \in 1..n, NEW j \in 1..n, i < j,
             x < B[i], B[j - 1] <= x
      PROVE  FALSE
  <2>1. i \in 0..n /\ j - 1 \in 0..n /\ i <= j - 1
    BY <1>3
  <2>2. B[i] <= B[j - 1] /\ B[i] \in Nat /\ B[j - 1] \in Nat
    BY <1>1, <2>1
  <2> QED BY <1>3, <2>2
<1> QED BY <1>2, <1>3

(***************************************************************************)
(* Sizes.                                                                  *)
(***************************************************************************)
\* Products with the same factor compare as what it multiplies.
LEMMA TimesKeeps ==
  ASSUME NEW c \in Nat, NEW a \in Int, NEW b \in Int, a <= b
  PROVE  c * a <= c * b
<1> DEFINE d == b - a
<1>1. d \in Nat /\ b = a + d
  OBVIOUS
<1> HIDE DEF d
<1>2. c * (a + d) = c * a + c * d
  BY <1>1
<1>3. c * d \in Nat /\ c * a \in Int
  BY <1>1
<1> QED BY <1>1, <1>2, <1>3

\* A factor above zero can be left out of a comparison.
LEMMA TimesCancels ==
  ASSUME NEW c \in Nat \ {0}, NEW a \in Int, NEW b \in Int, c * a <= c * b
  PROVE  a <= b
<1> SUFFICES ASSUME b < a PROVE FALSE
  OBVIOUS
<1>1. b + 1 <= a /\ b + 1 \in Int /\ c \in Nat
  OBVIOUS
<1>2. c * (b + 1) <= c * a
  BY <1>1, TimesKeeps
<1>3. c * (b + 1) = c * b + c /\ c * b \in Int /\ c * a \in Int /\ c > 0
  OBVIOUS
<1> QED BY <1>2, <1>3

\* Rounding down never hands out more than there is.
LEMMA SharesFit ==
  ASSUME NEW n \in Nat, NEW ws \in [1..n -> Nat], Len(ws) = n, NEW c \in Nat, NEW W \in Nat \ {0},
         SumOf(ws) <= W, NEW share \in [1..n -> Nat], Len(share) = n,
         \A i \in 1..n : W * share[i] <= c * ws[i]
  PROVE  \A i \in 0..n : Sums(share)[i] <= c
<1> DEFINE A == Sums(share)
           B == Sums(ws)
           T == {i \in Nat : i <= n => W * A[i] <= c * B[i]}
<1>1. /\ A \in [0..n -> Nat] /\ A[0] = 0 /\ \A i \in 1..n : A[i] = A[i - 1] + share[i]
  <2>1. share \in [1..n -> Int]
    OBVIOUS
  <2> QED BY <2>1, SumsAdd, SumsGrow
<1>2. /\ B \in [0..n -> Nat] /\ B[0] = 0 /\ \A i \in 1..n : B[i] = B[i - 1] + ws[i]
      /\ \A i \in 0..n : B[i] <= B[n]
  <2>1. ws \in [1..n -> Int] /\ n \in 0..n /\ \A i \in 0..n : i <= n
    OBVIOUS
  <2> QED BY <2>1, SumsAdd, SumsGrow
<1>3. B[n] <= W
  BY DEF SumOf
<1> HIDE DEF A, B
<1>4. 0 \in T
  BY <1>1, <1>2
<1>5. ASSUME NEW i \in T PROVE i + 1 \in T
  <2>1. i \in Nat /\ i + 1 \in Nat /\ (i <= n => W * A[i] <= c * B[i])
    OBVIOUS
  <2> SUFFICES ASSUME i + 1 <= n PROVE W * A[i + 1] <= c * B[i + 1]
    BY <2>1
  <2>2. i \in 0..n /\ i + 1 \in 1..n /\ (i + 1) - 1 = i
    BY <2>1
  <2>3. A[i + 1] = A[i] + share[i + 1] /\ B[i + 1] = B[i] + ws[i + 1]
    BY <1>1, <1>2, <2>2
  <2>4. A[i] \in Nat /\ B[i] \in Nat /\ share[i + 1] \in Nat /\ ws[i + 1] \in Nat
    BY <1>1, <1>2, <2>2
  <2>5. W * A[i] <= c * B[i] /\ W * share[i + 1] <= c * ws[i + 1]
    BY <2>1, <2>2
  <2>6. \A a, b, d, e \in Nat : W * a <= c * b /\ W * d <= c * e => W * (a + d) <= c * (b + e)
    OBVIOUS
  <2> QED BY <2>3, <2>4, <2>5, <2>6
<1>6. T = Nat
  <2>1. T \in SUBSET Nat
    OBVIOUS
  <2> HIDE DEF T
  <2> QED BY <1>4, <1>5, <2>1, Induction
<1>7. ASSUME NEW i \in 0..n PROVE A[i] <= c
  <2>0. i \in Nat /\ i <= n
    OBVIOUS
  <2>1. i \in T
    <3> HIDE DEF T
    <3> QED BY <1>6, <2>0
  <2>2. W * A[i] <= c * B[i]
    BY <2>0, <2>1
  <2>3. A[i] \in Nat /\ B[i] \in Nat /\ B[i] <= W
    BY <1>1, <1>2, <1>3
  <2>4. c * B[i] <= c * W
    BY <2>3, TimesKeeps
  <2>5. c * B[i] \in Int /\ W * A[i] \in Int /\ c * W = W * c /\ W * c \in Int
    BY <2>3
  <2>6. W * A[i] <= W * c
    BY <2>2, <2>4, <2>5
  <2> QED BY <2>3, <2>6, TimesCancels
<1> QED BY <1>7 DEF A

\* The members before a place decide the sums up to it.
LEMMA SumsAgree ==
  ASSUME NEW n \in Nat, NEW r \in [1..n -> Int], Len(r) = n,
         NEW s \in [1..n -> Int], Len(s) = n,
         NEW m \in 0..n, \A i \in 1..m : r[i] = s[i]
  PROVE  \A i \in 0..m : Sums(r)[i] = Sums(s)[i]
<1> DEFINE A == Sums(r)
           B == Sums(s)
           T == {i \in Nat : i <= m => A[i] = B[i]}
<1>1. A[0] = 0 /\ \A i \in 1..n : A[i] = A[i - 1] + r[i]
  BY SumsAdd
<1>2. B[0] = 0 /\ \A i \in 1..n : B[i] = B[i - 1] + s[i]
  BY SumsAdd
<1> HIDE DEF A, B
<1>3. 0 \in T
  BY <1>1, <1>2
<1>4. ASSUME NEW i \in T PROVE i + 1 \in T
  <2>1. i \in Nat /\ i + 1 \in Nat /\ (i <= m => A[i] = B[i])
    OBVIOUS
  <2> SUFFICES ASSUME i + 1 <= m PROVE A[i + 1] = B[i + 1]
    BY <2>1
  <2>2. i + 1 \in 1..m /\ i + 1 \in 1..n /\ (i + 1) - 1 = i /\ i <= m
    BY <2>1
  <2>3. A[i + 1] = A[i] + r[i + 1] /\ B[i + 1] = B[i] + s[i + 1] /\ r[i + 1] = s[i + 1]
    BY <1>1, <1>2, <2>2
  <2> QED BY <2>1, <2>2, <2>3
<1>5. T = Nat
  <2>1. T \in SUBSET Nat
    OBVIOUS
  <2> HIDE DEF T
  <2> QED BY <1>3, <1>4, <2>1, Induction
<1>6. ASSUME NEW i \in 0..m PROVE A[i] = B[i]
  <2>1. i \in Nat /\ i <= m
    OBVIOUS
  <2>2. i \in T
    <3> HIDE DEF T
    <3> QED BY <1>5, <2>1
  <2> QED BY <2>1, <2>2
<1> QED BY <1>6 DEF A, B

\* A quotient times its divisor is no more than what was divided.
LEMMA DivBelow ==
  ASSUME NEW a \in Nat, NEW d \in Nat \ {0}
  PROVE  a \div d \in Nat /\ d * (a \div d) <= a
OBVIOUS

\* The gaps take what they take, and there is something left.
LEMMA ContentLeft ==
  ASSUME NEW total \in Nat, NEW n \in Nat \ {0}
  PROVE  /\ GapSize(total, n) \in {0, 1} /\ Content(total, n) \in Nat
         /\ Content(total, n) + GapSize(total, n) * (n - 1) = total
<1>1. CASE GapSize(total, n) = 0
  <2>1. GapSize(total, n) * (n - 1) = 0
    BY <1>1
  <2> QED BY <1>1, <2>1 DEF Content
<1>2. CASE GapSize(total, n) # 0
  <2>1. GapSize(total, n) = 1 /\ ~(total <= n)
    BY <1>2 DEF GapSize
  <2>2. GapSize(total, n) * (n - 1) = n - 1
    BY <2>1
  <2> QED BY <2>1, <2>2 DEF Content
<1> QED BY <1>1, <1>2

\* A function on 1..n is a sequence of length n.
LEMMA SeqIs ==
  ASSUME NEW S, NEW n \in Nat, NEW f \in [1..n -> S]
  PROVE  f \in Seq(S) /\ Len(f) = n
OBVIOUS

\* What is due to each child, and what all but the last get together.
LEMMA SharesAre ==
  ASSUME NEW total \in Nat, NEW n \in Nat \ {0}, NEW weights \in Seq(Nat)
  PROVE  LET share == Shares(total, weights, n)
         IN /\ share \in [1..n -> Nat] /\ Len(share) = n
            /\ Sums(share) \in [0..n -> Nat]
            /\ \A i \in 0..n : Sums(share)[i] <= Content(total, n)
<1> DEFINE ws == Weights(weights, n)
           W == AtLeast(SumOf(ws), 1)
           c == Content(total, n)
           share == Shares(total, weights, n)
<1>1. ws \in [1..n -> Nat] /\ Len(ws) = n
  <2>1. CASE Len(weights) = n
    BY <2>1 DEF Weights
  <2>2. CASE Len(weights) # n
    <3>1. ws = [i \in 1..n |-> 1]
      BY <2>2 DEF Weights
    <3> QED BY <3>1, SeqIs
  <2> QED BY <2>1, <2>2
<1> HIDE DEF ws
<1>2. SumOf(ws) \in Nat
  <2>1. Sums(ws) \in [0..n -> Nat] /\ n \in 0..n
    BY <1>1, SumsGrow
  <2> QED BY <1>1, <2>1 DEF SumOf
<1>3. W \in Nat \ {0} /\ SumOf(ws) <= W
  BY <1>2 DEF AtLeast
<1>4. c \in Nat
  BY ContentLeft
<1>5. share = [i \in 1..n |-> (c * ws[i]) \div W]
  BY DEF Shares, ws
<1> HIDE DEF W, c, share
<1>6. ASSUME NEW i \in 1..n PROVE share[i] \in Nat /\ W * share[i] <= c * ws[i]
  <2>1. ws[i] \in Nat
    BY <1>1
  <2>2. c * ws[i] \in Nat
    BY <1>4, <2>1
  <2> QED BY <1>3, <1>5, <2>2, DivBelow
<1>7. share \in [1..n -> Nat] /\ Len(share) = n
  <2>1. share \in [1..n -> Nat]
    BY <1>5, <1>6
  <2> QED BY <2>1, SeqIs
<1>8. \A i \in 0..n : Sums(share)[i] <= c
  BY <1>1, <1>3, <1>4, <1>6, <1>7, SharesFit
<1>9. Sums(share) \in [0..n -> Nat]
  BY <1>7, SumsGrow
<1> QED BY <1>7, <1>8, <1>9 DEF share, c

\* However the weights and the rounding fall out, the sizes of the children and
\* the gaps between them add up to the length of the split: no child is given
\* a size below zero, and no cell is lost (split_rects_weighted).
THEOREM SizesAddUp ==
  ASSUME NEW total \in Nat, NEW n \in Nat \ {0}, NEW weights \in Seq(Nat)
  PROVE  LET sizes == SplitSizes(total, weights, n)
         IN /\ sizes \in [1..n -> Nat] /\ Len(sizes) = n
            /\ SumOf(sizes) + GapSize(total, n) * (n - 1) = total
<1> DEFINE share == Shares(total, weights, n)
           c == Content(total, n)
           sizes == SplitSizes(total, weights, n)
<1>1. /\ share \in [1..n -> Nat] /\ Len(share) = n
      /\ Sums(share) \in [0..n -> Nat] /\ \A i \in 0..n : Sums(share)[i] <= c
  BY SharesAre
<1>2. c \in Nat /\ c + GapSize(total, n) * (n - 1) = total
  BY ContentLeft
<1>3. sizes = [i \in 1..n |-> IF i < n THEN share[i] ELSE c - Sums(share)[n - 1]]
  BY DEF SplitSizes
<1> HIDE DEF share, c, sizes
<1>4. n - 1 \in 0..n /\ Sums(share)[n - 1] \in Nat /\ Sums(share)[n - 1] <= c
  BY <1>1
<1>5. sizes \in [1..n -> Nat] /\ Len(sizes) = n
  <2>1. ASSUME NEW i \in 1..n PROVE (IF i < n THEN share[i] ELSE c - Sums(share)[n - 1]) \in Nat
    BY <1>1, <1>2, <1>4
  <2>2. sizes \in [1..n -> Nat]
    BY <1>3, <2>1
  <2> QED BY <2>2, SeqIs
<1>6. Sums(sizes)[n - 1] = Sums(share)[n - 1]
  <2>1. \A i \in 1..(n - 1) : sizes[i] = share[i]
    BY <1>3
  <2>2. sizes \in [1..n -> Int] /\ share \in [1..n -> Int]
    BY <1>1, <1>5
  <2>3. n - 1 \in 0..(n - 1)
    OBVIOUS
  <2>4. \A i \in 0..(n - 1) : Sums(sizes)[i] = Sums(share)[i]
    BY <1>1, <1>4, <1>5, <2>1, <2>2, SumsAgree
  <2> QED BY <2>3, <2>4
<1>7. Sums(sizes)[n] = Sums(sizes)[n - 1] + sizes[n] /\ sizes[n] = c - Sums(share)[n - 1]
  <2>1. sizes \in [1..n -> Int] /\ n \in 1..n
    BY <1>5
  <2>2. Sums(sizes)[n] = Sums(sizes)[n - 1] + sizes[n]
    BY <1>5, <2>1, SumsAdd
  <2> QED BY <1>3, <2>1, <2>2
<1>8. SumOf(sizes) = c
  <2>1. SumOf(sizes) = Sums(sizes)[n]
    BY <1>5 DEF SumOf
  <2> QED BY <1>2, <1>4, <1>6, <1>7, <2>1
<1> QED BY <1>2, <1>5, <1>8 DEF sizes

(***************************************************************************)
(* Places.                                                                 *)
(***************************************************************************)
Rect == [x : Int, y : Int, w : Nat, h : Nat]
In(r, x, y) == r.x <= x /\ x < r.x + r.w /\ r.y <= y /\ y < r.y + r.h

\* Every cell of the area is in the rectangle of one of the parts and of no
\* other, and none of them reaches beyond it.
Tiles(parts, area) ==
  /\ \A p \in parts : p[2] \in Rect
  /\ \A x, y \in Int : In(area, x, y) <=> \E p \in parts : In(p[2], x, y)
  /\ \A p, q \in parts, x, y \in Int : In(p[2], x, y) /\ In(q[2], x, y) => p = q

\* A node the division is defined for: what a LayoutNode can be.
WellFormed(t, T) ==
  IsSplit(t) => t.kids \in Seq(T) /\ t.weights \in Seq(Nat) /\ t.dir \in {"H", "V"}

\* Along the split, the children and the gaps lie side by side and fill it.
SideBySide(sizes, gap, total, n) ==
  /\ gap \in Nat /\ sizes \in [1..n -> Nat]
  /\ \A i \in 1..n : Begin(sizes, gap, i) \in Nat
  /\ \A i \in 1..n : Begin(sizes, gap, i) + sizes[i] <= total
  /\ \A i \in 1..(n - 1) : Begin(sizes, gap, i) + sizes[i] + gap <= total
  /\ \A u \in Nat : u < total =>
       \E i \in 1..n : /\ Begin(sizes, gap, i) <= u
                       /\ \/ u < Begin(sizes, gap, i) + sizes[i]
                          \/ /\ i < n /\ Begin(sizes, gap, i) + sizes[i] <= u
                             /\ u < Begin(sizes, gap, i) + sizes[i] + gap
  /\ \A u \in Int, i, j \in 1..n :
       (/\ Begin(sizes, gap, i) <= u /\ u < Begin(sizes, gap, i) + sizes[i] + gap
        /\ Begin(sizes, gap, j) <= u /\ u < Begin(sizes, gap, j) + sizes[j] + gap) => i = j

\* What split_rects_with_gaps makes of the sizes and the gap lies side by side.
LEMMA SidesFill ==
  ASSUME NEW total \in Nat, NEW n \in Nat \ {0}, NEW weights \in Seq(Nat)
  PROVE  SideBySide(SplitSizes(total, weights, n), GapSize(total, n), total, n)
<1>0. PICK sizes, gap : sizes = SplitSizes(total, weights, n) /\ gap = GapSize(total, n)
  OBVIOUS
<1> DEFINE A == Sums(sizes)
           B == [i \in 0..n |-> A[i] + i * gap]
<1>1. sizes \in [1..n -> Nat] /\ Len(sizes) = n /\ A[n] + gap * (n - 1) = total
  BY <1>0, SizesAddUp DEF SumOf
<1>2. /\ A \in [0..n -> Nat] /\ A[0] = 0 /\ \A i \in 1..n : A[i] = A[i - 1] + sizes[i]
  <2>1. sizes \in [1..n -> Int]
    BY <1>1
  <2> QED BY <1>1, <2>1, SumsAdd, SumsGrow
<1>3. gap \in {0, 1}
  BY <1>0, ContentLeft
<1>4. \A i \in 1..n : Begin(sizes, gap, i) = A[i - 1] + (i - 1) * gap
  BY DEF Begin
<1> HIDE DEF A
<1>5. \A i \in 0..n : i * gap \in Nat
  BY <1>3
<1>6. B \in [0..n -> Nat] /\ B[0] = 0
  <2>1. ASSUME NEW i \in 0..n PROVE A[i] + i * gap \in Nat
    <3>1. A[i] \in Nat /\ i * gap \in Nat
      BY <1>2, <1>5
    <3> HIDE DEF B
    <3> QED BY <3>1
  <2>2. 0 * gap = 0 /\ 0 \in 0..n
    BY <1>3
  <2>3. B[0] = A[0] + 0 * gap
    BY <2>2
  <2>4. B[0] = 0
    BY <1>2, <2>2, <2>3
  <2> QED BY <2>1, <2>4
<1>7. ASSUME NEW i \in 1..n
      PROVE  /\ B[i - 1] = Begin(sizes, gap, i) /\ B[i] = Begin(sizes, gap, i) + sizes[i] + gap
             /\ B[i - 1] \in Nat /\ B[i] \in Nat /\ sizes[i] \in Nat
  <2>1. i - 1 \in 0..n /\ i \in 0..n
    OBVIOUS
  <2>2. B[i - 1] = A[i - 1] + (i - 1) * gap /\ B[i] = A[i] + i * gap
    BY <2>1
  <2>3. (i - 1) * gap + gap = i * gap
    BY <1>3
  <2>4. A[i] = A[i - 1] + sizes[i] /\ A[i - 1] \in Nat /\ sizes[i] \in Nat
    BY <1>1, <1>2, <2>1
  <2>5. (i - 1) * gap \in Nat /\ i * gap \in Nat
    BY <1>5, <2>1
  <2>6. B[i - 1] \in Nat /\ B[i] \in Nat
    BY <1>6, <2>1
  <2> HIDE DEF B
  <2>7. B[i - 1] = Begin(sizes, gap, i)
    BY <1>4, <2>2
  <2> DEFINE g == (i - 1) * gap
             k == i * gap
  <2>8. B[i - 1] = A[i - 1] + g /\ B[i] = A[i] + k /\ g + gap = k /\ g \in Nat /\ k \in Nat
    BY <2>2, <2>3, <2>5
  <2> HIDE DEF g, k
  <2>9. B[i] = B[i - 1] + sizes[i] + gap
    BY <1>3, <2>4, <2>8
  <2> QED BY <2>4, <2>6, <2>7, <2>9
<1>8. B[n] = total + gap
  <2>1. n \in 0..n /\ A[n] \in Nat
    BY <1>2
  <2>2. B[n] = A[n] + n * gap
    BY <2>1
  <2>3. n * gap = gap * (n - 1) + gap
    BY <1>3
  <2> QED BY <1>1, <1>3, <2>1, <2>2, <2>3
<1> HIDE DEF B
<1>9. \A i \in 1..n : B[i - 1] <= B[i]
  <2> TAKE i \in 1..n
  <2>1. Begin(sizes, gap, i) \in Nat /\ sizes[i] \in Nat
    BY <1>7
  <2>2. B[i - 1] = Begin(sizes, gap, i) /\ B[i] = Begin(sizes, gap, i) + sizes[i] + gap
    BY <1>7
  <2> QED BY <1>3, <2>1, <2>2
<1>10. /\ \A u \in Nat : u < B[n] => \E i \in 1..n : B[i - 1] <= u /\ u < B[i]
       /\ \A u \in Int, i, j \in 1..n :
            B[i - 1] <= u /\ u < B[i] /\ B[j - 1] <= u /\ u < B[j] => i = j
  BY <1>6, <1>9, Bands
<1>11. \A i, j \in 0..n : i <= j => B[i] <= B[j]
  <2>1. B \in [0..n -> Int]
    BY <1>6
  <2> QED BY <1>9, <2>1, Grows
<1>12. ASSUME NEW i \in 1..n
       PROVE  /\ Begin(sizes, gap, i) + sizes[i] <= total
              /\ i < n => Begin(sizes, gap, i) + sizes[i] + gap <= total
  <2>1. i \in 0..n /\ n \in 0..n /\ i <= n
    OBVIOUS
  <2>2. B[i] <= B[n]
    BY <1>11, <2>1
  <2>3. Begin(sizes, gap, i) \in Nat /\ sizes[i] \in Nat /\ B[i] = Begin(sizes, gap, i) + sizes[i] + gap
    BY <1>7
  <2>4. Begin(sizes, gap, i) + sizes[i] <= total
    BY <1>3, <1>8, <2>2, <2>3
  <2>5. ASSUME i < n PROVE Begin(sizes, gap, i) + sizes[i] + gap <= total
    <3>1. i + 1 \in 1..n /\ (i + 1) - 1 = i
      BY <2>5
    <3>2. B[i] = Begin(sizes, gap, i + 1)
      BY <1>7, <3>1
    <3>3. B[i] = A[i] + i * gap /\ A[i] \in Nat /\ A[n] \in Nat /\ A[i] <= A[n]
      <4>1. \A k, l \in 0..n : k <= l => A[k] <= A[l]
        BY <1>1, SumsGrow DEF A
      <4> QED BY <1>2, <2>1, <4>1 DEF B
    <3>4. gap * (n - 1) >= i * gap
      <4>1. CASE gap = 0
        BY <4>1
      <4>2. CASE gap = 1
        BY <2>5, <4>2
      <4> QED BY <1>3, <4>1, <4>2
    <3>5. gap * (n - 1) \in Nat /\ i * gap \in Nat
      BY <1>3
    <3> QED BY <1>1, <2>3, <3>3, <3>4, <3>5
  <2> QED BY <2>4, <2>5
<1>13. ASSUME NEW u \in Nat, u < total
       PROVE  \E i \in 1..n : /\ Begin(sizes, gap, i) <= u
                              /\ \/ u < Begin(sizes, gap, i) + sizes[i]
                                 \/ /\ i < n /\ Begin(sizes, gap, i) + sizes[i] <= u
                                    /\ u < Begin(sizes, gap, i) + sizes[i] + gap
  <2>1. u < B[n]
    BY <1>3, <1>8, <1>13
  <2>2. PICK i \in 1..n : B[i - 1] <= u /\ u < B[i]
    BY <1>10, <2>1
  <2>3. Begin(sizes, gap, i) <= u /\ u < Begin(sizes, gap, i) + sizes[i] + gap
    BY <1>7, <2>2
  <2>4. CASE u < Begin(sizes, gap, i) + sizes[i]
    BY <2>3, <2>4
  <2>5. CASE ~(u < Begin(sizes, gap, i) + sizes[i])
    <3>1. Begin(sizes, gap, i) \in Nat /\ sizes[i] \in Nat
      BY <1>7
    <3>2. Begin(sizes, gap, i) + sizes[i] <= u
      BY <2>5, <3>1
    <3>3. i # n
      <4>1. B[n] = Begin(sizes, gap, n) + sizes[n] + gap /\ Begin(sizes, gap, n) \in Nat /\ sizes[n] \in Nat
        <5>1. n \in 1..n
          OBVIOUS
        <5> QED BY <1>7, <5>1
      <4>2. Begin(sizes, gap, n) + sizes[n] = total
        BY <1>3, <1>8, <4>1
      <4> QED BY <1>13, <3>2, <4>2
    <3> QED BY <2>3, <3>2, <3>3
  <2> QED BY <2>4, <2>5
<1>14. \A u \in Int, i, j \in 1..n :
         (/\ Begin(sizes, gap, i) <= u /\ u < Begin(sizes, gap, i) + sizes[i] + gap
          /\ Begin(sizes, gap, j) <= u /\ u < Begin(sizes, gap, j) + sizes[j] + gap) => i = j
  <2> TAKE u \in Int, i, j \in 1..n
  <2>1. /\ B[i - 1] = Begin(sizes, gap, i) /\ B[i] = Begin(sizes, gap, i) + sizes[i] + gap
        /\ B[j - 1] = Begin(sizes, gap, j) /\ B[j] = Begin(sizes, gap, j) + sizes[j] + gap
    BY <1>7
  <2>2. B[i - 1] <= u /\ u < B[i] /\ B[j - 1] <= u /\ u < B[j] => i = j
    BY <1>10
  <2> QED BY <2>1, <2>2
<1>15. gap \in Nat /\ \A i \in 1..n : Begin(sizes, gap, i) \in Nat
  <2>1. gap \in Nat
    BY <1>3
  <2>2. \A i \in 1..n : Begin(sizes, gap, i) \in Nat
    <3> TAKE i \in 1..n
    <3> QED BY <1>7
  <2> QED BY <2>1, <2>2
<1>16. \A i \in 1..n : Begin(sizes, gap, i) + sizes[i] <= total
  BY <1>12
<1>17. \A i \in 1..(n - 1) : Begin(sizes, gap, i) + sizes[i] + gap <= total
  <2> TAKE i \in 1..(n - 1)
  <2>1. i \in 1..n /\ i < n
    OBVIOUS
  <2> QED BY <1>12, <2>1
<1>18. sizes \in [1..n -> Nat]
  BY <1>1
<1>19. \A u \in Nat : u < total =>
          \E i \in 1..n : /\ Begin(sizes, gap, i) <= u
                          /\ \/ u < Begin(sizes, gap, i) + sizes[i]
                             \/ /\ i < n /\ Begin(sizes, gap, i) + sizes[i] <= u
                                /\ u < Begin(sizes, gap, i) + sizes[i] + gap
  BY <1>13
<1>20. SideBySide(sizes, gap, total, n)
  BY <1>14, <1>15, <1>16, <1>17, <1>18, <1>19 DEF SideBySide
<1> QED BY <1>0, <1>20

\* Divided: what is in the area of a split is in one of its children or gaps.
LEMMA DividedTiles ==
  ASSUME NEW T, \A t \in T : WellFormed(t, T), \A i \in Nat : GapNode(i) \in T,
         NEW t \in T, NEW area \in Rect
  PROVE  /\ \A p \in Divided(t, area) : p[1] \in T
         /\ Tiles(Divided(t, area), area)
<1>1. CASE ~IsSplit(t) \/ t.kids = <<>>
  <2>1. Divided(t, area) = {<<t, area>>}
    BY <1>1 DEF Divided
  <2>2. \A p \in Divided(t, area) : p[1] = t /\ p[2] = area
    BY <2>1
  <2>3. <<t, area>> \in Divided(t, area) /\ <<t, area>>[2] = area
    BY <2>1
  <2>4. \A x, y \in Int : In(area, x, y) <=> \E p \in Divided(t, area) : In(p[2], x, y)
    BY <2>2, <2>3
  <2>5. \A p, q \in Divided(t, area) : p = q
    BY <2>1
  <2> QED BY <2>2, <2>4, <2>5 DEF Tiles
<1>2. CASE ~(~IsSplit(t) \/ t.kids = <<>>)
  <2> DEFINE n == Len(t.kids)
             total == Total(area, t.dir)
             gap == GapSize(total, n)
             sizes == SplitSizes(total, t.weights, n)
             kid(i) == <<t.kids[i], Part(t, area, i, FALSE)>>
             space(i) == <<GapNode(i), Part(t, area, i, TRUE)>>
             parts == Divided(t, area)
  <2>1. t.kids \in Seq(T) /\ t.weights \in Seq(Nat) /\ t.dir \in {"H", "V"} /\ t.kids # <<>>
    BY <1>2 DEF WellFormed
  <2>2. n \in Nat \ {0} /\ total \in Nat
    BY <2>1 DEF Total, Rect
  <2>3. parts = {kid(i) : i \in 1..n} \cup {space(i) : i \in 1..(n - 1)}
    BY <1>2 DEF Divided
  <2> DEFINE Here(i, u) == Begin(sizes, gap, i) <= u /\ u < Begin(sizes, gap, i) + sizes[i]
             After(i, u) == /\ Begin(sizes, gap, i) + sizes[i] <= u
                            /\ u < Begin(sizes, gap, i) + sizes[i] + gap
             Along(x, y) == IF t.dir = "H" THEN x - area.x ELSE y - area.y
             Across(x, y) == IF t.dir = "H" THEN area.y <= y /\ y < area.y + area.h
                             ELSE area.x <= x /\ x < area.x + area.w
  <2>4. SideBySide(sizes, gap, total, n)
    BY <2>1, <2>2, SidesFill
  <2>5. \A i \in 1..n : /\ kid(i)[1] = t.kids[i] /\ kid(i)[2] = Part(t, area, i, FALSE)
                        /\ space(i)[1] = GapNode(i) /\ space(i)[2] = Part(t, area, i, TRUE)
    OBVIOUS
  <2>6. \A i \in 1..n : Part(t, area, i, FALSE) =
         IF t.dir = "H" THEN Area(area.x + Begin(sizes, gap, i), area.y, sizes[i], area.h)
          ELSE Area(area.x, area.y + Begin(sizes, gap, i), area.w, sizes[i])
    BY DEF Part
  <2>7. \A i \in 1..n : Part(t, area, i, TRUE) =
          IF t.dir = "H" THEN Area(area.x + (Begin(sizes, gap, i) + sizes[i]), area.y, gap, area.h)
          ELSE Area(area.x, area.y + (Begin(sizes, gap, i) + sizes[i]), area.w, gap)
    BY DEF Part
  <2>8. \A x, y \in Int : /\ Along(x, y) \in Int
                          /\ In(area, x, y) <=> 0 <= Along(x, y) /\ Along(x, y) < total /\ Across(x, y)
    BY <2>1 DEF In, Rect, Total
  <2> HIDE DEF n, total, gap, sizes, parts
  <2>9. ASSUME NEW i \in 1..n
        PROVE  /\ kid(i)[1] \in T /\ kid(i)[2] \in Rect /\ space(i)[1] \in T /\ space(i)[2] \in Rect
               /\ \A x, y \in Int : /\ In(kid(i)[2], x, y) <=> Here(i, Along(x, y)) /\ Across(x, y)
                                    /\ In(space(i)[2], x, y) <=> After(i, Along(x, y)) /\ Across(x, y)
    <3>1. Begin(sizes, gap, i) \in Nat /\ sizes[i] \in Nat /\ gap \in Nat
      BY <2>4 DEF SideBySide
    <3>2. kid(i)[1] \in T /\ space(i)[1] \in T
      <4>1. t.kids[i] \in T
        BY <2>1 DEF n
      <4>2. i \in Nat
        BY <2>2
      <4> QED BY <2>5, <4>1, <4>2
    <3> DEFINE b == Begin(sizes, gap, i)
               w == sizes[i]
    <3>3. kid(i)[2] = (IF t.dir = "H" THEN Area(area.x + b, area.y, w, area.h)
                       ELSE Area(area.x, area.y + b, area.w, w))
      BY <2>5, <2>6
    <3>4. space(i)[2] = (IF t.dir = "H" THEN Area(area.x + (b + w), area.y, gap, area.h)
                         ELSE Area(area.x, area.y + (b + w), area.w, gap))
      BY <2>5, <2>7
    <3>5. b \in Nat /\ w \in Nat
      BY <3>1
    <3> HIDE DEF b, w, kid, space
    <3>6. kid(i)[2] \in Rect /\ space(i)[2] \in Rect
      BY <3>1, <3>3, <3>4, <3>5 DEF Area, Rect
    <3>7. ASSUME NEW x \in Int, NEW y \in Int
          PROVE  /\ In(kid(i)[2], x, y) <=> (b <= Along(x, y) /\ Along(x, y) < b + w) /\ Across(x, y)
                 /\ In(space(i)[2], x, y) <=>
                      (b + w <= Along(x, y) /\ Along(x, y) < b + w + gap) /\ Across(x, y)
      <4>1. CASE t.dir = "H"
        BY <3>1, <3>3, <3>4, <3>5, <4>1 DEF Area, Rect, In
      <4>2. CASE t.dir = "V"
        BY <3>1, <3>3, <3>4, <3>5, <4>2 DEF Area, Rect, In
      <4> QED BY <2>1, <4>1, <4>2
    <3> QED BY <3>2, <3>6, <3>7 DEF b, w
  <2> HIDE DEF kid, space
  <2>10. \A p \in parts : \E i \in 1..n : p = kid(i) \/ (p = space(i) /\ i < n)
    <3>1. \A i \in 1..(n - 1) : i \in 1..n /\ i < n
      BY <2>2
    <3> QED BY <2>3, <3>1
  <2>11. \A p \in parts : p[1] \in T /\ p[2] \in Rect
    BY <2>9, <2>10
  <2>12. ASSUME NEW x \in Int, NEW y \in Int, In(area, x, y)
         PROVE  \E p \in parts : In(p[2], x, y)
    <3>1. Along(x, y) \in Nat /\ Along(x, y) < total /\ Across(x, y)
      BY <2>8, <2>12
    <3>2. PICK i \in 1..n : /\ Begin(sizes, gap, i) <= Along(x, y)
                            /\ \/ Along(x, y) < Begin(sizes, gap, i) + sizes[i]
                               \/ i < n /\ After(i, Along(x, y))
      BY <2>4, <3>1 DEF SideBySide
    <3>3. CASE Along(x, y) < Begin(sizes, gap, i) + sizes[i]
      <4>1. In(kid(i)[2], x, y)
        BY <2>9, <3>1, <3>2, <3>3
      <4> QED BY <2>3, <4>1
    <3>4. CASE i < n /\ After(i, Along(x, y))
      <4>1. In(space(i)[2], x, y)
        BY <2>9, <3>1, <3>4
      <4>2. i \in 1..(n - 1)
        BY <2>2, <3>4
      <4> QED BY <2>3, <4>1, <4>2
    <3> QED BY <3>2, <3>3, <3>4
  <2>13. ASSUME NEW p \in parts, NEW x \in Int, NEW y \in Int, In(p[2], x, y)
         PROVE  \E i \in 1..n : /\ \/ p = kid(i) /\ Here(i, Along(x, y))
                                   \/ p = space(i) /\ i < n /\ After(i, Along(x, y))
                                /\ Across(x, y)
    BY <2>9, <2>10, <2>13
  <2>14. ASSUME NEW p \in parts, NEW x \in Int, NEW y \in Int, In(p[2], x, y)
         PROVE  In(area, x, y)
    <3>1. PICK i \in 1..n : /\ \/ p = kid(i) /\ Here(i, Along(x, y))
                               \/ p = space(i) /\ i < n /\ After(i, Along(x, y))
                            /\ Across(x, y)
      BY <2>13, <2>14
    <3>2. /\ Begin(sizes, gap, i) \in Nat /\ sizes[i] \in Nat /\ gap \in Nat /\ Along(x, y) \in Int
          /\ Begin(sizes, gap, i) + sizes[i] <= total /\ total \in Nat
      BY <2>2, <2>4, <2>8 DEF SideBySide
    <3>3. i < n => Begin(sizes, gap, i) + sizes[i] + gap <= total
      <4>1. i < n => i \in 1..(n - 1)
        BY <2>2
      <4> QED BY <2>4, <4>1 DEF SideBySide
    <3>4. 0 <= Along(x, y) /\ Along(x, y) < total
      <4> HIDE DEF Along
      <4> QED BY <3>1, <3>2, <3>3
    <3> QED BY <2>8, <3>1, <3>4
  <2>15. ASSUME NEW p \in parts, NEW q \in parts, NEW x \in Int, NEW y \in Int,
                In(p[2], x, y), In(q[2], x, y)
         PROVE  p = q
    <3>1. PICK i \in 1..n :
            (p = kid(i) /\ Here(i, Along(x, y))) \/ (p = space(i) /\ i < n /\ After(i, Along(x, y)))
      BY <2>13, <2>15
    <3>2. PICK j \in 1..n :
            (q = kid(j) /\ Here(j, Along(x, y))) \/ (q = space(j) /\ j < n /\ After(j, Along(x, y)))
      BY <2>13, <2>15
    <3>3. /\ Begin(sizes, gap, i) \in Nat /\ sizes[i] \in Nat /\ gap \in Nat /\ Along(x, y) \in Int
          /\ Begin(sizes, gap, j) \in Nat /\ sizes[j] \in Nat
      BY <2>4, <2>8 DEF SideBySide
    <3> HIDE DEF Along
    <3>4. i = j
      <4>1. Begin(sizes, gap, i) <= Along(x, y) /\ Along(x, y) < Begin(sizes, gap, i) + sizes[i] + gap
        BY <3>1, <3>3
      <4>2. Begin(sizes, gap, j) <= Along(x, y) /\ Along(x, y) < Begin(sizes, gap, j) + sizes[j] + gap
        BY <3>2, <3>3
      <4> QED BY <2>4, <3>3, <4>1, <4>2 DEF SideBySide
    <3>5. ~(Here(i, Along(x, y)) /\ After(i, Along(x, y)))
      BY <3>3
    <3> QED BY <3>1, <3>2, <3>4, <3>5
  <2> QED BY <2>11, <2>12, <2>14, <2>15 DEF Tiles, parts
<1> QED BY <1>1, <1>2

\* A level of the layout follows from the one above it.
ByLevels(level, depth, t, area) ==
  /\ level[0] = {<<t, area>>}
  /\ \A d \in 1..depth : level[d] = UNION {Divided(p[1], p[2]) : p \in level[d - 1]}
  /\ LayoutTo(depth, t, area) = level[depth]

\* The recursive function in LayoutTo exists.
LEMMA Levels ==
  ASSUME NEW depth \in Nat, NEW t, NEW area
  PROVE  \E level : ByLevels(level, depth, t, area)
<1> DEFINE Below(S) == UNION {Divided(p[1], p[2]) : p \in S}
           Step(f, d) == IF d = 0 THEN {<<t, area>>} ELSE Below(f[d - 1])
           F == CHOOSE f : f = [d \in 0..depth |-> Step(f, d)]
           To(m) == \E f : f = [d \in 0..m |-> Step(f, d)]
           T == {m \in Nat : To(m)}
<1> HIDE DEF Below
<1>1. 0 \in T
  <2> DEFINE f == [d \in 0..0 |-> {<<t, area>>}]
  <2>1. f = [d \in 0..0 |-> Step(f, d)]
    OBVIOUS
  <2> QED BY <2>1
<1>2. ASSUME NEW m \in T PROVE m + 1 \in T
  <2>0. m \in Nat /\ m + 1 \in Nat /\ To(m)
    OBVIOUS
  <2> SUFFICES To(m + 1)
    BY <2>0
  <2> HIDE DEF T
  <2>1. PICK f : f = [d \in 0..m |-> Step(f, d)]
    BY <2>0
  <2> DEFINE g == [d \in 0..(m + 1) |-> IF d = m + 1 THEN Below(f[m]) ELSE f[d]]
  <2>2. ASSUME NEW d \in 0..(m + 1) PROVE g[d] = Step(g, d)
    <3>1. CASE d = m + 1
      <4>1. d - 1 = m /\ m \in 0..(m + 1) /\ m # m + 1 /\ d # 0
        BY <2>0, <3>1
      <4>2. g[m] = f[m]
        BY <4>1
      <4>3. g[d] = Below(f[m])
        BY <3>1
      <4> QED BY <4>1, <4>2, <4>3
    <3>2. CASE d = 0
      <4>1. 0 \in 0..m /\ 0 # m + 1
        BY <2>0
      <4>2. g[d] = f[d]
        BY <3>2, <4>1
      <4>3. f[0] = {<<t, area>>}
        BY <2>1, <4>1
      <4> QED BY <3>2, <4>2, <4>3
    <3>3. CASE d # m + 1 /\ d # 0
      <4>1. d \in 0..m /\ d - 1 \in 0..m /\ d - 1 \in 0..(m + 1) /\ d - 1 # m + 1
        BY <2>0, <3>3
      <4>2. g[d - 1] = f[d - 1] /\ g[d] = f[d]
        BY <3>3, <4>1
      <4>3. f[d] = Step(f, d)
        BY <2>1, <4>1
      <4> QED BY <4>2, <4>3
    <3> QED BY <3>1, <3>2, <3>3
  <2>3. g = [d \in 0..(m + 1) |-> Step(g, d)]
    BY <2>2
  <2> QED BY <2>3
<1>3. To(depth)
  <2> HIDE DEF To
  <2>1. T \in SUBSET Nat
    OBVIOUS
  <2>2. depth \in T
    <3> HIDE DEF T
    <3> QED BY <1>1, <1>2, <2>1, Induction
  <2> QED BY <2>2
<1>4. F = [d \in 0..depth |-> Step(F, d)]
  BY <1>3
<1>5. LayoutTo(depth, t, area) = F[depth]
  BY DEF LayoutTo, Below
<1> HIDE DEF F
<1>6. F[0] = {<<t, area>>}
  BY <1>4
<1>7. ASSUME NEW d \in 1..depth PROVE F[d] = Below(F[d - 1])
  <2>1. d \in 0..depth /\ d # 0
    OBVIOUS
  <2>2. F[d] = Step(F, d)
    BY <1>4, <2>1
  <2> QED BY <2>1, <2>2
<1>8. ByLevels(F, depth, t, area)
  BY <1>5, <1>6, <1>7 DEF Below, ByLevels
<1> QED BY <1>8

\* The windows, the Voids and the gaps of a tiled layout cover its area and do
\* not overlap, whatever the tree is, however deep it is, and whatever the
\* weights and the size of the area (layout_recursive).
THEOREM LayoutTiles ==
  ASSUME NEW T, \A t \in T : WellFormed(t, T), \A i \in Nat : GapNode(i) \in T,
         NEW t \in T, NEW area \in Rect, NEW depth \in Nat
  PROVE  Tiles(LayoutTo(depth, t, area), area)
<1>0. PICK level : ByLevels(level, depth, t, area)
  BY Levels
<1>1. /\ level[0] = {<<t, area>>}
      /\ \A d \in 1..depth : level[d] = UNION {Divided(p[1], p[2]) : p \in level[d - 1]}
      /\ LayoutTo(depth, t, area) = level[depth]
  BY <1>0 DEF ByLevels
<1> DEFINE Good(S) == (\A p \in S : p[1] \in T) /\ Tiles(S, area)
           D == {d \in Nat : d <= depth => Good(level[d])}
<1>2. Good(level[0])
  <2>1. \A p \in level[0] : p = <<t, area>>
    BY <1>1
  <2>2. <<t, area>> \in level[0]
    BY <1>1
  <2> QED BY <2>1, <2>2 DEF Tiles
<1>3. ASSUME NEW S, Good(S) PROVE Good(UNION {Divided(p[1], p[2]) : p \in S})
  <2> DEFINE U == UNION {Divided(p[1], p[2]) : p \in S}
  <2>1. \A q \in U : \E p \in S : q \in Divided(p[1], p[2])
    OBVIOUS
  <2>2. \A p \in S : \A q \in Divided(p[1], p[2]) : q \in U
    OBVIOUS
  <2> HIDE DEF U
  <2>3. \A p \in S : p[1] \in T /\ p[2] \in Rect
    BY <1>3 DEF Tiles
  <2>4. ASSUME NEW p \in S
        PROVE  (\A q \in Divided(p[1], p[2]) : q[1] \in T) /\ Tiles(Divided(p[1], p[2]), p[2])
    BY <2>3, DividedTiles
  <2>5. \A q \in U : q[1] \in T /\ q[2] \in Rect
    BY <2>1, <2>4 DEF Tiles
  <2>6. ASSUME NEW x \in Int, NEW y \in Int, In(area, x, y)
        PROVE  \E q \in U : In(q[2], x, y)
    <3>1. PICK p \in S : In(p[2], x, y)
      BY <1>3, <2>6 DEF Tiles
    <3>2. PICK q \in Divided(p[1], p[2]) : In(q[2], x, y)
      BY <2>4, <3>1 DEF Tiles
    <3> QED BY <2>2, <3>2
  <2>7. ASSUME NEW q \in U, NEW p \in S, q \in Divided(p[1], p[2]),
               NEW x \in Int, NEW y \in Int, In(q[2], x, y)
        PROVE  In(p[2], x, y)
    BY <2>4, <2>7 DEF Tiles
  <2>8. ASSUME NEW q \in U, NEW x \in Int, NEW y \in Int, In(q[2], x, y)
        PROVE  In(area, x, y)
    <3>1. PICK p \in S : q \in Divided(p[1], p[2])
      BY <2>1
    <3>2. In(p[2], x, y)
      BY <2>7, <2>8, <3>1
    <3> QED BY <1>3, <3>2 DEF Tiles
  <2>9. ASSUME NEW q \in U, NEW r \in U, NEW x \in Int, NEW y \in Int,
               In(q[2], x, y), In(r[2], x, y)
        PROVE  q = r
    <3>1. PICK p \in S : q \in Divided(p[1], p[2])
      BY <2>1
    <3>2. PICK o \in S : r \in Divided(o[1], o[2])
      BY <2>1
    <3>3. In(p[2], x, y) /\ In(o[2], x, y)
      BY <2>7, <2>9, <3>1, <3>2
    <3>4. p = o
      BY <1>3, <3>3 DEF Tiles
    <3> QED BY <2>4, <2>9, <3>1, <3>2, <3>4 DEF Tiles
  <2>10. Tiles(U, area)
    BY <2>5, <2>6, <2>8, <2>9 DEF Tiles
  <2>11. Good(U)
    BY <2>5, <2>10
  <2> QED BY <2>11 DEF U
<1> HIDE DEF Good
<1>4. 0 \in D
  BY <1>2
<1>5. ASSUME NEW d \in D PROVE d + 1 \in D
  <2>1. d \in Nat /\ d + 1 \in Nat /\ (d <= depth => Good(level[d]))
    OBVIOUS
  <2> SUFFICES ASSUME d + 1 <= depth PROVE Good(level[d + 1])
    BY <2>1
  <2>2. d + 1 \in 1..depth /\ (d + 1) - 1 = d /\ d <= depth
    BY <2>1
  <2>3. level[d + 1] = UNION {Divided(p[1], p[2]) : p \in level[d]}
    BY <1>1, <2>2
  <2>4. Good(level[d])
    BY <2>1, <2>2
  <2> QED BY <1>3, <2>3, <2>4
<1>6. depth \in D
  <2>1. D \in SUBSET Nat
    OBVIOUS
  <2> HIDE DEF D
  <2> QED BY <1>4, <1>5, <2>1, Induction
<1>7. Good(level[depth])
  <2>1. depth <= depth => Good(level[depth])
    BY <1>6
  <2>2. depth <= depth
    OBVIOUS
  <2> QED BY <2>1, <2>2
<1> QED BY <1>1, <1>7 DEF Good

(***************************************************************************)
(* A dragged handle.                                                       *)
(***************************************************************************)
\* Sizes that fill the split are its sizes again when they are its weights.
LEMMA SizesAsWeights ==
  ASSUME NEW total \in Nat, NEW n \in Nat \ {0}, NEW sizes \in [1..n -> Nat \ {0}], Len(sizes) = n,
         SumOf(sizes) = Content(total, n)
  PROVE  SplitSizes(total, sizes, n) = sizes
<1> DEFINE c == Content(total, n)
           share == Shares(total, sizes, n)
           A == Sums(sizes)
<1>1. /\ A \in [0..n -> Nat] /\ A[0] = 0 /\ \A i \in 1..n : A[i] = A[i - 1] + sizes[i]
      /\ \A i, j \in 0..n : i <= j => A[i] <= A[j]
  <2>1. sizes \in [1..n -> Int] /\ sizes \in [1..n -> Nat]
    OBVIOUS
  <2> QED BY <2>1, SumsAdd, SumsGrow
<1>2. A[n] = c
  BY DEF SumOf
<1>3. c \in Nat \ {0}
  <2>1. 1 \in 0..n /\ n \in 0..n /\ 0 \in 0..n /\ 1 \in 1..n /\ 1 <= n /\ 1 - 1 = 0
    OBVIOUS
  <2>2. A[1] <= A[n] /\ A[1] = 0 + sizes[1] /\ A[n] \in Nat /\ sizes[1] \in Nat \ {0}
    BY <1>1, <2>1
  <2> QED BY <1>2, <2>2
<1>4. Weights(sizes, n) = sizes /\ SumOf(sizes) = c
  BY DEF Weights
<1>5. AtLeast(SumOf(sizes), 1) = c
  BY <1>3, <1>4 DEF AtLeast
<1>6. share = [i \in 1..n |-> (c * sizes[i]) \div c]
  BY <1>4, <1>5 DEF Shares
<1>7. SplitSizes(total, sizes, n) = [i \in 1..n |-> IF i < n THEN share[i] ELSE c - Sums(share)[n - 1]]
  BY DEF SplitSizes
<1> HIDE DEF c, share, A
<1>8. \A a \in Nat : (c * a) \div c = a
  <2> TAKE a \in Nat
  <2> DEFINE q == (c * a) \div c
  <2>1. c * a \in Nat
    BY <1>3
  <2>2. q \in Nat /\ c * q <= c * a /\ c * a < c * q + c
    BY <1>3, <2>1
  <2> HIDE DEF q
  <2>3. q <= a
    BY <1>3, <2>2, TimesCancels
  <2>4. c * a <= c * (q + 1) - 1 /\ q + 1 \in Int /\ c * (q + 1) \in Int /\ c * a \in Int
    BY <1>3, <2>2
  <2>5. ~(c * (q + 1) <= c * a)
    BY <2>4
  <2>6. ~(q + 1 <= a)
    BY <1>3, <2>4, <2>5, TimesKeeps
  <2> QED BY <2>2, <2>3, <2>6 DEF q
<1>9. share = sizes
  <2>1. \A i \in 1..n : (c * sizes[i]) \div c = sizes[i]
    BY <1>8
  <2> QED BY <1>6, <2>1
<1>10. c - Sums(share)[n - 1] = sizes[n]
  <2>1. n \in 1..n /\ n - 1 \in 0..n
    OBVIOUS
  <2>2. A[n] = A[n - 1] + sizes[n] /\ A[n - 1] \in Nat /\ sizes[n] \in Nat
    BY <1>1, <2>1
  <2>3. Sums(share)[n - 1] = A[n - 1]
    BY <1>9 DEF A
  <2> QED BY <1>2, <2>2, <2>3
<1>11. \A i \in 1..n : (IF i < n THEN share[i] ELSE c - Sums(share)[n - 1]) = sizes[i]
  <2> TAKE i \in 1..n
  <2>1. CASE i < n
    BY <1>9, <2>1
  <2>2. CASE ~(i < n)
    <3>1. i = n
      BY <2>2
    <3> QED BY <1>10, <2>2, <3>1
  <2> QED BY <2>1, <2>2
<1>12. sizes = [i \in 1..n |-> sizes[i]]
  OBVIOUS
<1> QED BY <1>7, <1>11, <1>12

\* What one member gives to the next changes the sum between them only.
LEMMA SumsOfMoved ==
  ASSUME NEW n \in Nat, NEW r \in [1..n -> Nat], Len(r) = n, NEW s \in [1..n -> Nat], Len(s) = n,
         NEW k \in 1..(n - 1), r[k] + r[k + 1] = s[k] + s[k + 1],
         \A i \in 1..n : i # k /\ i # k + 1 => r[i] = s[i]
  PROVE  \A i \in 0..n : i # k => Sums(r)[i] = Sums(s)[i]
<1> DEFINE A == Sums(r)
           B == Sums(s)
           T == {i \in Nat : i <= n - (k + 1) => A[k + 1 + i] = B[k + 1 + i]}
<1>0. r \in [1..n -> Int] /\ s \in [1..n -> Int]
  OBVIOUS
<1>1. A \in [0..n -> Int] /\ \A i \in 1..n : A[i] = A[i - 1] + r[i]
  BY <1>0, SumsAdd
<1>2. B \in [0..n -> Int] /\ \A i \in 1..n : B[i] = B[i - 1] + s[i]
  BY <1>0, SumsAdd
<1>3. \A i \in 0..(k - 1) : A[i] = B[i]
  <2>1. k - 1 \in 0..n /\ \A i \in 1..(k - 1) : r[i] = s[i]
    OBVIOUS
  <2> QED BY <1>0, <2>1, SumsAgree
<1> HIDE DEF A, B
<1>4. 0 \in T
  <2>1. k - 1 \in 0..(k - 1) /\ k \in 1..n /\ k + 1 \in 1..n /\ (k + 1) - 1 = k /\ k - 1 \in 0..n
    OBVIOUS
  <2>2. A[k + 1] = A[k] + r[k + 1] /\ A[k] = A[k - 1] + r[k] /\ A[k - 1] \in Int
    BY <1>1, <2>1
  <2>3. B[k + 1] = B[k] + s[k + 1] /\ B[k] = B[k - 1] + s[k] /\ B[k - 1] = A[k - 1]
    BY <1>2, <1>3, <2>1
  <2>4. r[k] \in Nat /\ r[k + 1] \in Nat /\ s[k] \in Nat /\ s[k + 1] \in Nat
    BY <2>1
  <2>5. A[k + 1] = B[k + 1]
    <3>1. PICK a, b, c, d, e : a = A[k - 1] /\ b = r[k] /\ c = r[k + 1] /\ d = s[k] /\ e = s[k + 1]
      OBVIOUS
    <3>2. a \in Int /\ b \in Int /\ c \in Int /\ d \in Int /\ e \in Int /\ b + c = d + e
      BY <2>2, <2>4, <3>1
    <3>3. (a + b) + c = (a + d) + e
      BY <3>2
    <3>4. A[k + 1] = (a + b) + c
      BY <2>2, <3>1
    <3>5. B[k + 1] = (a + d) + e
      BY <2>3, <3>1
    <3> QED BY <3>3, <3>4, <3>5
  <2>6. k + 1 + 0 = k + 1
    OBVIOUS
  <2>7. A[k + 1 + 0] = B[k + 1 + 0]
    BY <2>5, <2>6
  <2> QED BY <2>7
<1>5. ASSUME NEW i \in T PROVE i + 1 \in T
  <2>1. i \in Nat /\ i + 1 \in Nat /\ (i <= n - (k + 1) => A[k + 1 + i] = B[k + 1 + i])
    OBVIOUS
  <2> SUFFICES ASSUME i + 1 <= n - (k + 1) PROVE A[k + 1 + (i + 1)] = B[k + 1 + (i + 1)]
    BY <2>1
  <2> PICK j : j = k + 1 + (i + 1)
    OBVIOUS
  <2>2. j \in 1..n /\ j - 1 = k + 1 + i /\ j # k /\ j # k + 1 /\ i <= n - (k + 1)
    BY <2>1
  <2>3. A[j] = A[j - 1] + r[j] /\ B[j] = B[j - 1] + s[j] /\ r[j] = s[j]
    BY <1>1, <1>2, <2>2
  <2> QED BY <2>1, <2>2, <2>3
<1>6. T = Nat
  <2>1. T \in SUBSET Nat
    OBVIOUS
  <2> HIDE DEF T
  <2> QED BY <1>4, <1>5, <2>1, Induction
<1>7. ASSUME NEW i \in 0..n, i # k PROVE A[i] = B[i]
  <2>1. CASE i < k
    <3>1. i \in 0..(k - 1)
      BY <2>1
    <3> QED BY <1>3, <3>1
  <2>2. CASE ~(i < k)
    <3>1. i - (k + 1) \in Nat /\ i - (k + 1) <= n - (k + 1) /\ k + 1 + (i - (k + 1)) = i
      BY <1>7, <2>2
    <3>2. i - (k + 1) \in T
      <4> HIDE DEF T
      <4> QED BY <1>6, <3>1
    <3> QED BY <3>1, <3>2
  <2> QED BY <2>1, <2>2
<1> QED BY <1>7 DEF A, B

\* Moving the handle leaves the pair as wide as it was, and each of the two at
\* least minimal, if there is room for that.
PairMoved(moved, sizes, n, k, least) ==
  /\ moved \in [1..n -> Nat \ {0}] /\ Len(moved) = n
  /\ moved[k] >= least /\ moved[k + 1] >= least
  /\ moved[k] + moved[k + 1] = sizes[k] + sizes[k + 1]
  /\ \A i \in 1..n : i # k /\ i # k + 1 => moved[i] = sizes[i]

\* So it is with MovedSizes.
LEMMA MovedPair ==
  ASSUME NEW n \in Nat, NEW sizes \in [1..n -> Nat \ {0}], NEW k \in 1..(n - 1),
         NEW delta \in Int, NEW least \in Nat \ {0}, sizes[k] + sizes[k + 1] >= 2 * least
  PROVE  PairMoved(MovedSizes(sizes, k, delta, least), sizes, n, k, least)
<1> DEFINE pair == sizes[k] + sizes[k + 1]
           left == Clamp(sizes[k] + delta, least, AtLeast(pair - least, least))
           moved == MovedSizes(sizes, k, delta, least)
<1>1. k \in 1..n /\ k + 1 \in 1..n /\ k # k + 1
  OBVIOUS
<1>2. sizes[k] \in Nat \ {0} /\ sizes[k + 1] \in Nat \ {0}
  BY <1>1
<1>3. AtLeast(pair - least, least) = pair - least
  BY <1>2 DEF AtLeast
<1>4. left \in Nat \ {0} /\ left >= least /\ left <= pair - least
  <2>1. pair \in Nat /\ pair >= 2 * least /\ sizes[k] + delta \in Int
    BY <1>2
  <2>2. left = Clamp(sizes[k] + delta, least, pair - least)
    BY <1>3
  <2> HIDE DEF pair, left
  <2>3. PICK x, hi : x = sizes[k] + delta /\ hi = pair - least
    OBVIOUS
  <2>4. x \in Int /\ hi \in Int /\ hi >= least
    BY <2>1, <2>3
  <2>5. Clamp(x, least, hi) \in Int /\ Clamp(x, least, hi) >= least /\ Clamp(x, least, hi) <= hi
    BY <2>4 DEF Clamp
  <2>6. left = Clamp(x, least, hi)
    BY <2>2, <2>3
  <2>7. left \in Int /\ left >= least /\ left <= hi
    BY <2>5, <2>6
  <2> QED BY <2>3, <2>7
<1>5. moved = [sizes EXCEPT ![k] = left, ![k + 1] = pair - left]
  BY DEF MovedSizes
<1>6. pair \in Nat /\ pair - left \in Nat \ {0} /\ pair - left >= least
  <2>1. pair \in Nat
    BY <1>2
  <2> HIDE DEF pair, left
  <2> QED BY <1>4, <2>1
<1> HIDE DEF pair, left, moved
<1>7. moved \in [1..n -> Nat \ {0}]
  BY <1>4, <1>5, <1>6
<1>8. moved[k] = left /\ moved[k + 1] = pair - left
  BY <1>1, <1>5
<1>9. \A i \in 1..n : i # k /\ i # k + 1 => moved[i] = sizes[i]
  BY <1>5
<1>10. Len(moved) = n
  BY <1>7, SeqIs
<1>11. left + (pair - left) = pair
  BY <1>4, <1>6
<1> QED BY <1>4, <1>6, <1>7, <1>8, <1>9, <1>10, <1>11 DEF pair, moved, PairMoved

\* Dragging a handle moves the border it was taken from and nothing else: the
\* new weights give back the very cells the drag has decided, and so every child
\* but the two beside the handle keeps its rectangle, and every gap but theirs,
\* unless a child has no cell at all or the pair no room for two (apply_drag).
THEOREM DragKeepsOthers ==
  ASSUME NEW T, NEW kids \in Seq(T), NEW weights \in Seq(Nat), NEW dir \in {"H", "V"},
         NEW t, t = [kind |-> "split", dir |-> dir, kids |-> kids, weights |-> weights],
         NEW area \in Rect, NEW k \in 1..(Len(kids) - 1), NEW delta \in Int, NEW least \in Nat \ {0},
         NEW sizes, sizes = SplitSizes(Total(area, dir), weights, Len(kids)),
         \A i \in 1..Len(kids) : sizes[i] > 0, sizes[k] + sizes[k + 1] >= 2 * least
  PROVE  LET u == DraggedBy(t, Total(area, dir), k, delta, least)
             n == Len(kids)
         IN /\ u.kids = kids /\ u.dir = dir /\ WellFormed(u, T)
            /\ SplitSizes(Total(area, dir), u.weights, n) = MovedSizes(sizes, k, delta, least)
            /\ \A i \in 1..n : i # k /\ i # k + 1 => Part(u, area, i, FALSE) = Part(t, area, i, FALSE)
            /\ \A i \in 1..(n - 1) : i # k => Part(u, area, i, TRUE) = Part(t, area, i, TRUE)
<1> DEFINE u == DraggedBy(t, Total(area, dir), k, delta, least)
           n == Len(kids)
           total == Total(area, dir)
           moved == MovedSizes(sizes, k, delta, least)
           gap == GapSize(total, n)
<1>0. t.kids = kids /\ t.weights = weights /\ t.dir = dir /\ t.kind = "split"
  OBVIOUS
<1>1. n \in Nat \ {0} /\ total \in Nat
  BY DEF Total, Rect
<1>2. sizes \in [1..n -> Nat] /\ Len(sizes) = n /\ SumOf(sizes) + gap * (n - 1) = total
  BY <1>1, SizesAddUp
<1>3. sizes \in [1..n -> Nat \ {0}]
  <2> SUFFICES ASSUME NEW i \in 1..n PROVE sizes[i] \in Nat \ {0}
    BY <1>2
  <2>1. sizes[i] \in Nat
    BY <1>2
  <2>2. sizes[i] > 0
    OBVIOUS
  <2> QED BY <2>1, <2>2
<1>4. /\ moved \in [1..n -> Nat \ {0}] /\ Len(moved) = n
      /\ moved[k] + moved[k + 1] = sizes[k] + sizes[k + 1]
      /\ \A i \in 1..n : i # k /\ i # k + 1 => moved[i] = sizes[i]
  <2>1. n \in Nat /\ k \in 1..(n - 1)
    BY <1>1
  <2> HIDE DEF n, moved
  <2>2. PairMoved(moved, sizes, n, k, least)
    BY <1>3, <2>1, MovedPair DEF moved
  <2> QED BY <2>2 DEF PairMoved
<1>5. u = [t EXCEPT !.weights = [i \in 1..n |-> AtLeast(moved[i], 1)]]
  BY <1>0 DEF DraggedBy
<1> HIDE DEF u, total, moved, gap
<1>6. [i \in 1..n |-> AtLeast(moved[i], 1)] = moved
  <2>0. \A i \in 1..n : moved[i] \in Nat \ {0}
    BY <1>4
  <2>1. \A i \in 1..n : AtLeast(moved[i], 1) = moved[i]
    BY <2>0 DEF AtLeast
  <2> QED BY <1>4, <2>1
<1>7. u.kids = kids /\ u.dir = dir /\ u.kind = "split" /\ u.weights = moved
  BY <1>5, <1>6
<1> HIDE DEF n
<1>8. \A i \in 0..n : i # k => Sums(moved)[i] = Sums(sizes)[i]
  <2>1. moved \in [1..n -> Nat] /\ k \in 1..(n - 1) /\ n \in Nat
    BY <1>1, <1>4 DEF n
  <2> QED BY <1>2, <1>4, <2>1, SumsOfMoved
<1>9. SumOf(moved) = Content(total, n)
  <2>1. n \in 0..n /\ n # k
    BY <1>1 DEF n
  <2>2. SumOf(moved) = SumOf(sizes)
    BY <1>2, <1>4, <1>8, <2>1 DEF SumOf
  <2>3. SumOf(sizes) \in Int
    <3>1. Sums(sizes) \in [0..n -> Nat]
      BY <1>1, <1>2, SumsGrow
    <3> QED BY <1>2, <2>1, <3>1 DEF SumOf
  <2>4. Content(total, n) + gap * (n - 1) = total /\ gap \in {0, 1} /\ Content(total, n) \in Nat
    BY <1>1, ContentLeft DEF gap
  <2> DEFINE g == gap * (n - 1)
  <2>5. g \in Int
    BY <1>1, <2>4
  <2>6. SumOf(sizes) + g = total /\ Content(total, n) + g = total
    BY <1>2, <2>4
  <2> HIDE DEF g
  <2> QED BY <2>2, <2>3, <2>4, <2>5, <2>6
<1>10. SplitSizes(total, moved, n) = moved
  BY <1>1, <1>4, <1>9, SizesAsWeights
<1>11. \A i \in 1..n : i # k + 1 => Begin(moved, gap, i) = Begin(sizes, gap, i)
  <2> SUFFICES ASSUME NEW i \in 1..n, i # k + 1 PROVE Begin(moved, gap, i) = Begin(sizes, gap, i)
    OBVIOUS
  <2>1. i - 1 \in 0..n /\ i - 1 # k
    BY <1>1 DEF n
  <2>2. Sums(moved)[i - 1] = Sums(sizes)[i - 1]
    BY <1>8, <2>1
  <2> QED BY <2>2 DEF Begin
<1>12. \A i \in 1..n :
         /\ Part(t, area, i, FALSE) =
              IF dir = "H" THEN Area(area.x + Begin(sizes, gap, i), area.y, sizes[i], area.h)
              ELSE Area(area.x, area.y + Begin(sizes, gap, i), area.w, sizes[i])
         /\ Part(t, area, i, TRUE) =
              IF dir = "H" THEN Area(area.x + (Begin(sizes, gap, i) + sizes[i]), area.y, gap, area.h)
              ELSE Area(area.x, area.y + (Begin(sizes, gap, i) + sizes[i]), area.w, gap)
  BY <1>0 DEF Part, n, total, gap
<1>13. \A i \in 1..n :
         /\ Part(u, area, i, FALSE) =
              IF dir = "H" THEN Area(area.x + Begin(moved, gap, i), area.y, moved[i], area.h)
              ELSE Area(area.x, area.y + Begin(moved, gap, i), area.w, moved[i])
         /\ Part(u, area, i, TRUE) =
              IF dir = "H" THEN Area(area.x + (Begin(moved, gap, i) + moved[i]), area.y, gap, area.h)
              ELSE Area(area.x, area.y + (Begin(moved, gap, i) + moved[i]), area.w, gap)
  BY <1>7, <1>10 DEF Part, n, total, gap
<1>14. ASSUME NEW i \in 1..n, i # k, i # k + 1 PROVE Part(u, area, i, FALSE) = Part(t, area, i, FALSE)
  <2>1. moved[i] = sizes[i] /\ Begin(moved, gap, i) = Begin(sizes, gap, i)
    BY <1>4, <1>11, <1>14
  <2> QED BY <1>12, <1>13, <2>1
<1>15. ASSUME NEW i \in 1..(n - 1), i # k PROVE Part(u, area, i, TRUE) = Part(t, area, i, TRUE)
  <2>1. i \in 1..n /\ Begin(moved, gap, i) + moved[i] = Begin(sizes, gap, i) + sizes[i]
    <3>1. i \in 1..n /\ i \in 0..n /\ \A s : Begin(s, gap, i) = Sums(s)[i - 1] + (i - 1) * gap
      BY <1>1 DEF Begin
    <3>2. /\ Sums(moved)[i] = Sums(moved)[i - 1] + moved[i] /\ Sums(moved)[i - 1] \in Int
          /\ Sums(sizes)[i] = Sums(sizes)[i - 1] + sizes[i] /\ Sums(sizes)[i - 1] \in Int
          /\ Sums(moved)[i] = Sums(sizes)[i] /\ moved[i] \in Int /\ sizes[i] \in Int
      <4>1. moved \in [1..n -> Int] /\ sizes \in [1..n -> Int] /\ n \in Nat /\ i - 1 \in 0..n
        <5>1. \A S : S \in [1..n -> Nat \ {0}] => S \in [1..n -> Int]
          OBVIOUS
        <5>2. n \in Nat /\ i - 1 \in 0..n
          BY <1>1, <3>1
        <5> QED BY <1>3, <1>4, <5>1, <5>2
      <4>2. /\ Sums(moved) \in [0..n -> Int] /\ Sums(moved)[i] = Sums(moved)[i - 1] + moved[i]
            /\ Sums(sizes) \in [0..n -> Int] /\ Sums(sizes)[i] = Sums(sizes)[i - 1] + sizes[i]
        BY <1>2, <1>4, <3>1, <4>1, SumsAdd
      <4> QED BY <1>8, <1>15, <3>1, <4>1, <4>2
    <3>3. (i - 1) * gap \in Int
      <4>1. gap \in {0, 1}
        BY <1>1, ContentLeft DEF gap
      <4> QED BY <4>1
    <3> DEFINE g == (i - 1) * gap
    <3>4. Begin(moved, gap, i) = Sums(moved)[i - 1] + g /\ Begin(sizes, gap, i) = Sums(sizes)[i - 1] + g
      BY <3>1
    <3> HIDE DEF g
    <3>5. PICK a, b, c : a = Sums(moved)[i - 1] /\ b = moved[i] /\ c = g
      OBVIOUS
    <3>6. PICK d, e : d = Sums(sizes)[i - 1] /\ e = sizes[i]
      OBVIOUS
    <3>7. a \in Int /\ b \in Int /\ c \in Int /\ d \in Int /\ e \in Int /\ a + b = d + e
      BY <3>2, <3>3, <3>5, <3>6 DEF g
    <3>8. (a + c) + b = (d + c) + e
      BY <3>7
    <3>9. Begin(moved, gap, i) + moved[i] = (a + c) + b /\ Begin(sizes, gap, i) + sizes[i] = (d + c) + e
      BY <3>4, <3>5, <3>6
    <3> QED BY <3>1, <3>8, <3>9
  <2>2. i \in 1..n
    BY <2>1
  <2> QED BY <1>12, <1>13, <2>1, <2>2
<1>16. WellFormed(u, T)
  <2>1. moved \in Seq(Nat)
    <3>1. moved \in [1..n -> Nat] /\ n \in Nat
      BY <1>1, <1>4
    <3> QED BY <3>1, SeqIs
  <2> QED BY <1>1, <1>7, <2>1 DEF WellFormed
<1> QED BY <1>7, <1>10, <1>14, <1>15, <1>16 DEF u, n, total, moved
=============================================================================
