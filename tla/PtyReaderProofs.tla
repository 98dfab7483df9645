-------------------------- MODULE PtyReaderProofs --------------------------
(* What PtyReader promises, for every bound, budget and set of sizes.      *)
EXTENDS PtyReader, TLAPS, SequenceTheorems

(***************************************************************************)
(* One invariant carries the rest: besides the types it says that a chunk  *)
(* to be appended exists, that the time a resize has waited is covered by  *)
(* the progress of the drain, that the latch counts the exits told, and    *)
(* that a dirty screen has its permit.                                     *)
(***************************************************************************)
Owed == IF rpc \in {"append", "parse", "signal", "check", "wait"} THEN 1 ELSE 0

Flags ==
  /\ closed \in BOOLEAN /\ dead \in BOOLEAN /\ dirty \in BOOLEAN /\ wake \in BOOLEAN
  /\ latch \in BOOLEAN /\ exited \in BOOLEAN /\ permit \in BOOLEAN
  /\ shutdown \in BOOLEAN

Counts ==
  /\ written \in 0..MaxChunks /\ taken \in 0..written /\ written - taken <= PipeCap
  /\ rpc \in ReaderStates
  /\ unrendered \in Nat /\ drained \in 0..(DrainBound - 1) /\ overdue \in Nat
  /\ pending \in Seq(1..MaxChunks) /\ Len(pending) <= PendingCap
  /\ delivered \in Seq(1..MaxChunks)
  /\ request \in Sizes \cup {NoSize}
  /\ callback \in {"unset", "set", "fired"}
  /\ opc \in {"idle", "notify", "join", "take", "gone"}
  /\ op \in {"screen", "read", "final"}
  /\ rpc = "append" => taken > 0

Waits ==
  /\ rpc \in {"top", "poll"} => overdue = 0
  /\ overdue <= drained + Owed

Signals ==
  /\ callback = "unset" => ~latch
  /\ latch => told = 1
  /\ ~latch => told = 0
  /\ dirty /\ callback = "set" => permit

ReaderInv == Flags /\ Counts /\ Waits /\ Signals

\* The pending bytes stay within their cap whatever the reader appends.
LEMMA AppendCapped ==
  ASSUME ReaderAssumption, NEW q \in Seq(1..MaxChunks), NEW k \in 1..MaxChunks,
         Len(q) <= PendingCap
  PROVE  LET r == IF Len(q) + 1 > PendingCap THEN <<>> ELSE Append(q, k) IN
         r \in Seq(1..MaxChunks) /\ Len(r) <= PendingCap
<1>1. CASE Len(q) + 1 > PendingCap
  <2>1. <<>> \in Seq(1..MaxChunks) /\ Len(<<>>) = 0
    OBVIOUS
  <2> QED BY <1>1, <2>1 DEF ReaderAssumption
<1>2. CASE ~(Len(q) + 1 > PendingCap)
  <2>1. Append(q, k) \in Seq(1..MaxChunks) /\ Len(Append(q, k)) = Len(q) + 1
    OBVIOUS
  <2>2. Len(q) \in Nat
    OBVIOUS
  <2> QED BY <1>2, <2>1, <2>2 DEF ReaderAssumption
<1> QED BY <1>1, <1>2

\* The invariant holds at the start.
LEMMA ReaderInit == ASSUME ReaderAssumption PROVE Init => ReaderInv
<1> SUFFICES ASSUME Init PROVE ReaderInv
  OBVIOUS
<1>1. <<>> \in Seq(1..MaxChunks) /\ Len(<<>>) = 0
  OBVIOUS
<1>2. Flags
  BY DEF Init, Flags
<1>3. Counts
  BY <1>1 DEF Init, Counts, ReaderStates, ReaderAssumption
<1>4. Waits
  BY DEF Init, Waits, Owed, ReaderAssumption
<1>5. Signals
  BY DEF Init, Signals
<1> QED BY <1>2, <1>3, <1>4, <1>5 DEF ReaderInv

\* What the processes behind the PTY do keeps it.
LEMMA ChildKeeps ==
  ASSUME ReaderAssumption, Flags, Counts, Waits, Signals, Child
  PROVE  Flags' /\ Counts' /\ Waits' /\ Signals'
<1> USE DEF childVars, threadVars, sizeVars, exitVars, ownerVars
<1>1. CASE Write
  <2>a. Flags'
    BY <1>1 DEF Write, Flags
  <2>b. Counts'
    BY <1>1 DEF Write, Counts, ReaderStates, ReaderAssumption
  <2>c. Waits'
    BY <1>1 DEF Write, Waits, Owed, Counts, ReaderStates, ReaderAssumption
  <2>d. Signals'
    BY <1>1 DEF Write, Signals, Flags, Counts
  <2> QED BY <2>a, <2>b, <2>c, <2>d
<1>2. CASE Die
  <2>a. Flags'
    BY <1>2 DEF Die, Flags
  <2>b. Counts'
    BY <1>2 DEF Die, Counts, ReaderStates, ReaderAssumption
  <2>c. Waits'
    BY <1>2 DEF Die, Waits, Owed, Counts, ReaderStates, ReaderAssumption
  <2>d. Signals'
    BY <1>2 DEF Die, Signals, Flags, Counts
  <2> QED BY <2>a, <2>b, <2>c, <2>d
<1>3. CASE Close
  <2>a. Flags'
    BY <1>3 DEF Close, Flags
  <2>b. Counts'
    BY <1>3 DEF Close, Counts, ReaderStates, ReaderAssumption
  <2>c. Waits'
    BY <1>3 DEF Close, Waits, Owed, Counts, ReaderStates, ReaderAssumption
  <2>d. Signals'
    BY <1>3 DEF Close, Signals, Flags, Counts
  <2> QED BY <2>a, <2>b, <2>c, <2>d
<1> QED BY <1>1, <1>2, <1>3 DEF Child

\* What the reader thread does keeps it.
LEMMA ReaderKeeps ==
  ASSUME ReaderAssumption, Flags, Counts, Waits, Signals, Reader
  PROVE  Flags' /\ Counts' /\ Waits' /\ Signals'
<1> USE DEF childVars, threadVars, sizeVars, exitVars, ownerVars
<1>1. CASE ReaderTop
  <2>a. Flags'
    BY <1>1 DEF ReaderTop, Flags
  <2>b. Counts'
    BY <1>1 DEF ReaderTop, Counts, ReaderStates, ReaderAssumption
  <2>c. Waits'
    BY <1>1 DEF ReaderTop, Waits, Owed, Counts, ReaderStates, ReaderAssumption
  <2>d. Signals'
    BY <1>1 DEF ReaderTop, Signals, Flags, Counts
  <2> QED BY <2>a, <2>b, <2>c, <2>d
<1>2. CASE ReaderPoll
  <2>a. Flags'
    BY <1>2 DEF ReaderPoll, Flags
  <2>b. Counts'
    BY <1>2 DEF ReaderPoll, Counts, ReaderStates, ReaderAssumption
  <2>c. Waits'
    BY <1>2 DEF ReaderPoll, Waits, Owed, Counts, ReaderStates, ReaderAssumption
  <2>d. Signals'
    BY <1>2 DEF ReaderPoll, Signals, Flags, Counts
  <2> QED BY <2>a, <2>b, <2>c, <2>d
<1>3. CASE ReaderRead
  <2>a. Flags'
    BY <1>3 DEF ReaderRead, Flags
  <2>b. Counts'
    BY <1>3 DEF ReaderRead, Counts, ReaderStates, ReaderAssumption
  <2>c. Waits'
    BY <1>3 DEF ReaderRead, Waits, Owed, Counts, ReaderStates, ReaderAssumption
  <2>d. Signals'
    BY <1>3 DEF ReaderRead, Signals, Flags, Counts
  <2> QED BY <2>a, <2>b, <2>c, <2>d
<1>4. CASE ReaderDrained
  <2>a. Flags'
    BY <1>4 DEF ReaderDrained, Boundary, Flags
  <2>b. Counts'
    BY <1>4 DEF ReaderDrained, Boundary, Counts, ReaderStates, ReaderAssumption
  <2>c. Waits'
    BY <1>4 DEF ReaderDrained, Boundary, Waits, Owed, Counts, ReaderStates, ReaderAssumption
  <2>d. Signals'
    BY <1>4 DEF ReaderDrained, Boundary, Signals, Flags, Counts
  <2> QED BY <2>a, <2>b, <2>c, <2>d
<1>5. CASE ReaderEof
  <2>a. Flags'
    BY <1>5 DEF ReaderEof, TellExit, Flags
  <2>b. Counts'
    BY <1>5 DEF ReaderEof, TellExit, Counts, ReaderStates, ReaderAssumption
  <2>c. Waits'
    BY <1>5 DEF ReaderEof, TellExit, Waits, Owed, Counts, ReaderStates, ReaderAssumption
  <2>d. Signals'
    BY <1>5 DEF ReaderEof, TellExit, Signals, Flags, Counts
  <2> QED BY <2>a, <2>b, <2>c, <2>d
<1>6. CASE ReaderAppend
  <2>1. taken \in 1..MaxChunks
    BY <1>6 DEF ReaderAppend, Counts, ReaderAssumption
  <2>2. pending' \in Seq(1..MaxChunks) /\ Len(pending') <= PendingCap
    BY <1>6, <2>1, AppendCapped DEF ReaderAppend, Counts
  <2>a. Flags'
    BY <1>6 DEF ReaderAppend, Flags
  <2>b. Counts'
    BY <1>6, <2>2 DEF ReaderAppend, Counts, ReaderStates, ReaderAssumption
  <2>c. Waits'
    BY <1>6 DEF ReaderAppend, Waits, Owed, Counts, ReaderStates, ReaderAssumption
  <2>d. Signals'
    BY <1>6 DEF ReaderAppend, Signals, Flags, Counts
  <2> QED BY <2>a, <2>b, <2>c, <2>d
<1>7. CASE ReaderParse
  <2>a. Flags'
    BY <1>7 DEF ReaderParse, Flags
  <2>b. Counts'
    BY <1>7 DEF ReaderParse, Counts, ReaderStates, ReaderAssumption
  <2>c. Waits'
    BY <1>7 DEF ReaderParse, Waits, Owed, Counts, ReaderStates, ReaderAssumption
  <2>d. Signals'
    BY <1>7 DEF ReaderParse, Signals, Flags, Counts
  <2> QED BY <2>a, <2>b, <2>c, <2>d
<1>8. CASE ReaderSignal
  <2>a. Flags'
    BY <1>8 DEF ReaderSignal, Flags
  <2>b. Counts'
    BY <1>8 DEF ReaderSignal, Counts, ReaderStates, ReaderAssumption
  <2>c. Waits'
    BY <1>8 DEF ReaderSignal, Waits, Owed, Counts, ReaderStates, ReaderAssumption
  <2>d. Signals'
    BY <1>8 DEF ReaderSignal, Signals, Flags, Counts
  <2> QED BY <2>a, <2>b, <2>c, <2>d
<1>9. CASE ReaderPark
  <2>a. Flags'
    BY <1>9 DEF ReaderPark, Flags
  <2>b. Counts'
    BY <1>9 DEF ReaderPark, Counts, ReaderStates, ReaderAssumption
  <2>c. Waits'
    BY <1>9 DEF ReaderPark, Waits, Owed, Counts, ReaderStates, ReaderAssumption
  <2>d. Signals'
    BY <1>9 DEF ReaderPark, Signals, Flags, Counts
  <2> QED BY <2>a, <2>b, <2>c, <2>d
<1>10. CASE ReaderGoOn
  <2>a. Flags'
    BY <1>10 DEF ReaderGoOn, Boundary, Flags
  <2>b. Counts'
    BY <1>10 DEF ReaderGoOn, Boundary, Counts, ReaderStates, ReaderAssumption
  <2>c. Waits'
    BY <1>10 DEF ReaderGoOn, Boundary, Waits, Owed, Counts, ReaderStates, ReaderAssumption
  <2>d. Signals'
    BY <1>10 DEF ReaderGoOn, Boundary, Signals, Flags, Counts
  <2> QED BY <2>a, <2>b, <2>c, <2>d
<1> QED BY <1>1, <1>2, <1>3, <1>4, <1>5, <1>6, <1>7, <1>8, <1>9, <1>10 DEF Reader

\* What the owner does keeps it.
LEMMA OwnerKeeps ==
  ASSUME ReaderAssumption, Flags, Counts, Waits, Signals, Owner
  PROVE  Flags' /\ Counts' /\ Waits' /\ Signals'
<1> USE DEF childVars, threadVars, sizeVars, exitVars, ownerVars
<1>1. ASSUME NEW o \in Ops, OwnerScreen(o)
      PROVE  Flags' /\ Counts' /\ Waits' /\ Signals'
  <2>a. Flags'
    BY <1>1 DEF OwnerScreen, AfterScreen, Flags
  <2>b. Counts'
    BY <1>1 DEF OwnerScreen, AfterScreen, Counts, ReaderStates, ReaderAssumption
  <2>c. Waits'
    BY <1>1 DEF OwnerScreen, AfterScreen, Waits, Owed, Counts, ReaderStates, ReaderAssumption
  <2>d. Signals'
    BY <1>1 DEF OwnerScreen, AfterScreen, Signals, Flags, Counts
  <2> QED BY <2>a, <2>b, <2>c, <2>d
<1>2. CASE OwnerNotify
  <2>a. Flags'
    BY <1>2 DEF OwnerNotify, AfterScreen, Flags
  <2>b. Counts'
    BY <1>2 DEF OwnerNotify, AfterScreen, Counts, ReaderStates, ReaderAssumption
  <2>c. Waits'
    BY <1>2 DEF OwnerNotify, AfterScreen, Waits, Owed, Counts, ReaderStates, ReaderAssumption
  <2>d. Signals'
    BY <1>2 DEF OwnerNotify, AfterScreen, Signals, Flags, Counts
  <2> QED BY <2>a, <2>b, <2>c, <2>d
<1>3. CASE OwnerWaited
  <2>a. Flags'
    BY <1>3 DEF OwnerWaited, Flags
  <2>b. Counts'
    BY <1>3 DEF OwnerWaited, Counts, ReaderStates, ReaderAssumption
  <2>c. Waits'
    BY <1>3 DEF OwnerWaited, Waits, Owed, Counts, ReaderStates, ReaderAssumption
  <2>d. Signals'
    BY <1>3 DEF OwnerWaited, Signals, Flags, Counts
  <2> QED BY <2>a, <2>b, <2>c, <2>d
<1>4. CASE OwnerTake
  <2>1. /\ delivered' \in Seq(1..MaxChunks)
        /\ pending' \in Seq(1..MaxChunks) /\ Len(pending') = 0
    BY <1>4 DEF OwnerTake, Counts
  <2>a. Flags'
    BY <1>4 DEF OwnerTake, Flags
  <2>b. Counts'
    BY <1>4, <2>1 DEF OwnerTake, Counts, ReaderStates, ReaderAssumption
  <2>c. Waits'
    BY <1>4 DEF OwnerTake, Waits, Owed, Counts, ReaderStates, ReaderAssumption
  <2>d. Signals'
    BY <1>4 DEF OwnerTake, Signals, Flags, Counts
  <2> QED BY <2>a, <2>b, <2>c, <2>d
<1>5. CASE OwnerSeesExit
  <2>a. Flags'
    BY <1>5 DEF OwnerSeesExit, TellExit, Flags
  <2>b. Counts'
    BY <1>5 DEF OwnerSeesExit, TellExit, Counts, ReaderStates, ReaderAssumption
  <2>c. Waits'
    BY <1>5 DEF OwnerSeesExit, TellExit, Waits, Owed, Counts, ReaderStates, ReaderAssumption
  <2>d. Signals'
    BY <1>5 DEF OwnerSeesExit, TellExit, Signals, Flags, Counts
  <2> QED BY <2>a, <2>b, <2>c, <2>d
<1>6. CASE OwnerRegister
  <2>a. Flags'
    BY <1>6 DEF OwnerRegister, Flags
  <2>b. Counts'
    BY <1>6 DEF OwnerRegister, Counts, ReaderStates, ReaderAssumption
  <2>c. Waits'
    BY <1>6 DEF OwnerRegister, Waits, Owed, Counts, ReaderStates, ReaderAssumption
  <2>d. Signals'
    BY <1>6 DEF OwnerRegister, Signals, Flags, Counts
  <2> QED BY <2>a, <2>b, <2>c, <2>d
<1>7. ASSUME NEW s \in Sizes, OwnerResize(s)
      PROVE  Flags' /\ Counts' /\ Waits' /\ Signals'
  <2>a. Flags'
    BY <1>7 DEF OwnerResize, Flags
  <2>b. Counts'
    BY <1>7 DEF OwnerResize, Counts, ReaderStates, ReaderAssumption
  <2>c. Waits'
    BY <1>7 DEF OwnerResize, Waits, Owed, Counts, ReaderStates, ReaderAssumption
  <2>d. Signals'
    BY <1>7 DEF OwnerResize, Signals, Flags, Counts
  <2> QED BY <2>a, <2>b, <2>c, <2>d
<1>8. CASE OwnerLetsGo
  <2>a. Flags'
    BY <1>8 DEF OwnerLetsGo, Flags
  <2>b. Counts'
    BY <1>8 DEF OwnerLetsGo, Counts, ReaderStates, ReaderAssumption
  <2>c. Waits'
    BY <1>8 DEF OwnerLetsGo, Waits, Owed, Counts, ReaderStates, ReaderAssumption
  <2>d. Signals'
    BY <1>8 DEF OwnerLetsGo, Signals, Flags, Counts
  <2> QED BY <2>a, <2>b, <2>c, <2>d
<1> QED BY <1>1, <1>2, <1>3, <1>4, <1>5, <1>6, <1>7, <1>8 DEF Owner, OwnerRenders, OwnerGoesOn

\* The invariant is inductive.
THEOREM ReaderInvariant == ASSUME ReaderAssumption PROVE Spec => []ReaderInv
<1>1. Init => ReaderInv
  BY ReaderInit
<1>2. ReaderInv /\ [Next]_vars => ReaderInv'
  <2> SUFFICES ASSUME ReaderInv, [Next]_vars PROVE ReaderInv'
    OBVIOUS
  <2>1. CASE Next
    BY <2>1, ChildKeeps, ReaderKeeps, OwnerKeeps DEF Next, ReaderInv
  <2>2. CASE UNCHANGED vars
    BY <2>2 DEF vars, childVars, threadVars, sizeVars, exitVars, ownerVars,
                ReaderInv, Flags, Counts, Waits, Signals, Owed
  <2> QED BY <2>1, <2>2
<1> QED BY <1>1, <1>2, PTL DEF Spec

\* Type correctness of the reader, the owner and what they share.
THEOREM ReaderTyped == ASSUME ReaderAssumption PROVE Spec => []ReaderTypeOK
<1>1. ASSUME ReaderInv PROVE ReaderTypeOK
  <2>1. told \in Nat
    BY <1>1 DEF ReaderInv, Flags, Signals
  <2> QED BY <1>1, <2>1 DEF ReaderInv, Flags, Counts, ReaderTypeOK
<1> QED BY <1>1, ReaderInvariant, PTL

\* Of the reader, has_exited and the registration only one reports the exit.
THEOREM ExitToldOnce == ASSUME ReaderAssumption PROVE Spec => []ExitedOnce
<1>1. ReaderInv => ExitedOnce
  BY DEF ReaderInv, Flags, Signals, ExitedOnce
<1> QED BY <1>1, ReaderInvariant, PTL

\* An edge-triggered wakeup is enough: no dirty screen goes unnoticed.
THEOREM WakeupsArrive == ASSUME ReaderAssumption PROVE Spec => []NoLostWakeup
<1>1. ReaderInv => NoLostWakeup
  BY DEF ReaderInv, Signals, NoLostWakeup
<1> QED BY <1>1, ReaderInvariant, PTL

\* No stream, however long, holds a resize up beyond the drain bound.
THEOREM ResizesInTime == ASSUME ReaderAssumption PROVE Spec => []ResizeNotStarved
<1>1. ASSUME ReaderInv PROVE ResizeNotStarved
  BY <1>1 DEF ReaderInv, Counts, Waits, Owed, ReaderAssumption, ResizeNotStarved
<1> QED BY <1>1, ReaderInvariant, PTL

(***************************************************************************)
(* What the cap drops.  `pending` holds the last chunks appended, one      *)
(* after the other; before the first of them, and between any two that     *)
(* have been delivered, nothing is missing or a burst beyond the cap.      *)
(***************************************************************************)
Follows(a, b) == b = a + 1 \/ b > a + PendingCap + 1

LastDelivered == IF delivered = <<>> THEN 0 ELSE delivered[Len(delivered)]

LossInv ==
  /\ Len(pending) <= Appended
  /\ \A i \in 1..Len(pending) : pending[i] = Appended - Len(pending) + i
  /\ delivered # <<>> => Follows(0, delivered[1])
  /\ \A i \in 1..(Len(delivered) - 1) : Follows(delivered[i], delivered[i + 1])
  /\ Follows(LastDelivered, Appended - Len(pending) + 1)

\* The members of two sequences in a row.
LEMMA Joined ==
  ASSUME NEW S, NEW q \in Seq(S), NEW r \in Seq(S)
  PROVE  /\ q \o r \in Seq(S) /\ Len(q \o r) = Len(q) + Len(r)
         /\ \A i \in 1..Len(q) : (q \o r)[i] = q[i]
         /\ \A i \in 1..Len(r) : (q \o r)[Len(q) + i] = r[i]
BY ConcatProperties

LEMMA AppendedIsNat == ASSUME Counts PROVE Appended \in Nat
BY DEF Counts, Appended

LEMMA LastIsNat == ASSUME Counts PROVE LastDelivered \in Nat
<1>1. CASE delivered # <<>>
  <2>1. delivered \in Seq(1..MaxChunks)
    BY DEF Counts
  <2>2. Len(delivered) \in Nat \ {0}
    BY <1>1, <2>1, EmptySeq
  <2>3. Len(delivered) \in 1..Len(delivered)
    BY <2>2
  <2>4. delivered[Len(delivered)] \in 1..MaxChunks
    BY <2>1, <2>3, ElementOfSeq
  <2> QED BY <1>1, <2>4 DEF LastDelivered
<1> QED BY <1>1 DEF LastDelivered

\* Appending a chunk: it comes after those that are pending, or the cap is
\* reached and everything goes, this chunk included.
LEMMA AppendLosesBursts ==
  ASSUME ReaderAssumption, Counts, LossInv, ReaderAppend
  PROVE  LossInv'
<1>1. Appended \in Nat /\ taken = Appended + 1 /\ Appended' = Appended + 1
  BY DEF Counts, ReaderAppend, Appended, threadVars
<1>2. delivered' = delivered /\ LastDelivered' = LastDelivered /\ LastDelivered \in Nat
  BY LastIsNat DEF ReaderAppend, ownerVars, LastDelivered
<1>3. PendingCap \in Nat /\ pending \in Seq(1..MaxChunks) /\ Len(pending) \in Nat
  BY DEF Counts, ReaderAssumption
<1>4. CASE Len(pending) + 1 > PendingCap
  <2>1. pending' = <<>> /\ Len(pending) = PendingCap
    BY <1>3, <1>4 DEF ReaderAppend, Counts
  <2>2. Follows(LastDelivered, Appended' - Len(pending') + 1)
    BY <1>1, <1>2, <1>3, <2>1 DEF LossInv, Follows
  <2> QED BY <1>1, <1>2, <2>1, <2>2 DEF LossInv
<1>5. CASE ~(Len(pending) + 1 > PendingCap)
  <2>1. pending' = Append(pending, taken)
    BY <1>5 DEF ReaderAppend
  <2>2. /\ Len(pending') = Len(pending) + 1
        /\ \A i \in 1..Len(pending) : pending'[i] = pending[i]
        /\ pending'[Len(pending) + 1] = Appended + 1
    BY <1>1, <1>3, <2>1
  <2>3. \A i \in 1..Len(pending') : pending'[i] = Appended' - Len(pending') + i
    BY <1>1, <1>3, <2>2 DEF LossInv
  <2> QED BY <1>1, <1>2, <1>3, <2>2, <2>3 DEF LossInv
<1> QED BY <1>4, <1>5

\* Taking what is pending: it follows what has been taken before.
LEMMA TakeLosesNothing ==
  ASSUME ReaderAssumption, Counts, LossInv, OwnerTake
  PROVE  LossInv'
<1> DEFINE d == Len(delivered)
           p == Len(pending)
<1>1. Appended \in Nat /\ Appended' = Appended
  BY AppendedIsNat DEF OwnerTake, Appended, threadVars
<1>2. /\ PendingCap \in Nat /\ LastDelivered \in Nat
      /\ delivered \in Seq(1..MaxChunks) /\ pending \in Seq(1..MaxChunks)
      /\ d \in Nat /\ p \in Nat
  BY LastIsNat DEF Counts, ReaderAssumption
<1>3. /\ pending' = <<>> /\ Len(pending') = 0
      /\ Len(delivered') = d + p
      /\ \A i \in 1..d : delivered'[i] = delivered[i]
      /\ \A i \in 1..p : delivered'[d + i] = pending[i]
  <2>1. delivered' = delivered \o pending /\ pending' = <<>>
    BY DEF OwnerTake
  <2> QED BY <1>2, <2>1
<1>4. delivered \in [1..d -> 1..MaxChunks] /\ (delivered = <<>> <=> d = 0)
  BY <1>2
<1>5. CASE p = 0
  <2>1. delivered' = delivered
    BY <1>2, <1>5 DEF OwnerTake
  <2> QED BY <1>1, <1>2, <1>3, <1>5, <2>1 DEF LossInv, LastDelivered
<1>6. CASE p # 0
  <2>1. delivered' # <<>> /\ LastDelivered' = pending[p]
    BY <1>2, <1>3, <1>6 DEF LastDelivered
  <2>2. LastDelivered' = Appended
    BY <1>1, <1>2, <1>6, <2>1 DEF LossInv
  <2>3. Follows(LastDelivered', Appended' - Len(pending') + 1)
    BY <1>1, <1>3, <2>2 DEF Follows
  <2>4. Follows(0, delivered'[1])
    <3>1. CASE d = 0
      <4>1. delivered'[1] = Appended - p + 1 /\ LastDelivered = 0
        BY <1>2, <1>3, <1>4, <1>6, <3>1 DEF LossInv, LastDelivered
      <4> QED BY <4>1 DEF LossInv
    <3>2. CASE d # 0
      BY <1>2, <1>3, <1>4, <3>2 DEF LossInv
    <3> QED BY <3>1, <3>2
  <2>5. ASSUME NEW i \in 1..(d + p - 1)
        PROVE  Follows(delivered'[i], delivered'[i + 1])
    <3>1. CASE i < d
      <4>1. i \in 1..(d - 1) /\ i \in 1..d /\ i + 1 \in 1..d
        BY <1>2, <3>1
      <4>2. Follows(delivered[i], delivered[i + 1])
        BY <4>1 DEF LossInv
      <4> QED BY <1>3, <4>1, <4>2
    <3>2. CASE i = d
      <4>1. delivered'[i] = LastDelivered
        BY <1>2, <1>3, <1>4, <3>2 DEF LastDelivered
      <4>2. delivered'[i + 1] = pending[1]
        BY <1>2, <1>3, <1>6, <3>2
      <4>3. pending[1] = Appended - p + 1
        BY <1>2, <1>6 DEF LossInv
      <4> QED BY <4>1, <4>2, <4>3 DEF LossInv
    <3>3. CASE i > d
      <4> DEFINE k == i - d
      <4>1. k \in 1..p /\ k + 1 \in 1..p /\ i = d + k /\ i + 1 = d + (k + 1)
        BY <1>2, <3>3
      <4> HIDE DEF k
      <4>2. delivered'[i] = Appended - p + k /\ delivered'[i + 1] = Appended - p + (k + 1)
        <5>1. delivered'[i] = pending[k] /\ delivered'[i + 1] = pending[k + 1]
          BY <1>3, <4>1
        <5>2. pending[k] = Appended - p + k /\ pending[k + 1] = Appended - p + (k + 1)
          BY <4>1 DEF LossInv
        <5> QED BY <5>1, <5>2
      <4>3. delivered'[i + 1] = delivered'[i] + 1
        BY <1>1, <1>2, <4>1, <4>2
      <4> QED BY <4>3 DEF Follows
    <3> QED BY <1>2, <3>1, <3>2, <3>3
  <2> QED BY <1>1, <1>3, <2>3, <2>4, <2>5 DEF LossInv
<1> QED BY <1>5, <1>6

\* Nobody else touches the two sequences, or counts a chunk.
LEMMA OthersLoseNothing ==
  ASSUME Counts, LossInv, Next, ~ReaderAppend, ~OwnerTake
  PROVE  LossInv'
<1> USE DEF threadVars, ownerVars
<1>1. pending' = pending /\ delivered' = delivered /\ Appended' = Appended
  <2>1. CASE Child
    BY <2>1 DEF Child, Write, Die, Close, Appended
  <2>2. CASE Reader
    <3>1. CASE ReaderRead
      BY <3>1 DEF ReaderRead, Appended, Counts
    <3>2. CASE ReaderTop \/ ReaderPoll \/ ReaderDrained \/ ReaderEof
      BY <3>2 DEF ReaderTop, ReaderPoll, ReaderDrained, Boundary, ReaderEof, Appended
    <3>3. CASE ReaderParse \/ ReaderSignal \/ ReaderPark \/ ReaderGoOn
      BY <3>3 DEF ReaderParse, ReaderSignal, ReaderPark, ReaderGoOn, Boundary, Appended
    <3> QED BY <2>2, <3>1, <3>2, <3>3 DEF Reader
  <2>3. CASE Owner
    <3>1. ASSUME NEW o \in Ops, OwnerScreen(o)
          PROVE  pending' = pending /\ delivered' = delivered /\ Appended' = Appended
      BY <3>1 DEF OwnerScreen, Appended
    <3>2. CASE OwnerNotify \/ OwnerWaited
      BY <3>2 DEF OwnerNotify, OwnerWaited, Appended
    <3>3. CASE OwnerSeesExit \/ OwnerRegister \/ OwnerLetsGo
      BY <3>3 DEF OwnerSeesExit, OwnerRegister, OwnerLetsGo, Appended
    <3>4. ASSUME NEW s \in Sizes, OwnerResize(s)
          PROVE  pending' = pending /\ delivered' = delivered /\ Appended' = Appended
      BY <3>4 DEF OwnerResize, Appended
    <3> QED BY <2>3, <3>1, <3>2, <3>3, <3>4 DEF Owner, OwnerRenders, OwnerGoesOn
  <2> QED BY <2>1, <2>2, <2>3 DEF Next
<1> QED BY <1>1 DEF LossInv, LastDelivered

\* The invariant is the property, put together.
LEMMA LossInvSuffices ==
  ASSUME ReaderAssumption, Counts, LossInv
  PROVE  LossIsWholeBurst
<1> DEFINE d == Len(delivered)
           p == Len(pending)
           got == <<0>> \o delivered
           held == got \o pending
           all == held \o <<Appended + 1>>
<1>1. /\ PendingCap \in Nat /\ Appended \in Nat
      /\ delivered \in Seq(Nat) /\ pending \in Seq(Nat) /\ <<0>> \in Seq(Nat)
      /\ d \in Nat /\ p \in Nat
  BY AppendedIsNat DEF Counts, ReaderAssumption
<1>2. /\ got \in Seq(Nat) /\ Len(got) = d + 1 /\ got[1] = 0
      /\ \A i \in 1..d : got[1 + i] = delivered[i]
  <2>1. Len(<<0>>) = 1 /\ <<0>>[1] = 0
    OBVIOUS
  <2> QED BY <1>1, <2>1, Joined
<1> HIDE DEF got
<1>3. /\ held \in Seq(Nat) /\ Len(held) = d + 1 + p
      /\ \A i \in 1..(d + 1) : held[i] = got[i]
      /\ \A i \in 1..p : held[d + 1 + i] = pending[i]
  <2>1. /\ held \in Seq(Nat) /\ Len(held) = Len(got) + p
        /\ \A i \in 1..Len(got) : held[i] = got[i]
        /\ \A i \in 1..p : held[Len(got) + i] = pending[i]
    <3>1. got \in Seq(Nat) /\ pending \in Seq(Nat)
      BY <1>1, <1>2
    <3> QED BY <3>1, Joined
  <2> QED BY <1>2, <2>1
<1> HIDE DEF held
<1>4. /\ Len(all) = d + 1 + p + 1
      /\ \A i \in 1..(d + 1 + p) : all[i] = held[i]
      /\ all[d + 1 + p + 1] = Appended + 1
  <2>1. <<Appended + 1>> \in Seq(Nat) /\ Len(<<Appended + 1>>) = 1
        /\ <<Appended + 1>>[1] = Appended + 1
    BY <1>1
  <2>2. /\ Len(all) = Len(held) + 1
        /\ \A i \in 1..Len(held) : all[i] = held[i]
        /\ all[Len(held) + 1] = Appended + 1
    BY <1>3, <2>1, Joined
  <2> QED BY <1>1, <1>3, <2>2
<1> HIDE DEF all, d, p
<1>5. /\ \A i \in 1..(d + 1) : all[i] = got[i]
      /\ \A i \in 1..p : all[d + 1 + i] = pending[i]
  <2>1. ASSUME NEW i \in 1..(d + 1) PROVE all[i] = got[i]
    <3>1. i \in 1..(d + 1 + p)
      BY <1>1
    <3> QED BY <1>3, <1>4, <3>1
  <2>2. ASSUME NEW i \in 1..p PROVE all[d + 1 + i] = pending[i]
    <3>1. d + 1 + i \in 1..(d + 1 + p)
      BY <1>1
    <3> QED BY <1>3, <1>4, <3>1
  <2> QED BY <2>1, <2>2
<1>6. \A i \in 1..(p + 1) : all[d + 1 + i] = Appended - p + i
  <2> TAKE i \in 1..(p + 1)
  <2>1. CASE i \in 1..p
    <3>1. all[d + 1 + i] = pending[i] /\ pending[i] = Appended - p + i
      BY <1>5, <2>1 DEF LossInv, p
    <3> QED BY <3>1
  <2>2. CASE i = p + 1
    <3>1. d + 1 + (p + 1) = d + 1 + p + 1 /\ Appended - p + (p + 1) = Appended + 1
      BY <1>1
    <3> QED BY <1>4, <2>2, <3>1
  <2> QED BY <1>1, <2>1, <2>2
<1>7. all[d + 1] = LastDelivered
  <2>1. delivered = <<>> <=> d = 0
    BY <1>1 DEF d
  <2>2. d + 1 \in 1..(d + 1) /\ all[d + 1] = got[d + 1]
    BY <1>1, <1>5
  <2>3. CASE d = 0
    BY <1>1, <1>2, <2>1, <2>2, <2>3 DEF LastDelivered
  <2>4. CASE d # 0
    <3>1. d \in 1..d /\ d + 1 = 1 + d
      BY <1>1, <2>4
    <3> QED BY <1>2, <2>1, <2>2, <2>4, <3>1 DEF LastDelivered, d
  <2> QED BY <2>3, <2>4
<1>8. ASSUME NEW i \in 1..(Len(all) - 1)
      PROVE  Follows(all[i], all[i + 1])
  <2>1. CASE i < d + 1
    <3>1. all[i + 1] = delivered[i] /\ all[i] = IF i = 1 THEN 0 ELSE delivered[i - 1]
      <4>1. all[i] = got[i] /\ all[i + 1] = got[1 + i] /\ got[1 + i] = delivered[i]
        <5>1. i \in 1..(d + 1) /\ i + 1 \in 1..(d + 1) /\ i \in 1..d /\ i + 1 = 1 + i
          BY <1>1, <1>4, <2>1
        <5> QED BY <1>2, <1>5, <5>1
      <4>2. i # 1 => got[i] = delivered[i - 1]
        <5>1. i # 1 => i - 1 \in 1..d /\ 1 + (i - 1) = i
          BY <1>1, <1>4, <2>1
        <5> QED BY <1>2, <5>1
      <4> QED BY <1>2, <4>1, <4>2
    <3>2. CASE i = 1
      <4>1. delivered # <<>>
        BY <1>1, <2>1, <3>2 DEF d
      <4> QED BY <3>1, <3>2, <4>1 DEF LossInv
    <3>3. CASE i # 1
      <4>1. i - 1 \in 1..(d - 1) /\ (i - 1) + 1 = i
        BY <1>1, <2>1, <3>3
      <4>2. Follows(delivered[i - 1], delivered[(i - 1) + 1])
        BY <4>1 DEF LossInv, d
      <4> QED BY <3>1, <3>3, <4>1, <4>2
    <3> QED BY <3>2, <3>3
  <2>2. CASE i = d + 1
    <3>1. all[i] = LastDelivered /\ all[i + 1] = Appended - p + 1
      BY <1>1, <1>6, <1>7, <2>2
    <3> QED BY <3>1 DEF LossInv, p
  <2>3. CASE i > d + 1
    <3> DEFINE k == i - (d + 1)
    <3>1. k \in 1..(p + 1) /\ k + 1 \in 1..(p + 1) /\ i = d + 1 + k /\ i + 1 = d + 1 + (k + 1)
      BY <1>1, <1>4, <2>3
    <3>2. all[i] = Appended - p + k /\ all[i + 1] = Appended - p + (k + 1)
      BY <1>6, <3>1
    <3> QED BY <1>1, <3>1, <3>2 DEF Follows
  <2> QED BY <1>1, <2>1, <2>2, <2>3
<1>9. \A i \in 1..(Len(all) - 1) :
        all[i + 1] = all[i] + 1 \/ all[i + 1] > all[i] + PendingCap + 1
  BY <1>8 DEF Follows
<1> QED BY <1>9 DEF LossIsWholeBurst, all, held, got

\* Whatever the reader and its owner do to each other, what the owner gets is
\* the output without whole bursts beyond the cap.
THEOREM LossesAreBursts == ASSUME ReaderAssumption PROVE Spec => []LossIsWholeBurst
<1>1. Init => LossInv
  <2> SUFFICES ASSUME Init PROVE LossInv
    OBVIOUS
  <2>1. Appended = 0 /\ LastDelivered = 0 /\ Len(pending) = 0 /\ Len(delivered) = 0
    BY DEF Init, Appended, LastDelivered
  <2> QED BY <2>1 DEF Init, LossInv, Follows
<1>2. ReaderInv /\ LossInv /\ [Next]_vars => LossInv'
  <2> SUFFICES ASSUME ReaderInv, LossInv, [Next]_vars PROVE LossInv'
    OBVIOUS
  <2>1. CASE Next
    BY <2>1, AppendLosesBursts, TakeLosesNothing, OthersLoseNothing DEF ReaderInv
  <2>2. CASE UNCHANGED vars
    BY <2>2 DEF vars, threadVars, ownerVars, LossInv, LastDelivered, Appended
  <2> QED BY <2>1, <2>2
<1>3. ReaderInv /\ LossInv => LossIsWholeBurst
  BY LossInvSuffices DEF ReaderInv
<1> QED BY <1>1, <1>2, <1>3, ReaderInvariant, PTL DEF Spec
=============================================================================
