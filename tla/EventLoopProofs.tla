--------------------------- MODULE EventLoopProofs ----------------------------
(* The loop forgets no output, sleeps over nothing it knows of, and handles *)
(* input in order: for any number of windows, any capacity of the channels, *)
(* and however much happens.                                                *)
EXTENDS EventLoop, WellFoundedInduction, TLAPS

(***************************************************************************)
(* Types, as far as the invariants need them.                              *)
(***************************************************************************)
Deadline == {"none", "armed", "due"}
Kind == {"wakeup", "mode", "exited", "key", "release"}
Place == {"read", "mode", "parse", "raise", "wake", "lastwake", "exit", "done"}

TypeInv ==
  /\ chan \in Seq(Kind \X (Windows \cup Nat)) /\ typed \in Nat
  /\ reader \in [Windows -> Place]
  /\ open \subseteq Windows /\ stale \subseteq open /\ todo \subseteq Windows
  /\ sp \in Deadline /\ rp \in Deadline /\ task \in Deadline

InChan == {chan[i] : i \in DOMAIN chan}

\* Sending adds one message; receiving takes one away, and the others stay.
LEMMA SendAdds ==
  ASSUME TypeInv, NEW kind \in Kind, NEW x \in Windows \cup Nat, Send(kind, x)
  PROVE  /\ chan' \in Seq(Kind \X (Windows \cup Nat))
         /\ InChan' = InChan \cup {<<kind, x>>}
<1> DEFINE e == <<kind, x>>
<1>1. e \in Kind \X (Windows \cup Nat) /\ chan' = Append(chan, e)
  BY DEF Send
<1> HIDE DEF e
<1>2. /\ chan' \in Seq(Kind \X (Windows \cup Nat)) /\ Len(chan') = Len(chan) + 1
      /\ Len(chan) \in Nat /\ DOMAIN chan = 1..Len(chan) /\ DOMAIN chan' = 1..(Len(chan) + 1)
      /\ \A i \in 1..(Len(chan) + 1) : chan'[i] = IF i = Len(chan) + 1 THEN e ELSE chan[i]
  BY <1>1 DEF TypeInv
<1>3. InChan' = InChan \cup {e}
  BY <1>2 DEF InChan
<1> QED BY <1>2, <1>3 DEF e

LEMMA ReceiveTakes ==
  ASSUME TypeInv, chan # <<>>, chan' = Tail(chan)
  PROVE  /\ chan' \in Seq(Kind \X (Windows \cup Nat))
         /\ Head(chan) \in InChan /\ Head(chan) \in Kind \X (Windows \cup Nat)
         /\ InChan \subseteq InChan' \cup {Head(chan)}
<1>1. /\ chan' \in Seq(Kind \X (Windows \cup Nat)) /\ Len(chan') = Len(chan) - 1
      /\ Len(chan) \in Nat \ {0} /\ DOMAIN chan = 1..Len(chan) /\ DOMAIN chan' = 1..(Len(chan) - 1)
      /\ Head(chan) = chan[1] /\ \A i \in 1..(Len(chan) - 1) : chan'[i] = chan[i + 1]
  BY DEF TypeInv
<1>2. \A i \in 2..Len(chan) : i - 1 \in DOMAIN chan' /\ chan[i] = chan'[i - 1]
  BY <1>1
<1>3. InChan \subseteq InChan' \cup {Head(chan)}
  <2> SUFFICES ASSUME NEW i \in 1..Len(chan) PROVE chan[i] \in InChan' \cup {Head(chan)}
    BY <1>1 DEF InChan
  <2>1. CASE i = 1
    BY <1>1, <2>1
  <2>2. CASE i # 1
    <3>1. i \in 2..Len(chan)
      BY <1>1, <2>2
    <3>2. i - 1 \in DOMAIN chan' /\ chan[i] = chan'[i - 1]
      BY <1>2, <3>1
    <3> QED BY <3>2 DEF InChan
  <2> QED BY <2>1, <2>2
<1>4. Head(chan) \in InChan /\ Head(chan) \in Kind \X (Windows \cup Nat)
  <2>1. 1 \in DOMAIN chan /\ Head(chan) = chan[1]
    BY <1>1
  <2>2. chan \in Seq(Kind \X (Windows \cup Nat))
    BY DEF TypeInv
  <2>3. chan[1] \in Kind \X (Windows \cup Nat)
    BY <2>1, <2>2
  <2> QED BY <2>1, <2>3 DEF InChan
<1> QED BY <1>1, <1>3, <1>4

LEMMA OfChan ==
  ASSUME NEW kind, NEW x PROVE <<kind, x>> \in InChan => x \in Of(kind)
<1>1. <<kind, x>>[1] = kind /\ <<kind, x>>[2] = x
  OBVIOUS
<1>2. ASSUME NEW i \in DOMAIN chan, chan[i] = <<kind, x>> PROVE x \in Of(kind)
  <2>1. i \in {j \in DOMAIN chan : chan[j][1] = kind} /\ chan[i][2] = x
    BY <1>1, <1>2
  <2> QED BY <2>1 DEF Of
<1> QED BY <1>2 DEF InChan

LEMMA TypeKept == ASSUME LoopAssumption, TypeInv, [Next]_vars PROVE TypeInv'
<1> USE DEF TypeInv, inputVars, childVars, ptyVars, wmVars, setVars, eventVars, drawVars,
            Goes, Place, Deadline
<1>1. CASE ViewerInput
  <2>1. PICK e \in Inputs : IF Room THEN Send(e[1], e[2]) ELSE UNCHANGED chan
    BY <1>1 DEF ViewerInput
  <2>2. e[1] \in Kind /\ e[2] \in Windows \cup Nat
    BY DEF Inputs, Kind
  <2>3. chan' \in Seq(Kind \X (Windows \cup Nat))
    BY <2>1, <2>2, SendAdds
  <2> QED BY <1>1, <2>3 DEF ViewerInput
<1>2. CASE ConsoleInput
  BY <1>2 DEF ConsoleInput
<1>3. ASSUME NEW w \in Windows, ReaderRead(w) \/ ReaderEnd(w) \/ ReaderRaise(w) \/ Die(w)
      PROVE  TypeInv'
  BY <1>3 DEF ReaderRead, ReaderEnd, ReaderRaise, Die
<1>4. ASSUME NEW w \in Windows, ReaderParse(w) PROVE TypeInv'
  BY <1>4 DEF ReaderParse
<1>5. ASSUME NEW w \in Windows, ReaderSend(w) PROVE TypeInv'
  <2>1. chan' \in Seq(Kind \X (Windows \cup Nat))
    BY <1>5, SendAdds DEF ReaderSend, Kind
  <2> QED BY <1>5, <2>1 DEF ReaderSend
<1>6. ASSUME NEW w \in Windows, ReaderExit(w) PROVE TypeInv'
  <2>1. chan' \in Seq(Kind \X (Windows \cup Nat))
    BY <1>6, SendAdds DEF ReaderExit, Kind
  <2> QED BY <1>6, <2>1 DEF ReaderExit
<1>7. CASE TimePasses
  BY <1>7 DEF TimePasses, Passes, SourceDue, RunnerDue, TaskDue, InputAges
<1>8. CASE HandleNone
  BY <1>8 DEF HandleNone, HandlerTop, TaskNext, Armed, Read, Poll
<1>9. CASE HandleEvent
  BY <1>9 DEF HandleEvent, HandlerTop, TaskNext, Armed
<1>10. CASE DrawStart
  <2>1. cur' \in Windows
    BY <1>10 DEF DrawStart
  <2>2. chan' \in Seq(Kind \X (Windows \cup Nat))
    BY <1>10, <2>1, SendAdds DEF DrawStart, Kind
  <2> QED BY <1>10, <2>2 DEF DrawStart
<1>11. CASE DrawCells \/ DrawEnd \/ DrawPanic
  BY <1>11 DEF DrawCells, DrawEnd, DrawPanic, Poll
<1>12. CASE PollBuffered
  BY <1>12 DEF PollBuffered, Drain
<1>13. CASE PollEmpty
  <2>1. ASSUME NEW deadline \in Deadline, Enter(deadline) PROVE sp' \in Deadline
    BY <2>1 DEF Enter, Wait, Idle, Read
  <2>2. sp' \in Deadline
    BY <1>13, <2>1 DEF PollEmpty, Armed
  <2>3. chan' = <<>> /\ UNCHANGED <<typed, reader, open, stale, todo, rp, task>>
    BY <1>13 DEF PollEmpty, Drain
  <2>4. chan' \in Seq(Kind \X (Windows \cup Nat))
    BY <2>3
  <2> QED BY <2>2, <2>3, <2>4
<1>14. CASE ReceiveConsole
  BY <1>14 DEF ReceiveConsole, Ready, Filtered, Wait, Idle, Read
<1>15. CASE Receive
  <2>1. chan' \in Seq(Kind \X (Windows \cup Nat))
    BY <1>15, ReceiveTakes DEF Receive
  <2> QED BY <1>15, <2>1 DEF Receive, Ready, Filtered, Wait, Idle, Armed, Read
<1>16. CASE TimeOut \/ HourPasses
  BY <1>16 DEF TimeOut, HourPasses, Idle
<1>17. CASE UNCHANGED vars
  BY <1>17 DEF vars
<1> QED
  BY <1>1, <1>2, <1>3, <1>4, <1>5, <1>6, <1>7, <1>8, <1>9, <1>10, <1>11, <1>12, <1>13, <1>14,
     <1>15, <1>16, <1>17
  DEF Next, Reader, Loop

(***************************************************************************)
(* No output is forgotten.  A raised flag sends no wakeup, so it has to be *)
(* worth one: it is due to a wakeup that is still on its way, or whose     *)
(* window is dirty, or to be drawn.  During a frame only what the frame is *)
(* still to visit may be relied on, for at its end nothing is dirty.       *)
(***************************************************************************)
Wakes(w) == reader[w] = "wake" \/ <<"wakeup", w>> \in InChan
Told(w)  == pc # "draw" /\ (w \in dirty \cup lost \/ rp # "none" \/ pc \in {"handler", "event"})

StaleTold ==
  \A w \in stale \ hidden :
    \/ reader[w] = "raise" \/ Wakes(w) \/ Told(w)
    \/ pc = "draw" /\ w \in todo \cup {cur} \cup copied

RaisedTold ==
  \A w \in (raised \cap open) \ hidden :
    Wakes(w) \/ Told(w) \/ (pc = "draw" /\ w \in todo \cup {cur})

LoopInv == StaleTold /\ RaisedTold

\* A step that takes no wakeup, and no other reason, away.
LEMMA LoopStays ==
  ASSUME LoopInv, stale' \subseteq stale, raised' \subseteq raised,
         UNCHANGED <<reader, open, hidden, dirty, lost, todo, cur, copied>>,
         InChan \subseteq InChan',
         pc' = pc /\ rp # "none" => rp' # "none",
         pc' # pc => pc # "draw" /\ pc' # "draw" /\ (rp' # "none" \/ pc' = "handler" \/
                       (UNCHANGED rp /\ pc \notin {"handler", "event"}))
  PROVE  LoopInv'
BY DEF LoopInv, StaleTold, RaisedTold, Wakes, Told

LEMMA ReaderLoop ==
  ASSUME TypeInv, LoopInv, NEW v \in Windows,
         ReaderRead(v) \/ ReaderEnd(v) \/ ReaderParse(v) \/ ReaderRaise(v)
           \/ ReaderSend(v) \/ ReaderExit(v)
  PROVE  LoopInv'
<1> USE DEF TypeInv, LoopInv, StaleTold, RaisedTold, Wakes, Told, inputVars, childVars, ptyVars,
            wmVars, setVars, eventVars, drawVars, Goes
<1>1. CASE ReaderRead(v) \/ ReaderEnd(v)
  BY <1>1 DEF ReaderRead, ReaderEnd, InChan
<1>2. CASE ReaderParse(v)
  BY <1>2 DEF ReaderParse, InChan
<1>3. CASE ReaderRaise(v)
  BY <1>3 DEF ReaderRaise, InChan
<1>4. CASE ReaderSend(v)
  <2>1. PICK kind \in {"mode", "wakeup"} :
          /\ Send(kind, v) /\ (reader[v] = "wake" => kind = "wakeup") /\ reader[v] # "raise"
          /\ \E to \in Place : reader' = [reader EXCEPT ![v] = to]
    BY <1>4 DEF ReaderSend, Place
  <2>2. InChan' = InChan \cup {<<kind, v>>}
    BY <2>1, SendAdds DEF Kind
  <2> QED BY <1>4, <2>1, <2>2 DEF ReaderSend
<1>5. CASE ReaderExit(v)
  <2>1. InChan \subseteq InChan'
    <3>1. CASE UNCHANGED chan
      BY <3>1 DEF InChan
    <3>2. CASE Send("exited", v)
      BY <3>2, SendAdds DEF Kind
    <3> QED BY <1>5, <3>1, <3>2 DEF ReaderExit
  <2> QED BY <1>5, <2>1 DEF ReaderExit
<1> QED BY <1>1, <1>2, <1>3, <1>4, <1>5

\* The handler: whatever it was called for, it leaves a frame armed, or begun.
LEMMA HandlerLoop ==
  ASSUME TypeInv, LoopInv, HandleNone \/ HandleEvent PROVE LoopInv'
<1> USE DEF LoopInv, StaleTold, RaisedTold, Told
<1>1. CASE HandleEvent
  BY <1>1 DEF HandleEvent, Armed
<1>2. CASE HandleNone
  <2>1. CASE pc' = "draw" /\ todo' = open' \ hidden /\ UNCHANGED hidden
    <3>1. stale' \subseteq open'
      BY <1>2 DEF HandleNone, HandlerTop, TypeInv
    <3> QED BY <2>1, <3>1
  <2>2. CASE rp' \in Read(Armed(rp)) /\ pc' = "drain"
    BY <2>2 DEF Armed, Read
  <2> QED BY <1>2, <2>1, <2>2 DEF HandleNone, Poll, wmVars
<1> QED BY <1>1, <1>2

LEMMA DrawLoop ==
  ASSUME LoopAssumption, TypeInv, LoopInv, DrawStart \/ DrawCells \/ DrawEnd \/ DrawPanic PROVE LoopInv'
<1> USE DEF LoopInv, StaleTold, RaisedTold, Wakes, Told, inputVars, childVars, ptyVars,
            wmVars, setVars, eventVars
<1>1. CASE DrawStart
  <2>1. cur' \in todo /\ todo' = todo \ {cur'} /\ raised' = raised \ {cur'} /\ cur = NoWindow
    BY <1>1 DEF DrawStart
  <2>2. InChan \subseteq InChan'
    <3>1. cur' \in Windows
      BY <2>1 DEF TypeInv
    <3>2. CASE UNCHANGED chan
      BY <3>2 DEF InChan
    <3>3. CASE Send("exited", cur')
      BY <3>1, <3>3, SendAdds DEF Kind
    <3> QED BY <1>1, <3>2, <3>3 DEF DrawStart
  <2>3. pc = "draw" /\ UNCHANGED <<pc, reader, stale, open, hidden, copied>>
    BY <1>1 DEF DrawStart
  <2>4. \A w \in Windows : w # cur
    BY <2>1 DEF LoopAssumption
  <2>5. stale \subseteq Windows /\ open \subseteq Windows
    BY DEF TypeInv
  <2>6. StaleTold'
    BY <2>1, <2>2, <2>3, <2>4, <2>5
  <2>7. RaisedTold'
    BY <2>1, <2>2, <2>3, <2>4, <2>5
  <2> QED BY <2>6, <2>7
<1>2. CASE DrawCells
  BY <1>2 DEF DrawCells, InChan
<1>3. CASE DrawEnd
  <2>1. /\ pc = "draw" /\ todo = {} /\ \A w \in Windows : w # cur
        /\ stale' = stale \ copied /\ UNCHANGED <<chan, reader, raised, open, hidden>>
    BY <1>3 DEF DrawEnd, LoopAssumption
  <2>2. stale \subseteq Windows /\ open \subseteq Windows
    BY DEF TypeInv
  <2>3. \A w \in stale' \ hidden' : reader'[w] = "raise" \/ Wakes(w)'
    BY <2>1, <2>2 DEF InChan
  <2>4. \A w \in (raised' \cap open') \ hidden' : Wakes(w)'
    BY <2>1, <2>2 DEF InChan
  <2> QED BY <2>3, <2>4
<1>4. CASE DrawPanic
  BY <1>4 DEF DrawPanic, Poll, InChan, TypeInv
<1> QED BY <1>1, <1>2, <1>3, <1>4

\* What the source takes out of the channel makes its window dirty.
LEMMA SourceLoop ==
  ASSUME TypeInv, LoopInv, PollBuffered \/ PollEmpty \/ ReceiveConsole \/ Receive PROVE LoopInv'
<1> USE DEF inputVars, childVars, ptyVars, wmVars, setVars, eventVars, drawVars
<1>1. CASE PollBuffered
  BY <1>1 DEF PollBuffered, LoopInv, StaleTold, RaisedTold, Told
<1>2. CASE PollEmpty
  <2>1. \A w : <<"wakeup", w>> \in InChan => w \in dirty'
    BY <1>2, OfChan DEF PollEmpty, Drain
  <2>2. pc = "drain" /\ pc' \in {"handler", "block"} /\ dirty \subseteq dirty'
        /\ UNCHANGED <<reader, stale, raised, open, hidden, rp, todo, cur, copied, lost>>
    BY <1>2 DEF PollEmpty, Drain, Enter, Wait, Idle
  <2> QED BY <2>1, <2>2 DEF LoopInv, StaleTold, RaisedTold, Wakes, Told
<1>3. CASE ReceiveConsole
  <2>1. pc = "block" /\ pc' \in {"event", "handler", "block"}
        /\ UNCHANGED <<chan, dirty, reader, stale, raised, open, hidden, rp, todo, cur, copied, lost>>
    BY <1>3 DEF ReceiveConsole, Ready, Filtered, Wait, Idle
  <2> QED BY <2>1 DEF LoopInv, StaleTold, RaisedTold, Wakes, Told, InChan
<1>4. CASE Receive
  <2>1. pc = "block" /\ pc' \in {"event", "handler", "block"} /\ chan # <<>> /\ chan' = Tail(chan)
        /\ UNCHANGED <<reader, stale, raised, open, hidden, rp, todo, cur, copied, lost>>
    BY <1>4 DEF Receive, Ready, Filtered, Wait, Idle
  <2>2. InChan \subseteq InChan' \cup {Head(chan)}
    BY <2>1, ReceiveTakes
  <2>3. dirty \subseteq dirty' /\ (Head(chan)[1] = "wakeup" => Head(chan)[2] \in dirty')
    BY <1>4 DEF Receive
  <2>4. \A w : <<"wakeup", w>> \in InChan => <<"wakeup", w>> \in InChan' \/ w \in dirty'
    <3> SUFFICES ASSUME NEW w, <<"wakeup", w>> = Head(chan) PROVE w \in dirty'
      BY <2>2
    <3>1. Head(chan)[1] = "wakeup" /\ Head(chan)[2] = w
      BY <<"wakeup", w>>[1] = "wakeup" /\ <<"wakeup", w>>[2] = w
    <3> QED BY <2>3, <3>1
  <2> QED BY <2>1, <2>3, <2>4 DEF LoopInv, StaleTold, RaisedTold, Wakes, Told
<1> QED BY <1>1, <1>2, <1>3, <1>4

LEMMA LoopKept == ASSUME LoopAssumption, TypeInv, LoopInv, [Next]_vars PROVE LoopInv'
<1> USE DEF inputVars, childVars, ptyVars, wmVars, setVars, eventVars, drawVars
<1>1. CASE ViewerInput
  <2>1. PICK e \in Inputs : IF Room THEN Send(e[1], e[2]) ELSE UNCHANGED chan
    BY <1>1 DEF ViewerInput
  <2>2. e[1] \in Kind /\ e[2] \in Windows \cup Nat
    BY DEF Inputs, Kind, TypeInv
  <2>3. InChan \subseteq InChan'
    BY <2>1, <2>2, SendAdds DEF InChan
  <2> QED BY <1>1, <2>3, LoopStays DEF ViewerInput
<1>2. CASE ConsoleInput
  BY <1>2, LoopStays DEF ConsoleInput, InChan
<1>3. ASSUME NEW w \in Windows, Die(w) PROVE LoopInv'
  BY <1>3, LoopStays DEF Die, InChan
<1>4. CASE TimePasses
  <2>1. UNCHANGED <<chan, reader, stale, raised, open, hidden, dirty, lost, todo, cur, copied, pc>>
        /\ (rp # "none" => rp' # "none")
    BY <1>4 DEF TimePasses, Passes, SourceDue, RunnerDue, TaskDue, InputAges
  <2> QED BY <2>1, LoopStays DEF InChan
<1>5. CASE TimeOut \/ HourPasses
  BY <1>5, LoopStays DEF TimeOut, HourPasses, Idle, InChan
<1>6. CASE UNCHANGED vars
  BY <1>6, LoopStays DEF vars, InChan
<1> QED
  BY <1>1, <1>2, <1>3, <1>4, <1>5, <1>6, ReaderLoop, HandlerLoop, DrawLoop, SourceLoop
  DEF Next, Reader, Loop
\* The loop knows what is told it for good.
LEMMA LoopHolds == Spec => [](TypeInv /\ LoopInv)
<1>1. Init => TypeInv
  BY DEF Init, TypeInv, Place, Deadline
<1>2. Init => LoopInv
  BY DEF Init, LoopInv, StaleTold, RaisedTold
<1>3. TypeInv /\ LoopInv /\ [Next]_vars => (TypeInv /\ LoopInv)'
  BY LoopAssumption, TypeKept, LoopKept
<1> QED BY <1>1, <1>2, <1>3, PTL DEF Spec

\* No output is forgotten: what a reader has put into an emulator and no frame has
\* shown is always accounted for - by the reader, a wakeup, or a frame to come.
THEOREM OutputIsTold == Spec => []NothingForgotten
<1>1. TypeInv /\ LoopInv => NothingForgotten
  BY DEF LoopInv, StaleTold, Wakes, Told, InChan, NothingForgotten
<1> QED BY <1>1, LoopHolds, PTL

(***************************************************************************)
(* The long sleep.  A frame begins with the runner's pacer spent, and the  *)
(* handler that does not draw arms it; so only a frame can be followed by  *)
(* a long sleep, and what the drain finds then arms the source's pacer.    *)
(* What a pacer has armed bounds the sleep, or has passed unseen.          *)
(***************************************************************************)
SleepInv ==
  /\ pc = "draw" => rp = "none"
  /\ pc \in {"drain", "block"} /\ sleep = "long"
       => task = "none" /\ (rp # "none" => rp = "due" /\ "runner" \in missed)
  /\ pc \in {"draw", "drain"} => modes = {}
  /\ Asleep => /\ modes = {} /\ buffer = <<>>
               /\ dirty # {} \/ sp # "none" => sp = "due" /\ "source" \in missed

\* The wait gives up, or keeps to the deadline, or misses it; without one it may last.
LEMMA WaitKeeps ==
  ASSUME NEW deadline, NEW remaining, Wait(deadline, remaining)
  PROVE  /\ \/ pc' = "handler"
            \/ /\ pc' = "block" /\ sp' = deadline /\ deadline # "due"
               /\ sleep' = IF deadline = "armed" THEN "short" ELSE remaining
            \/ /\ pc' = "block" /\ sp' = "due" /\ "source" \in missed'
               /\ deadline = "armed" /\ sleep' = remaining
         /\ "runner" \in missed => "runner" \in missed'
BY DEF Wait, Idle, Read, Misses

LEMMA SleepKept ==
  ASSUME TypeInv, SleepInv, [Next]_vars PROVE SleepInv'
<1> USE DEF SleepInv, Asleep, inputVars, childVars, ptyVars, wmVars, setVars, eventVars, drawVars
<1>1. ASSUME UNCHANGED <<pc, sleep, modes, dirty, buffer, missed>>,
             rp # "armed" => rp' = rp, task = "none" => task' = "none",
             sp # "armed" => sp' = sp
      PROVE  SleepInv'
  BY <1>1
<1>2. CASE ViewerInput \/ ConsoleInput
  BY <1>1, <1>2 DEF ViewerInput, ConsoleInput
<1>3. ASSUME NEW w \in Windows, ReaderRead(w) \/ ReaderEnd(w) \/ Reader(w) \/ Die(w)
      PROVE  SleepInv'
  BY <1>1, <1>3
  DEF ReaderRead, ReaderEnd, Reader, ReaderParse, ReaderRaise, ReaderSend, ReaderExit, Die
<1>4. CASE TimePasses
  BY <1>1, <1>4 DEF TimePasses, Passes, SourceDue, RunnerDue, TaskDue, InputAges
<1>5. CASE HandleNone
  <2>1. CASE rp = "due"
    BY <1>5, <2>1 DEF HandleNone, HandlerTop
  <2>2. CASE rp # "due"
    <3>1. rp' = "armed" \/ (rp' = "due" /\ "runner" \in missed')
      BY <1>5, <2>2 DEF HandleNone, TypeInv, Deadline, Armed, Read, Misses
    <3>2. Poll(rp', task', dirty # {}) /\ modes' = {}
      BY <1>5, <2>2 DEF HandleNone, HandlerTop
    <3>3. pc' = "drain" /\ (rp' = "armed" \/ task' # "none" => sleep' = "short")
      BY <3>2 DEF Poll
    <3> QED BY <3>1, <3>2, <3>3
  <2> QED BY <2>1, <2>2
<1>6. CASE HandleEvent
  BY <1>6 DEF HandleEvent, HandlerTop
<1>7. CASE DrawStart \/ DrawCells
  BY <1>7 DEF DrawStart, DrawCells
<1>8. CASE DrawEnd \/ DrawPanic
  BY <1>8 DEF DrawEnd, DrawPanic, Poll
<1>9. CASE PollBuffered
  BY <1>9 DEF PollBuffered
<1>10. CASE PollEmpty
  <2> DEFINE d == IF dirty' # {} THEN Armed(sp) ELSE sp
  <2>1. /\ pc = "drain" /\ buffer = <<>> /\ UNCHANGED <<buffer, rp, task>>
        /\ modes' = Of("mode") /\ Of("mode") \subseteq dirty'
    BY <1>10 DEF PollEmpty, NoInput, Drain
  <2>2. CASE sleep = "zero"
    BY <1>10, <2>2 DEF PollEmpty, Enter, Idle
  <2>3. CASE sleep # "zero"
    <3>1. Wait(d, IF d = "armed" THEN "short" ELSE sleep)
      BY <1>10, <2>3 DEF PollEmpty, Enter
    <3>2. /\ \/ pc' = "handler"
             \/ /\ pc' = "block" /\ sp' = d /\ d # "due"
                /\ sleep' = IF d = "armed" THEN "short" ELSE sleep
             \/ pc' = "block" /\ d = "armed" /\ sleep' = "short"
          /\ "runner" \in missed => "runner" \in missed'
      BY <3>1, WaitKeeps
    <3>3. d \in Deadline /\ (dirty' # {} => d # "none")
      BY DEF TypeInv, Deadline, Armed
    <3> QED BY <2>1, <3>2, <3>3 DEF Deadline
  <2> QED BY <2>2, <2>3
<1>11. CASE ReceiveConsole
  <2>1. pc = "block" /\ UNCHANGED <<dirty, modes, buffer, rp, task>>
    BY <1>11 DEF ReceiveConsole
  <2>2. pc' = "event" \/ Wait(sp, sleep)
    BY <1>11 DEF ReceiveConsole, Ready, Filtered
  <2>3. \/ pc' \in {"event", "handler"}
        \/ /\ pc' = "block" /\ ("runner" \in missed => "runner" \in missed')
           /\ \/ sp' = sp /\ sp # "due" /\ sleep' = IF sp = "armed" THEN "short" ELSE sleep
              \/ sp' = "due" /\ "source" \in missed' /\ sleep' = sleep
    BY <2>2, WaitKeeps
  <2> QED BY <2>1, <2>3
<1>12. CASE Receive
  <2>1. pc = "block" /\ UNCHANGED <<buffer, rp, task>>
    BY <1>12 DEF Receive
  <2>2. \/ pc' \in {"event", "handler"}
        \/ Wait(sp, sleep) /\ UNCHANGED <<dirty, modes>>
        \/ Wait(Armed(sp), sleep) /\ UNCHANGED modes
    BY <1>12 DEF Receive, Ready, Filtered
  <2>3. Armed(sp) \in {"armed", "due"}
    BY DEF Armed, TypeInv, Deadline
  <2>4. \/ pc' \in {"event", "handler"}
        \/ /\ pc' = "block" /\ ("runner" \in missed => "runner" \in missed')
           /\ UNCHANGED modes
           /\ \/ sp' = sp /\ sp # "due" /\ UNCHANGED dirty
                 /\ sleep' = IF sp = "armed" THEN "short" ELSE sleep
              \/ sleep' = "short"
              \/ sp' = "due" /\ "source" \in missed' /\ sleep' = sleep
    BY <2>2, <2>3, WaitKeeps
  <2> QED BY <2>1, <2>4
<1>13. CASE TimeOut \/ HourPasses
  BY <1>13 DEF TimeOut, HourPasses, Idle
<1>14. CASE UNCHANGED vars
  BY <1>1, <1>14 DEF vars
<1> QED
  BY <1>2, <1>3, <1>4, <1>5, <1>6, <1>7, <1>8, <1>9, <1>10, <1>11, <1>12, <1>13, <1>14
  DEF Next, Loop

\* The loop sleeps over nothing it knows of, and over a deadline only if it has
\* passed between the two reads of the clock that asked for it.
THEOREM SleepsSafely == Spec => []NeverOversleeps
<1>1. Init => SleepInv
  BY DEF Init, SleepInv, Asleep
<1>2. TypeInv /\ SleepInv /\ [Next]_vars => SleepInv'
  BY SleepKept
<1>3. SleepInv => NeverOversleeps
  BY DEF SleepInv, Asleep, NeverOversleeps
<1> QED BY <1>1, <1>2, <1>3, LoopHolds, PTL DEF Spec

(***************************************************************************)
(* The keys of a queue.  What Keys computes is shown by an induction over  *)
(* the length of what it has looked at.                                    *)
(***************************************************************************)
\* A set of numbers that holds 0, and with a number the next one, holds all.
LEMMA Induction ==
  ASSUME NEW T \in SUBSET Nat, 0 \in T, \A n \in T : n + 1 \in T
  PROVE  T = Nat
<1> SUFFICES ASSUME T # Nat PROVE FALSE
  OBVIOUS
<1>1. PICK m \in Nat \ T : \A n \in Nat \ T : <<n, m>> \notin OpToRel(<, Nat)
  BY NatLessThanWellFounded, WFMin
<1>2. \A n \in Nat \ T : ~(n < m)
  BY <1>1 DEF OpToRel
<1>3. m - 1 \in Nat /\ m - 1 < m /\ (m - 1) + 1 = m
  BY m # 0
<1>4. m - 1 \in T
  BY <1>2, <1>3
<1> QED BY <1>1, <1>3, <1>4

IsKey(e) == e[1] = "key"

\* q holds the keys among the first n of s, in their order.
KeysAmong(q, s, n) ==
  /\ q \in Seq(Nat)
  /\ \A m \in 1..Len(q) : \E i \in 1..n : IsKey(s[i]) /\ q[m] = s[i][2]
  /\ \A i \in 1..n : IsKey(s[i]) => q # <<>>
  /\ \A l, m \in 1..Len(q) : l < m => q[l] < q[m]

\* The numbers of the keys of s grow.
Growing(s) ==
  /\ \A i \in 1..Len(s) : IsKey(s[i]) => s[i][2] \in Nat
  /\ \A i, j \in 1..Len(s) : i < j /\ IsKey(s[i]) /\ IsKey(s[j]) => s[i][2] < s[j][2]

LEMMA KeysFilter ==
  ASSUME NEW S, NEW s \in Seq(S), Growing(s)
  PROVE  KeysAmong(Keys(s), s, Len(s))
<1> DEFINE Step(f, i) == IF i = 0 THEN <<>>
                         ELSE IF s[i][1] = "key" THEN Append(f[i - 1], s[i][2]) ELSE f[i - 1]
           Upto(n) == \E f : f = [i \in 0..n |-> Step(f, i)]
           F == CHOOSE f : f = [i \in 0..Len(s) |-> Step(f, i)]
<1>1. Len(s) \in Nat
  OBVIOUS
<1>2. Upto(Len(s))
  <2> DEFINE T == {n \in Nat : Upto(n)}
  <2>1. Upto(0)
    <3> DEFINE f == [i \in 0..0 |-> <<>>]
    <3>1. f = [i \in 0..0 |-> Step(f, i)]
      OBVIOUS
    <3> QED BY <3>1
  <2>2. ASSUME NEW n \in Nat, Upto(n) PROVE Upto(n + 1)
    <3>1. PICK f : f = [i \in 0..n |-> Step(f, i)]
      BY <2>2
    <3> DEFINE g == [i \in 0..(n + 1) |-> IF i = n + 1 THEN Step(f, i) ELSE f[i]]
    <3>2. ASSUME NEW i \in 0..(n + 1) PROVE g[i] = Step(g, i)
      <4>1. CASE i = n + 1
        <5>1. i - 1 \in 0..n /\ i \in 0..(n + 1) /\ i - 1 \in 0..(n + 1) /\ i - 1 # n + 1
          BY <4>1
        <5>2. g[i - 1] = f[i - 1]
          BY <5>1
        <5> QED BY <4>1, <5>1, <5>2
      <4>2. CASE i = 0
        BY <3>1, <4>2
      <4>3. CASE i # n + 1 /\ i # 0
        <5>1. i \in 0..n /\ i - 1 \in 0..n /\ i - 1 \in 0..(n + 1) /\ i - 1 # n + 1
          BY <4>3
        <5>2. g[i - 1] = f[i - 1] /\ g[i] = f[i]
          BY <4>3, <5>1
        <5>3. f[i] = Step(f, i)
          BY <3>1, <5>1
        <5> QED BY <5>2, <5>3
      <4> QED BY <4>1, <4>2, <4>3
    <3>3. g = [i \in 0..(n + 1) |-> Step(g, i)]
      BY <3>2
    <3> QED BY <3>3
  <2> HIDE DEF Upto
  <2>3. 0 \in T /\ \A n \in T : n + 1 \in T
    BY <2>1, <2>2
  <2>4. T \in SUBSET Nat
    OBVIOUS
  <2> HIDE DEF T
  <2>5. T = Nat
    BY <2>3, <2>4, Induction
  <2> QED BY <1>1, <2>5 DEF T
<1>3. F = [i \in 0..Len(s) |-> Step(F, i)]
  BY <1>2
<1>4. Keys(s) = F[Len(s)]
  BY DEF Keys
<1> HIDE DEF F
<1>5. /\ F[0] = <<>>
      /\ \A n \in 0..(Len(s) - 1) :
           F[n + 1] = IF s[n + 1][1] = "key" THEN Append(F[n], s[n + 1][2]) ELSE F[n]
  <2>1. F[0] = <<>>
    BY <1>1, <1>3
  <2>2. ASSUME NEW n \in 0..(Len(s) - 1)
        PROVE  F[n + 1] = IF s[n + 1][1] = "key" THEN Append(F[n], s[n + 1][2]) ELSE F[n]
    <3>1. n + 1 \in 0..Len(s) /\ n + 1 # 0 /\ (n + 1) - 1 = n
      BY <1>1
    <3>2. F[n + 1] = Step(F, n + 1)
      BY <1>3, <3>1
    <3> QED BY <3>1, <3>2
  <2> QED BY <2>1, <2>2
<1>6. ASSUME NEW n \in 0..(Len(s) - 1), KeysAmong(F[n], s, n) PROVE KeysAmong(F[n + 1], s, n + 1)
  <2> DEFINE q == F[n]
             e == s[n + 1]
  <2>1. n + 1 \in 1..Len(s) /\ n \in Nat /\ \A i \in 1..(n + 1) : i \in 1..n \/ i = n + 1
    BY <1>1
  <2>2. CASE ~IsKey(e)
    <3>1. F[n + 1] = q
      BY <1>5, <2>2 DEF IsKey
    <3>2. /\ \A m \in 1..Len(q) : \E i \in 1..(n + 1) : IsKey(s[i]) /\ q[m] = s[i][2]
          /\ \A i \in 1..(n + 1) : IsKey(s[i]) => i \in 1..n
      <4>1. \A i \in 1..n : i \in 1..(n + 1)
        BY <2>1
      <4> QED BY <1>6, <2>1, <2>2, <4>1 DEF KeysAmong
    <3> QED BY <1>6, <3>1, <3>2 DEF KeysAmong
  <2>3. CASE IsKey(e)
    <3> DEFINE x == e[2]
               r == Append(q, x)
    <3>1. F[n + 1] = r
      BY <1>5, <2>3 DEF IsKey
    <3>2. x \in Nat /\ q \in Seq(Nat)
      BY <1>6, <2>1, <2>3 DEF Growing, KeysAmong
    <3>3. /\ r \in Seq(Nat) /\ Len(r) = Len(q) + 1 /\ r[Len(q) + 1] = x /\ Len(q) \in Nat
          /\ \A m \in 1..Len(q) : r[m] = q[m]
      <4> HIDE DEF x, q
      <4> QED BY <3>2
    <3>4. \A m \in 1..Len(r) : m \in 1..Len(q) \/ m = Len(q) + 1
      BY <3>3
    <3>5. ASSUME NEW m \in 1..Len(r) PROVE \E i \in 1..(n + 1) : IsKey(s[i]) /\ r[m] = s[i][2]
      <4>1. CASE m = Len(q) + 1
        <5>1. n + 1 \in 1..(n + 1) /\ r[m] = s[n + 1][2]
          BY <2>1, <3>3, <4>1
        <5> QED BY <2>3, <5>1
      <4>2. CASE m \in 1..Len(q)
        <5>1. PICK i \in 1..n : IsKey(s[i]) /\ q[m] = s[i][2]
          BY <1>6, <4>2 DEF KeysAmong
        <5>2. i \in 1..(n + 1)
          BY <2>1
        <5> QED BY <3>3, <4>2, <5>1, <5>2
      <4> QED BY <3>4, <4>1, <4>2
    <3>6. ASSUME NEW l \in 1..Len(r), NEW m \in 1..Len(r), l < m PROVE r[l] < r[m]
      <4>1. l \in 1..Len(q)
        BY <3>3, <3>4, <3>6
      <4>2. CASE m \in 1..Len(q)
        BY <1>6, <3>3, <3>6, <4>1, <4>2 DEF KeysAmong
      <4>3. CASE m = Len(q) + 1
        <5>1. PICK i \in 1..n : IsKey(s[i]) /\ q[l] = s[i][2]
          BY <1>6, <4>1 DEF KeysAmong
        <5>2. s[i][2] < x
          BY <2>1, <2>3, <5>1 DEF Growing
        <5> QED BY <3>3, <4>1, <4>3, <5>1, <5>2
      <4> QED BY <3>4, <4>2, <4>3
    <3>7. r # <<>>
      BY <3>3
    <3> HIDE DEF r, q
    <3> QED BY <3>1, <3>3, <3>5, <3>6, <3>7 DEF KeysAmong
  <2> QED BY <2>2, <2>3
<1>7. \A n \in Nat : n <= Len(s) => KeysAmong(F[n], s, n)
  <2> DEFINE T == {n \in Nat : n <= Len(s) => KeysAmong(F[n], s, n)}
  <2>1. 0 \in T
    <3>1. KeysAmong(<<>>, s, 0)
      BY DEF KeysAmong
    <3> QED BY <1>5, <3>1
  <2>2. ASSUME NEW n \in T PROVE n + 1 \in T
    <3> SUFFICES ASSUME n + 1 <= Len(s) PROVE KeysAmong(F[n + 1], s, n + 1)
      OBVIOUS
    <3>1. n \in 0..(Len(s) - 1) /\ KeysAmong(F[n], s, n)
      BY <1>1
    <3> QED BY <1>6, <3>1
  <2> HIDE DEF T
  <2>3. T = Nat
    BY <2>1, <2>2, Induction DEF T
  <2> QED BY <2>3 DEF T
<1> QED BY <1>1, <1>4, <1>7

(***************************************************************************)
(* The order of input.  Keys come from one of the two channels, so what is *)
(* buffered came before what is still in a channel; and nothing is         *)
(* buffered while poll blocks and takes the next key past the buffer.      *)
(***************************************************************************)
Increasing(q) == \A l, m \in 1..Len(q) : l < m => q[l] < q[m]

\* The keys of channel q were typed after h and the members of b, and not after t.
Waiting(q, h, b, t) ==
  /\ Growing(q)
  /\ \A i \in 1..Len(q) : IsKey(q[i]) =>
       h < q[i][2] /\ q[i][2] <= t /\ \A m \in 1..Len(b) : b[m] < q[i][2]

Buffered(b, h, t) ==
  b \in Seq(Nat) /\ Increasing(b) /\ \A m \in 1..Len(b) : h < b[m] /\ b[m] <= t

Keyed == {"key", "release"} \X Nat

OrderInv ==
  /\ handled \in Nat /\ handled <= typed /\ Buffered(buffer, handled, typed)
  /\ console \in Seq(Keyed)
  /\ Waiting(chan, handled, buffer, typed) /\ Waiting(console, handled, buffer, typed)
  /\ local => owner = 0 /\ \A i \in 1..Len(chan) : ~IsKey(chan[i])
  /\ ~local => console = <<>>
  /\ pc = "block" => buffer = <<>>

LEMMA NothingWaits ==
  ASSUME NEW q, NEW h, NEW b, NEW t, \A i \in 1..Len(q) : ~IsKey(q[i])
  PROVE  Waiting(q, h, b, t)
BY DEF Waiting, Growing

LEMMA EmptyWaits == ASSUME NEW h, NEW b, NEW t PROVE Waiting(<<>>, h, b, t)
<1>1. \A i : i \notin 1..Len(<<>>)
  OBVIOUS
<1> QED BY <1>1, NothingWaits

LEMMA WaitingLonger ==
  ASSUME NEW q, NEW h, NEW b, NEW t \in Nat, NEW u \in Nat, t <= u, Waiting(q, h, b, t)
  PROVE  Waiting(q, h, b, u)
BY DEF Waiting, Growing

LEMMA WaitingAdds ==
  ASSUME NEW S, NEW q \in Seq(S), NEW e \in S, NEW h \in Nat, NEW t \in Nat, NEW u \in Nat,
         NEW b, Buffered(b, h, t), Waiting(q, h, b, t), t <= u, h <= t,
         IsKey(e) => e[2] \in Nat /\ t < e[2] /\ e[2] <= u
  PROVE  Waiting(Append(q, e), h, b, u)
<1> DEFINE r == Append(q, e)
<1>1. /\ Len(r) = Len(q) + 1 /\ r[Len(q) + 1] = e /\ Len(q) \in Nat
      /\ \A i \in 1..Len(q) : r[i] = q[i]
  OBVIOUS
<1>2. \A i \in 1..Len(r) : i \in 1..Len(q) \/ i = Len(q) + 1
  BY <1>1
<1>3. ASSUME NEW i \in 1..Len(r), IsKey(r[i])
      PROVE  /\ r[i][2] \in Nat /\ h < r[i][2] /\ r[i][2] <= u
             /\ \A m \in 1..Len(b) : b[m] < r[i][2]
  <2>0. \A m \in 1..Len(b) : b[m] \in Nat /\ b[m] <= t
    BY DEF Buffered
  <2>1. CASE i \in 1..Len(q)
    BY <1>1, <1>3, <2>1 DEF Waiting, Growing
  <2>2. CASE i = Len(q) + 1
    BY <1>1, <1>3, <2>0, <2>2
  <2> QED BY <1>2, <2>1, <2>2
<1>4. ASSUME NEW i \in 1..Len(r), NEW j \in 1..Len(r), i < j, IsKey(r[i]), IsKey(r[j])
      PROVE  r[i][2] < r[j][2]
  <2>1. i \in 1..Len(q)
    BY <1>1, <1>2, <1>4
  <2>2. CASE j \in 1..Len(q)
    BY <1>1, <1>4, <2>1, <2>2 DEF Waiting, Growing
  <2>3. CASE j = Len(q) + 1
    <3>1. q[i][2] \in Nat /\ q[i][2] <= t
      BY <1>1, <1>4, <2>1 DEF Waiting, Growing
    <3> QED BY <1>1, <1>4, <2>1, <2>3, <3>1
  <2> QED BY <1>2, <2>2, <2>3
<1> HIDE DEF r
<1>5. Waiting(r, h, b, u)
  BY <1>3, <1>4 DEF Waiting, Growing
<1> QED BY <1>5 DEF r

LEMMA WaitingTakes ==
  ASSUME NEW S, NEW q \in Seq(S), q # <<>>, NEW h \in Nat, NEW t \in Nat,
         Waiting(q, h, <<>>, t)
  PROVE  /\ IsKey(Head(q)) => /\ Head(q)[2] \in Nat /\ h < Head(q)[2] /\ Head(q)[2] <= t
                              /\ Waiting(Tail(q), Head(q)[2], <<>>, t)
         /\ ~IsKey(Head(q)) => Waiting(Tail(q), h, <<>>, t)
<1> DEFINE r == Tail(q)
<1>1. /\ Len(q) \in Nat \ {0} /\ Len(r) = Len(q) - 1 /\ Head(q) = q[1]
      /\ \A i \in 1..(Len(q) - 1) : r[i] = q[i + 1]
  OBVIOUS
<1>2. ASSUME NEW i \in 1..Len(r) PROVE i + 1 \in 1..Len(q) /\ r[i] = q[i + 1] /\ 1 < i + 1
  BY <1>1
<1>3. Growing(r)
  BY <1>2 DEF Waiting, Growing
<1>4. \A i \in 1..Len(r) : IsKey(r[i]) => h < r[i][2] /\ r[i][2] <= t
  BY <1>2 DEF Waiting
<1>5. ASSUME IsKey(q[1])
      PROVE  /\ q[1][2] \in Nat /\ h < q[1][2] /\ q[1][2] <= t
             /\ \A i \in 1..Len(r) : IsKey(r[i]) => q[1][2] < r[i][2]
  <2>1. 1 \in 1..Len(q)
    BY <1>1
  <2> QED BY <1>2, <1>5, <2>1 DEF Waiting, Growing
<1>6. \A m : ~(m \in 1..Len(<<>>))
  OBVIOUS
<1> HIDE DEF r
<1>7. ~IsKey(q[1]) => Waiting(r, h, <<>>, t)
  BY <1>3, <1>4, <1>6 DEF Waiting
<1>8. IsKey(q[1]) => Waiting(r, q[1][2], <<>>, t)
  BY <1>3, <1>4, <1>5, <1>6 DEF Waiting
<1> QED BY <1>1, <1>5, <1>7, <1>8 DEF r

\* What is buffered, and after it the keys of a channel.
LEMMA BufferedJoined ==
  ASSUME NEW S, NEW q \in Seq(S), NEW h \in Nat, NEW t \in Nat, NEW b,
         Buffered(b, h, t), Waiting(q, h, b, t)
  PROVE  Buffered(b \o Keys(q), h, t)
<1>1. b \in Seq(Nat) /\ KeysAmong(Keys(q), q, Len(q))
  BY KeysFilter DEF Waiting, Buffered
<1>2. PICK k : k = Keys(q)
  OBVIOUS
<1> DEFINE r == b \o k
<1>3. /\ k \in Seq(Nat) /\ r \in Seq(Nat) /\ Len(r) = Len(b) + Len(k)
      /\ Len(b) \in Nat /\ Len(k) \in Nat
      /\ \A i \in 1..Len(b) : r[i] = b[i]
      /\ \A i \in 1..Len(r) : i \notin 1..Len(b) => i - Len(b) \in 1..Len(k) /\ r[i] = k[i - Len(b)]
  BY <1>1, <1>2 DEF KeysAmong
<1>4. ASSUME NEW m \in 1..Len(k)
      PROVE  /\ k[m] \in Nat /\ h < k[m] /\ k[m] <= t
             /\ \A i \in 1..Len(b) : b[i] < k[m]
  <2>1. PICK i \in 1..Len(q) : IsKey(q[i]) /\ k[m] = q[i][2]
    BY <1>1, <1>2, <1>4 DEF KeysAmong
  <2> QED BY <2>1 DEF Waiting, Growing
<1>5. ASSUME NEW i \in 1..Len(r) PROVE h < r[i] /\ r[i] <= t
  BY <1>3, <1>4 DEF Buffered
<1>6. ASSUME NEW i \in 1..Len(r), NEW j \in 1..Len(r), i < j PROVE r[i] < r[j]
  <2>1. CASE j \in 1..Len(b)
    BY <1>3, <1>6, <2>1 DEF Buffered, Increasing
  <2>2. CASE i \in 1..Len(b) /\ j \notin 1..Len(b)
    BY <1>3, <1>4, <2>2
  <2>3. CASE i \notin 1..Len(b) /\ j \notin 1..Len(b)
    <3>1. /\ i - Len(b) \in 1..Len(k) /\ j - Len(b) \in 1..Len(k) /\ i - Len(b) < j - Len(b)
          /\ r[i] = k[i - Len(b)] /\ r[j] = k[j - Len(b)]
      BY <1>3, <1>6, <2>3
    <3>2. \A l, m \in 1..Len(k) : l < m => k[l] < k[m]
      BY <1>1, <1>2 DEF KeysAmong
    <3> HIDE DEF r
    <3> QED BY <3>1, <3>2
  <2> QED BY <1>3, <1>6, <2>1, <2>2, <2>3
<1> HIDE DEF r
<1>7. Buffered(r, h, t)
  BY <1>3, <1>5, <1>6 DEF Buffered, Increasing
<1> QED BY <1>2, <1>7 DEF r

LEMMA NoKeys ==
  ASSUME NEW S, NEW q \in Seq(S), \A i \in 1..Len(q) : ~IsKey(q[i])
  PROVE  Keys(q) = <<>>
<1>1. KeysAmong(Keys(q), q, Len(q))
  BY KeysFilter DEF Growing
<1>2. PICK k : k = Keys(q)
  OBVIOUS
<1>3. k \in Seq(Nat) /\ \A m : m \notin 1..Len(k)
  BY <1>1, <1>2 DEF KeysAmong
<1>4. Len(k) = 0
  <2>1. Len(k) \in Nat /\ 1 \notin 1..Len(k)
    BY <1>3
  <2> QED BY <2>1
<1> QED BY <1>2, <1>3, <1>4

\* The first of what is buffered is handled next.
LEMMA BufferedTakes ==
  ASSUME NEW b, NEW h \in Nat, NEW t \in Nat, Buffered(b, h, t), b # <<>>
  PROVE  /\ Head(b) \in Nat /\ h < Head(b) /\ Head(b) <= t
         /\ Buffered(Tail(b), Head(b), t)
<1> DEFINE r == Tail(b)
<1>1. /\ Len(b) \in Nat \ {0} /\ Len(r) = Len(b) - 1 /\ Head(b) = b[1] /\ b[1] \in Nat
      /\ r \in Seq(Nat) /\ \A i \in 1..(Len(b) - 1) : r[i] = b[i + 1]
  BY DEF Buffered
<1>2. ASSUME NEW i \in 1..Len(r) PROVE i + 1 \in 1..Len(b) /\ r[i] = b[i + 1] /\ 1 < i + 1
  BY <1>1
<1>3. 1 \in 1..Len(b)
  BY <1>1
<1> HIDE DEF r
<1>4. \A i \in 1..Len(r) : b[1] < r[i] /\ r[i] <= t
  BY <1>2, <1>3 DEF Buffered, Increasing
<1>5. \A l, m \in 1..Len(r) : l < m => r[l] < r[m]
  <2> SUFFICES ASSUME NEW l \in 1..Len(r), NEW m \in 1..Len(r), l < m PROVE r[l] < r[m]
    OBVIOUS
  <2>1. l + 1 < m + 1
    OBVIOUS
  <2> QED BY <1>2, <2>1 DEF Buffered, Increasing
<1>6. Buffered(r, b[1], t)
  BY <1>1, <1>4, <1>5 DEF Buffered, Increasing
<1>7. h < b[1] /\ b[1] <= t
  BY <1>3 DEF Buffered
<1> QED BY <1>1, <1>6, <1>7 DEF r

\* What is handled next was typed later, and is its owner's.
HandlesNext == handled' # handled => handled' > handled /\ owner' = Owner(handled')

quietVars == <<local, console, typed, buffer, owner, handled>>

LEMMA OrderStays ==
  ASSUME OrderInv, UNCHANGED <<quietVars, chan>>, pc' = "block" => buffer = <<>>
  PROVE  OrderInv' /\ HandlesNext
<1>1. UNCHANGED <<local, console, typed, buffer, owner, handled, chan>>
  BY DEF quietVars
<1> QED BY <1>1 DEF OrderInv, HandlesNext

\* A message that is not a key.
LEMMA OrderSent ==
  ASSUME TypeInv, OrderInv, NEW kind \in Kind \ {"key"}, NEW x \in Windows \cup Nat,
         Send(kind, x), UNCHANGED <<quietVars, pc>>
  PROVE  OrderInv' /\ HandlesNext
<1> DEFINE e == <<kind, x>>
<1>1. e \in Kind \X (Windows \cup Nat) /\ chan' = Append(chan, e) /\ ~IsKey(e)
      /\ chan \in Seq(Kind \X (Windows \cup Nat))
  BY DEF Send, IsKey, TypeInv
<1> HIDE DEF e
<1>2. Waiting(chan', handled, buffer, typed)
  <2>1. /\ handled \in Nat /\ typed \in Nat /\ handled <= typed /\ typed <= typed
        /\ Buffered(buffer, handled, typed) /\ Waiting(chan, handled, buffer, typed)
    BY DEF OrderInv, TypeInv
  <2> QED BY <1>1, <2>1, WaitingAdds
<1>3. (\A i \in 1..Len(chan) : ~IsKey(chan[i])) => \A i \in 1..Len(chan') : ~IsKey(chan'[i])
  <2>1. /\ Len(chan') = Len(chan) + 1 /\ Len(chan) \in Nat
        /\ \A i \in 1..(Len(chan) + 1) : chan'[i] = IF i = Len(chan) + 1 THEN e ELSE chan[i]
    BY <1>1
  <2> QED BY <1>1, <2>1
<1> QED BY <1>2, <1>3 DEF OrderInv, HandlesNext, quietVars

LEMMA OrderTyped ==
  ASSUME TypeInv, OrderInv, ViewerInput \/ ConsoleInput
  PROVE  OrderInv' /\ HandlesNext
<1> USE DEF eventVars
<1>1. /\ typed \in Nat /\ typed' = typed + 1 /\ handled \in Nat /\ handled <= typed
      /\ UNCHANGED <<local, buffer, owner, handled, pc>>
      /\ chan \in Seq(Kind \X (Windows \cup Nat)) /\ console \in Seq(Keyed)
  BY DEF ViewerInput, ConsoleInput, TypeInv, OrderInv
<1>2. Buffered(buffer, handled, typed') /\ handled <= typed' /\ typed' \in Nat /\ typed <= typed'
  BY <1>1 DEF OrderInv, Buffered
<1>3. ASSUME NEW e \in Inputs
      PROVE  /\ e \in Keyed /\ e \in Kind \X (Windows \cup Nat)
             /\ IsKey(e) => e[2] \in Nat /\ typed < e[2] /\ e[2] <= typed'
  <2>1. CASE e = <<"key", typed + 1>>
    BY <1>1, <2>1 DEF Keyed, Kind
  <2>2. CASE e = <<"release", 0>>
    <3>1. ~IsKey(e)
      BY <2>2 DEF IsKey
    <3> QED BY <2>2, <3>1 DEF Keyed, Kind
  <2> QED BY <2>1, <2>2 DEF Inputs
<1>4. CASE ViewerInput
  <2>1. ~local /\ UNCHANGED console /\ console = <<>>
    BY <1>4 DEF ViewerInput, OrderInv
  <2>2. PICK e \in Inputs : IF Room THEN Send(e[1], e[2]) ELSE UNCHANGED chan
    BY <1>4 DEF ViewerInput
  <2>3. Waiting(chan', handled, buffer, typed')
    <3>1. CASE UNCHANGED chan
      BY <1>1, <1>2, <3>1, WaitingLonger DEF OrderInv
    <3>2. CASE Send(e[1], e[2])
      <4>1. chan' = Append(chan, e)
        BY <1>3, <3>2 DEF Send, Keyed
      <4> QED BY <1>1, <1>2, <1>3, <4>1, WaitingAdds DEF OrderInv
    <3> QED BY <2>2, <3>1, <3>2
  <2>4. Waiting(console', handled, buffer, typed')
    BY <2>1, EmptyWaits
  <2> QED BY <1>1, <1>2, <2>1, <2>3, <2>4 DEF OrderInv, HandlesNext
<1>5. CASE ConsoleInput
  <2>1. local /\ UNCHANGED chan
    BY <1>5 DEF ConsoleInput
  <2>2. PICK e \in Inputs : console' = Append(console, e)
    BY <1>5 DEF ConsoleInput
  <2>3. Waiting(console', handled, buffer, typed') /\ console' \in Seq(Keyed)
    BY <1>1, <1>2, <1>3, <2>2, WaitingAdds DEF OrderInv
  <2>4. Waiting(chan', handled, buffer, typed')
    BY <1>1, <1>2, <2>1, WaitingLonger DEF OrderInv
  <2> QED BY <1>1, <1>2, <2>1, <2>3, <2>4 DEF OrderInv, HandlesNext
<1> QED BY <1>4, <1>5

\* poll hands out what was buffered first, and buffers the rest of what it drains.
LEMMA OrderPolled ==
  ASSUME TypeInv, OrderInv, PollBuffered PROVE OrderInv' /\ HandlesNext
<1> USE DEF eventVars
<1>1. /\ handled' = Head(Drained) /\ buffer' = Tail(Drained) /\ owner' = Owner(handled')
      /\ chan' = <<>> /\ console' = <<>> /\ pc' = "event" /\ UNCHANGED <<local, typed>>
      /\ ~NoInput
  BY DEF PollBuffered, Drain
<1>2. /\ chan \in Seq(Kind \X (Windows \cup Nat)) /\ console \in Seq(Keyed)
      /\ typed \in Nat /\ handled \in Nat /\ handled <= typed /\ buffer \in Seq(Nat)
      /\ Buffered(buffer, handled, typed)
      /\ Waiting(chan, handled, buffer, typed) /\ Waiting(console, handled, buffer, typed)
  BY DEF TypeInv, OrderInv, Buffered
<1>3. PICK c : c = Keys(chan)
  OBVIOUS
<1>4. PICK k : k = Keys(console)
  OBVIOUS
<1>5. Drained = buffer \o c \o k
  BY <1>3, <1>4 DEF Drained
<1>6. /\ KeysAmong(c, chan, Len(chan)) /\ KeysAmong(k, console, Len(console))
      /\ c \in Seq(Nat) /\ k \in Seq(Nat)
  BY <1>2, <1>3, <1>4, KeysFilter DEF Waiting, KeysAmong
<1>7. buffer # <<>> \/ c # <<>> \/ k # <<>>
  <2>1. CASE Of("key") # {}
    <3>1. PICK i \in DOMAIN chan : chan[i][1] = "key"
      BY <2>1 DEF Of
    <3>2. i \in 1..Len(chan)
      BY <1>2
    <3> QED BY <1>6, <3>1, <3>2 DEF KeysAmong, IsKey
  <2>2. ASSUME NEW i \in DOMAIN console, console[i][1] = "key" PROVE k # <<>>
    <3>1. i \in 1..Len(console)
      BY <1>2
    <3> QED BY <1>6, <2>2, <3>1 DEF KeysAmong, IsKey
  <2> QED BY <1>1, <2>1, <2>2 DEF NoInput
<1>8. Drained # <<>>
  BY <1>2, <1>5, <1>6, <1>7
<1>9. Buffered(Drained, handled, typed)
  <2>1. CASE local
    <3>1. c = <<>>
      BY <1>2, <1>3, <2>1, NoKeys DEF OrderInv
    <3>2. Drained = buffer \o k
      BY <1>2, <1>5, <1>6, <3>1
    <3> QED BY <1>2, <1>4, <3>2, BufferedJoined
  <2>2. CASE ~local
    <3>1. console = <<>> /\ \A i : i \notin 1..Len(<<>>)
      BY <2>2 DEF OrderInv
    <3>2. k = <<>>
      BY <1>2, <1>4, <3>1, NoKeys
    <3>3. Drained = buffer \o c
      BY <1>2, <1>5, <1>6, <3>2
    <3> QED BY <1>2, <1>3, <3>3, BufferedJoined
  <2> QED BY <2>1, <2>2
<1>10. PICK d : d = Drained
  OBVIOUS
<1>11. /\ handled' \in Nat /\ handled < handled' /\ handled' <= typed
       /\ Buffered(buffer', handled', typed)
  BY <1>1, <1>2, <1>8, <1>9, <1>10, BufferedTakes
<1>12. HandlesNext
  BY <1>1, <1>2, <1>11 DEF HandlesNext
<1>13. Waiting(chan', handled', buffer', typed') /\ Waiting(console', handled', buffer', typed')
  BY <1>1, EmptyWaits
<1>14. local' => owner' = 0
  BY <1>1 DEF Owner
<1>15. console' \in Seq(Keyed) /\ \A i \in 1..Len(chan') : ~IsKey(chan'[i])
  BY <1>1
<1> QED BY <1>1, <1>2, <1>11, <1>12, <1>13, <1>14, <1>15 DEF OrderInv

\* What ends the wait is taken past an empty buffer.
LEMMA OrderReceived ==
  ASSUME TypeInv, OrderInv, Receive \/ ReceiveConsole PROVE OrderInv' /\ HandlesNext
<1> USE DEF inputVars
<1>1. /\ chan \in Seq(Kind \X (Windows \cup Nat)) /\ console \in Seq(Keyed)
      /\ typed \in Nat /\ handled \in Nat /\ buffer = <<>>
      /\ Waiting(chan, handled, <<>>, typed) /\ Waiting(console, handled, <<>>, typed)
      /\ UNCHANGED <<buffer, typed, local>>
  BY DEF TypeInv, OrderInv, Receive, ReceiveConsole
<1>2. CASE Receive
  <2>1. chan # <<>> /\ chan' = Tail(chan) /\ UNCHANGED console
    BY <1>2 DEF Receive
  <2>2. \/ IsKey(Head(chan)) /\ handled' = Head(chan)[2]
           /\ owner' = IF local THEN owner ELSE Owner(Head(chan)[2])
        \/ ~IsKey(Head(chan)) /\ UNCHANGED <<handled, owner>>
    BY <1>2 DEF Receive, Ready, Filtered, IsKey
  <2>3. /\ Head(chan) = chan[1] /\ 1 \in 1..Len(chan)
        /\ \A i \in 1..Len(chan') : i + 1 \in 1..Len(chan) /\ chan'[i] = chan[i + 1]
    BY <1>1, <2>1
  <2>4. local => (\A i \in 1..Len(chan') : ~IsKey(chan'[i])) /\ ~IsKey(Head(chan))
    BY <2>3 DEF OrderInv
  <2>5. CASE IsKey(Head(chan)) /\ handled' = Head(chan)[2]
             /\ owner' = IF local THEN owner ELSE Owner(Head(chan)[2])
    <3>1. /\ handled' \in Nat /\ handled < handled' /\ handled' <= typed
          /\ Waiting(chan', handled', <<>>, typed)
      BY <1>1, <2>1, <2>5, WaitingTakes
    <3>2. ~local /\ console' = <<>> /\ owner' = Owner(handled')
      BY <2>1, <2>4, <2>5 DEF OrderInv
    <3>3. Waiting(console', handled', buffer', typed')
      BY <3>2, EmptyWaits
    <3>4. Buffered(buffer', handled', typed')
      BY <1>1 DEF Buffered, Increasing
    <3> QED BY <1>1, <3>1, <3>2, <3>3, <3>4 DEF OrderInv, HandlesNext
  <2>6. CASE ~IsKey(Head(chan)) /\ UNCHANGED <<handled, owner>>
    <3>1. Waiting(chan', handled', <<>>, typed)
      BY <1>1, <2>1, <2>6, WaitingTakes
    <3> QED BY <1>1, <2>1, <2>4, <2>6, <3>1 DEF OrderInv, HandlesNext
  <2> QED BY <2>2, <2>5, <2>6
<1>3. CASE ReceiveConsole
  <2>1. console # <<>> /\ console' = Tail(console) /\ UNCHANGED chan
    BY <1>3 DEF ReceiveConsole
  <2>2. \/ IsKey(Head(console)) /\ handled' = Head(console)[2]
           /\ owner' = IF local THEN owner ELSE Owner(Head(console)[2])
        \/ ~IsKey(Head(console)) /\ UNCHANGED <<handled, owner>>
    BY <1>3 DEF ReceiveConsole, Ready, Filtered, IsKey
  <2>3. local /\ owner = 0 /\ \A i \in 1..Len(chan) : ~IsKey(chan[i])
    BY <2>1 DEF OrderInv
  <2>4. console' \in Seq(Keyed)
    BY <1>1, <2>1
  <2>5. CASE IsKey(Head(console)) /\ handled' = Head(console)[2]
             /\ owner' = IF local THEN owner ELSE Owner(Head(console)[2])
    <3>1. /\ handled' \in Nat /\ handled < handled' /\ handled' <= typed
          /\ Waiting(console', handled', <<>>, typed)
      BY <1>1, <2>1, <2>5, WaitingTakes
    <3>2. Waiting(chan', handled', buffer', typed')
      BY <2>1, <2>3, NothingWaits
    <3>3. Buffered(buffer', handled', typed')
      BY <1>1 DEF Buffered, Increasing
    <3>4. owner' = 0 /\ owner' = Owner(handled')
      BY <2>3, <2>5 DEF Owner
    <3> QED BY <1>1, <2>1, <2>3, <2>4, <3>1, <3>2, <3>3, <3>4 DEF OrderInv, HandlesNext
  <2>6. CASE ~IsKey(Head(console)) /\ UNCHANGED <<handled, owner>>
    <3>1. Waiting(console', handled', <<>>, typed)
      BY <1>1, <2>1, <2>6, WaitingTakes
    <3> QED BY <1>1, <2>1, <2>3, <2>4, <2>6, <3>1 DEF OrderInv, HandlesNext
  <2> QED BY <2>2, <2>5, <2>6
<1> QED BY <1>2, <1>3

LEMMA OrderKept ==
  ASSUME TypeInv, OrderInv, [Next]_vars PROVE OrderInv' /\ HandlesNext
<1> USE DEF quietVars, inputVars, childVars, ptyVars, wmVars, setVars, eventVars, drawVars
<1>1. ASSUME NEW w \in Windows,
             ReaderRead(w) \/ ReaderEnd(w) \/ ReaderParse(w) \/ ReaderRaise(w) \/ Die(w)
      PROVE  OrderInv' /\ HandlesNext
  <2>1. UNCHANGED <<quietVars, chan, pc>>
    BY <1>1 DEF ReaderRead, ReaderEnd, ReaderParse, ReaderRaise, Die
  <2> QED BY <2>1, OrderStays DEF OrderInv
<1>2. ASSUME NEW w \in Windows, ReaderSend(w) PROVE OrderInv' /\ HandlesNext
  <2>1. PICK kind \in {"mode", "wakeup"} : Send(kind, w)
    BY <1>2 DEF ReaderSend
  <2>2. UNCHANGED <<quietVars, pc>>
    BY <1>2 DEF ReaderSend
  <2> QED BY <2>1, <2>2, OrderSent DEF Kind
<1>3. ASSUME NEW w \in Windows, ReaderExit(w) PROVE OrderInv' /\ HandlesNext
  <2>1. UNCHANGED <<quietVars, pc>> /\ (UNCHANGED chan \/ Send("exited", w))
    BY <1>3 DEF ReaderExit
  <2> QED BY <2>1, OrderSent, OrderStays DEF Kind, OrderInv
<1>4. CASE TimePasses
  <2>1. UNCHANGED <<quietVars, chan, pc>>
    BY <1>4 DEF TimePasses, Passes
  <2> QED BY <2>1, OrderStays DEF OrderInv
<1>5. CASE HandleNone \/ HandleEvent
  <2>1. UNCHANGED <<quietVars, chan>> /\ pc' # "block"
    BY <1>5 DEF HandleNone, HandleEvent, Poll
  <2> QED BY <2>1, OrderStays
<1>6. CASE DrawStart
  <2>1. cur' \in Windows /\ UNCHANGED <<quietVars, pc>> /\ (UNCHANGED chan \/ Send("exited", cur'))
    BY <1>6 DEF DrawStart, TypeInv
  <2> QED BY <2>1, OrderSent, OrderStays DEF Kind, OrderInv
<1>7. CASE DrawCells \/ DrawEnd \/ DrawPanic
  <2>1. UNCHANGED <<quietVars, chan>> /\ pc' # "block"
    BY <1>7 DEF DrawCells, DrawEnd, DrawPanic, Poll
  <2> QED BY <2>1, OrderStays
<1>8. CASE PollEmpty
  <2>1. /\ chan' = <<>> /\ console' = <<>> /\ buffer = <<>>
        /\ UNCHANGED <<local, typed, buffer, owner, handled>>
    BY <1>8 DEF PollEmpty, Drain, NoInput
  <2>2. Waiting(chan', handled', buffer', typed') /\ Waiting(console', handled', buffer', typed')
    BY <2>1, EmptyWaits
  <2>3. console' \in Seq(Keyed) /\ \A i \in 1..Len(chan') : ~IsKey(chan'[i])
    BY <2>1
  <2> QED BY <2>1, <2>2, <2>3 DEF OrderInv, HandlesNext
<1>9. CASE TimeOut \/ HourPasses
  <2>1. UNCHANGED <<quietVars, chan>> /\ pc' # "block"
    BY <1>9 DEF TimeOut, HourPasses, Idle
  <2> QED BY <2>1, OrderStays
<1>10. CASE UNCHANGED vars
  <2>1. UNCHANGED <<quietVars, chan, pc>>
    BY <1>10 DEF vars
  <2> QED BY <2>1, OrderStays DEF OrderInv
<1> QED
  BY <1>1, <1>2, <1>3, <1>4, <1>5, <1>6, <1>7, <1>8, <1>9, <1>10, OrderTyped, OrderPolled,
     OrderReceived
  DEF Next, Reader, Loop

\* Input is handled in the order in which it was typed, none of it twice, and with
\* the connection it came from as the owner.
THEOREM InputHandledInOrder == Spec => InputKeepsOrder
<1>1. Init => OrderInv
  <2> SUFFICES ASSUME Init PROVE OrderInv
    OBVIOUS
  <2>1. chan = <<>> /\ console = <<>> /\ buffer = <<>> /\ handled = 0 /\ typed = 0 /\ owner = 0
    BY DEF Init
  <2>2. Buffered(buffer, handled, typed)
    BY <2>1 DEF Buffered, Increasing
  <2>3. console \in Seq(Keyed) /\ \A i \in 1..Len(chan) : ~IsKey(chan[i])
    BY <2>1
  <2> QED BY <2>1, <2>2, <2>3, EmptyWaits DEF OrderInv
<1>2. TypeInv /\ OrderInv /\ [Next]_vars => OrderInv' /\ [HandlesNext]_<<handled, owner>>
  BY OrderKept
<1>3. [HandlesNext]_<<handled, owner>>
        => [handled' # handled => handled' > handled /\ owner' = Owner(handled')]_<<handled, owner>>
  BY DEF HandlesNext
<1> QED BY <1>1, <1>2, <1>3, LoopHolds, PTL DEF Spec, InputKeepsOrder
=============================================================================
