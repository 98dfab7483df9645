\* The loop sends to the channel only it empties.
SPECIFICATION Spec
CONSTANTS
  w1 = w1
  w2 = w2
  NoWindow = NoWindow
  Windows = {w1}
  Consoles = {FALSE}
  Cap = 2
  MaxEvents = 4
CHECK_DEADLOCK FALSE
INVARIANTS LoopTypeOK NeverStuck
