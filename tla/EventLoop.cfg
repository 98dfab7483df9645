\* A terminal, with a console or with viewers, and any three events.
SPECIFICATION Spec
CONSTANTS
  w1 = w1
  w2 = w2
  NoWindow = NoWindow
  Windows = {w1}
  Consoles = {FALSE, TRUE}
  Cap = 8
  MaxEvents = 3
INVARIANTS NeverOversleeps NothingForgotten
PROPERTIES InputKeepsOrder OutputAppears
