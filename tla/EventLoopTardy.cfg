\* A deadline passes between try_expire and time_until_deadline.
\* With PROPERTY ExitedWindowsClose in place of the last line:
\* the exit reported while the loop is drawing.
SPECIFICATION Spec
CONSTANTS
  w1 = w1
  w2 = w2
  NoWindow = NoWindow
  Windows = {w1}
  Consoles = {FALSE}
  Cap = 8
  MaxEvents = 2
INVARIANT DeadlinesAreSeen
