--------------------------- MODULE MCSystemTasks ----------------------------
(* Two windows, which nothing tells apart, and the tasks there can be.      *)
EXTENDS SystemTasks, TLC

CONSTANTS w1, w2

MCTask ==
  {DragSnap, ClearTabOutline} \cup {FlushDirectModeToast(w) : w \in Windows}
  \cup {DismissNotification(n) : n \in 0..MaxId}

Symmetry == Permutations(Windows)
=============================================================================
