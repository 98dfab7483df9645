---------------------------- MODULE MCEventLoop ----------------------------
(***************************************************************************)
(* EventLoop on small instances.                                           *)
(***************************************************************************)
EXTENDS EventLoop

CONSTANTS w1, w2

=============================================================================
