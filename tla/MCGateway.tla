----------------------------- MODULE MCGateway -----------------------------
(* Model values and symmetry for model-checking Gateway.                   *)
EXTENDS Gateway, TLC

CONSTANTS v1, v2, a1, dev

OneViewer  == {v1}
ViewerPair == {v1, v2}
OneAdmin   == {a1}
OneName    == {dev}

\* Viewers run the same code; no formula names one of them.
ViewerSymmetry == Permutations(ViewerPair)
=============================================================================
