--------------------------- MODULE MCGatewayInput ---------------------------
(* Model values and symmetry for model-checking GatewayInput.              *)
EXTENDS GatewayInput, TLC

CONSTANTS v1, w1, w2, dev, ops

OneViewer  == {v1}
OneWm      == {w1}
WmPair     == {w1, w2}
OneName    == {dev}
NamePair   == {dev, ops}

\* Window managers run the same code; no formula names one of them.
WmSymmetry == Permutations(WmPair)
=============================================================================
