---------------------------- MODULE MCGeometry ------------------------------
(* Model values for model-checking Geometry.                               *)
EXTENDS Geometry

CONSTANTS v1, v2

ViewerPair == {v1, v2}

\* Each is smaller than the other one way, and one is too small for a PTY.
Crossed == {<<1, 4>>, <<3, 3>>}
=============================================================================
