---------------------------- MODULE MCPtyReader ----------------------------
(* Model values for model-checking PtyReader.                              *)
EXTENDS PtyReader

CONSTANTS small, large

TwoSizes == {small, large}
OneSize  == {small}
=============================================================================
