---------------------------- MODULE MCPushEvents ----------------------------
(* A small instance of PushEvents for TLC.                                  *)
EXTENDS PushEvents, TLC
ContentSymmetry == Permutations(Content)
=============================================================================
