---------------------------- MODULE MCMediaStore ----------------------------
(* Small instances of MediaStore for TLC.                                   *)
EXTENDS MediaStore, TLC
Alike == Permutations(Handler) \cup Permutations(Clip) \cup Permutations(Slot)
=============================================================================
