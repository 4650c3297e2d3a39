---------------------------- MODULE MCShareSpool ----------------------------
(* Small instances of ShareSpool for TLC.                                   *)
EXTENDS ShareSpool
=============================================================================
