------------------------------ MODULE MCAvatar ------------------------------
(* Small instances of Avatar for TLC.                                       *)
EXTENDS Avatar
=============================================================================
