--------------------------- MODULE MCVoicePreview ---------------------------
(* Small instances of VoicePreview for TLC.                                 *)
EXTENDS VoicePreview
=============================================================================
