--------------------------- MODULE MCVoiceSettings ---------------------------
(* VoiceSettings with two voices and two packs. *)
EXTENDS VoiceSettings

MCPack == 1..2
=============================================================================
