---------------------------- MODULE MCVoiceLogic ----------------------------
(* Instances of VoiceLogic with one thread that interrupts.                 *)
EXTENDS VoiceLogic

CONSTANT key22

OneBreaker == {key22}
=============================================================================
