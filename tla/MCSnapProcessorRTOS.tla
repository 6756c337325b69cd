------------------------ MODULE MCSnapProcessorRTOS ------------------------
(***************************************************************************)
(* Instances of SnapProcessorRTOS for TLC: the constants are given in the  *)
(* configurations MCSnapProcessorRTOS*.cfg.                                *)
(***************************************************************************)
EXTENDS SnapProcessorRTOS
=============================================================================
