---------------------- MODULE MCSnapProcessorBuffered ----------------------
(***************************************************************************)
(* Instances of SnapProcessorBuffered for TLC: the constants are given in  *)
(* the configurations MCSnapProcessorBuffered*.cfg.                        *)
(***************************************************************************)
EXTENDS SnapProcessorBuffered
=============================================================================
