----------------------- MODULE MCSnapProcessorRP2040 -----------------------
(***************************************************************************)
(* Instances of SnapProcessorRP2040 for TLC: the constants are given in    *)
(* the configurations MCSnapProcessorRP2040*.cfg.                          *)
(***************************************************************************)
EXTENDS SnapProcessorRP2040
=============================================================================
