--------------------------- MODULE MCSnapTimeSync ---------------------------
(***************************************************************************)
(* Instances of SnapTimeSync for TLC: the constants are given in the       *)
(* configurations MCSnapTimeSync*.cfg.                                     *)
(***************************************************************************)
EXTENDS SnapTimeSync
=============================================================================
