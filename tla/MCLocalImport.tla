---------------------------- MODULE MCLocalImport ----------------------------
(* Model values and bounds are given in the cfg file; liveness is checked,  *)
(* so that no symmetry is declared.                                         *)
EXTENDS LocalImport
=============================================================================
