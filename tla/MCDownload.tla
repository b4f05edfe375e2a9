----------------------------- MODULE MCDownload -----------------------------
(* Model values and bounds for the Download runs are given in the cfg      *)
(* files; inodes and processes carry no order, so they are interchangeable *)
(* in the runs that check no liveness.                                     *)
EXTENDS Download, TLC

Interchangeable == Permutations(Inode) \cup Permutations(Proc)
=============================================================================
