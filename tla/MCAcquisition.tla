---------------------------- MODULE MCAcquisition ----------------------------
EXTENDS Acquisition, TLC

CONSTANTS curated, discovered, q4, q8, mc, mf

Identity == [l \in Locator |-> IF l = curated THEN mc ELSE mf]

(* The discovered repository gains a file with its second revision, which  *)
(* the selection leaves out; the curated one has nothing to select.        *)
Trees == [l \in Locator |-> IF l = curated THEN <<{q8}>> ELSE <<{q4}, {q4, q8}>>]

Labels == [f \in File |-> IF f = q4 THEN "Q4_K_M" ELSE "Q8_0"]

Selections == {[quant |-> "Q4_K_M", file |-> None, rev |-> None]}

Interchangeable == Permutations(Process)
=============================================================================
