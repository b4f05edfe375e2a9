------------------------ MODULE MCIdentityAdmission -------------------------
EXTENDS IdentityAdmission

CONSTANTS l1, l2, m1, m2

(* l1 is curated as m1; l2 is not curated.                                 *)
CuratedTable == [l \in Locator |-> IF l = l1 THEN m1 ELSE Unbound]
=============================================================================
