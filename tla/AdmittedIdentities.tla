------------------------- MODULE AdmittedIdentities -------------------------
(***************************************************************************)
(* What the identity admission registry promises: a locator is bound once, *)
(* to an identity no other locator holds and curated authority does not    *)
(* contradict, and a binding is never changed or removed.                  *)
(***************************************************************************)
CONSTANTS Locator, ModelId, Unbound, Curated

VARIABLE bound

Init == bound = [l \in Locator |-> Unbound]

Admit(l, m) ==
    /\ bound[l] = Unbound
    /\ m \notin {bound[o] : o \in Locator}
    /\ Curated[l] \in {Unbound, m}
    /\ bound' = [bound EXCEPT ![l] = m]

Next == \E l \in Locator, m \in ModelId : Admit(l, m)

Spec == Init /\ [][Next]_bound
=============================================================================
