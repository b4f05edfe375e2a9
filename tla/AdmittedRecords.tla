--------------------------- MODULE AdmittedRecords ---------------------------
(***************************************************************************)
(* The record of an admitted model: the claims that were accepted, what    *)
(* was observed of its artifacts, a newer declaration that is pending.     *)
(* One claim, the architecture, stands for the four.  Each operator is the *)
(* record a command writes, Rejected when it raises and writes nothing.    *)
(***************************************************************************)
CONSTANTS Claim,     \* values of the claim
          Unknown    \* no value

ASSUME ClaimAssumption == Unknown \notin Claim

Value == Claim \cup {Unknown}

Record == [described : {TRUE}, accepted : Value, observed : SUBSET Claim,
           pending : [given : BOOLEAN, claim : Value]]

NoDeclaration == [given |-> FALSE, claim |-> Unknown]

NoRecord == [described |-> FALSE, accepted |-> Unknown, observed |-> {}, pending |-> NoDeclaration]

Rejected == [NoRecord EXCEPT !.observed = {Unknown}]

(* Only an identical description may be repeated.                          *)
Describe(record, claim) ==
    IF ~record.described THEN [NoRecord EXCEPT !.described = TRUE, !.accepted = claim]
    ELSE IF record.accepted = claim THEN record ELSE Rejected

RecordObservation(record, claim) ==
    IF record.described THEN [record EXCEPT !.observed = @ \cup {claim}] ELSE Rejected

Refresh(record, claim) ==
    IF record.described
    THEN [record EXCEPT !.pending = [given |-> TRUE, claim |-> claim]] ELSE Rejected

Decision == {"keep_accepted", "accept_pending", "mark_unknown"}

Reconcile(record, decision) ==
    IF ~record.described \/ (decision # "keep_accepted" /\ ~record.pending.given)
    THEN Rejected
    ELSE [record EXCEPT
            !.pending = NoDeclaration,
            !.accepted = CASE decision = "keep_accepted"  -> @
                           [] decision = "accept_pending" -> record.pending.claim
                           [] decision = "mark_unknown"   -> Unknown]

(* An accepted claim and an observation that contradicts it.               *)
MaterialConflict(record) ==
    /\ record.accepted # Unknown
    /\ \E claim \in record.observed : claim # record.accepted
=============================================================================
