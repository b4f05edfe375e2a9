-------------------------- MODULE WriteOnceArtifact --------------------------
(***************************************************************************)
(* What one acquisition directory promises its readers: the complete file  *)
(* of one revision appears at the final name in one step, is never         *)
(* replaced, and is recorded as what it is.  Only an operator's explicit   *)
(* deletion takes it away, perhaps before it is recorded.                  *)
(***************************************************************************)
CONSTANTS Rev, Nothing

VARIABLES stored,   \* the revision whose complete file has the final name
          recorded, \* the revision manifest.json records
          deleted   \* an operator has deleted something here

Init == stored = Nothing /\ recorded = Nothing /\ deleted = FALSE

Publish(r) ==
    /\ stored = Nothing
    /\ stored' = r
    /\ UNCHANGED <<recorded, deleted>>

Record(r) ==
    /\ stored = r \/ (deleted /\ stored = Nothing)
    /\ recorded' = r
    /\ UNCHANGED <<stored, deleted>>

Delete ==
    /\ stored' \in {stored, Nothing}
    /\ deleted' = TRUE
    /\ UNCHANGED recorded

Next == Delete \/ \E r \in Rev : Publish(r) \/ Record(r)

Spec == Init /\ [][Next]_<<stored, recorded, deleted>>
=============================================================================
