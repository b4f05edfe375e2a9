------------------------- MODULE OpenVINOChat_proofs --------------------------
(***************************************************************************)
(* For any number of request threads, services and devices: types, and     *)
(* what the close of a session and of the shared service promise.          *)
(***************************************************************************)
EXTENDS OpenVINOChat, FiniteSetTheorems, TLAPS

Handler == Thread \ {Main}

(* A turn between its admission and its finally block.                     *)
Turning(t) ==
    \/ call[t].at \in {"admitted", "finish"}
    \/ Turn(t) /\ call[t].at \in {"generate", "obtain", "run"}

(* Which service a call works on.                                          *)
ServiceFits ==
    \A t \in Thread :
        /\ call[t].at \in {"send", "admitted", "finish"} => Turn(t)
        /\ call[t].at \in {"generate", "obtain", "run"} /\ ~Turn(t)
             => call[t].service = shared /\ shared # NoService
        /\ call[t].at = "create"
             => call[t].service = IF creating = t THEN shared ELSE NoService
        /\ call[t].at \in {"closing", "leave"} => call[t].service = shared

(* What a call will answer, where that is decided.                         *)
ResultFits ==
    \A t \in Thread :
        /\ call[t].at = "idle" => call[t].result = "none"
        /\ call[t].at = "finish" => call[t].result \in {"turn", "failed"}
        /\ call[t].at \in {"asleep", "woken"} => call[t].result \in {"closed", "already closed"}
        /\ call[t].at \in {"drained", "drop"} => call[t].result = "closed"

(* The session lock is held from a turn's admission to its end, so there   *)
(* is at most one turn.                                                    *)
SessionHeld ==
    /\ \A t \in Thread : sessionLock = t <=> Turning(t)
    /\ activeSends = IF sessionLock = NoThread THEN 0 ELSE 1

(* Between two steps the condition is only held by who closes the service. *)
ConditionHeld ==
    \A t \in Thread : condition = t <=> call[t].at \in {"drained", "drop"}

CreationHeld == \A t \in Thread : creating = t => At(t, "create")

PipelineHeld ==
    \A t \in Thread : call[t].at \in {"obtain", "run"} => pipelineLock[call[t].service] = t

(* The session's service is closed when no turn is under way, and then no  *)
(* turn is ever admitted.                                                  *)
Drained ==
    /\ \A t \in Thread : call[t].at \in {"drained", "drop"} => closed /\ sessionLock = NoThread
    /\ \A t \in Thread : call[t].at \in {"asleep", "woken"} => closed
    /\ \A t \in Thread : At(t, "drop") => serviceClosed[Own]
    /\ serviceClosed[Own] => closed /\ sessionLock = NoThread

(* The main thread waits for all others before it closes anything.         *)
MainLast ==
    /\ call[Main].at \in {"idle", "closing", "leave", "close", "asleep", "woken",
                          "drained", "drop", "done"}
    /\ ~At(Main, "idle") => \A t \in Handler : At(t, "done")
    /\ \A t \in Handler : call[t].at \notin {"closing", "leave"}
    /\ At(Main, "leave") => shared # NoService /\ serviceClosed[shared]

SharedFits ==
    /\ shared \in Shareable \cup {NoService}
    /\ created = {shared} \ {NoService}

(* The turns that were completed.                                          *)
Completed == {t \in Thread : At(t, "done") /\ Turn(t) /\ call[t].result = "turn"}

TurnsCounted == turns = Cardinality(Completed)

Typed ==
    /\ ServiceTypeOK
    /\ call \in [Thread -> Call]
    /\ sessionLock \in Thread \cup {NoThread}
    /\ condition \in Thread \cup {NoThread}
    /\ closed \in BOOLEAN
    /\ creating \in Thread \cup {NoThread}

IInv == /\ Typed
        /\ ServiceFits
        /\ ResultFits
        /\ SessionHeld
        /\ ConditionHeld
        /\ CreationHeld
        /\ PipelineHeld
        /\ Drained
        /\ MainLast
        /\ SharedFits
        /\ TurnsCounted
        /\ AdmittedIsServed
        /\ ClosedIsReleased

-----------------------------------------------------------------------------
(* Each step preserves the invariant: what it does to its call (<1>1, <1>2),  *)
(* to the other variables (<1>3), and then one part of the invariant a step. *)
LEMMA RequestTurnKeeps ==
    ASSUME IInv, NEW t \in Thread, RequestTurn(t)
    PROVE  IInv'
<1>. USE ChatAssumption, ServiceAssumption DEF ChatAssumption, ServiceAssumption
<1>1. call' \in [Thread -> Call]
    <2>1. {"send"} \subseteq Label
        BY DEF Label
    <2>. QED
        BY <2>1 DEF IInv, Typed, Call, At, RequestTurn
<1>2. /\ \A s \in Thread \ {t} : call'[s] = call[s]
      /\ call'[t].at = "send" /\ call'[t].service = Own /\ call'[t].result = call[t].result
      /\ call[t].at = "idle" /\ t # Main
    BY DEF IInv, Typed, Call, At, RequestTurn
<1>3. UNCHANGED <<serviceVars, sessionVars, sharedVars>>
    BY DEF RequestTurn
<1>4. ServiceFits'
    BY <1>2, <1>3 DEF IInv, ServiceFits, Turn, sharedVars
<1>5. ResultFits'
    BY <1>2 DEF IInv, ResultFits
<1>6. SessionHeld'
    BY <1>2, <1>3 DEF IInv, SessionHeld, Turning, Turn, sessionVars
<1>7. ConditionHeld'
    BY <1>2, <1>3 DEF IInv, ConditionHeld, sessionVars
<1>8. CreationHeld'
    BY <1>2, <1>3 DEF IInv, CreationHeld, At, sharedVars
<1>9. PipelineHeld'
    BY <1>2, <1>3 DEF IInv, PipelineHeld, serviceVars
<1>10. Drained'
    BY <1>2, <1>3 DEF IInv, Drained, At, serviceVars, sessionVars
<1>11. MainLast'
    BY <1>2, <1>3 DEF IInv, MainLast, At, Handler, sharedVars, serviceVars
<1>12. SharedFits'
    BY <1>2, <1>3 DEF IInv, SharedFits, Shareable, sharedVars
<1>13. AdmittedIsServed'
    BY <1>2 DEF IInv, AdmittedIsServed, Turn, ResultFits
<1>14. ClosedIsReleased'
    BY <1>2, <1>3 DEF IInv, ClosedIsReleased, Released, At, serviceVars,
        sharedVars
<1>15. Completed' = Completed
    BY <1>2 DEF IInv, Completed, At, Turn
<1>. QED
    BY <1>1, <1>2, <1>3, <1>4, <1>5, <1>6, <1>7, <1>8, <1>9, <1>10, <1>11, <1>12, <1>13,
        <1>14, <1>15
       DEF IInv, Typed, ServiceTypeOK, TurnsCounted, serviceVars, sessionVars,
        sharedVars

LEMMA RequestInferenceKeeps ==
    ASSUME IInv, NEW t \in Thread, NEW device \in Device, RequestInference(t, device)
    PROVE  IInv'
<1>. USE ChatAssumption, ServiceAssumption DEF ChatAssumption, ServiceAssumption
<1>1. call' \in [Thread -> Call]
    <2>1. {"infer"} \subseteq Label
        BY DEF Label
    <2>. QED
        BY <2>1 DEF IInv, Typed, Call, At, RequestInference
<1>2. /\ \A s \in Thread \ {t} : call'[s] = call[s]
      /\ call'[t].at = "infer" /\ call'[t].service = call[t].service
      /\ call'[t].result = call[t].result
      /\ call[t].at = "idle" /\ t # Main
    BY DEF IInv, Typed, Call, At, RequestInference
<1>3. UNCHANGED <<serviceVars, sessionVars, sharedVars>>
    BY DEF RequestInference
<1>4. ServiceFits'
    BY <1>2, <1>3 DEF IInv, ServiceFits, Turn, sharedVars
<1>5. ResultFits'
    BY <1>2 DEF IInv, ResultFits
<1>6. SessionHeld'
    BY <1>2, <1>3 DEF IInv, SessionHeld, Turning, Turn, sessionVars
<1>7. ConditionHeld'
    BY <1>2, <1>3 DEF IInv, ConditionHeld, sessionVars
<1>8. CreationHeld'
    BY <1>2, <1>3 DEF IInv, CreationHeld, At, sharedVars
<1>9. PipelineHeld'
    BY <1>2, <1>3 DEF IInv, PipelineHeld, serviceVars
<1>10. Drained'
    BY <1>2, <1>3 DEF IInv, Drained, At, serviceVars, sessionVars
<1>11. MainLast'
    BY <1>2, <1>3 DEF IInv, MainLast, At, Handler, sharedVars, serviceVars
<1>12. SharedFits'
    BY <1>2, <1>3 DEF IInv, SharedFits, Shareable, sharedVars
<1>13. AdmittedIsServed'
    BY <1>2 DEF IInv, AdmittedIsServed, Turn
<1>14. ClosedIsReleased'
    BY <1>2, <1>3 DEF IInv, ClosedIsReleased, Released, At, serviceVars,
        sharedVars
<1>15. Completed' = Completed
    BY <1>2 DEF IInv, Completed, At, Turn
<1>. QED
    BY <1>1, <1>2, <1>3, <1>4, <1>5, <1>6, <1>7, <1>8, <1>9, <1>10, <1>11, <1>12, <1>13,
        <1>14, <1>15
       DEF IInv, Typed, ServiceTypeOK, TurnsCounted, serviceVars, sessionVars,
        sharedVars

LEMMA RequestCloseKeeps ==
    ASSUME IInv, NEW t \in Thread, RequestClose(t)
    PROVE  IInv'
<1>. USE ChatAssumption, ServiceAssumption DEF ChatAssumption, ServiceAssumption
<1>1. call' \in [Thread -> Call]
    <2>1. {"close"} \subseteq Label
        BY DEF Label
    <2>. QED
        BY <2>1 DEF IInv, Typed, Call, At, RequestClose
<1>2. /\ \A s \in Thread \ {t} : call'[s] = call[s]
      /\ call'[t].at = "close" /\ call'[t].service = call[t].service
      /\ call'[t].result = call[t].result
      /\ call[t].at = "idle" /\ t # Main
    BY DEF IInv, Typed, Call, At, RequestClose
<1>3. UNCHANGED <<serviceVars, sessionVars, sharedVars>>
    BY DEF RequestClose
<1>4. ServiceFits'
    BY <1>2, <1>3 DEF IInv, ServiceFits, Turn, sharedVars
<1>5. ResultFits'
    BY <1>2 DEF IInv, ResultFits
<1>6. SessionHeld'
    BY <1>2, <1>3 DEF IInv, SessionHeld, Turning, Turn, sessionVars
<1>7. ConditionHeld'
    BY <1>2, <1>3 DEF IInv, ConditionHeld, sessionVars
<1>8. CreationHeld'
    BY <1>2, <1>3 DEF IInv, CreationHeld, At, sharedVars
<1>9. PipelineHeld'
    BY <1>2, <1>3 DEF IInv, PipelineHeld, serviceVars
<1>10. Drained'
    BY <1>2, <1>3 DEF IInv, Drained, At, serviceVars, sessionVars
<1>11. MainLast'
    BY <1>2, <1>3 DEF IInv, MainLast, At, Handler, sharedVars, serviceVars
<1>12. SharedFits'
    BY <1>2, <1>3 DEF IInv, SharedFits, Shareable, sharedVars
<1>13. AdmittedIsServed'
    BY <1>2 DEF IInv, AdmittedIsServed, Turn
<1>14. ClosedIsReleased'
    BY <1>2, <1>3 DEF IInv, ClosedIsReleased, Released, At, serviceVars,
        sharedVars
<1>15. Completed' = Completed
    BY <1>2 DEF IInv, Completed, At, Turn
<1>. QED
    BY <1>1, <1>2, <1>3, <1>4, <1>5, <1>6, <1>7, <1>8, <1>9, <1>10, <1>11, <1>12, <1>13,
        <1>14, <1>15
       DEF IInv, Typed, ServiceTypeOK, TurnsCounted, serviceVars, sessionVars,
        sharedVars

LEMMA AdmitTurnKeeps ==
    ASSUME IInv, NEW t \in Thread, AdmitTurn(t)
    PROVE  IInv'
<1>. USE ChatAssumption, ServiceAssumption DEF ChatAssumption, ServiceAssumption
<1>0. \/ /\ closed /\ UNCHANGED <<sessionLock, activeSends>>
         /\ call' = [call EXCEPT ![t].at = "done", ![t].result = "session closed"]
      \/ /\ ~closed /\ sessionLock' = t /\ activeSends' = activeSends + 1
         /\ call' = [call EXCEPT ![t].at = "admitted"]
    BY DEF AdmitTurn, Finish, Goto, At
<1>1. call' \in [Thread -> Call]
    <2>1. {"admitted", "done"} \subseteq Label /\ {"session closed"} \subseteq Result
        BY DEF Label, Result
    <2>2. CASE /\ closed /\ UNCHANGED <<sessionLock, activeSends>>
               /\ call' = [call EXCEPT ![t].at = "done", ![t].result = "session closed"]
        BY <2>1, <2>2 DEF IInv, Typed, Call
    <2>3. CASE /\ ~closed /\ sessionLock' = t /\ activeSends' = activeSends + 1
               /\ call' = [call EXCEPT ![t].at = "admitted"]
        BY <2>1, <2>3 DEF IInv, Typed, Call
    <2>. QED
        BY <1>0, <2>2, <2>3
<1>2. /\ \A s \in Thread \ {t} : call'[s] = call[s]
      /\ call'[t].service = call[t].service
      /\ call[t].at = "send"
      /\ sessionLock = NoThread /\ condition = NoThread
      /\ \/ /\ closed /\ call'[t].at = "done" /\ call'[t].result = "session closed"
            /\ UNCHANGED <<sessionLock, activeSends>>
         \/ /\ ~closed /\ call'[t].at = "admitted" /\ call'[t].result = call[t].result
            /\ sessionLock' = t /\ activeSends' = activeSends + 1
    <2>1. call[t].at = "send" /\ sessionLock = NoThread /\ condition = NoThread
        BY DEF AdmitTurn, At
    <2>2. CASE /\ closed /\ UNCHANGED <<sessionLock, activeSends>>
               /\ call' = [call EXCEPT ![t].at = "done", ![t].result = "session closed"]
        BY <2>1, <2>2 DEF IInv, Typed, Call
    <2>3. CASE /\ ~closed /\ sessionLock' = t /\ activeSends' = activeSends + 1
               /\ call' = [call EXCEPT ![t].at = "admitted"]
        BY <2>1, <2>3 DEF IInv, Typed, Call
    <2>. QED
        BY <1>0, <2>2, <2>3
<1>3. UNCHANGED <<serviceVars, condition, closed, turns, sharedVars>>
    BY DEF AdmitTurn
<1>4. ServiceFits'
    BY <1>2, <1>3 DEF IInv, ServiceFits, Turn, sharedVars
<1>5. ResultFits'
    BY <1>2 DEF IInv, ResultFits
<1>6. SessionHeld'
    <2>1. activeSends = 0 /\ sessionLock = NoThread
        BY <1>2 DEF IInv, SessionHeld
    <2>2. (activeSends = IF sessionLock = NoThread THEN 0 ELSE 1)'
        <3>1. CASE closed
            BY <1>2, <2>1, <3>1
        <3>2. CASE ~closed
            <4>1. activeSends' = activeSends + 1 /\ sessionLock' = t
                BY <1>2, <3>2
            <4>. QED
                BY <2>1, <4>1
        <3>. QED
            BY <3>1, <3>2
    <2>3. ASSUME NEW s \in Thread PROVE (sessionLock = s <=> Turning(s))'
        BY <1>2, <2>1, <2>3 DEF IInv, SessionHeld, Turning, Turn, ServiceFits
    <2>. QED
        BY <2>2, <2>3 DEF SessionHeld
<1>7. ConditionHeld'
    BY <1>2, <1>3 DEF IInv, ConditionHeld, sessionVars
<1>8. CreationHeld'
    BY <1>2, <1>3 DEF IInv, CreationHeld, At, sharedVars
<1>9. PipelineHeld'
    BY <1>2, <1>3 DEF IInv, PipelineHeld, serviceVars
<1>10. Drained'
    BY <1>2, <1>3 DEF IInv, Drained, At, serviceVars, sessionVars
<1>11. MainLast'
    BY <1>2, <1>3 DEF IInv, MainLast, At, Handler, sharedVars, serviceVars
<1>12. SharedFits'
    BY <1>2, <1>3 DEF IInv, SharedFits, Shareable, sharedVars
<1>13. AdmittedIsServed'
    BY <1>2 DEF IInv, AdmittedIsServed, Turn
<1>14. ClosedIsReleased'
    BY <1>2, <1>3 DEF IInv, ClosedIsReleased, Released, At, serviceVars,
        sharedVars
<1>15. Completed' = Completed
    BY <1>2 DEF IInv, Completed, At, Turn
<1>. QED
    BY <1>1, <1>2, <1>3, <1>4, <1>5, <1>6, <1>7, <1>8, <1>9, <1>10, <1>11, <1>12, <1>13,
        <1>14, <1>15
       DEF IInv, Typed, ServiceTypeOK, TurnsCounted, serviceVars, sessionVars,
        sharedVars

LEMMA TranscribeKeeps ==
    ASSUME IInv, NEW t \in Thread, Transcribe(t)
    PROVE  IInv'
<1>. USE ChatAssumption, ServiceAssumption DEF ChatAssumption, ServiceAssumption
<1>1. call' \in [Thread -> Call]
    <2>1. {"finish", "generate"} \subseteq Label /\ {"failed"} \subseteq Result
        BY DEF Label, Result
    <2>. QED
        BY <2>1 DEF IInv, Typed, Call, At, Transcribe, Goto, Record
<1>2. /\ \A s \in Thread \ {t} : call'[s] = call[s]
      /\ call'[t].service = call[t].service
      /\ call[t].at = "admitted"
      /\ \/ call'[t].at = "generate" /\ call'[t].result = call[t].result
         \/ call'[t].at = "finish" /\ call'[t].result = "failed"
    BY DEF IInv, Typed, Call, At, Transcribe, Goto, Record
<1>3. UNCHANGED <<serviceVars, sessionVars, sharedVars>>
    BY DEF Transcribe
<1>4. ServiceFits'
    BY <1>2, <1>3 DEF IInv, ServiceFits, Turn, sharedVars
<1>5. ResultFits'
    BY <1>2 DEF IInv, ResultFits
<1>6. SessionHeld'
    BY <1>2, <1>3 DEF IInv, SessionHeld, Turning, Turn, ServiceFits, sessionVars
<1>7. ConditionHeld'
    BY <1>2, <1>3 DEF IInv, ConditionHeld, sessionVars
<1>8. CreationHeld'
    BY <1>2, <1>3 DEF IInv, CreationHeld, At, sharedVars
<1>9. PipelineHeld'
    BY <1>2, <1>3 DEF IInv, PipelineHeld, serviceVars
<1>10. Drained'
    BY <1>2, <1>3 DEF IInv, Drained, At, serviceVars, sessionVars
<1>11. MainLast'
    BY <1>2, <1>3 DEF IInv, MainLast, At, Handler, sharedVars, serviceVars
<1>12. SharedFits'
    BY <1>2, <1>3 DEF IInv, SharedFits, Shareable, sharedVars
<1>13. AdmittedIsServed'
    BY <1>2 DEF IInv, AdmittedIsServed, Turn
<1>14. ClosedIsReleased'
    BY <1>2, <1>3 DEF IInv, ClosedIsReleased, Released, At, serviceVars,
        sharedVars
<1>15. Completed' = Completed
    BY <1>2 DEF IInv, Completed, At, Turn
<1>. QED
    BY <1>1, <1>2, <1>3, <1>4, <1>5, <1>6, <1>7, <1>8, <1>9, <1>10, <1>11, <1>12, <1>13,
        <1>14, <1>15
       DEF IInv, Typed, ServiceTypeOK, TurnsCounted, serviceVars, sessionVars,
        sharedVars

LEMMA FinishTurnKeeps ==
    ASSUME IInv, NEW t \in Thread, FinishTurn(t)
    PROVE  IInv'
<1>. USE ChatAssumption, ServiceAssumption DEF ChatAssumption, ServiceAssumption
<1>1. call' \in [Thread -> Call]
    <2>1. {"done", "woken"} \subseteq Label
        BY DEF Label
    <2>. QED
        BY <2>1 DEF IInv, Typed, Call, At, FinishTurn, WakeAll
<1>2. /\ \A s \in Thread \ {t} : /\ call'[s].service = call[s].service
                                 /\ call'[s].result = call[s].result
                                 /\ call'[s].at = IF call[s].at = "asleep" THEN "woken"
                                                   ELSE call[s].at
      /\ call'[t].at = "done" /\ call'[t].service = call[t].service
      /\ call'[t].result = call[t].result
      /\ call[t].at = "finish"
      /\ condition = NoThread
    BY DEF IInv, Typed, Call, At, FinishTurn, WakeAll
<1>3. /\ activeSends' = activeSends - 1 /\ sessionLock' = NoThread
      /\ turns' = IF call[t].result = "turn" THEN turns + 1 ELSE turns
      /\ UNCHANGED <<serviceVars, condition, closed, sharedVars>>
    BY DEF FinishTurn
<1>4. ServiceFits'
    BY <1>2, <1>3 DEF IInv, ServiceFits, Turn, sharedVars
<1>5. ResultFits'
    BY <1>2 DEF IInv, ResultFits
<1>6. SessionHeld'
    BY <1>2, <1>3 DEF IInv, SessionHeld, Turning, Turn, sessionVars
<1>7. ConditionHeld'
    BY <1>2, <1>3 DEF IInv, ConditionHeld, sessionVars
<1>8. CreationHeld'
    BY <1>2, <1>3 DEF IInv, CreationHeld, At, sharedVars
<1>9. PipelineHeld'
    BY <1>2, <1>3 DEF IInv, PipelineHeld, serviceVars
<1>10. Drained'
    BY <1>2, <1>3 DEF IInv, Drained, At, serviceVars, sessionVars
<1>11. MainLast'
    BY <1>2, <1>3 DEF IInv, MainLast, At, Handler, sharedVars, serviceVars
<1>12. SharedFits'
    BY <1>2, <1>3 DEF IInv, SharedFits, Shareable, sharedVars
<1>13. AdmittedIsServed'
    BY <1>2 DEF IInv, AdmittedIsServed, Turn
<1>14. ClosedIsReleased'
    <2>1. call[t].result # "closed"
        BY <1>2 DEF IInv, ResultFits
    <2>. QED
        BY <1>2, <1>3, <2>1 DEF IInv, ClosedIsReleased, Released, At, serviceVars,
            sharedVars
<1>15. TurnsCounted'
    <2>1. Completed' = IF call[t].result = "turn" THEN Completed \cup {t} ELSE Completed
        BY <1>1, <1>2 DEF IInv, Completed, At, ServiceFits, Turn
    <2>2. t \notin Completed /\ IsFiniteSet(Completed)
        BY <1>2, FS_Subset DEF Completed, At
    <2>. QED
        BY <1>3, <2>1, <2>2, FS_AddElement DEF IInv, TurnsCounted
<1>. QED
    BY <1>1, <1>2, <1>3, <1>4, <1>5, <1>6, <1>7, <1>8, <1>9, <1>10, <1>11, <1>12, <1>13,
        <1>14, <1>15
       DEF IInv, Typed, ServiceTypeOK, TurnsCounted, serviceVars, sessionVars,
        sharedVars

LEMMA FindServiceKeeps ==
    ASSUME IInv, NEW t \in Thread, FindService(t)
    PROVE  IInv'
<1>. USE ChatAssumption, ServiceAssumption DEF ChatAssumption, ServiceAssumption
<1>1. call' \in [Thread -> Call]
    <2>1. {"create", "generate"} \subseteq Label
        BY DEF Label
    <2>. QED
        BY <2>1 DEF IInv, Typed, Call, At, FindService, SharedFits, Shareable
<1>2. /\ \A s \in Thread \ {t} : call'[s] = call[s]
      /\ call'[t].result = call[t].result /\ call'[t].service = shared
      /\ call[t].at = "infer"
      /\ call'[t].at = IF shared = NoService THEN "create" ELSE "generate"
    BY DEF IInv, Typed, Call, At, FindService, SharedFits, Shareable
<1>3. UNCHANGED <<serviceVars, sessionVars, sharedVars>>
    BY DEF FindService
<1>4. ServiceFits'
    BY <1>2, <1>3 DEF IInv, ServiceFits, Turn, sharedVars
<1>5. ResultFits'
    BY <1>2 DEF IInv, ResultFits
<1>6. SessionHeld'
    BY <1>2, <1>3 DEF IInv, SessionHeld, Turning, Turn, SharedFits, Shareable,
        sessionVars
<1>7. ConditionHeld'
    BY <1>2, <1>3 DEF IInv, ConditionHeld, sessionVars
<1>8. CreationHeld'
    BY <1>2, <1>3 DEF IInv, CreationHeld, At, sharedVars
<1>9. PipelineHeld'
    BY <1>2, <1>3 DEF IInv, PipelineHeld, serviceVars
<1>10. Drained'
    BY <1>2, <1>3 DEF IInv, Drained, At, serviceVars, sessionVars
<1>11. MainLast'
    BY <1>2, <1>3 DEF IInv, MainLast, At, Handler, sharedVars, serviceVars
<1>12. SharedFits'
    BY <1>2, <1>3 DEF IInv, SharedFits, Shareable, sharedVars
<1>13. AdmittedIsServed'
    BY <1>2 DEF IInv, AdmittedIsServed, Turn, SharedFits, Shareable
<1>14. ClosedIsReleased'
    BY <1>2, <1>3 DEF IInv, ClosedIsReleased, Released, At, serviceVars,
        sharedVars
<1>15. Completed' = Completed
    BY <1>2 DEF IInv, Completed, At, Turn
<1>. QED
    BY <1>1, <1>2, <1>3, <1>4, <1>5, <1>6, <1>7, <1>8, <1>9, <1>10, <1>11, <1>12, <1>13,
        <1>14, <1>15
       DEF IInv, Typed, ServiceTypeOK, TurnsCounted, serviceVars, sessionVars,
        sharedVars

LEMMA TakeCreationKeeps ==
    ASSUME IInv, NEW t \in Thread, TakeCreation(t)
    PROVE  IInv'
<1>. USE ChatAssumption, ServiceAssumption DEF ChatAssumption, ServiceAssumption
<1>1. call' \in [Thread -> Call]
    <2>1. {"create"} \subseteq Label
        BY DEF Label
    <2>. QED
        BY <2>1 DEF IInv, Typed, Call, At, TakeCreation, Reread, SharedFits, Shareable
<1>2. /\ \A s \in Thread \ {t} : call'[s] = call[s]
      /\ call'[t].result = call[t].result /\ call'[t].service = shared
      /\ call[t].at = "create" /\ call'[t].at = "create"
      /\ creating = NoThread
    BY DEF IInv, Typed, Call, At, TakeCreation, Reread, SharedFits, Shareable
<1>3. /\ creating' = t
      /\ UNCHANGED <<serviceVars, sessionVars, shared, created>>
    BY DEF TakeCreation
<1>4. ServiceFits'
    BY <1>2, <1>3 DEF IInv, ServiceFits, Turn, sharedVars
<1>5. ResultFits'
    BY <1>2 DEF IInv, ResultFits
<1>6. SessionHeld'
    BY <1>2, <1>3 DEF IInv, SessionHeld, Turning, Turn, sessionVars
<1>7. ConditionHeld'
    BY <1>2, <1>3 DEF IInv, ConditionHeld, sessionVars
<1>8. CreationHeld'
    BY <1>2, <1>3 DEF IInv, CreationHeld, At, sharedVars
<1>9. PipelineHeld'
    BY <1>2, <1>3 DEF IInv, PipelineHeld, serviceVars
<1>10. Drained'
    BY <1>2, <1>3 DEF IInv, Drained, At, serviceVars, sessionVars
<1>11. MainLast'
    BY <1>2, <1>3 DEF IInv, MainLast, At, Handler, sharedVars, serviceVars
<1>12. SharedFits'
    BY <1>2, <1>3 DEF IInv, SharedFits, Shareable, sharedVars
<1>13. AdmittedIsServed'
    BY <1>2 DEF IInv, AdmittedIsServed, Turn, SharedFits, Shareable
<1>14. ClosedIsReleased'
    BY <1>2, <1>3 DEF IInv, ClosedIsReleased, Released, At, serviceVars,
        sharedVars
<1>15. Completed' = Completed
    BY <1>2 DEF IInv, Completed, At, Turn
<1>. QED
    BY <1>1, <1>2, <1>3, <1>4, <1>5, <1>6, <1>7, <1>8, <1>9, <1>10, <1>11, <1>12, <1>13,
        <1>14, <1>15
       DEF IInv, Typed, ServiceTypeOK, TurnsCounted, serviceVars, sessionVars,
        sharedVars

LEMMA CreateServiceKeeps ==
    ASSUME IInv, NEW t \in Thread, CreateService(t)
    PROVE  IInv'
<1>. USE ChatAssumption, ServiceAssumption DEF ChatAssumption, ServiceAssumption
<1>1. call' \in [Thread -> Call]
    <2>1. {"generate"} \subseteq Label
        BY DEF Label
    <2>. QED
        BY <2>1 DEF IInv, Typed, Call, At, CreateService, Goto, ServiceFits, Shareable
<1>2. /\ \A s \in Thread \ {t} : call'[s] = call[s]
      /\ call'[t].result = call[t].result
      /\ call[t].at = "create" /\ call'[t].at = "generate"
      /\ creating = t /\ call[t].service = shared
      /\ \/ /\ shared # NoService /\ call'[t].service = call[t].service
            /\ UNCHANGED <<shared, created>>
         \/ /\ shared = NoService /\ call'[t].service = shared'
            /\ created' = created \cup {shared'} /\ shared' \in Shareable
    BY DEF IInv, Typed, Call, At, CreateService, Goto, ServiceFits, Shareable
<1>3. /\ creating' = NoThread
      /\ UNCHANGED <<serviceVars, sessionVars>>
    BY DEF CreateService
<1>4. ServiceFits'
    <2>1. \A s \in Thread : ~(call[s].at \in {"closing", "leave"})
        BY <1>2 DEF IInv, MainLast, Handler, At
    <2>2. ASSUME NEW s \in Thread \ {t}
          PROVE  /\ call[s].at \in {"generate", "obtain", "run"} /\ ~Turn(s) => shared' = shared
                 /\ call[s].at = "create" => call[s].service = NoService
        BY <1>2, <2>2 DEF IInv, ServiceFits, Turn
    <2>. QED
        BY <1>2, <1>3, <2>1, <2>2 DEF IInv, ServiceFits, Turn, Shareable
<1>5. ResultFits'
    BY <1>2 DEF IInv, ResultFits
<1>6. SessionHeld'
    BY <1>2, <1>3 DEF IInv, SessionHeld, Turning, Turn, SharedFits, Shareable,
        sessionVars
<1>7. ConditionHeld'
    BY <1>2, <1>3 DEF IInv, ConditionHeld, sessionVars
<1>8. CreationHeld'
    BY <1>2, <1>3 DEF IInv, CreationHeld, At, sharedVars
<1>9. PipelineHeld'
    BY <1>2, <1>3 DEF IInv, PipelineHeld, serviceVars
<1>10. Drained'
    BY <1>2, <1>3 DEF IInv, Drained, At, serviceVars, sessionVars
<1>11. MainLast'
    BY <1>2, <1>3 DEF IInv, MainLast, At, Handler, sharedVars, serviceVars
<1>12. SharedFits'
    BY <1>2, <1>3 DEF IInv, SharedFits, Shareable, sharedVars
<1>13. AdmittedIsServed'
    BY <1>2 DEF IInv, AdmittedIsServed, Turn, SharedFits, Shareable
<1>14. ClosedIsReleased'
    BY <1>2, <1>3 DEF IInv, ClosedIsReleased, Released, At, MainLast, Handler,
        serviceVars, sharedVars
<1>15. Completed' = Completed
    BY <1>2 DEF IInv, Completed, At, Turn
<1>. QED
    BY <1>1, <1>2, <1>3, <1>4, <1>5, <1>6, <1>7, <1>8, <1>9, <1>10, <1>11, <1>12, <1>13,
        <1>14, <1>15
       DEF IInv, Typed, ServiceTypeOK, TurnsCounted, serviceVars, sessionVars,
        sharedVars

LEMMA EnterKeeps ==
    ASSUME IInv, NEW t \in Thread, Enter(t)
    PROVE  IInv'
<1>. USE ChatAssumption, ServiceAssumption DEF ChatAssumption, ServiceAssumption
<1>1. call' \in [Thread -> Call]
    <2>1. {"done", "obtain"} \subseteq Label /\ {"refused"} \subseteq Result
        BY DEF Label, Result
    <2>. QED
        BY <2>1 DEF IInv, Typed, Call, At, Enter, EnterGenerate, RefusedAsClosed,
            TakePipelineLock, After, Goto, Record, Finish, Turn, Turning, Drained,
            SessionHeld, serviceVars
<1>2. /\ \A s \in Thread \ {t} : call'[s] = call[s]
      /\ call'[t].service = call[t].service
      /\ call[t].at = "generate"
      /\ \/ /\ ~serviceClosed[call[t].service] /\ call'[t].at = "obtain"
            /\ call'[t].result = call[t].result
            /\ pipelineLock[call[t].service] = NoThread
            /\ pipelineLock' = [pipelineLock EXCEPT ![call[t].service] = t]
         \/ /\ serviceClosed[call[t].service] /\ ~Turn(t) /\ call'[t].at = "done"
            /\ call'[t].result = "refused"
            /\ UNCHANGED pipelineLock
    BY DEF IInv, Typed, Call, At, Enter, EnterGenerate, RefusedAsClosed,
        TakePipelineLock, After, Goto, Record, Finish, Turn, Turning, Drained,
        SessionHeld, serviceVars
<1>3. UNCHANGED <<serviceClosed, pipeline, sessionVars, sharedVars>>
    BY DEF Enter, EnterGenerate, RefusedAsClosed, serviceVars
<1>4. ServiceFits'
    BY <1>2, <1>3 DEF IInv, ServiceFits, Turn, sharedVars
<1>5. ResultFits'
    BY <1>2 DEF IInv, ResultFits
<1>6. SessionHeld'
    BY <1>2, <1>3 DEF IInv, SessionHeld, Turning, Turn, sessionVars
<1>7. ConditionHeld'
    BY <1>2, <1>3 DEF IInv, ConditionHeld, sessionVars
<1>8. CreationHeld'
    BY <1>2, <1>3 DEF IInv, CreationHeld, At, sharedVars
<1>9. PipelineHeld'
    BY <1>2, <1>3 DEF IInv, PipelineHeld, Typed, ServiceTypeOK, ServiceFits, Turn,
        SharedFits, Shareable, serviceVars
<1>10. Drained'
    BY <1>2, <1>3 DEF IInv, Drained, At, serviceVars, sessionVars
<1>11. MainLast'
    BY <1>2, <1>3 DEF IInv, MainLast, At, Handler, sharedVars, serviceVars
<1>12. SharedFits'
    BY <1>2, <1>3 DEF IInv, SharedFits, Shareable, sharedVars
<1>13. AdmittedIsServed'
    BY <1>2 DEF IInv, AdmittedIsServed, Turn
<1>14. ClosedIsReleased'
    BY <1>2, <1>3 DEF IInv, ClosedIsReleased, Released, At, serviceVars,
        sharedVars
<1>15. Completed' = Completed
    BY <1>2 DEF IInv, Completed, At, Turn
<1>. QED
    BY <1>1, <1>2, <1>3, <1>4, <1>5, <1>6, <1>7, <1>8, <1>9, <1>10, <1>11, <1>12, <1>13,
        <1>14, <1>15
       DEF IInv, Typed, ServiceTypeOK, TurnsCounted, serviceVars, sessionVars,
        sharedVars

LEMMA ObtainKeeps ==
    ASSUME IInv, NEW t \in Thread, Obtain(t)
    PROVE  IInv'
<1>. USE ChatAssumption, ServiceAssumption DEF ChatAssumption, ServiceAssumption
<1>1. call' \in [Thread -> Call]
    <2>1. {"done", "finish", "run"} \subseteq Label /\ {"failed"} \subseteq Result
        BY DEF Label, Result
    <2>. QED
        BY <2>1 DEF IInv, Typed, Call, At, Obtain, RefuseArtifact, ObtainPipeline,
            FailPipeline, LeaveGenerate, ReleasePipelineLock, After, Goto, Record,
            Finish, Turn, ServiceTypeOK
<1>2. /\ \A s \in Thread \ {t} : call'[s] = call[s]
      /\ call'[t].service = call[t].service
      /\ call[t].at = "obtain"
      /\ \/ /\ call'[t].at = "run" /\ call'[t].result = call[t].result
            /\ UNCHANGED pipelineLock /\ pipeline' \in [Service -> Device \cup {NoPipeline}]
         \/ /\ call'[t].at = (IF Turn(t) THEN "finish" ELSE "done")
            /\ call'[t].result = "failed"
            /\ pipelineLock' = [pipelineLock EXCEPT ![call[t].service] = NoThread]
            /\ pipeline' \in [Service -> Device \cup {NoPipeline}]
    BY DEF IInv, Typed, Call, At, Obtain, RefuseArtifact, ObtainPipeline,
        FailPipeline, LeaveGenerate, ReleasePipelineLock, After, Goto, Record,
        Finish, Turn, ServiceTypeOK
<1>3. /\ \A v \in Service \ {call[t].service} : pipeline'[v] = pipeline[v]
      /\ UNCHANGED <<serviceClosed, sessionVars, sharedVars>>
    BY DEF IInv, Typed, Obtain, RefuseArtifact, ObtainPipeline, FailPipeline,
        LeaveGenerate, ServiceTypeOK
<1>4. ServiceFits'
    BY <1>2, <1>3 DEF IInv, ServiceFits, Turn, sharedVars
<1>5. ResultFits'
    BY <1>2 DEF IInv, ResultFits
<1>6. SessionHeld'
    BY <1>2, <1>3 DEF IInv, SessionHeld, Turning, Turn, sessionVars
<1>7. ConditionHeld'
    BY <1>2, <1>3 DEF IInv, ConditionHeld, sessionVars
<1>8. CreationHeld'
    BY <1>2, <1>3 DEF IInv, CreationHeld, At, sharedVars
<1>9. PipelineHeld'
    BY <1>2, <1>3 DEF IInv, PipelineHeld, Typed, ServiceTypeOK, ServiceFits, Turn,
        SharedFits, Shareable, serviceVars
<1>10. Drained'
    BY <1>2, <1>3 DEF IInv, Drained, At, serviceVars, sessionVars
<1>11. MainLast'
    BY <1>2, <1>3 DEF IInv, MainLast, At, Handler, sharedVars, serviceVars
<1>12. SharedFits'
    BY <1>2, <1>3 DEF IInv, SharedFits, Shareable, sharedVars
<1>13. AdmittedIsServed'
    BY <1>2 DEF IInv, AdmittedIsServed, Turn
<1>14. ClosedIsReleased'
    BY <1>2, <1>3 DEF IInv, ClosedIsReleased, Released, At, SharedFits, Shareable,
        serviceVars, sharedVars
<1>15. Completed' = Completed
    BY <1>2 DEF IInv, Completed, At, Turn
<1>. QED
    BY <1>1, <1>2, <1>3, <1>4, <1>5, <1>6, <1>7, <1>8, <1>9, <1>10, <1>11, <1>12, <1>13,
        <1>14, <1>15
       DEF IInv, Typed, ServiceTypeOK, TurnsCounted, serviceVars, sessionVars,
        sharedVars

LEMMA GenerateKeeps ==
    ASSUME IInv, NEW t \in Thread, Generate(t)
    PROVE  IInv'
<1>. USE ChatAssumption, ServiceAssumption DEF ChatAssumption, ServiceAssumption
<1>1. call' \in [Thread -> Call]
    <2>1. {"done", "finish"} \subseteq Label /\ {"failed", "turn"} \subseteq Result
        BY DEF Label, Result
    <2>. QED
        BY <2>1 DEF IInv, Typed, Call, At, Generate, LeaveGenerate, ReleasePipelineLock,
            After, Record, Finish, Turn
<1>2. /\ \A s \in Thread \ {t} : call'[s] = call[s]
      /\ call'[t].service = call[t].service
      /\ call[t].at = "run"
      /\ call'[t].at = (IF Turn(t) THEN "finish" ELSE "done")
      /\ call'[t].result \in {"turn", "failed"}
      /\ pipelineLock' = [pipelineLock EXCEPT ![call[t].service] = NoThread]
    BY DEF IInv, Typed, Call, At, Generate, LeaveGenerate, ReleasePipelineLock,
        After, Record, Finish, Turn
<1>3. UNCHANGED <<serviceClosed, pipeline, sessionVars, sharedVars>>
    BY DEF Generate, LeaveGenerate
<1>4. ServiceFits'
    BY <1>2, <1>3 DEF IInv, ServiceFits, Turn, sharedVars
<1>5. ResultFits'
    BY <1>2 DEF IInv, ResultFits
<1>6. SessionHeld'
    BY <1>2, <1>3 DEF IInv, SessionHeld, Turning, Turn, sessionVars
<1>7. ConditionHeld'
    BY <1>2, <1>3 DEF IInv, ConditionHeld, sessionVars
<1>8. CreationHeld'
    BY <1>2, <1>3 DEF IInv, CreationHeld, At, sharedVars
<1>9. PipelineHeld'
    BY <1>2, <1>3 DEF IInv, PipelineHeld, serviceVars
<1>10. Drained'
    BY <1>2, <1>3 DEF IInv, Drained, At, serviceVars, sessionVars
<1>11. MainLast'
    BY <1>2, <1>3 DEF IInv, MainLast, At, Handler, sharedVars, serviceVars
<1>12. SharedFits'
    BY <1>2, <1>3 DEF IInv, SharedFits, Shareable, sharedVars
<1>13. AdmittedIsServed'
    BY <1>2 DEF IInv, AdmittedIsServed, Turn
<1>14. ClosedIsReleased'
    BY <1>2, <1>3 DEF IInv, ClosedIsReleased, Released, At, serviceVars,
        sharedVars
<1>15. Completed' = Completed
    BY <1>2 DEF IInv, Completed, At, Turn
<1>. QED
    BY <1>1, <1>2, <1>3, <1>4, <1>5, <1>6, <1>7, <1>8, <1>9, <1>10, <1>11, <1>12, <1>13,
        <1>14, <1>15
       DEF IInv, Typed, ServiceTypeOK, TurnsCounted, serviceVars, sessionVars,
        sharedVars

LEMMA EnterCloseKeeps ==
    ASSUME IInv, NEW t \in Thread, EnterClose(t)
    PROVE  IInv'
<1>. USE ChatAssumption, ServiceAssumption DEF ChatAssumption, ServiceAssumption
<1>0. \/ /\ activeSends > 0 /\ condition' = NoThread
         /\ \E r \in {"closed", "already closed"} :
                call' = [call EXCEPT ![t].at = "asleep", ![t].result = r]
      \/ /\ ~(activeSends > 0) /\ condition' = t
         /\ call' = [call EXCEPT ![t].at = "drained", ![t].result = "closed"]
      \/ /\ condition' = NoThread
         /\ call' = [call EXCEPT ![t].at = "done", ![t].result = "already closed"]
    BY DEF EnterClose, Await, Record, Finish, At
<1>1. call' \in [Thread -> Call]
    <2>1. /\ {"asleep", "done", "drained"} \subseteq Label
          /\ {"already closed", "closed"} \subseteq Result
        BY DEF Label, Result
    <2>2. CASE /\ activeSends > 0 /\ condition' = NoThread
               /\ \E r \in {"closed", "already closed"} :
                      call' = [call EXCEPT ![t].at = "asleep", ![t].result = r]
        <3>1. PICK r \in {"closed", "already closed"} :
                    call' = [call EXCEPT ![t].at = "asleep", ![t].result = r]
            BY <2>2
        <3>. QED
            BY <2>1, <2>2, <3>1 DEF IInv, Typed, Call
    <2>3. CASE /\ ~(activeSends > 0) /\ condition' = t
               /\ call' = [call EXCEPT ![t].at = "drained", ![t].result = "closed"]
        BY <2>1, <2>3 DEF IInv, Typed, Call
    <2>4. CASE /\ condition' = NoThread
               /\ call' = [call EXCEPT ![t].at = "done", ![t].result = "already closed"]
        BY <2>1, <2>4 DEF IInv, Typed, Call
    <2>. QED
        BY <1>0, <2>2, <2>3, <2>4
<1>2. /\ \A s \in Thread \ {t} : call'[s] = call[s]
      /\ call'[t].service = call[t].service
      /\ call[t].at = "close" /\ condition = NoThread
      /\ \/ /\ call'[t].at = "asleep" /\ condition' = NoThread
            /\ activeSends > 0 /\ call'[t].result \in {"closed", "already closed"}
         \/ /\ call'[t].at = "drained" /\ condition' = t
            /\ ~(activeSends > 0) /\ call'[t].result = "closed"
         \/ /\ call'[t].at = "done" /\ condition' = NoThread
            /\ call'[t].result = "already closed"
    <2>1. call[t].at = "close" /\ condition = NoThread
        BY DEF EnterClose, At
    <2>2. CASE /\ activeSends > 0 /\ condition' = NoThread
               /\ \E r \in {"closed", "already closed"} :
                      call' = [call EXCEPT ![t].at = "asleep", ![t].result = r]
        <3>1. PICK r \in {"closed", "already closed"} :
                    call' = [call EXCEPT ![t].at = "asleep", ![t].result = r]
            BY <2>2
        <3>2. /\ \A s \in Thread \ {t} : call'[s] = call[s]
              /\ call'[t].service = call[t].service
              /\ call'[t].at = "asleep" /\ call'[t].result = r
            BY <3>1 DEF IInv, Typed, Call
        <3>. QED
            BY <2>1, <2>2, <3>2
    <2>3. CASE /\ ~(activeSends > 0) /\ condition' = t
               /\ call' = [call EXCEPT ![t].at = "drained", ![t].result = "closed"]
        BY <2>1, <2>3 DEF IInv, Typed, Call
    <2>4. CASE /\ condition' = NoThread
               /\ call' = [call EXCEPT ![t].at = "done", ![t].result = "already closed"]
        BY <2>1, <2>4 DEF IInv, Typed, Call
    <2>. QED
        BY <1>0, <2>2, <2>3, <2>4
<1>3. /\ closed' = TRUE
      /\ UNCHANGED <<serviceVars, sessionLock, activeSends, turns, sharedVars>>
    BY DEF EnterClose
<1>4. ServiceFits'
    BY <1>2, <1>3 DEF IInv, ServiceFits, Turn, sharedVars
<1>5. ResultFits'
    BY <1>2 DEF IInv, ResultFits
<1>6. SessionHeld'
    BY <1>2, <1>3 DEF IInv, SessionHeld, Turning, Turn, sessionVars
<1>7. ConditionHeld'
    BY <1>2, <1>3 DEF IInv, ConditionHeld, sessionVars
<1>8. CreationHeld'
    BY <1>2, <1>3 DEF IInv, CreationHeld, At, sharedVars
<1>9. PipelineHeld'
    BY <1>2, <1>3 DEF IInv, PipelineHeld, serviceVars
<1>10. Drained'
    <2>1. ~(activeSends > 0) => sessionLock = NoThread
        BY DEF IInv, SessionHeld
    <2>2. closed'
        BY <1>2, <1>3 DEF IInv, Drained
    <2>. QED
        BY <1>2, <1>3, <2>1, <2>2 DEF IInv, Drained, At, serviceVars
<1>11. MainLast'
    BY <1>2, <1>3 DEF IInv, MainLast, At, Handler, sharedVars, serviceVars
<1>12. SharedFits'
    BY <1>2, <1>3 DEF IInv, SharedFits, Shareable, sharedVars
<1>13. AdmittedIsServed'
    BY <1>2 DEF IInv, AdmittedIsServed, Turn
<1>14. ClosedIsReleased'
    BY <1>2, <1>3 DEF IInv, ClosedIsReleased, Released, At, serviceVars,
        sharedVars
<1>15. Completed' = Completed
    BY <1>2 DEF IInv, Completed, At, Turn
<1>. QED
    BY <1>1, <1>2, <1>3, <1>4, <1>5, <1>6, <1>7, <1>8, <1>9, <1>10, <1>11, <1>12, <1>13,
        <1>14, <1>15
       DEF IInv, Typed, ServiceTypeOK, TurnsCounted, serviceVars, sessionVars,
        sharedVars

LEMMA WakeKeeps ==
    ASSUME IInv, NEW t \in Thread, Wake(t)
    PROVE  IInv'
<1>. USE ChatAssumption, ServiceAssumption DEF ChatAssumption, ServiceAssumption
<1>0. \/ /\ activeSends > 0 /\ condition' = NoThread
         /\ \E r \in {"closed", "already closed"} :
                call' = [call EXCEPT ![t].at = "asleep", ![t].result = r]
      \/ /\ ~(activeSends > 0) /\ condition' = t
         /\ call' = [call EXCEPT ![t].at = "drained", ![t].result = "closed"]
      \/ /\ condition' = NoThread
         /\ call' = [call EXCEPT ![t].at = "done", ![t].result = "already closed"]
    BY DEF Wake, Await, Record, Finish, At
<1>1. call' \in [Thread -> Call]
    <2>1. /\ {"asleep", "done", "drained", "woken"} \subseteq Label
          /\ {"already closed", "closed"} \subseteq Result
        BY DEF Label, Result
    <2>2. CASE /\ activeSends > 0 /\ condition' = NoThread
               /\ \E r \in {"closed", "already closed"} :
                      call' = [call EXCEPT ![t].at = "asleep", ![t].result = r]
        <3>1. PICK r \in {"closed", "already closed"} :
                    call' = [call EXCEPT ![t].at = "asleep", ![t].result = r]
            BY <2>2
        <3>. QED
            BY <2>1, <2>2, <3>1 DEF IInv, Typed, Call
    <2>3. CASE /\ ~(activeSends > 0) /\ condition' = t
               /\ call' = [call EXCEPT ![t].at = "drained", ![t].result = "closed"]
        BY <2>1, <2>3 DEF IInv, Typed, Call
    <2>4. CASE /\ condition' = NoThread
               /\ call' = [call EXCEPT ![t].at = "done", ![t].result = "already closed"]
        BY <2>1, <2>4 DEF IInv, Typed, Call
    <2>. QED
        BY <1>0, <2>2, <2>3, <2>4
<1>2. /\ \A s \in Thread \ {t} : call'[s] = call[s]
      /\ call'[t].service = call[t].service
      /\ call[t].at = "woken" /\ condition = NoThread
      /\ \/ /\ call'[t].at = "asleep" /\ condition' = NoThread
            /\ activeSends > 0 /\ call'[t].result \in {"closed", "already closed"}
         \/ /\ call'[t].at = "drained" /\ condition' = t
            /\ ~(activeSends > 0) /\ call'[t].result = "closed"
         \/ /\ call'[t].at = "done" /\ condition' = NoThread
            /\ call'[t].result = "already closed"
    <2>1. call[t].at = "woken" /\ condition = NoThread
        BY DEF Wake, At
    <2>2. CASE /\ activeSends > 0 /\ condition' = NoThread
               /\ \E r \in {"closed", "already closed"} :
                      call' = [call EXCEPT ![t].at = "asleep", ![t].result = r]
        <3>1. PICK r \in {"closed", "already closed"} :
                    call' = [call EXCEPT ![t].at = "asleep", ![t].result = r]
            BY <2>2
        <3>2. /\ \A s \in Thread \ {t} : call'[s] = call[s]
              /\ call'[t].service = call[t].service
              /\ call'[t].at = "asleep" /\ call'[t].result = r
            BY <3>1 DEF IInv, Typed, Call
        <3>. QED
            BY <2>1, <2>2, <3>2
    <2>3. CASE /\ ~(activeSends > 0) /\ condition' = t
               /\ call' = [call EXCEPT ![t].at = "drained", ![t].result = "closed"]
        BY <2>1, <2>3 DEF IInv, Typed, Call
    <2>4. CASE /\ condition' = NoThread
               /\ call' = [call EXCEPT ![t].at = "done", ![t].result = "already closed"]
        BY <2>1, <2>4 DEF IInv, Typed, Call
    <2>. QED
        BY <1>0, <2>2, <2>3, <2>4
<1>3. UNCHANGED <<serviceVars, sessionLock, closed, activeSends, turns, sharedVars>>
    BY DEF Wake
<1>4. ServiceFits'
    BY <1>2, <1>3 DEF IInv, ServiceFits, Turn, sharedVars
<1>5. ResultFits'
    BY <1>2 DEF IInv, ResultFits
<1>6. SessionHeld'
    BY <1>2, <1>3 DEF IInv, SessionHeld, Turning, Turn, sessionVars
<1>7. ConditionHeld'
    BY <1>2, <1>3 DEF IInv, ConditionHeld, sessionVars
<1>8. CreationHeld'
    BY <1>2, <1>3 DEF IInv, CreationHeld, At, sharedVars
<1>9. PipelineHeld'
    BY <1>2, <1>3 DEF IInv, PipelineHeld, serviceVars
<1>10. Drained'
    <2>1. ~(activeSends > 0) => sessionLock = NoThread
        BY DEF IInv, SessionHeld
    <2>2. closed'
        BY <1>2, <1>3 DEF IInv, Drained
    <2>. QED
        BY <1>2, <1>3, <2>1, <2>2 DEF IInv, Drained, At, serviceVars
<1>11. MainLast'
    BY <1>2, <1>3 DEF IInv, MainLast, At, Handler, sharedVars, serviceVars
<1>12. SharedFits'
    BY <1>2, <1>3 DEF IInv, SharedFits, Shareable, sharedVars
<1>13. AdmittedIsServed'
    BY <1>2 DEF IInv, AdmittedIsServed, Turn
<1>14. ClosedIsReleased'
    BY <1>2, <1>3 DEF IInv, ClosedIsReleased, Released, At, serviceVars,
        sharedVars
<1>15. Completed' = Completed
    BY <1>2 DEF IInv, Completed, At, Turn
<1>. QED
    BY <1>1, <1>2, <1>3, <1>4, <1>5, <1>6, <1>7, <1>8, <1>9, <1>10, <1>11, <1>12, <1>13,
        <1>14, <1>15
       DEF IInv, Typed, ServiceTypeOK, TurnsCounted, serviceVars, sessionVars,
        sharedVars

LEMMA CloseServiceKeeps ==
    ASSUME IInv, NEW t \in Thread, CloseService(t)
    PROVE  IInv'
<1>. USE ChatAssumption, ServiceAssumption DEF ChatAssumption, ServiceAssumption
<1>1. call' \in [Thread -> Call]
    <2>1. {"drop"} \subseteq Label
        BY DEF Label
    <2>. QED
        BY <2>1 DEF IInv, Typed, Call, At, CloseService, Goto
<1>2. /\ \A s \in Thread \ {t} : call'[s] = call[s]
      /\ call'[t].service = call[t].service /\ call'[t].result = call[t].result
      /\ call[t].at = "drained" /\ call'[t].at = "drop"
    BY DEF IInv, Typed, Call, At, CloseService, Goto
<1>3. /\ serviceClosed' = [serviceClosed EXCEPT ![Own] = TRUE]
      /\ UNCHANGED <<pipelineLock, pipeline, sessionVars, sharedVars>>
    BY DEF CloseService, ClaimClose
<1>4. ServiceFits'
    BY <1>2, <1>3 DEF IInv, ServiceFits, Turn, sharedVars
<1>5. ResultFits'
    BY <1>2 DEF IInv, ResultFits
<1>6. SessionHeld'
    BY <1>2, <1>3 DEF IInv, SessionHeld, Turning, Turn, sessionVars
<1>7. ConditionHeld'
    BY <1>2, <1>3 DEF IInv, ConditionHeld, sessionVars
<1>8. CreationHeld'
    BY <1>2, <1>3 DEF IInv, CreationHeld, At, sharedVars
<1>9. PipelineHeld'
    BY <1>2, <1>3 DEF IInv, PipelineHeld, serviceVars
<1>10. Drained'
    BY <1>2, <1>3 DEF IInv, Drained, At, Typed, ServiceTypeOK, serviceVars,
        sessionVars
<1>11. MainLast'
    BY <1>2, <1>3 DEF IInv, MainLast, At, Handler, sharedVars, serviceVars
<1>12. SharedFits'
    BY <1>2, <1>3 DEF IInv, SharedFits, Shareable, sharedVars
<1>13. AdmittedIsServed'
    BY <1>2 DEF IInv, AdmittedIsServed, Turn
<1>14. ClosedIsReleased'
    BY <1>2, <1>3 DEF IInv, ClosedIsReleased, Released, At, serviceVars,
        sharedVars
<1>15. Completed' = Completed
    BY <1>2 DEF IInv, Completed, At, Turn
<1>. QED
    BY <1>1, <1>2, <1>3, <1>4, <1>5, <1>6, <1>7, <1>8, <1>9, <1>10, <1>11, <1>12, <1>13,
        <1>14, <1>15
       DEF IInv, Typed, ServiceTypeOK, TurnsCounted, serviceVars, sessionVars,
        sharedVars

LEMMA DropOwnKeeps ==
    ASSUME IInv, NEW t \in Thread, DropOwn(t)
    PROVE  IInv'
<1>. USE ChatAssumption, ServiceAssumption DEF ChatAssumption, ServiceAssumption
<1>1. call' \in [Thread -> Call]
    <2>1. {"done", "woken"} \subseteq Label
        BY DEF Label
    <2>. QED
        BY <2>1 DEF IInv, Typed, Call, At, DropOwn, WakeAll
<1>2. /\ \A s \in Thread \ {t} : /\ call'[s].service = call[s].service
                                 /\ call'[s].result = call[s].result
                                 /\ call'[s].at = IF call[s].at = "asleep" THEN "woken"
                                                   ELSE call[s].at
      /\ call'[t].service = call[t].service /\ call'[t].result = call[t].result
      /\ call[t].at = "drop" /\ call'[t].at = "done"
    BY DEF IInv, Typed, Call, At, DropOwn, WakeAll
<1>3. /\ condition' = NoThread /\ pipelineLock[Own] = NoThread
      /\ pipeline' = [pipeline EXCEPT ![Own] = NoPipeline]
      /\ UNCHANGED <<serviceClosed, pipelineLock, sessionLock, closed, activeSends, turns,
                    sharedVars>>
    BY DEF DropOwn, DropPipeline
<1>4. ServiceFits'
    BY <1>2, <1>3 DEF IInv, ServiceFits, Turn, sharedVars
<1>5. ResultFits'
    BY <1>2 DEF IInv, ResultFits
<1>6. SessionHeld'
    BY <1>2, <1>3 DEF IInv, SessionHeld, Turning, Turn, sessionVars
<1>7. ConditionHeld'
    BY <1>2, <1>3 DEF IInv, ConditionHeld, sessionVars
<1>8. CreationHeld'
    BY <1>2, <1>3 DEF IInv, CreationHeld, At, sharedVars
<1>9. PipelineHeld'
    BY <1>2, <1>3 DEF IInv, PipelineHeld, serviceVars
<1>10. Drained'
    BY <1>2, <1>3 DEF IInv, Drained, At, serviceVars, sessionVars
<1>11. MainLast'
    BY <1>2, <1>3 DEF IInv, MainLast, At, Handler, sharedVars, serviceVars
<1>12. SharedFits'
    BY <1>2, <1>3 DEF IInv, SharedFits, Shareable, sharedVars
<1>13. AdmittedIsServed'
    BY <1>2 DEF IInv, AdmittedIsServed, Turn
<1>14. ClosedIsReleased'
    BY <1>2, <1>3 DEF IInv, ClosedIsReleased, Released, At, Drained, PipelineHeld,
        Typed, ServiceTypeOK, SharedFits, Shareable, serviceVars, sharedVars
<1>15. Completed' = Completed
    BY <1>2 DEF IInv, Completed, At, Turn, ResultFits
<1>. QED
    BY <1>1, <1>2, <1>3, <1>4, <1>5, <1>6, <1>7, <1>8, <1>9, <1>10, <1>11, <1>12, <1>13,
        <1>14, <1>15
       DEF IInv, Typed, ServiceTypeOK, TurnsCounted, serviceVars, sessionVars,
        sharedVars

LEMMA JoinKeeps ==
    ASSUME IInv, Join
    PROVE  IInv'
<1>. USE ChatAssumption, ServiceAssumption DEF ChatAssumption, ServiceAssumption
<1>1. call' \in [Thread -> Call]
    <2>1. {"closing", "done"} \subseteq Label
        BY DEF Label
    <2>. QED
        BY <2>1 DEF IInv, Typed, Call, At, Join, Handler, SharedFits, Shareable
<1>2. /\ \A s \in Thread \ {Main} : /\ call'[s].service = call[s].service
                                    /\ call'[s].result = call[s].result
                                    /\ call'[s].at = "done"
                                    /\ call[s].at \in {"idle", "done"}
      /\ call[Main].at = "idle" /\ call'[Main].at = "closing"
      /\ call'[Main].service = shared /\ call'[Main].result = call[Main].result
    BY DEF IInv, Typed, Call, At, Join, Handler, SharedFits, Shareable
<1>3. UNCHANGED <<serviceVars, sessionVars, sharedVars>>
    BY DEF Join
<1>4. ServiceFits'
    BY <1>2, <1>3 DEF IInv, ServiceFits, Turn, sharedVars
<1>5. ResultFits'
    BY <1>2 DEF IInv, ResultFits
<1>6. SessionHeld'
    BY <1>2, <1>3 DEF IInv, SessionHeld, Turning, Turn, MainLast, sessionVars
<1>7. ConditionHeld'
    BY <1>2, <1>3 DEF IInv, ConditionHeld, sessionVars
<1>8. CreationHeld'
    BY <1>2, <1>3 DEF IInv, CreationHeld, At, MainLast, sharedVars
<1>9. PipelineHeld'
    BY <1>2, <1>3 DEF IInv, PipelineHeld, serviceVars
<1>10. Drained'
    BY <1>2, <1>3 DEF IInv, Drained, At, serviceVars, sessionVars
<1>11. MainLast'
    BY <1>2, <1>3 DEF IInv, MainLast, At, Handler, sharedVars, serviceVars
<1>12. SharedFits'
    BY <1>2, <1>3 DEF IInv, SharedFits, Shareable, sharedVars
<1>13. AdmittedIsServed'
    BY <1>2 DEF IInv, AdmittedIsServed, Turn, ResultFits, SharedFits, Shareable
<1>14. ClosedIsReleased'
    BY <1>2, <1>3 DEF IInv, ClosedIsReleased, Released, At, ResultFits, MainLast,
        serviceVars, sharedVars
<1>15. Completed' = Completed
    BY <1>2 DEF IInv, Completed, At, Turn, ResultFits, MainLast
<1>. QED
    BY <1>1, <1>2, <1>3, <1>4, <1>5, <1>6, <1>7, <1>8, <1>9, <1>10, <1>11, <1>12, <1>13,
        <1>14, <1>15
       DEF IInv, Typed, ServiceTypeOK, TurnsCounted, serviceVars, sessionVars,
        sharedVars

LEMMA CloseSharedKeeps ==
    ASSUME IInv, CloseShared
    PROVE  IInv'
<1>. USE ChatAssumption, ServiceAssumption DEF ChatAssumption, ServiceAssumption
<1>1. call' \in [Thread -> Call]
    <2>1. {"close", "leave"} \subseteq Label
        BY DEF Label
    <2>. QED
        BY <2>1 DEF IInv, Typed, Call, At, CloseShared, Goto, ClaimClose, ServiceFits,
            serviceVars
<1>2. /\ \A s \in Thread \ {Main} : call'[s] = call[s]
      /\ call'[Main].service = call[Main].service /\ call'[Main].result = call[Main].result
      /\ call[Main].at = "closing"
      /\ \/ shared = NoService /\ call'[Main].at = "close" /\ UNCHANGED serviceClosed
         \/ /\ shared # NoService /\ call'[Main].at = "leave"
            /\ serviceClosed' = [serviceClosed EXCEPT ![shared] = TRUE]
    BY DEF IInv, Typed, Call, At, CloseShared, Goto, ClaimClose, ServiceFits,
        serviceVars
<1>3. UNCHANGED <<pipelineLock, pipeline, sessionVars, sharedVars>>
    BY DEF CloseShared, ClaimClose, serviceVars
<1>4. ServiceFits'
    BY <1>2, <1>3 DEF IInv, ServiceFits, Turn, sharedVars
<1>5. ResultFits'
    BY <1>2 DEF IInv, ResultFits
<1>6. SessionHeld'
    BY <1>2, <1>3 DEF IInv, SessionHeld, Turning, Turn, sessionVars
<1>7. ConditionHeld'
    BY <1>2, <1>3 DEF IInv, ConditionHeld, sessionVars
<1>8. CreationHeld'
    BY <1>2, <1>3 DEF IInv, CreationHeld, At, sharedVars
<1>9. PipelineHeld'
    BY <1>2, <1>3 DEF IInv, PipelineHeld, serviceVars
<1>10. Drained'
    BY <1>2, <1>3 DEF IInv, Drained, At, Released, Typed, ServiceTypeOK,
        SharedFits, Shareable, serviceVars, sessionVars
<1>11. MainLast'
    BY <1>2, <1>3 DEF IInv, MainLast, At, Handler, Typed, ServiceTypeOK,
        SharedFits, Shareable, sharedVars, serviceVars
<1>12. SharedFits'
    BY <1>2, <1>3 DEF IInv, SharedFits, Shareable, sharedVars
<1>13. AdmittedIsServed'
    BY <1>2 DEF IInv, AdmittedIsServed, Turn
<1>14. ClosedIsReleased'
    BY <1>2, <1>3 DEF IInv, ClosedIsReleased, At, Released, Typed, ServiceTypeOK,
        SharedFits, Shareable, serviceVars, sharedVars
<1>15. Completed' = Completed
    BY <1>2 DEF IInv, Completed, At, Turn
<1>. QED
    BY <1>1, <1>2, <1>3, <1>4, <1>5, <1>6, <1>7, <1>8, <1>9, <1>10, <1>11, <1>12, <1>13,
        <1>14, <1>15
       DEF IInv, Typed, ServiceTypeOK, TurnsCounted, serviceVars, sessionVars,
        sharedVars

LEMMA DropSharedKeeps ==
    ASSUME IInv, DropShared
    PROVE  IInv'
<1>. USE ChatAssumption, ServiceAssumption DEF ChatAssumption, ServiceAssumption
<1>1. call' \in [Thread -> Call]
    <2>1. {"close"} \subseteq Label
        BY DEF Label
    <2>. QED
        BY <2>1 DEF IInv, Typed, Call, At, DropShared, Goto, ServiceFits
<1>2. /\ \A s \in Thread \ {Main} : call'[s] = call[s]
      /\ call'[Main].service = call[Main].service /\ call'[Main].result = call[Main].result
      /\ call[Main].at = "leave"
      /\ call'[Main].at = "close" /\ call[Main].service = shared
    BY DEF IInv, Typed, Call, At, DropShared, Goto, ServiceFits
<1>3. /\ pipelineLock[shared] = NoThread
      /\ pipeline' = [pipeline EXCEPT ![shared] = NoPipeline]
      /\ UNCHANGED <<serviceClosed, pipelineLock, sessionVars, sharedVars>>
    BY DEF IInv, DropShared, DropPipeline, ServiceFits, At
<1>4. ServiceFits'
    BY <1>2, <1>3 DEF IInv, ServiceFits, Turn, sharedVars
<1>5. ResultFits'
    BY <1>2 DEF IInv, ResultFits
<1>6. SessionHeld'
    BY <1>2, <1>3 DEF IInv, SessionHeld, Turning, Turn, sessionVars
<1>7. ConditionHeld'
    BY <1>2, <1>3 DEF IInv, ConditionHeld, sessionVars
<1>8. CreationHeld'
    BY <1>2, <1>3 DEF IInv, CreationHeld, At, sharedVars
<1>9. PipelineHeld'
    BY <1>2, <1>3 DEF IInv, PipelineHeld, serviceVars
<1>10. Drained'
    BY <1>2, <1>3 DEF IInv, Drained, At, serviceVars, sessionVars
<1>11. MainLast'
    BY <1>2, <1>3 DEF IInv, MainLast, At, Handler, sharedVars, serviceVars
<1>12. SharedFits'
    BY <1>2, <1>3 DEF IInv, SharedFits, Shareable, sharedVars
<1>13. AdmittedIsServed'
    BY <1>2 DEF IInv, AdmittedIsServed, Turn
<1>14. ClosedIsReleased'
    BY <1>2, <1>3 DEF IInv, ClosedIsReleased, Released, At, MainLast,
        PipelineHeld, Typed, ServiceTypeOK, SharedFits, Shareable, serviceVars,
        sharedVars
<1>15. Completed' = Completed
    BY <1>2 DEF IInv, Completed, At, Turn
<1>. QED
    BY <1>1, <1>2, <1>3, <1>4, <1>5, <1>6, <1>7, <1>8, <1>9, <1>10, <1>11, <1>12, <1>13,
        <1>14, <1>15
       DEF IInv, Typed, ServiceTypeOK, TurnsCounted, serviceVars, sessionVars,
        sharedVars

-----------------------------------------------------------------------------
LEMMA Initially == Init => IInv
<1>. SUFFICES ASSUME Init PROVE IInv
    OBVIOUS
<1>. USE ChatAssumption, ServiceAssumption DEF ChatAssumption, ServiceAssumption
<1>1. NotStarted \in Call /\ NotStarted.at = "idle" /\ NotStarted.result = "none"
      /\ NotStarted.service = NoService
    BY DEF NotStarted, SomeDevice, Call, Label, Result
<1>2. \A t \in Thread : /\ call[t].at = "idle" /\ call[t].result = "none"
                        /\ call[t].service = NoService
    BY <1>1 DEF Init
<1>3. Typed
    BY <1>1 DEF Init, Typed, ServiceInit, ServiceTypeOK
<1>4. ServiceFits /\ ResultFits /\ AdmittedIsServed /\ SessionHeld
    BY <1>2 DEF Init, ServiceFits, ResultFits, AdmittedIsServed, SessionHeld, Turning, Turn
<1>5. ConditionHeld /\ CreationHeld /\ PipelineHeld
    BY <1>2 DEF Init, ConditionHeld, CreationHeld, PipelineHeld, At
<1>6. Drained /\ MainLast /\ SharedFits
    BY <1>2 DEF Init, ServiceInit, Drained, MainLast, SharedFits, Shareable, Handler, At
<1>7. ClosedIsReleased
    BY <1>2 DEF ClosedIsReleased, At
<1>8. TurnsCounted
    <2>1. Completed = {}
        BY <1>2 DEF Completed, At
    <2>. QED
        BY <2>1, FS_EmptySet DEF Init, TurnsCounted
<1>. QED
    BY <1>3, <1>4, <1>5, <1>6, <1>7, <1>8 DEF IInv

LEMMA Waiting == ASSUME IInv, UNCHANGED vars PROVE IInv'
<1>1. UNCHANGED <<serviceClosed, pipelineLock, pipeline, call, sessionLock, condition,
                  closed, activeSends, turns, shared, creating, created>>
    BY DEF vars, serviceVars, sessionVars, sharedVars
<1>2. (Typed /\ ServiceFits /\ ResultFits /\ SessionHeld)'
    BY <1>1 DEF IInv, Typed, ServiceTypeOK, ServiceFits, ResultFits, SessionHeld,
        Turning, Turn
<1>3. (ConditionHeld /\ CreationHeld /\ PipelineHeld /\ Drained /\ MainLast /\ SharedFits)'
    BY <1>1 DEF IInv, ConditionHeld, CreationHeld, PipelineHeld, Drained, MainLast,
        SharedFits, At
<1>4. (TurnsCounted /\ AdmittedIsServed /\ ClosedIsReleased)'
    BY <1>1 DEF IInv, TurnsCounted, Completed, AdmittedIsServed, ClosedIsReleased, Released,
        Turn, At
<1>. QED
    BY <1>2, <1>3, <1>4 DEF IInv

LEMMA Inductive == IInv /\ [Next]_vars => IInv'
<1>. SUFFICES ASSUME IInv, [Next]_vars PROVE IInv'
    OBVIOUS
<1>1. ASSUME NEW t \in Thread, RequestTurn(t) \/ RequestClose(t) PROVE IInv'
    BY <1>1, RequestTurnKeeps, RequestCloseKeeps
<1>2. ASSUME NEW t \in Thread, NEW device \in Device, RequestInference(t, device) PROVE IInv'
    BY <1>2, RequestInferenceKeeps
<1>3. ASSUME NEW t \in Thread, AdmitTurn(t) \/ Transcribe(t) \/ FinishTurn(t) PROVE IInv'
    BY <1>3, AdmitTurnKeeps, TranscribeKeeps, FinishTurnKeeps
<1>4. ASSUME NEW t \in Thread, FindService(t) \/ TakeCreation(t) \/ CreateService(t) PROVE IInv'
    BY <1>4, FindServiceKeeps, TakeCreationKeeps, CreateServiceKeeps
<1>5. ASSUME NEW t \in Thread, Enter(t) \/ Obtain(t) \/ Generate(t) PROVE IInv'
    BY <1>5, EnterKeeps, ObtainKeeps, GenerateKeeps
<1>6. ASSUME NEW t \in Thread, EnterClose(t) \/ Wake(t) \/ CloseService(t) \/ DropOwn(t)
      PROVE  IInv'
    BY <1>6, EnterCloseKeeps, WakeKeeps, CloseServiceKeeps, DropOwnKeeps
<1>7. CASE Join \/ CloseShared \/ DropShared
    BY <1>7, JoinKeeps, CloseSharedKeeps, DropSharedKeeps
<1>8. CASE UNCHANGED vars
    BY <1>8, Waiting
<1>. QED
    BY <1>1, <1>2, <1>3, <1>4, <1>5, <1>6, <1>7, <1>8 DEF Next, Step

LEMMA Invariance == Spec => []IInv
BY Initially, Inductive, PTL DEF Spec

(* Every call is at one of its steps; a session has at most as many active *)
(* sends and completed turns as there are threads.                         *)
THEOREM TypeCorrect == Spec => []TypeOK
<1>1. IInv => TypeOK
    <2>. SUFFICES ASSUME IInv PROVE TypeOK
        OBVIOUS
    <2>1. Cardinality(Thread) \in Nat /\ Cardinality(Thread) >= 1
        BY ChatAssumption, FS_CardinalityType, FS_EmptySet DEF ChatAssumption
    <2>2. activeSends \in 0 .. Cardinality(Thread)
        BY <2>1 DEF IInv, SessionHeld
    <2>3. IsFiniteSet(Completed) /\ Cardinality(Completed) <= Cardinality(Thread)
        BY ChatAssumption, FS_Subset DEF ChatAssumption, Completed
    <2>4. turns \in 0 .. Cardinality(Thread)
        BY <2>1, <2>3, FS_CardinalityType DEF IInv, TurnsCounted
    <2>5. shared \in Service \cup {NoService} /\ created \subseteq Shareable
        BY DEF IInv, SharedFits, Shareable
    <2>. QED
        BY <2>2, <2>4, <2>5 DEF IInv, Typed, TypeOK
<1>. QED
    BY <1>1, Invariance, PTL

(* A turn that was admitted finds its service open, whoever closes the     *)
(* session meanwhile.                                                      *)
THEOREM AdmittedServed == Spec => []AdmittedIsServed
<1>1. IInv => AdmittedIsServed
    BY DEF IInv
<1>. QED
    BY <1>1, Invariance, PTL

(* What has been closed holds no pipeline and never builds one again.      *)
THEOREM ClosedReleased == Spec => []ClosedIsReleased
<1>1. IInv => ClosedIsReleased
    BY DEF IInv
<1>. QED
    BY <1>1, Invariance, PTL

(* No two of any number of first requests create a service each.           *)
THEOREM OneService == Spec => []OneSharedService
<1>1. IInv => OneSharedService
    BY DEF IInv, SharedFits, OneSharedService
<1>. QED
    BY <1>1, Invariance, PTL

-----------------------------------------------------------------------------
(* Nobody waits for ever.  That a call ends is liveness; what the locks    *)
(* have to do with it is not: whom a call waits for, that this is always   *)
(* a call further on, and that whoever waits for nobody can take its step. *)

(* Whom a call waits for: who holds the lock it needs next or, in wait(),  *)
(* the turn whose end will notify it.                                      *)
WaitsFor(t, u) ==
    \/ At(t, "send") /\ u \in {sessionLock, condition}
    \/ call[t].at \in {"finish", "close", "woken"} /\ u = condition
    \/ At(t, "asleep") /\ u = sessionLock
    \/ At(t, "create") /\ u = creating /\ u # t
    \/ call[t].at \in {"generate", "leave"} /\ u = pipelineLock[call[t].service]
    \/ At(t, "drop") /\ u = pipelineLock[Own]

(* The order of the locks, by what a call holds.                           *)
Level(t) ==
    CASE call[t].at \in {"obtain", "run"} -> 4            \* a pipeline lock
      [] call[t].at \in {"drained", "drop", "leave"} -> 3 \* the condition, for a close
      [] call[t].at \in {"admitted", "generate", "finish"} -> 2 \* the session lock
      [] At(t, "create") /\ creating = t -> 1              \* the lock of the creation
      [] OTHER -> 0

(* A call waits for calls further on only: nobody waits in a circle.       *)
WaitsInOrder == \A t, u \in Thread : WaitsFor(t, u) => Level(t) < Level(u)

(* Who sleeps in wait() is awaited by a turn that will notify it: no       *)
(* notification was lost.                                                  *)
SleepersAwaited == \A t \in Thread : At(t, "asleep") => sessionLock # NoThread

(* A pipeline lock is held by a generation in that service, or is free.    *)
LockIsUsed ==
    \A v \in Service, t \in Thread :
        pipelineLock[v] = t => call[t].at \in {"obtain", "run"} /\ call[t].service = v

(* One call closes the session and its service, the main thread closes the *)
(* shared one: each is closed once.                                        *)
OneCloser ==
    /\ \A t, u \in Thread : call[t].result = "closed" /\ call[u].result = "closed" => t = u
    /\ \A t \in Thread : call[t].result = "closed" => closed
    /\ \A t \in Thread :
          call[t].at \in {"asleep", "woken", "drained"} /\ call[t].result = "closed"
              => ~serviceClosed[Own]
    /\ \A v \in Service \ {Own} :
          serviceClosed[v] => call[Main].at \notin {"idle", "closing"}

WInv == SleepersAwaited /\ LockIsUsed /\ OneCloser

(* Steps of one call that enter or leave no generation and no close.       *)
LEMMA QuietWaits ==
    ASSUME IInv, WInv, NEW t \in Thread,
           \A s \in Thread \ {t} : call'[s] = call[s],
           call[t].at \notin {"obtain", "run"},
           call'[t].at \notin {"idle", "closing", "asleep", "woken", "drained"},
           call'[t].result = call[t].result \/ call'[t].result # "closed",
           sessionLock' \in {sessionLock, t},
           UNCHANGED <<closed, pipelineLock, serviceClosed>>
    PROVE  WInv'
<1>. USE ChatAssumption, ServiceAssumption DEF ChatAssumption, ServiceAssumption
<1>1. SleepersAwaited'
    BY DEF WInv, SleepersAwaited, At
<1>2. LockIsUsed'
    BY DEF WInv, LockIsUsed
<1>3. OneCloser'
    BY DEF WInv, OneCloser
<1>. QED
    BY <1>1, <1>2, <1>3 DEF WInv

LEMMA RequestsWait ==
    ASSUME IInv, WInv, NEW t \in Thread,
           \/ RequestTurn(t) \/ RequestClose(t)
           \/ \E device \in Device : RequestInference(t, device)
    PROVE  WInv'
<1>1. /\ \A s \in Thread \ {t} : call'[s] = call[s]
      /\ call[t].at = "idle" /\ call'[t].at \in {"send", "infer", "close"}
      /\ call'[t].result = call[t].result
    BY DEF IInv, Typed, Call, At, RequestTurn, RequestClose, RequestInference
<1>2. UNCHANGED <<sessionLock, closed, pipelineLock, serviceClosed>>
    BY DEF RequestTurn, RequestClose, RequestInference, serviceVars, sessionVars
<1>. QED
    BY <1>1, <1>2, QuietWaits

LEMMA SendsWait ==
    ASSUME IInv, WInv, NEW t \in Thread,
           \/ AdmitTurn(t) \/ Transcribe(t)
           \/ FindService(t) \/ TakeCreation(t) \/ CreateService(t)
    PROVE  WInv'
<1>1. CASE AdmitTurn(t)
    <2>0. \/ call' = [call EXCEPT ![t].at = "done", ![t].result = "session closed"]
          \/ call' = [call EXCEPT ![t].at = "admitted"]
        BY <1>1 DEF AdmitTurn, Finish, Goto
    <2>1. /\ \A s \in Thread \ {t} : call'[s] = call[s]
          /\ call[t].at = "send" /\ call'[t].at \in {"admitted", "done"}
          /\ call'[t].result = call[t].result \/ call'[t].result = "session closed"
        BY <1>1, <2>0 DEF IInv, Typed, Call, At, AdmitTurn
    <2>2. sessionLock' \in {sessionLock, t} /\ UNCHANGED <<closed, pipelineLock, serviceClosed>>
        BY <1>1 DEF AdmitTurn, serviceVars
    <2>. QED
        BY <2>1, <2>2, QuietWaits
<1>2. CASE Transcribe(t)
    <2>1. /\ \A s \in Thread \ {t} : call'[s] = call[s]
          /\ call[t].at = "admitted" /\ call'[t].at \in {"generate", "finish"}
          /\ call'[t].result \in {call[t].result, "failed"}
        BY <1>2 DEF IInv, Typed, Call, At, Transcribe, Record, Goto
    <2>2. UNCHANGED <<sessionLock, closed, pipelineLock, serviceClosed>>
        BY <1>2 DEF Transcribe, serviceVars, sessionVars
    <2>. QED
        BY <2>1, <2>2, QuietWaits
<1>3. CASE FindService(t) \/ TakeCreation(t) \/ CreateService(t)
    <2>1. /\ \A s \in Thread \ {t} : call'[s] = call[s]
          /\ call[t].at \in {"infer", "create"} /\ call'[t].at \in {"create", "generate"}
          /\ call'[t].result = call[t].result
        BY <1>3 DEF IInv, Typed, Call, At, FindService, TakeCreation, CreateService, Goto
    <2>2. UNCHANGED <<sessionLock, closed, pipelineLock, serviceClosed>>
        BY <1>3 DEF FindService, TakeCreation, CreateService, serviceVars, sessionVars
    <2>. QED
        BY <2>1, <2>2, QuietWaits
<1>. QED
    BY <1>1, <1>2, <1>3

(* A generation takes the pipeline lock when it is free, and leaves it.    *)
LEMMA GenerationsWait ==
    ASSUME IInv, WInv, NEW t \in Thread, Enter(t) \/ Obtain(t) \/ Generate(t)
    PROVE  WInv'
<1>. USE ChatAssumption, ServiceAssumption DEF ChatAssumption, ServiceAssumption
<1>1. /\ \A s \in Thread \ {t} : call'[s] = call[s]
      /\ call'[t].service = call[t].service
      /\ call[t].at \in {"generate", "obtain", "run"}
      /\ call'[t].at \in {"obtain", "run", "finish", "done"}
      /\ call'[t].result \in {call[t].result, "refused", "failed", "turn"}
    BY DEF IInv, Typed, Call, At, Enter, Obtain, Generate, After, Goto, Record, Finish
<1>2. \/ UNCHANGED pipelineLock /\ (call[t].at = "obtain" => call'[t].at = "run")
                                /\ (call[t].at = "generate" => call'[t].at = "done")
                                /\ call[t].at # "run"
      \/ /\ pipelineLock' = [pipelineLock EXCEPT ![call[t].service] = t]
         /\ call[t].at = "generate" /\ call'[t].at = "obtain"
      \/ /\ pipelineLock' = [pipelineLock EXCEPT ![call[t].service] = NoThread]
         /\ call'[t].at \in {"finish", "done"}
    <2>1. CASE Enter(t)
        BY <2>1 DEF IInv, Typed, Call, At, Enter, EnterGenerate, RefusedAsClosed,
            TakePipelineLock, After, Goto, Record, Finish, Turn, Turning, Drained,
            SessionHeld, serviceVars
    <2>2. CASE Obtain(t)
        BY <2>2 DEF IInv, Typed, Call, At, Obtain, RefuseArtifact, ObtainPipeline,
            FailPipeline, LeaveGenerate, ReleasePipelineLock, After, Goto, Record, Finish
    <2>3. CASE Generate(t)
        BY <2>3 DEF IInv, Typed, Call, At, Generate, LeaveGenerate, ReleasePipelineLock,
            After, Record, Finish
    <2>. QED
        BY <2>1, <2>2, <2>3
<1>3. UNCHANGED <<serviceClosed, sessionLock, closed>>
    BY DEF Enter, EnterGenerate, RefusedAsClosed, Obtain, RefuseArtifact, ObtainPipeline,
        FailPipeline, Generate, LeaveGenerate, sessionVars, serviceVars
<1>4. SleepersAwaited'
    BY <1>1, <1>3 DEF WInv, SleepersAwaited, At
<1>5. LockIsUsed'
    BY <1>1, <1>2 DEF WInv, LockIsUsed, IInv, Typed, ServiceTypeOK
<1>6. OneCloser'
    BY <1>1, <1>3 DEF WInv, OneCloser
<1>. QED
    BY <1>4, <1>5, <1>6 DEF WInv

(* The end of a turn wakes everybody who waits for it.                     *)
LEMMA FinishTurnWaits ==
    ASSUME IInv, WInv, NEW t \in Thread, FinishTurn(t) \/ DropOwn(t)
    PROVE  WInv'
<1>. USE ChatAssumption, ServiceAssumption DEF ChatAssumption, ServiceAssumption
<1>1. /\ \A s \in Thread \ {t} : /\ call'[s].service = call[s].service
                                 /\ call'[s].result = call[s].result
                                 /\ call'[s].at = IF call[s].at = "asleep" THEN "woken"
                                                   ELSE call[s].at
      /\ call[t].at \in {"finish", "drop"} /\ call'[t].at = "done"
      /\ call'[t].result = call[t].result
    <2>1. call' = [WakeAll(call) EXCEPT ![t].at = "done"] /\ call[t].at \in {"finish", "drop"}
        BY DEF FinishTurn, DropOwn, At
    <2>. QED
        BY <2>1 DEF IInv, Typed, Call, WakeAll
<1>2. UNCHANGED <<serviceClosed, pipelineLock, closed>>
    BY DEF FinishTurn, DropOwn, DropPipeline, serviceVars
<1>3. SleepersAwaited'
    BY <1>1 DEF WInv, SleepersAwaited, At
<1>4. LockIsUsed'
    BY <1>1, <1>2 DEF WInv, LockIsUsed
<1>5. OneCloser'
    BY <1>1, <1>2 DEF WInv, OneCloser
<1>. QED
    BY <1>3, <1>4, <1>5 DEF WInv

(* Only the first closer is to close the service; who sleeps found a turn. *)
LEMMA ClosesWait ==
    ASSUME IInv, WInv, NEW t \in Thread, EnterClose(t) \/ Wake(t)
    PROVE  WInv'
<1>. USE ChatAssumption, ServiceAssumption DEF ChatAssumption, ServiceAssumption
<1>1. /\ \A s \in Thread \ {t} : call'[s] = call[s]
      /\ call[t].at \in {"close", "woken"}
      /\ call'[t].at \in {"asleep", "drained", "done"}
      /\ call'[t].at = "asleep" => sessionLock # NoThread
      /\ \/ call'[t].result = "closed" /\ ~closed
         \/ call[t].at = "woken" /\ call'[t].result = call[t].result
         \/ call'[t].result = "already closed"
    <2>1. ASSUME NEW a \in Label, NEW r \in Result,
                 call' = [call EXCEPT ![t].at = a, ![t].result = r]
          PROVE  /\ \A s \in Thread \ {t} : call'[s] = call[s]
                 /\ call'[t].at = a /\ call'[t].result = r
        BY <2>1 DEF IInv, Typed, Call
    <2>2. activeSends > 0 => sessionLock # NoThread
        BY DEF IInv, SessionHeld
    <2>3. {"asleep", "drained", "done"} \subseteq Label
          /\ {"closed", "already closed"} \subseteq Result
        BY DEF Label, Result
    <2>4. CASE EnterClose(t)
        <3>1. call[t].at = "close"
            BY <2>4 DEF EnterClose, At
        <3>2. CASE activeSends > 0
            <4>1. CASE ~closed
                BY <2>1, <2>2, <2>3, <2>4, <3>1, <3>2, <4>1 DEF EnterClose, Await, Record
            <4>2. CASE closed
                BY <2>1, <2>2, <2>3, <2>4, <3>1, <3>2, <4>2 DEF EnterClose, Await, Record
            <4>. QED
                BY <4>1, <4>2
        <3>3. CASE ~(activeSends > 0) /\ ~closed
            BY <2>1, <2>3, <2>4, <3>1, <3>3 DEF EnterClose, Await, Record
        <3>4. CASE ~(activeSends > 0) /\ closed
            BY <2>1, <2>3, <2>4, <3>1, <3>4 DEF EnterClose, Await, Finish
        <3>. QED
            BY <3>2, <3>3, <3>4
    <2>5. CASE Wake(t)
        <3>1. call[t].at = "woken" /\ call[t].result \in {"closed", "already closed"}
            BY <2>5 DEF Wake, At, IInv, ResultFits
        <3>2. CASE activeSends > 0
            <4>1. CASE call[t].result = "closed"
                <5>1. call' = [call EXCEPT ![t].at = "asleep", ![t].result = "closed"]
                    BY <2>5, <3>2, <4>1 DEF Wake, Await, Record
                <5>. QED
                    BY <2>1, <2>2, <2>3, <3>1, <3>2, <4>1, <5>1
            <4>2. CASE call[t].result = "already closed"
                BY <2>1, <2>2, <2>3, <2>5, <3>1, <3>2, <4>2 DEF Wake, Await, Record
            <4>. QED
                BY <3>1, <4>1, <4>2
        <3>3. CASE ~(activeSends > 0) /\ call[t].result = "closed"
            BY <2>1, <2>3, <2>5, <3>1, <3>3 DEF Wake, Await, Record
        <3>4. CASE ~(activeSends > 0) /\ call[t].result = "already closed"
            BY <2>1, <2>3, <2>5, <3>1, <3>4 DEF Wake, Await, Finish
        <3>. QED
            BY <3>1, <3>2, <3>3, <3>4
    <2>. QED
        BY <2>4, <2>5
<1>2. UNCHANGED <<serviceClosed, pipelineLock, sessionLock>> /\ closed' = TRUE
    <2>1. CASE EnterClose(t)
        BY <2>1 DEF EnterClose, serviceVars
    <2>2. CASE Wake(t)
        BY <2>2 DEF Wake, serviceVars, At, IInv, Drained
    <2>. QED
        BY <2>1, <2>2
<1>3. SleepersAwaited'
    BY <1>1, <1>2 DEF WInv, SleepersAwaited, At
<1>4. LockIsUsed'
    <2>1. ASSUME NEW v \in Service, NEW u \in Thread, pipelineLock[v] = u
          PROVE  call'[u] = call[u] /\ call[u].at \in {"obtain", "run"} /\ call[u].service = v
        <3>1. call[u].at \in {"obtain", "run"} /\ call[u].service = v
            BY <2>1 DEF WInv, LockIsUsed
        <3>2. u # t
            BY <1>1, <3>1
        <3>. QED
            BY <1>1, <3>1, <3>2
    <2>. QED
        BY <1>2, <2>1 DEF LockIsUsed
<1>5. OneCloser'
    <2>1. (\A s, u \in Thread :
              call[s].result = "closed" /\ call[u].result = "closed" => s = u)'
        BY <1>1 DEF WInv, OneCloser
    <2>2. (\A s \in Thread : call[s].result = "closed" => closed)'
        BY <1>2
    <2>3. (\A s \in Thread :
              call[s].at \in {"asleep", "woken", "drained"} /\ call[s].result = "closed"
                  => ~serviceClosed[Own])'
        BY <1>1, <1>2 DEF WInv, OneCloser, IInv, Drained
    <2>4. (\A v \in Service \ {Own} :
              serviceClosed[v] => call[Main].at \notin {"idle", "closing"})'
        BY <1>1, <1>2 DEF WInv, OneCloser
    <2>. QED
        BY <2>1, <2>2, <2>3, <2>4 DEF OneCloser
<1>. QED
    BY <1>3, <1>4, <1>5 DEF WInv

LEMMA CloseServiceWaits ==
    ASSUME IInv, WInv, NEW t \in Thread, CloseService(t)
    PROVE  WInv'
<1>. USE ChatAssumption, ServiceAssumption DEF ChatAssumption, ServiceAssumption
<1>1. /\ \A s \in Thread \ {t} : call'[s] = call[s]
      /\ call[t].at = "drained" /\ call'[t].at = "drop"
      /\ call[t].result = "closed" /\ call'[t].result = "closed"
    BY DEF IInv, Typed, Call, At, CloseService, Goto, ResultFits
<1>2. /\ serviceClosed' = [serviceClosed EXCEPT ![Own] = TRUE]
      /\ UNCHANGED <<pipelineLock, sessionLock, closed>>
    BY DEF CloseService, ClaimClose, sessionVars
<1>3. SleepersAwaited'
    BY <1>1, <1>2 DEF WInv, SleepersAwaited, At
<1>4. LockIsUsed'
    BY <1>1, <1>2 DEF WInv, LockIsUsed
<1>5. OneCloser'
    BY <1>1, <1>2 DEF WInv, OneCloser, IInv, Typed, ServiceTypeOK
<1>. QED
    BY <1>3, <1>4, <1>5 DEF WInv

LEMMA JoinWaits ==
    ASSUME IInv, WInv, Join
    PROVE  WInv'
<1>. USE ChatAssumption, ServiceAssumption DEF ChatAssumption, ServiceAssumption
<1>1. /\ \A s \in Thread \ {Main} : call[s].at \in {"idle", "done"} /\ call'[s].at = "done"
      /\ \A s \in Thread : call'[s].result = call[s].result
      /\ call[Main].at = "idle" /\ call'[Main].at = "closing"
    BY DEF IInv, Typed, Call, At, Join
<1>2. UNCHANGED <<serviceClosed, pipelineLock, sessionLock, closed>>
    BY DEF Join, serviceVars, sessionVars
<1>3. SleepersAwaited'
    BY <1>1, <1>2 DEF WInv, SleepersAwaited, At
<1>4. LockIsUsed'
    BY <1>1, <1>2 DEF WInv, LockIsUsed
<1>5. OneCloser'
    BY <1>1, <1>2 DEF WInv, OneCloser
<1>. QED
    BY <1>3, <1>4, <1>5 DEF WInv

LEMMA SharedCloseWaits ==
    ASSUME IInv, WInv, CloseShared \/ DropShared
    PROVE  WInv'
<1>. USE ChatAssumption, ServiceAssumption DEF ChatAssumption, ServiceAssumption
<1>1. /\ \A s \in Thread \ {Main} : call'[s] = call[s]
      /\ call[Main].at \in {"closing", "leave"} /\ call'[Main].at \in {"leave", "close"}
      /\ call'[Main].result = call[Main].result
    BY DEF IInv, Typed, Call, At, CloseShared, DropShared, Goto
<1>2. /\ \/ UNCHANGED serviceClosed
         \/ shared # NoService /\ serviceClosed' = [serviceClosed EXCEPT ![shared] = TRUE]
      /\ UNCHANGED <<pipelineLock, sessionLock, closed>>
    BY DEF CloseShared, DropShared, ClaimClose, DropPipeline, IInv, ServiceFits, At,
        serviceVars, sessionVars
<1>3. SleepersAwaited'
    BY <1>1, <1>2 DEF WInv, SleepersAwaited, At
<1>4. LockIsUsed'
    BY <1>1, <1>2 DEF WInv, LockIsUsed
<1>5. OneCloser'
    BY <1>1, <1>2 DEF WInv, OneCloser, IInv, Typed, ServiceTypeOK, SharedFits, Shareable
<1>. QED
    BY <1>3, <1>4, <1>5 DEF WInv

LEMMA WaitInvariance == Spec => [](IInv /\ WInv)
<1>1. Init => WInv
    <2>. SUFFICES ASSUME Init PROVE WInv
        OBVIOUS
    <2>. USE ChatAssumption, ServiceAssumption DEF ChatAssumption, ServiceAssumption
    <2>1. /\ \A t \in Thread : call[t].at = "idle" /\ call[t].result = "none"
          /\ \A v \in Service : ~serviceClosed[v] /\ pipelineLock[v] = NoThread
        BY DEF Init, ServiceInit, NotStarted
    <2>. QED
        BY <2>1 DEF WInv, SleepersAwaited, LockIsUsed, OneCloser, At
<1>2. IInv /\ WInv /\ [Next]_vars => WInv'
    <2>. SUFFICES ASSUME IInv, WInv, [Next]_vars PROVE WInv'
        OBVIOUS
    <2>1. ASSUME NEW t \in Thread,
                 \/ RequestTurn(t) \/ RequestClose(t)
                 \/ \E device \in Device : RequestInference(t, device)
          PROVE  WInv'
        BY <2>1, RequestsWait
    <2>2. ASSUME NEW t \in Thread, Step(t) PROVE WInv'
        BY <2>2, SendsWait, GenerationsWait, FinishTurnWaits, ClosesWait, CloseServiceWaits
           DEF Step
    <2>3. CASE Join \/ CloseShared \/ DropShared
        BY <2>3, JoinWaits, SharedCloseWaits
    <2>4. CASE UNCHANGED vars
        BY <2>4 DEF vars, serviceVars, sessionVars, WInv, SleepersAwaited, LockIsUsed,
            OneCloser, At
    <2>. QED
        BY <2>1, <2>2, <2>3, <2>4 DEF Next
<1>. QED
    BY <1>1, <1>2, Initially, Inductive, PTL DEF Spec

(* The locks are taken in one order, so any number of sends, closes,       *)
(* inferences and the shutdown cannot wait for each other in a circle.     *)
THEOREM NobodyWaitsInACircle == Spec => []WaitsInOrder
<1>1. IInv /\ WInv => WaitsInOrder
    <2>. USE ChatAssumption, ServiceAssumption DEF ChatAssumption, ServiceAssumption
    <2>. SUFFICES ASSUME IInv, WInv, NEW t \in Thread, NEW u \in Thread, WaitsFor(t, u)
                  PROVE  Level(t) < Level(u)
        BY DEF WaitsInOrder
    <2>1. CASE At(t, "send") /\ u = sessionLock
        <3>1. call[u].at \in {"admitted", "finish", "generate", "obtain", "run"}
            BY <2>1 DEF IInv, SessionHeld, Turning
        <3>. QED
            BY <2>1, <3>1 DEF Level, At
    <2>2. CASE At(t, "asleep") /\ u = sessionLock
        <3>1. call[u].at \in {"admitted", "finish", "generate", "obtain", "run"}
            BY <2>2 DEF IInv, SessionHeld, Turning
        <3>. QED
            BY <2>2, <3>1 DEF Level, At
    <2>3. CASE call[t].at \in {"send", "finish", "close", "woken"} /\ u = condition
        <3>1. call[u].at \in {"drained", "drop"}
            BY <2>3 DEF IInv, ConditionHeld
        <3>. QED
            BY <2>3, <3>1 DEF Level, At
    <2>4. CASE At(t, "create") /\ u = creating /\ u # t
        BY <2>4 DEF Level, At, IInv, CreationHeld
    <2>5. CASE call[t].at \in {"generate", "leave"} /\ u = pipelineLock[call[t].service]
        <3>1. call[t].service \in Service
            BY <2>5 DEF IInv, ServiceFits, Turn, SharedFits, Shareable, MainLast, Handler, At
        <3>2. call[u].at \in {"obtain", "run"}
            BY <2>5, <3>1 DEF WInv, LockIsUsed
        <3>. QED
            BY <2>5, <3>2 DEF Level, At
    <2>6. CASE At(t, "drop") /\ u = pipelineLock[Own]
        <3>1. call[u].at \in {"obtain", "run"}
            BY <2>6 DEF WInv, LockIsUsed
        <3>. QED
            BY <2>6, <3>1 DEF Level, At
    <2>. QED
        BY <2>1, <2>2, <2>3, <2>4, <2>5, <2>6 DEF WaitsFor, At
<1>. QED
    BY <1>1, WaitInvariance, PTL

(* A close that sleeps has a turn that will notify it: the count is tested *)
(* and the sleep begun under the condition that the turn's end takes.      *)
THEOREM NoNotificationLost == Spec => []SleepersAwaited
<1>1. IInv /\ WInv => SleepersAwaited
    BY DEF WInv
<1>. QED
    BY <1>1, WaitInvariance, PTL

(* The conditions of a call's next step, beyond its place: it waits for    *)
(* nobody, holds what it works under, and closes what is not yet closed.   *)
CanStep(t) ==
    /\ call[t].at \notin {"idle", "done", "asleep"}
    /\ \A u \in Thread : ~WaitsFor(t, u)
    /\ call[t].at \in {"obtain", "run"} => pipelineLock[call[t].service] = t
    /\ At(t, "create") /\ creating = t /\ call[t].service = NoService => Shareable \ created # {}
    /\ At(t, "drained") => ~serviceClosed[Own]
    /\ At(t, "closing") /\ call[t].service # NoService => ~serviceClosed[call[t].service]

CanJoin == At(Main, "idle") /\ \A t \in Handler : call[t].at \in {"idle", "done"}

(* The system stops only when every call has returned.                     *)
NeverStuck == AllDone \/ CanJoin \/ \E t \in Thread : CanStep(t)

(* As long as calls are under way one of them can take its next step.      *)
THEOREM NoDeadlock == Spec => []NeverStuck
<1>1. IInv /\ WInv => NeverStuck
    <2>. USE ChatAssumption, ServiceAssumption DEF ChatAssumption, ServiceAssumption
    <2>. SUFFICES ASSUME IInv, WInv, ~AllDone, ~CanJoin PROVE \E t \in Thread : CanStep(t)
        BY DEF NeverStuck
    <2>1. CASE \E t \in Thread : call[t].at \in {"obtain", "run"}
        <3>1. PICK t \in Thread : call[t].at \in {"obtain", "run"}
            BY <2>1
        <3>2. CanStep(t)
            BY <3>1 DEF CanStep, WaitsFor, At, IInv, PipelineHeld
        <3>. QED
            BY <3>2
    <2>2. CASE \A t \in Thread : call[t].at \notin {"obtain", "run"}
        <3>1. \A v \in Service, u \in Thread : u # pipelineLock[v]
            BY <2>2 DEF WInv, LockIsUsed
        <3>2. CASE \E t \in Thread : call[t].at \in {"drained", "drop", "closing", "leave"}
            <4>1. PICK t \in Thread : call[t].at \in {"drained", "drop", "closing", "leave"}
                BY <3>2
            <4>2. \A u \in Thread : ~WaitsFor(t, u)
                <5>1. At(t, "leave") => call[t].service \in Service
                    BY <4>1 DEF IInv, ServiceFits, SharedFits, Shareable, MainLast, Handler, At
                <5>. QED
                    BY <3>1, <4>1, <5>1 DEF WaitsFor, At
            <4>3. At(t, "drained") => ~serviceClosed[Own]
                BY <4>1 DEF WInv, OneCloser, IInv, ResultFits, At
            <4>4. At(t, "closing") /\ call[t].service # NoService
                      => ~serviceClosed[call[t].service]
                <5>. SUFFICES ASSUME At(t, "closing"), call[t].service # NoService
                              PROVE  ~serviceClosed[call[t].service]
                    OBVIOUS
                <5>1. t = Main /\ call[t].service \in Service \ {Own}
                    BY DEF IInv, ServiceFits, SharedFits, Shareable, MainLast, Handler, At
                <5>. QED
                    BY <5>1 DEF WInv, OneCloser, At
            <4>5. CanStep(t)
                BY <2>2, <4>1, <4>2, <4>3, <4>4 DEF CanStep, At
            <4>. QED
                BY <4>5
        <3>3. CASE \A t \in Thread : call[t].at \notin {"drained", "drop", "closing", "leave"}
            <4>1. \A u \in Thread : u # condition
                BY <3>3 DEF IInv, ConditionHeld
            <4>. DEFINE Here == {"admitted", "generate", "finish", "close", "woken", "infer"}
            <4>2. CASE \E t \in Thread : call[t].at \in Here
                <5>1. PICK t \in Thread : call[t].at \in Here
                    BY <4>2
                <5>2. At(t, "generate") => call[t].service \in Service
                    BY DEF IInv, ServiceFits, Turn, SharedFits, Shareable, At
                <5>3. CanStep(t)
                    BY <3>1, <4>1, <5>1, <5>2 DEF CanStep, WaitsFor, At
                <5>. QED
                    BY <5>3
            <4>3. CASE \A t \in Thread : call[t].at \notin Here
                <5>1. \A u \in Thread : u # sessionLock
                    BY <2>2, <4>3 DEF IInv, SessionHeld, Turning
                <5>2. \A t \in Thread : ~At(t, "asleep")
                    BY <5>1 DEF WInv, SleepersAwaited, IInv, Typed
                <5>3. CASE \E t \in Thread : At(t, "send")
                    <6>1. PICK t \in Thread : At(t, "send")
                        BY <5>3
                    <6>2. CanStep(t)
                        BY <4>1, <5>1, <6>1 DEF CanStep, WaitsFor, At
                    <6>. QED
                        BY <6>2
                <5>4. CASE \E t \in Thread : At(t, "create")
                    <6>1. PICK t \in Thread :
                             At(t, "create") /\ \A u \in Thread : u = creating => u = t
                        BY <5>4 DEF IInv, CreationHeld
                    <6>2. creating = t /\ call[t].service = NoService
                              => Shareable \ created # {}
                        <7>1. CASE shared = NoService
                            BY <7>1 DEF IInv, SharedFits, Shareable
                        <7>2. CASE shared # NoService
                            BY <6>1, <7>2 DEF IInv, ServiceFits, At
                        <7>. QED
                            BY <7>1, <7>2
                    <6>3. CanStep(t)
                        BY <6>1, <6>2 DEF CanStep, WaitsFor, At
                    <6>. QED
                        BY <6>3
                <5>5. CASE \A t \in Thread : ~At(t, "send") /\ ~At(t, "create")
                    <6>1. \A t \in Thread : call[t].at \in {"idle", "done"}
                        BY <2>2, <3>3, <4>3, <5>2, <5>5 DEF At, IInv, Typed, Call, Label
                    <6>2. At(Main, "idle") \/ AllDone
                        BY <6>1 DEF IInv, MainLast, AllDone, At, Handler
                    <6>. QED
                        BY <6>1, <6>2 DEF CanJoin, Handler
                <5>. QED
                    BY <5>3, <5>4, <5>5
            <4>. QED
                BY <4>2, <4>3
        <3>. QED
            BY <3>2, <3>3
    <2>. QED
        BY <2>1, <2>2
<1>. QED
    BY <1>1, WaitInvariance, PTL
=============================================================================
