---------------------------- MODULE OpenVINOChat -----------------------------
(***************************************************************************)
(* The users of OpenVINOInferenceService in one server process: an         *)
(* OpenVINOChatSession with a service of its own, which request threads    *)
(* send to and close, and POST /v1/openvino/infer, whose handlers share a  *)
(* service that the first of them creates.  At shutdown the main thread    *)
(* joins the handlers, then closes the shared service and the session.     *)
(*                                                                         *)
(* A thread makes one call.  One action is one critical section, one step  *)
(* under the pipeline lock, or one wait.                                   *)
(***************************************************************************)
EXTENDS OpenVINOService, Naturals

CONSTANTS Own,        \* the service of the session
          NoService,  \* _openvino_service before the first request
          Main        \* the main thread

ASSUME ChatAssumption ==
    /\ Own \in Service
    /\ Service # {Own}  \* the handlers can construct one
    /\ NoService \notin Service
    /\ Main \in Thread
    /\ IsFiniteSet(Thread)
    /\ Device # {}

VARIABLES call,         \* thread -> what it does and where it is
          sessionLock,  \* holder of the session's _lock
          condition,    \* holder of _closed_cv
          closed,       \* the session's _closed
          activeSends,  \* the session's _active_sends
          turns,        \* completed turns in the session's history
          shared,       \* the server's _openvino_service
          creating,     \* holder of _openvino_lock
          created       \* services the infer handlers have constructed

sessionVars == <<sessionLock, condition, closed, activeSends, turns>>
sharedVars == <<shared, creating, created>>
vars == <<serviceVars, call, sessionVars, sharedVars>>

Shareable == Service \ {Own}

Label == {"idle", "send", "admitted", "generate", "obtain", "run", "leave",
          "finish", "close", "asleep", "woken", "drained", "drop", "closing",
          "infer", "create", "done"}
Result == {"none", "turn", "failed", "refused", "session closed", "closed", "already closed"}
Call == [at : Label, service : Service \cup {NoService}, device : Device, result : Result]

TypeOK ==
    /\ ServiceTypeOK
    /\ call \in [Thread -> Call]
    /\ sessionLock \in Thread \cup {NoThread}
    /\ condition \in Thread \cup {NoThread}
    /\ closed \in BOOLEAN
    /\ activeSends \in 0 .. Cardinality(Thread)
    /\ turns \in 0 .. Cardinality(Thread)
    /\ shared \in Service \cup {NoService}
    /\ creating \in Thread \cup {NoThread}
    /\ created \subseteq Shareable

SomeDevice == CHOOSE d \in Device : TRUE

NotStarted == [at |-> "idle", service |-> NoService, device |-> SomeDevice, result |-> "none"]

Init ==
    /\ ServiceInit
    /\ call = [t \in Thread |-> NotStarted]
    /\ sessionLock = NoThread
    /\ condition = NoThread
    /\ closed = FALSE
    /\ activeSends = 0
    /\ turns = 0
    /\ shared = NoService
    /\ creating = NoThread
    /\ created = {}

At(t, label) == call[t].at = label
Goto(t, label) == call' = [call EXCEPT ![t].at = label]
Finish(t, result) == call' = [call EXCEPT ![t].at = "done", ![t].result = result]
Record(t, label, result) == call' = [call EXCEPT ![t].at = label, ![t].result = result]

Turn(t) == call[t].service = Own

(* ---- send -------------------------------------------------------------- *)

(* A turn is requested; the device was fixed when the session was made.    *)
RequestTurn(t) ==
    /\ t # Main
    /\ At(t, "idle")
    /\ call' = [call EXCEPT ![t].at = "send", ![t].service = Own]
    /\ UNCHANGED <<serviceVars, sessionVars, sharedVars>>

(* mutant: the turn is not counted.                                        *)
AdmitUncounted(t) ==
    /\ At(t, "send")
    /\ sessionLock = NoThread
    /\ condition = NoThread
    /\ ~closed
    /\ sessionLock' = t
    /\ Goto(t, "admitted")
    /\ UNCHANGED <<serviceVars, condition, closed, activeSends, turns, sharedVars>>

(* The session lock, then the closed flag under the condition.             *)
AdmitTurn(t) ==
    /\ At(t, "send")
    /\ sessionLock = NoThread
    /\ condition = NoThread
    /\ IF closed
       THEN /\ Finish(t, "session closed")
            /\ UNCHANGED <<sessionLock, activeSends>>
       ELSE /\ sessionLock' = t
            /\ activeSends' = activeSends + 1
            /\ Goto(t, "admitted")
    /\ UNCHANGED <<serviceVars, condition, closed, turns, sharedVars>>

(* A transcript of the newest turns is sent, or the prompt is too long.    *)
Transcribe(t) ==
    /\ At(t, "admitted")
    /\ \/ Goto(t, "generate")
       \/ Record(t, "finish", "failed")
    /\ UNCHANGED <<serviceVars, sessionVars, sharedVars>>

(* mutant: notify() for notify_all().                                       *)
WakeOne(c) ==
    LET sleepers == {t \in Thread : c[t].at = "asleep"}
    IN  IF sleepers = {} THEN c ELSE [c EXCEPT ![CHOOSE t \in sleepers : TRUE].at = "woken"]

(* The finally block: the turn is over, whoever waits is notified.         *)
WakeAll(c) == [t \in Thread |-> IF c[t].at = "asleep" THEN [c[t] EXCEPT !.at = "woken"] ELSE c[t]]

FinishTurn(t) ==
    /\ At(t, "finish")
    /\ condition = NoThread
    /\ activeSends' = activeSends - 1
    /\ sessionLock' = NoThread
    /\ call' = [WakeAll(call) EXCEPT ![t].at = "done"]
    /\ turns' = IF call[t].result = "turn" THEN turns + 1 ELSE turns
    /\ UNCHANGED <<serviceVars, condition, closed, sharedVars>>

(* ---- POST /v1/openvino/infer -------------------------------------------- *)

RequestInference(t, device) ==
    /\ t # Main
    /\ At(t, "idle")
    /\ call' = [call EXCEPT ![t].at = "infer", ![t].device = device]
    /\ UNCHANGED <<serviceVars, sessionVars, sharedVars>>

(* The first read is outside the lock, the second (Reread) inside.         *)
FindService(t) ==
    /\ At(t, "infer")
    /\ call' = [call EXCEPT ![t].at = IF shared = NoService THEN "create" ELSE "generate",
                            ![t].service = shared]
    /\ UNCHANGED <<serviceVars, sessionVars, sharedVars>>

(* mutant: the lock is taken and nothing is read again.                    *)
NoReread == NoService

Reread == shared

TakeCreation(t) ==
    /\ At(t, "create")
    /\ creating = NoThread
    /\ creating' = t
    /\ call' = [call EXCEPT ![t].service = Reread]
    /\ UNCHANGED <<serviceVars, sessionVars, shared, created>>

CreateService(t) ==
    /\ At(t, "create")
    /\ creating = t
    /\ IF call[t].service # NoService
       THEN Goto(t, "generate") /\ UNCHANGED <<shared, created>>
       ELSE \E v \in Shareable \ created :
                /\ created' = created \cup {v}
                /\ shared' = v
                /\ call' = [call EXCEPT ![t].at = "generate", ![t].service = v]
    /\ creating' = NoThread
    /\ UNCHANGED <<serviceVars, sessionVars>>

(* ---- generate ------------------------------------------------------------ *)

(* Where a generation goes when it is over: a turn has its finally block.  *)
After(t, result) ==
    IF Turn(t) THEN Record(t, "finish", result) ELSE Finish(t, result)

Enter(t) ==
    /\ At(t, "generate")
    /\ \/ EnterGenerate(call[t].service, t) /\ Goto(t, "obtain")
       \/ RefusedAsClosed(call[t].service) /\ After(t, "refused")
    /\ UNCHANGED <<sessionVars, sharedVars>>

Obtain(t) ==
    /\ At(t, "obtain")
    /\ \/ \E a \in Artifact :
              \/ RefuseArtifact(call[t].service, t, a) /\ After(t, "failed")
              \/ /\ ObtainPipeline(call[t].service, t, a, call[t].device)
                 /\ Goto(t, "run")
              \/ FailPipeline(call[t].service, t, a, call[t].device) /\ After(t, "failed")
       \/ LeaveGenerate(call[t].service, t) /\ After(t, "failed")  \* no openvino_genai
    /\ UNCHANGED <<sessionVars, sharedVars>>

Generate(t) ==
    /\ At(t, "run")
    /\ LeaveGenerate(call[t].service, t)
    /\ \E result \in {"turn", "failed"} : After(t, result)
    /\ UNCHANGED <<sessionVars, sharedVars>>

(* ---- close ---------------------------------------------------------------- *)

RequestClose(t) ==
    /\ t # Main
    /\ At(t, "idle")
    /\ call' = [call EXCEPT ![t].at = "close"]
    /\ UNCHANGED <<serviceVars, sessionVars, sharedVars>>

(* mutant: the service is closed at once.                                  *)
AwaitNothing(t, first) ==
    IF first
    THEN Record(t, "drained", "closed") /\ condition' = t
    ELSE Finish(t, "already closed") /\ condition' = NoThread

(* wait(): sleep without the condition, or keep it and go on.  The first   *)
(* closer goes on to the service, any other one returns.                   *)
Await(t, first) ==
    IF activeSends > 0
    THEN /\ Record(t, "asleep", IF first THEN "closed" ELSE "already closed")
         /\ condition' = NoThread
    ELSE IF first
         THEN Record(t, "drained", "closed") /\ condition' = t
         ELSE Finish(t, "already closed") /\ condition' = NoThread

EnterClose(t) ==
    /\ At(t, "close")
    /\ condition = NoThread
    /\ closed' = TRUE
    /\ Await(t, ~closed)
    /\ UNCHANGED <<serviceVars, sessionLock, activeSends, turns, sharedVars>>

Wake(t) ==
    /\ At(t, "woken")
    /\ condition = NoThread
    /\ Await(t, call[t].result = "closed")
    /\ UNCHANGED <<serviceVars, sessionLock, closed, activeSends, turns, sharedVars>>

(* _close_service and service.close(), while the condition is held.        *)
CloseService(t) ==
    /\ At(t, "drained")
    /\ ClaimClose(Own)
    /\ Goto(t, "drop")
    /\ UNCHANGED <<sessionVars, sharedVars>>

DropOwn(t) ==
    /\ At(t, "drop")
    /\ DropPipeline(Own)
    /\ condition' = NoThread
    /\ call' = [WakeAll(call) EXCEPT ![t].at = "done"]
    /\ UNCHANGED <<sessionLock, closed, activeSends, turns, sharedVars>>

(* ---- server_close --------------------------------------------------------- *)

(* The join of the handlers, then the shared service; request threads that *)
(* have not started are connections that are never accepted any more.      *)
Join ==
    /\ At(Main, "idle")
    /\ \A t \in Thread \ {Main} : call[t].at \in {"idle", "done"}
    /\ call' = [t \in Thread |->
                    IF t = Main
                    THEN [call[t] EXCEPT !.at = "closing", !.service = shared]
                    ELSE [call[t] EXCEPT !.at = "done"]]
    /\ UNCHANGED <<serviceVars, sessionVars, sharedVars>>

CloseShared ==
    /\ At(Main, "closing")
    /\ \/ call[Main].service = NoService /\ Goto(Main, "close") /\ UNCHANGED serviceVars
       \/ /\ call[Main].service # NoService
          /\ ClaimClose(call[Main].service)
          /\ Goto(Main, "leave")
    /\ UNCHANGED <<sessionVars, sharedVars>>

DropShared ==
    /\ At(Main, "leave")
    /\ DropPipeline(call[Main].service)
    /\ Goto(Main, "close")
    /\ UNCHANGED <<sessionVars, sharedVars>>

AllDone == \A t \in Thread : At(t, "done")

(* The steps of a call once it is made.                                    *)
Step(t) ==
    \/ AdmitTurn(t) \/ Transcribe(t) \/ FinishTurn(t)
    \/ FindService(t) \/ TakeCreation(t) \/ CreateService(t)
    \/ Enter(t) \/ Obtain(t) \/ Generate(t)
    \/ EnterClose(t) \/ Wake(t) \/ CloseService(t) \/ DropOwn(t)

Next ==
    \/ \E t \in Thread :
           \/ RequestTurn(t) \/ RequestClose(t)
           \/ \E device \in Device : RequestInference(t, device)
           \/ Step(t)
    \/ Join \/ CloseShared \/ DropShared
    \/ AllDone /\ UNCHANGED vars

Spec == Init /\ [][Next]_vars

(* Threads are scheduled and a generation ends.  A lock is free again and  *)
(* again while others use it: whoever waits for one gets it eventually.    *)
FairSpec ==
    /\ Spec
    /\ \A t \in Thread : SF_vars(Step(t))
    /\ WF_vars(CloseShared) /\ WF_vars(DropShared)

-----------------------------------------------------------------------------

(* A turn that was admitted is never refused by its own service: close()   *)
(* waits for it before it closes the service ("an in-flight send is        *)
(* allowed to complete normally", chat.py).                                *)
AdmittedIsServed == \A t \in Thread : Turn(t) => call[t].result # "refused"

(* When the call that closed the session has returned, and when the        *)
(* server has closed the shared service, that service holds no pipeline,   *)
(* nobody is generating with it, and no later call will.                   *)
Released(v) ==
    /\ serviceClosed[v]
    /\ pipeline[v] = NoPipeline
    /\ \A t \in Thread : call[t].service = v => ~(call[t].at \in {"obtain", "run"})

ClosedIsReleased ==
    /\ (\E t \in Thread : At(t, "done") /\ call[t].result = "closed") => Released(Own)
    /\ At(Main, "close") /\ shared # NoService => Released(shared)

(* The handlers share one service: double-checked creation never builds a  *)
(* second one, whose pipeline nobody would close.                          *)
OneSharedService == created \subseteq {shared}

(* close() holds the condition while it closes the service, and sends take *)
(* the session lock, the condition and the pipeline lock: nobody waits     *)
(* forever, no wake-up is lost, every call returns.                        *)
EveryCallReturns ==
    \A t \in Thread : (~At(t, "idle")) ~> At(t, "done")
=============================================================================
