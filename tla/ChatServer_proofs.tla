-------------------------- MODULE ChatServer_proofs --------------------------
(***************************************************************************)
(* Ownership of sessions in the HTTP API, for any number of request        *)
(* threads and sessions, any capacity, and for the server's shutdown as    *)
(* well as a close_all that waits for nobody.                              *)
(***************************************************************************)
EXTENDS ChatServer, FiniteSetTheorems, TLAPS

(* A request between launching a session and registering or closing it.    *)
Launched == {"starting", "register", "discard", "discarded"}

(* Where a request has no session to speak of.                             *)
Sessionless == PC \ (Launched \cup InUse)

Pc(h) == handler[h].pc

(* Such a request has none, so that it owns none.                          *)
SessionOnlyWhenNeeded ==
    \A h \in Handler : Pc(h) \in Sessionless => Of(h) = NoSession

(* A request that sends to or removes a session holds its turn slot.       *)
SlotHeld == \A h \in Handler : Pc(h) \in InUse => slot[Of(h)] = h

(* A session of a request or of the registry was launched ...              *)
WasLaunched ==
    /\ \A h \in Handler : Pc(h) \in Launched \cup InUse => state[Of(h)] # "none"
    /\ \A s \in registered \cup draining : state[s] # "none"

(* ... and until it is registered nobody else has it.                      *)
LaunchedAlone ==
    \A h \in Handler : Pc(h) \in Launched =>
        /\ Of(h) \notin registered \cup draining
        /\ \A g \in Handler \ {h} : Pc(g) \in Launched \cup InUse => Of(g) # Of(h)

(* What close() and a launch that is not ready have done so far.           *)
Progress ==
    /\ \A h \in Handler : Pc(h) = "starting" => state[Of(h)] = "starting"
    /\ \A h \in Handler : Pc(h) \in {"closed", "discarded"} => ~alive[Of(h)]
    /\ \A s \in Session : state[s] = "closed" => ~alive[s]

(* A runtime that a turn is using stays with the registry or close_all.    *)
TurnIsReachable ==
    \A h \in Handler : Pc(h) \in Turning \cup {"endTurn"} /\ alive[Of(h)]
        => Of(h) \in registered \cup draining

(* Nothing is being drained before close_all took the sessions out.        *)
DrainedOnce == phase \in {"serving", "refusing"} => draining = {}

(* The inductive invariant.                                                *)
IInv ==
    /\ TypeOK
    /\ SessionOnlyWhenNeeded
    /\ SlotHeld
    /\ WasLaunched
    /\ LaunchedAlone
    /\ Progress
    /\ TurnIsReachable
    /\ DrainedOnce
    /\ UnregisteredBeforeClosed
    /\ NothingRegisteredAfterGate
    /\ ReadyIsOwned

LEMMA StutterKeeps ==
    ASSUME IInv, UNCHANGED vars
    PROVE  IInv'
BY DEF vars, IInv, SessionOnlyWhenNeeded, SlotHeld, WasLaunched, LaunchedAlone,
       Progress, TurnIsReachable, DrainedOnce, UnregisteredBeforeClosed,
       NothingRegisteredAfterGate, ReadyIsOwned, TypeOK, SessionTypeOK,
       sessionVars, registryVars, mainVars, Pc, Of


(* A step of a request that has no session changes nothing the invariant   *)
(* relates.                                                                *)
LEMMA QuietKeeps ==
    ASSUME IInv, TypeOK', NEW h \in Handler,
           Pc(h) \in Sessionless, handler'[h].pc \in Sessionless,
           Of(h) = NoSession, handler'[h].session = NoSession,
           \A g \in Handler \ {h} : handler'[g] = handler[g],
           UNCHANGED <<state, alive, slot, registered, closing, mainVars>>
    PROVE  IInv'
<1> USE DEF IInv, TypeOK, SessionTypeOK, PC, Creating, Turning, Removing, Launched,
            InUse, Sessionless, Idle, At, Of, Pc, sessionVars, registryVars, mainVars
<1>2. SessionOnlyWhenNeeded'
    BY SessionAssumption DEF SessionAssumption, SessionOnlyWhenNeeded
<1>3. SlotHeld'
    BY SessionAssumption DEF SessionAssumption, SlotHeld, WasLaunched, LaunchedAlone
<1>4. WasLaunched'
    BY SessionAssumption DEF SessionAssumption, WasLaunched, LaunchedAlone
<1>5. LaunchedAlone'
    BY SessionAssumption DEF SessionAssumption, LaunchedAlone, WasLaunched
<1>6. Progress'
    BY SessionAssumption DEF SessionAssumption, Progress, WasLaunched, LaunchedAlone
<1>7. TurnIsReachable'
    BY SessionAssumption DEF SessionAssumption, TurnIsReachable, SlotHeld, Progress, WasLaunched
<1>8. DrainedOnce'
    BY SessionAssumption DEF SessionAssumption, DrainedOnce
<1>9. UnregisteredBeforeClosed'
    BY SessionAssumption DEF SessionAssumption, UnregisteredBeforeClosed, LaunchedAlone
<1>10. NothingRegisteredAfterGate'
    BY SessionAssumption DEF SessionAssumption, NothingRegisteredAfterGate
<1>11. ReadyIsOwned'
    BY SessionAssumption DEF SessionAssumption, ReadyIsOwned, SessionOnlyWhenNeeded, Progress,
             TurnIsReachable, WasLaunched, LaunchedAlone
<1>. QED
    BY <1>2, <1>3, <1>4, <1>5, <1>6, <1>7, <1>8, <1>9, <1>10, <1>11

(* A request's arrival and its answer, run_lock, /v1/run, and what a       *)
(* create request does before it launches.                                 *)
LEMMA LockAndCheckKeep ==
    ASSUME IInv, NEW h \in Handler,
           \/ Connect(h) \/ BadRequest(h) \/ Answer(h)
           \/ TryRunLock(h, "acquireRun", "running") \/ Run(h) \/ RunRequest(h)
           \/ TryRunLock(h, "acquire", "admit") \/ CreateRequest(h) \/ CheckFull(h)
    PROVE  IInv'
<1> USE DEF IInv, Connect, BadRequest, Answer, TryRunLock, Run, RunRequest,
            CreateRequest, CheckFull, Arrives, Goto, Respond,
            TypeOK, SessionTypeOK, PC, Creating, Turning, Removing, Launched,
            InUse, Sessionless, Idle, At, Of, Pc, sessionVars, registryVars, mainVars
<1>1. TypeOK'
  <2>1. handler' \in [Handler -> [pc : PC, session : Session \cup {NoSession}]]
      OBVIOUS
  <2>2. \A g \in Handler : handler'[g].pc \in {"starting", "register", "discard",
             "discarded", "endTurn"} \cup Turning \cup Removing
           => handler'[g].session \in Session
      OBVIOUS
  <2>3. runLock' \in Handler \cup {NoHandler}
      OBVIOUS
  <2>. QED
      BY <2>1, <2>2, <2>3
<1>2. Pc(h) \in Sessionless /\ Of(h) = NoSession
    BY DEF SessionOnlyWhenNeeded
<1>3. handler'[h].pc \in Sessionless /\ handler'[h].session = NoSession
    BY <1>2
<1>4. \A g \in Handler \ {h} : handler'[g] = handler[g]
    OBVIOUS
<1>5. UNCHANGED <<state, alive, slot, registered, closing, mainVars>>
    OBVIOUS
<1>. QED
    BY <1>1, <1>2, <1>3, <1>4, <1>5, QuietKeeps

LEMMA AdmitKeeps ==
    ASSUME IInv, NEW h \in Handler, Admit(h)
    PROVE  IInv'
<1> USE DEF IInv, Admit, Work, StartRuntime, SetState,
            TypeOK, SessionTypeOK, PC, Creating, Turning, Removing, Launched,
            InUse, Sessionless, Idle, At, Of, Pc, sessionVars, registryVars, mainVars
<1>1. CASE runLock' = NoHandler /\ Respond(h) /\ UNCHANGED sessionVars
  <2>1. TypeOK'
      BY <1>1 DEF Respond
  <2>2. Pc(h) \in Sessionless /\ Of(h) = NoSession
      BY DEF SessionOnlyWhenNeeded
  <2>3. handler'[h] = Idle /\ \A g \in Handler \ {h} : handler'[g] = handler[g]
      BY <1>1 DEF Respond
  <2>. QED
      BY <1>1, <2>1, <2>2, <2>3, QuietKeeps
<1>2. ASSUME NEW s \in Session, StartRuntime(s), Work(h, "starting", s),
             UNCHANGED runLock
      PROVE IInv'
  <2>1. TypeOK'
    <3>1. handler'[h] = [pc |-> "starting", session |-> s]
        BY <1>2
    <3>2. \A g \in Handler \ {h} : handler'[g] = handler[g]
        BY <1>2
    <3>3. handler' \in [Handler -> [pc : PC, session : Session \cup {NoSession}]]
        BY <1>2
    <3>4. SessionTypeOK'
        BY <1>2 DEF ChatSessionState
    <3>. QED
        BY <1>2, <3>1, <3>2, <3>3, <3>4
  <2>2. SessionOnlyWhenNeeded'
      BY <1>2 DEF SessionOnlyWhenNeeded
  <2>3. SlotHeld'
      BY <1>2 DEF SlotHeld, WasLaunched, LaunchedAlone
  <2>4. WasLaunched'
      BY <1>2 DEF WasLaunched, LaunchedAlone
  <2>5. LaunchedAlone'
      BY <1>2 DEF LaunchedAlone, WasLaunched
  <2>6. Progress'
      BY <1>2 DEF Progress, WasLaunched, LaunchedAlone
  <2>7. TurnIsReachable'
      BY <1>2 DEF TurnIsReachable, SlotHeld, Progress, WasLaunched
  <2>8. DrainedOnce'
      BY <1>2 DEF DrainedOnce
  <2>9. UnregisteredBeforeClosed'
      BY <1>2 DEF UnregisteredBeforeClosed, LaunchedAlone
  <2>10. NothingRegisteredAfterGate'
      BY <1>2 DEF NothingRegisteredAfterGate
  <2>11. ReadyIsOwned'
    <3>1. handler'[h] = [pc |-> "starting", session |-> s]
        BY <1>2
    <3>2. \A g \in Handler \ {h} : handler'[g] = handler[g]
        BY <1>2
    <3>3. Of(h) = NoSession
        BY DEF SessionOnlyWhenNeeded
    <3>4. \A t \in Session \ {s} : state'[t] = state[t] /\ alive'[t] = alive[t]
        BY <1>2
    <3>5. state'[s] = "starting"
        BY <1>2
    <3>. QED
        BY <1>2, <3>1, <3>2, <3>3, <3>4, <3>5, SessionAssumption
        DEF ReadyIsOwned, SessionAssumption
  <2>. QED
      BY <2>1, <2>2, <2>3, <2>4, <2>5, <2>6, <2>7, <2>8, <2>9, <2>10, <2>11
<1>. QED
    BY <1>1, <1>2

LEMMA WaitReadyKeeps ==
    ASSUME IInv, NEW h \in Handler, WaitReady(h)
    PROVE  IInv'
<1> USE DEF IInv, WaitReady, Goto, Respond, BecomeReady, SetState,
            TypeOK, SessionTypeOK, PC, Creating, Turning, Removing, Launched,
            InUse, Sessionless, Idle, At, Of, Pc, sessionVars, registryVars, mainVars
<1>0. /\ Of(h) \in Session
      /\ handler'[h].pc \in {"register", "idle"}
      /\ \A g \in Handler \ {h} : handler'[g] = handler[g]
      /\ handler'[h].pc = "idle" => handler'[h] = Idle /\ state' = state
      /\ handler'[h].pc = "register" =>
           handler'[h].session = Of(h) /\ state' = [state EXCEPT ![Of(h)] = "ready"]
      /\ UNCHANGED <<alive, slot, registered, closing, mainVars>>
    OBVIOUS
<1>1. TypeOK'
  <2>1. SessionTypeOK'
      BY <1>0 DEF ChatSessionState
  <2>2. handler' \in [Handler -> [pc : PC, session : Session \cup {NoSession}]]
      OBVIOUS
  <2>. QED
      BY <1>0, <2>1, <2>2
<1>2. SessionOnlyWhenNeeded'
    BY DEF SessionOnlyWhenNeeded
<1>3. SlotHeld'
    BY DEF SlotHeld, WasLaunched, LaunchedAlone
<1>4. WasLaunched'
    BY DEF WasLaunched, LaunchedAlone
<1>5. LaunchedAlone'
    BY DEF LaunchedAlone, WasLaunched
<1>6. Progress'
  <2>1. \A g \in Handler : Pc(g)' \in {"starting", "closed", "discarded"}
             => g # h /\ Pc(g)' = Pc(g) /\ Of(g)' = Of(g) /\ Of(g) \in Session
      BY <1>0
  <2>2. \A g \in Handler : Pc(g)' = "starting" => Of(g) # Of(h)
      BY <2>1 DEF LaunchedAlone
  <2>3. \A s \in Session : s # Of(h) => state'[s] = state[s]
      BY <1>0
  <2>4. \A s \in Session : state'[s] = "closed" => state[s] = "closed"
      BY <1>0
  <2>. QED
      BY <1>0, <2>1, <2>2, <2>3, <2>4 DEF Progress
<1>7. TurnIsReachable'
    BY DEF TurnIsReachable, SlotHeld, Progress, WasLaunched
<1>8. DrainedOnce'
    BY DEF DrainedOnce
<1>9. UnregisteredBeforeClosed'
    BY DEF UnregisteredBeforeClosed, LaunchedAlone
<1>10. NothingRegisteredAfterGate'
    BY DEF NothingRegisteredAfterGate
<1>11. ReadyIsOwned'
  <2>1. CASE handler'[h].pc = "register"
      BY <1>0, <2>1 DEF ReadyIsOwned
  <2>2. CASE handler'[h].pc = "idle"
    <3>1. state[Of(h)] = "starting"
        BY DEF Progress
    <3>. QED
        BY <1>0, <2>2, <3>1 DEF ReadyIsOwned
  <2>. QED
      BY <1>0, <2>1, <2>2
<1>. QED
    BY <1>1, <1>2, <1>3, <1>4, <1>5, <1>6, <1>7, <1>8, <1>9, <1>10, <1>11

LEMMA RegisterKeeps ==
    ASSUME IInv, NEW h \in Handler, Register(h)
    PROVE  IInv'
<1> USE DEF IInv, Register, Goto, Respond,
            TypeOK, SessionTypeOK, PC, Creating, Turning, Removing, Launched,
            InUse, Sessionless, Idle, At, Of, Pc, sessionVars, registryVars, mainVars
<1>1. TypeOK'
    BY DEF ChatSessionState
<1>2. SessionOnlyWhenNeeded'
    BY DEF SessionOnlyWhenNeeded
<1>3. SlotHeld'
    BY DEF SlotHeld, WasLaunched, LaunchedAlone
<1>4. WasLaunched'
    BY DEF WasLaunched, LaunchedAlone
<1>5. LaunchedAlone'
    BY DEF LaunchedAlone, WasLaunched
<1>6. Progress'
    BY DEF Progress, WasLaunched, LaunchedAlone
<1>7. TurnIsReachable'
    BY DEF TurnIsReachable, SlotHeld, Progress, WasLaunched
<1>8. DrainedOnce'
    BY DEF DrainedOnce
<1>9. UnregisteredBeforeClosed'
    BY DEF UnregisteredBeforeClosed, LaunchedAlone
<1>10. NothingRegisteredAfterGate'
    BY DEF NothingRegisteredAfterGate
<1>11. ReadyIsOwned'
    BY DEF ReadyIsOwned, SessionOnlyWhenNeeded, Progress,
             TurnIsReachable, WasLaunched, LaunchedAlone
<1>. QED
    BY <1>1, <1>2, <1>3, <1>4, <1>5, <1>6, <1>7, <1>8, <1>9, <1>10, <1>11

LEMMA DiscardKeeps ==
    ASSUME IInv, NEW h \in Handler, Discard(h)
    PROVE  IInv'
<1> USE DEF IInv, Discard, EndRuntimeOf, EndRuntime, Goto,
            TypeOK, SessionTypeOK, PC, Creating, Turning, Removing, Launched,
            InUse, Sessionless, Idle, At, Of, Pc, sessionVars, registryVars, mainVars
<1>1. TypeOK'
  <2>1. CASE state[Of(h)] = "closed"
      BY <2>1
  <2>2. CASE state[Of(h)] # "closed"
    <3>1. SessionTypeOK'
        BY <2>2
    <3>2. \A g \in Handler \ {h} : handler'[g] = handler[g]
        BY <2>2
    <3>3. handler'[h] = [pc |-> "discarded", session |-> Of(h)]
        BY <2>2
    <3>4. handler' \in [Handler -> [pc : PC, session : Session \cup {NoSession}]]
        BY <2>2
    <3>. QED
        BY <2>2, <3>1, <3>2, <3>3, <3>4
  <2>. QED
      BY <2>1, <2>2
<1>2. SessionOnlyWhenNeeded'
    BY DEF SessionOnlyWhenNeeded
<1>3. SlotHeld'
    BY DEF SlotHeld, WasLaunched, LaunchedAlone
<1>4. WasLaunched'
    BY DEF WasLaunched, LaunchedAlone
<1>5. LaunchedAlone'
    BY DEF LaunchedAlone, WasLaunched
<1>6. Progress'
    BY DEF Progress, WasLaunched, LaunchedAlone
<1>7. TurnIsReachable'
    BY DEF TurnIsReachable, SlotHeld, Progress, WasLaunched
<1>8. DrainedOnce'
    BY DEF DrainedOnce
<1>9. UnregisteredBeforeClosed'
    BY DEF UnregisteredBeforeClosed, LaunchedAlone
<1>10. NothingRegisteredAfterGate'
    BY DEF NothingRegisteredAfterGate
<1>11. ReadyIsOwned'
    BY DEF ReadyIsOwned, SessionOnlyWhenNeeded, Progress,
             TurnIsReachable, WasLaunched, LaunchedAlone
<1>. QED
    BY <1>1, <1>2, <1>3, <1>4, <1>5, <1>6, <1>7, <1>8, <1>9, <1>10, <1>11

LEMMA DiscardedKeeps ==
    ASSUME IInv, NEW h \in Handler, Discarded(h)
    PROVE  IInv'
<1> USE DEF IInv, Discarded, MarkClosed, SetState, Respond,
            TypeOK, SessionTypeOK, PC, Creating, Turning, Removing, Launched,
            InUse, Sessionless, Idle, At, Of, Pc, sessionVars, registryVars, mainVars
<1>1. TypeOK'
    BY DEF ChatSessionState
<1>2. SessionOnlyWhenNeeded'
    BY DEF SessionOnlyWhenNeeded
<1>3. SlotHeld'
    BY DEF SlotHeld, WasLaunched, LaunchedAlone
<1>4. WasLaunched'
    BY DEF WasLaunched, LaunchedAlone
<1>5. LaunchedAlone'
    BY DEF LaunchedAlone, WasLaunched
<1>6. Progress'
    BY DEF Progress, WasLaunched, LaunchedAlone
<1>7. TurnIsReachable'
    BY DEF TurnIsReachable, SlotHeld, Progress, WasLaunched
<1>8. DrainedOnce'
    BY DEF DrainedOnce
<1>9. UnregisteredBeforeClosed'
    BY DEF UnregisteredBeforeClosed, LaunchedAlone
<1>10. NothingRegisteredAfterGate'
    BY DEF NothingRegisteredAfterGate
<1>11. ReadyIsOwned'
    BY DEF ReadyIsOwned, SessionOnlyWhenNeeded, Progress,
             TurnIsReachable, WasLaunched, LaunchedAlone
<1>. QED
    BY <1>1, <1>2, <1>3, <1>4, <1>5, <1>6, <1>7, <1>8, <1>9, <1>10, <1>11

(* A step of send() keeps the session, its slot and its place; the state   *)
(* may become anything that a launched session which is not closed can be. *)
LEMMA TurnStepKeeps ==
    ASSUME IInv, TypeOK', NEW h \in Handler, Pc(h) \in Turning,
           handler'[h].pc \in Turning \cup {"endTurn"},
           handler'[h].session = Of(h),
           \A g \in Handler \ {h} : handler'[g] = handler[g],
           \A s \in Session \ {Of(h)} : state'[s] = state[s],
           \/ state'[Of(h)] \in {"ready", "generating", "failed"}
           \/ state'[Of(h)] = state[Of(h)],
           UNCHANGED <<alive, slot, registered, closing, mainVars>>
    PROVE  IInv'
<1> USE DEF IInv, TypeOK, SessionTypeOK, Turning, Removing, Launched, InUse,
            Sessionless, Of, Pc, mainVars
<1>1. Of(h) \in Session /\ Pc(h) \notin Launched \cup Sessionless
    BY DEF Creating
<1>2. SessionOnlyWhenNeeded'
    BY <1>1 DEF SessionOnlyWhenNeeded
<1>3. SlotHeld'
    BY <1>1 DEF SlotHeld, WasLaunched, LaunchedAlone
<1>4. WasLaunched'
  <2>1. \A s \in Session : state[s] # "none" => state'[s] # "none"
      OBVIOUS
  <2>2. \A g \in Handler : Pc(g)' \in Launched \cup InUse
             => Pc(g) \in Launched \cup InUse /\ Of(g)' = Of(g) /\ Of(g) \in Session
      BY <1>1
  <2>3. \A g \in Handler : Pc(g)' \in Launched \cup InUse => state'[Of(g)'] # "none"
      BY <2>1, <2>2 DEF WasLaunched
  <2>4. \A s \in (registered \cup draining)' : state'[s] # "none"
      BY <2>1 DEF WasLaunched
  <2>. QED
      BY <2>3, <2>4 DEF WasLaunched
<1>5. LaunchedAlone'
    BY <1>1 DEF LaunchedAlone, WasLaunched
<1>6. Progress'
  <2>1. \A s \in Session : state'[s] = "closed" => state[s] = "closed"
      OBVIOUS
  <2>2. \A g \in Handler : Pc(g)' \in {"starting", "closed", "discarded"}
             => g # h /\ Pc(g)' = Pc(g) /\ Of(g)' = Of(g) /\ Of(g) \in Session
      OBVIOUS
  <2>3. \A g \in Handler : Pc(g) = "starting" => g = h \/ Of(g) # Of(h)
      BY DEF LaunchedAlone
  <2>4. \A g \in Handler : Pc(g)' = "starting" => state'[Of(g)'] = "starting"
      BY <2>2, <2>3 DEF Progress
  <2>5. \A g \in Handler : Pc(g)' \in {"closed", "discarded"} => ~alive'[Of(g)']
      BY <2>2 DEF Progress
  <2>6. \A s \in Session : state'[s] = "closed" => ~alive'[s]
      BY <2>1 DEF Progress
  <2>. QED
      BY <2>4, <2>5, <2>6 DEF Progress
<1>7. TurnIsReachable'
    BY <1>1 DEF TurnIsReachable, SlotHeld, Progress, WasLaunched
<1>8. DrainedOnce'
    BY <1>1 DEF DrainedOnce
<1>9. UnregisteredBeforeClosed'
    BY <1>1 DEF UnregisteredBeforeClosed, LaunchedAlone
<1>10. NothingRegisteredAfterGate'
    BY <1>1 DEF NothingRegisteredAfterGate
<1>11. ReadyIsOwned'
    BY <1>1 DEF ReadyIsOwned, SessionOnlyWhenNeeded, Progress,
             TurnIsReachable, WasLaunched, LaunchedAlone
<1>. QED
    BY <1>2, <1>3, <1>4, <1>5, <1>6, <1>7, <1>8, <1>9, <1>10, <1>11

LEMMA TurnKeeps ==
    ASSUME IInv, NEW h \in Handler, NEW s \in Session, Turn(h, s)
    PROVE  IInv'
<1> USE DEF IInv, Turn, Claim, Arrives, Work,
            TypeOK, SessionTypeOK, PC, Creating, Turning, Removing, Launched,
            InUse, Sessionless, Idle, At, Of, Pc, sessionVars, registryVars, mainVars
<1>1. CASE ~(s \in registered /\ slot[s] = NoHandler)
  <2>1. BadRequest(h)
      BY <1>1 DEF BadRequest
  <2>. QED
      BY <2>1, LockAndCheckKeep
<1>2. CASE s \in registered /\ slot[s] = NoHandler
  <2>0. /\ handler' = [handler EXCEPT ![h] = [pc |-> "send", session |-> s]]
        /\ handler'[h] = [pc |-> "send", session |-> s]
        /\ \A g \in Handler \ {h} : handler'[g] = handler[g]
        /\ slot' = [slot EXCEPT ![s] = h]
        /\ UNCHANGED <<state, alive, runLock, registered, closing, mainVars>>
      BY <1>2
  <2>1. TypeOK'
      BY <2>0
  <2>2. SessionOnlyWhenNeeded'
      BY <1>2, HandlerAssumption DEF HandlerAssumption, SessionOnlyWhenNeeded
  <2>3. SlotHeld'
      BY <1>2, HandlerAssumption DEF HandlerAssumption, SlotHeld, WasLaunched, LaunchedAlone
  <2>4. WasLaunched'
      BY <1>2, HandlerAssumption DEF HandlerAssumption, WasLaunched, LaunchedAlone
  <2>5. LaunchedAlone'
      BY <1>2, HandlerAssumption DEF HandlerAssumption, LaunchedAlone, WasLaunched
  <2>6. Progress'
    <3>1. handler'[h].pc = "send"
        BY <1>2
    <3>2. \A g \in Handler \ {h} : handler'[g] = handler[g]
        BY <1>2
    <3>3. UNCHANGED <<state, alive>>
        OBVIOUS
    <3>. QED
        BY <3>1, <3>2, <3>3 DEF Progress
  <2>7. TurnIsReachable'
      BY <1>2, HandlerAssumption
      DEF HandlerAssumption, TurnIsReachable, SlotHeld, Progress, WasLaunched
  <2>8. DrainedOnce'
      BY <1>2, HandlerAssumption DEF HandlerAssumption, DrainedOnce
  <2>9. UnregisteredBeforeClosed'
      BY <1>2, HandlerAssumption DEF HandlerAssumption, UnregisteredBeforeClosed, LaunchedAlone
  <2>10. NothingRegisteredAfterGate'
      BY <1>2, HandlerAssumption DEF HandlerAssumption, NothingRegisteredAfterGate
  <2>11. ReadyIsOwned'
    <3>1. Pc(h) = "reading" /\ Of(h) = NoSession
        BY DEF SessionOnlyWhenNeeded
    <3>. QED
        BY <2>0, <3>1, SessionAssumption DEF ReadyIsOwned, SessionAssumption
  <2>. QED
      BY <2>1, <2>2, <2>3, <2>4, <2>5, <2>6, <2>7, <2>8, <2>9, <2>10, <2>11
<1>. QED
    BY <1>1, <1>2

LEMMA SendKeeps ==
    ASSUME IInv, NEW h \in Handler, Send(h)
    PROVE  IInv'
<1> USE DEF Send, Accepts, Accept, SetState, Goto, At
<1>1. /\ handler \in [Handler -> [pc : PC, session : Session \cup {NoSession}]]
      /\ state \in [Session -> ChatSessionState]
      /\ Pc(h) \in Turning /\ Of(h) \in Session
    BY DEF IInv, TypeOK, SessionTypeOK, Turning, Pc, Of
<1>2. /\ handler'[h].pc \in Turning \cup {"endTurn"}
      /\ handler'[h].session = Of(h)
      /\ \A g \in Handler \ {h} : handler'[g] = handler[g]
    BY <1>1 DEF Turning, Of
<1>3. /\ \A s \in Session \ {Of(h)} : state'[s] = state[s]
      /\ \/ state'[Of(h)] \in {"ready", "generating", "failed"}
         \/ state'[Of(h)] = state[Of(h)]
    BY <1>1 DEF sessionVars
<1>4. UNCHANGED <<alive, slot, registered, closing, mainVars>>
    BY DEF sessionVars, registryVars
<1>5. TypeOK'
  <2>1. handler' \in [Handler -> [pc : PC, session : Session \cup {NoSession}]]
      BY <1>1 DEF PC, Turning
  <2>2. state' \in [Session -> ChatSessionState]
      BY <1>1 DEF ChatSessionState, sessionVars
  <2>. QED
      BY <1>1, <1>2, <1>4, <2>1, <2>2
      DEF IInv, TypeOK, SessionTypeOK, Turning, registryVars, mainVars
<1>. QED
    BY <1>1, <1>2, <1>3, <1>4, <1>5, TurnStepKeeps

LEMMA WritePromptKeeps ==
    ASSUME IInv, NEW h \in Handler, WritePrompt(h)
    PROVE  IInv'
<1> USE DEF WritePrompt, FailTurn, SetState, Goto, At
<1>1. /\ handler \in [Handler -> [pc : PC, session : Session \cup {NoSession}]]
      /\ state \in [Session -> ChatSessionState]
      /\ Pc(h) \in Turning /\ Of(h) \in Session
    BY DEF IInv, TypeOK, SessionTypeOK, Turning, Pc, Of
<1>2. /\ handler'[h].pc \in Turning \cup {"endTurn"}
      /\ handler'[h].session = Of(h)
      /\ \A g \in Handler \ {h} : handler'[g] = handler[g]
    BY <1>1 DEF Turning, Of
<1>3. /\ \A s \in Session \ {Of(h)} : state'[s] = state[s]
      /\ \/ state'[Of(h)] \in {"ready", "generating", "failed"}
         \/ state'[Of(h)] = state[Of(h)]
    BY <1>1 DEF sessionVars
<1>4. UNCHANGED <<alive, slot, registered, closing, mainVars>>
    BY DEF sessionVars, registryVars
<1>5. TypeOK'
  <2>1. handler' \in [Handler -> [pc : PC, session : Session \cup {NoSession}]]
      BY <1>1 DEF PC, Turning
  <2>2. state' \in [Session -> ChatSessionState]
      BY <1>1 DEF ChatSessionState, sessionVars
  <2>. QED
      BY <1>1, <1>2, <1>4, <2>1, <2>2
      DEF IInv, TypeOK, SessionTypeOK, Turning, registryVars, mainVars
<1>. QED
    BY <1>1, <1>2, <1>3, <1>4, <1>5, TurnStepKeeps

LEMMA GenerateKeeps ==
    ASSUME IInv, NEW h \in Handler, Generate(h)
    PROVE  IInv'
<1> USE DEF Generate, LoseRuntime, FailTurn, SetState, Goto, At
<1>1. /\ handler \in [Handler -> [pc : PC, session : Session \cup {NoSession}]]
      /\ state \in [Session -> ChatSessionState]
      /\ Pc(h) \in Turning /\ Of(h) \in Session
    BY DEF IInv, TypeOK, SessionTypeOK, Turning, Pc, Of
<1>2. /\ handler'[h].pc \in Turning \cup {"endTurn"}
      /\ handler'[h].session = Of(h)
      /\ \A g \in Handler \ {h} : handler'[g] = handler[g]
    BY <1>1 DEF Turning, Of
<1>3. /\ \A s \in Session \ {Of(h)} : state'[s] = state[s]
      /\ \/ state'[Of(h)] \in {"ready", "generating", "failed"}
         \/ state'[Of(h)] = state[Of(h)]
    BY <1>1 DEF sessionVars
<1>4. UNCHANGED <<alive, slot, registered, closing, mainVars>>
    BY DEF sessionVars, registryVars
<1>5. TypeOK'
  <2>1. handler' \in [Handler -> [pc : PC, session : Session \cup {NoSession}]]
      BY <1>1 DEF PC, Turning
  <2>2. state' \in [Session -> ChatSessionState]
      BY <1>1 DEF ChatSessionState, sessionVars
  <2>. QED
      BY <1>1, <1>2, <1>4, <2>1, <2>2
      DEF IInv, TypeOK, SessionTypeOK, Turning, registryVars, mainVars
<1>. QED
    BY <1>1, <1>2, <1>3, <1>4, <1>5, TurnStepKeeps

LEMMA CompleteKeeps ==
    ASSUME IInv, NEW h \in Handler, Complete(h)
    PROVE  IInv'
<1> USE DEF Complete, CompleteTurn, SetState, Goto, At
<1>1. /\ handler \in [Handler -> [pc : PC, session : Session \cup {NoSession}]]
      /\ state \in [Session -> ChatSessionState]
      /\ Pc(h) \in Turning /\ Of(h) \in Session
    BY DEF IInv, TypeOK, SessionTypeOK, Turning, Pc, Of
<1>2. /\ handler'[h].pc \in Turning \cup {"endTurn"}
      /\ handler'[h].session = Of(h)
      /\ \A g \in Handler \ {h} : handler'[g] = handler[g]
    BY <1>1 DEF Turning, Of
<1>3. /\ \A s \in Session \ {Of(h)} : state'[s] = state[s]
      /\ \/ state'[Of(h)] \in {"ready", "generating", "failed"}
         \/ state'[Of(h)] = state[Of(h)]
    BY <1>1 DEF sessionVars
<1>4. UNCHANGED <<alive, slot, registered, closing, mainVars>>
    BY DEF sessionVars, registryVars
<1>5. TypeOK'
  <2>1. handler' \in [Handler -> [pc : PC, session : Session \cup {NoSession}]]
      BY <1>1 DEF PC, Turning
  <2>2. state' \in [Session -> ChatSessionState]
      BY <1>1 DEF ChatSessionState, sessionVars
  <2>. QED
      BY <1>1, <1>2, <1>4, <2>1, <2>2
      DEF IInv, TypeOK, SessionTypeOK, Turning, registryVars, mainVars
<1>. QED
    BY <1>1, <1>2, <1>3, <1>4, <1>5, TurnStepKeeps

LEMMA EndTurnKeeps ==
    ASSUME IInv, NEW h \in Handler, EndTurn(h)
    PROVE  IInv'
<1> USE SessionAssumption DEF SessionAssumption, IInv, EndTurn, Work,
            TypeOK, SessionTypeOK, PC, Creating, Turning, Removing, Launched,
            InUse, Sessionless, Idle, At, Of, Pc, sessionVars, registryVars, mainVars
<1>1. TypeOK'
    BY DEF ChatSessionState
<1>2. SessionOnlyWhenNeeded'
    BY DEF SessionOnlyWhenNeeded
<1>3. SlotHeld'
    BY DEF SlotHeld, WasLaunched, LaunchedAlone
<1>4. WasLaunched'
    BY DEF WasLaunched, LaunchedAlone
<1>5. LaunchedAlone'
    BY DEF LaunchedAlone, WasLaunched
<1>6. Progress'
    BY DEF Progress, WasLaunched, LaunchedAlone
<1>7. TurnIsReachable'
    BY DEF TurnIsReachable, SlotHeld, Progress, WasLaunched
<1>8. DrainedOnce'
    BY DEF DrainedOnce
<1>9. UnregisteredBeforeClosed'
    BY DEF UnregisteredBeforeClosed, LaunchedAlone
<1>10. NothingRegisteredAfterGate'
    BY DEF NothingRegisteredAfterGate
<1>11. ReadyIsOwned'
    BY DEF ReadyIsOwned, SessionOnlyWhenNeeded, Progress,
             TurnIsReachable, WasLaunched, LaunchedAlone
<1>. QED
    BY <1>1, <1>2, <1>3, <1>4, <1>5, <1>6, <1>7, <1>8, <1>9, <1>10, <1>11

LEMMA DeleteKeeps ==
    ASSUME IInv, NEW h \in Handler, NEW s \in Session, Delete(h, s)
    PROVE  IInv'
<1> USE DEF IInv, Delete, Claim, Arrives, Work,
            TypeOK, SessionTypeOK, PC, Creating, Turning, Removing, Launched,
            InUse, Sessionless, Idle, At, Of, Pc, sessionVars, registryVars, mainVars
<1>1. CASE ~(s \in registered /\ slot[s] = NoHandler)
  <2>1. BadRequest(h)
      BY <1>1 DEF BadRequest
  <2>. QED
      BY <2>1, LockAndCheckKeep
<1>2. CASE s \in registered /\ slot[s] = NoHandler
  <2>0. /\ handler' = [handler EXCEPT ![h] = [pc |-> "close", session |-> s]]
        /\ handler'[h] = [pc |-> "close", session |-> s]
        /\ \A g \in Handler \ {h} : handler'[g] = handler[g]
        /\ slot' = [slot EXCEPT ![s] = h]
        /\ registered' = registered \ {s}
        /\ UNCHANGED <<state, alive, runLock, closing, mainVars>>
      BY <1>2
  <2>1. TypeOK'
      BY <2>0
  <2>2. SessionOnlyWhenNeeded'
      BY <1>2, HandlerAssumption DEF HandlerAssumption, SessionOnlyWhenNeeded
  <2>3. SlotHeld'
      BY <1>2, HandlerAssumption DEF HandlerAssumption, SlotHeld, WasLaunched, LaunchedAlone
  <2>4. WasLaunched'
      BY <1>2, HandlerAssumption DEF HandlerAssumption, WasLaunched, LaunchedAlone
  <2>5. LaunchedAlone'
    <3>1. \A g \in Handler : Pc(g) \in Launched => Of(g) # s
        BY <1>2 DEF LaunchedAlone
    <3>2. \A g \in Handler : Pc(g)' \in Launched
               => g # h /\ Pc(g)' = Pc(g) /\ Of(g)' = Of(g)
        BY <2>0
    <3>. QED
        BY <2>0, <3>1, <3>2 DEF LaunchedAlone
  <2>6. Progress'
    <3>1. handler'[h].pc = "close"
        BY <1>2
    <3>2. \A g \in Handler \ {h} : handler'[g] = handler[g]
        BY <1>2
    <3>3. UNCHANGED <<state, alive>>
        OBVIOUS
    <3>. QED
        BY <3>1, <3>2, <3>3 DEF Progress
  <2>7. TurnIsReachable'
      BY <1>2, HandlerAssumption
      DEF HandlerAssumption, TurnIsReachable, SlotHeld, Progress, WasLaunched
  <2>8. DrainedOnce'
      BY <1>2, HandlerAssumption DEF HandlerAssumption, DrainedOnce
  <2>9. UnregisteredBeforeClosed'
      BY <1>2, HandlerAssumption DEF HandlerAssumption, UnregisteredBeforeClosed, LaunchedAlone
  <2>10. NothingRegisteredAfterGate'
      BY <1>2, HandlerAssumption DEF HandlerAssumption, NothingRegisteredAfterGate
  <2>11. ReadyIsOwned'
    <3>1. Pc(h) = "reading" /\ Of(h) = NoSession
        BY DEF SessionOnlyWhenNeeded
    <3>. QED
        BY <2>0, <3>1, SessionAssumption DEF ReadyIsOwned, SessionAssumption
  <2>. QED
      BY <2>1, <2>2, <2>3, <2>4, <2>5, <2>6, <2>7, <2>8, <2>9, <2>10, <2>11
<1>. QED
    BY <1>1, <1>2

LEMMA CloseKeeps ==
    ASSUME IInv, NEW h \in Handler, Close(h)
    PROVE  IInv'
<1> USE DEF IInv, Close, EndRuntimeOf, EndRuntime, Goto,
            TypeOK, SessionTypeOK, PC, Creating, Turning, Removing, Launched,
            InUse, Sessionless, Idle, At, Of, Pc, sessionVars, registryVars, mainVars
<1>1. TypeOK'
  <2>1. CASE state[Of(h)] = "closed"
      BY <2>1
  <2>2. CASE state[Of(h)] # "closed"
    <3>1. SessionTypeOK'
        BY <2>2
    <3>2. \A g \in Handler \ {h} : handler'[g] = handler[g]
        BY <2>2
    <3>3. handler'[h] = [pc |-> "closed", session |-> Of(h)]
        BY <2>2
    <3>4. handler' \in [Handler -> [pc : PC, session : Session \cup {NoSession}]]
        BY <2>2
    <3>. QED
        BY <2>2, <3>1, <3>2, <3>3, <3>4
  <2>. QED
      BY <2>1, <2>2
<1>2. SessionOnlyWhenNeeded'
    BY DEF SessionOnlyWhenNeeded
<1>3. SlotHeld'
    BY DEF SlotHeld, WasLaunched, LaunchedAlone
<1>4. WasLaunched'
    BY DEF WasLaunched, LaunchedAlone
<1>5. LaunchedAlone'
  <2>1. handler'[h].pc \in {"closed", "endTurn"} /\ handler'[h].session = Of(h)
      OBVIOUS
  <2>2. \A g \in Handler \ {h} : handler'[g] = handler[g]
      OBVIOUS
  <2>3. UNCHANGED <<registered, draining>>
      OBVIOUS
  <2>. QED
      BY <2>1, <2>2, <2>3 DEF LaunchedAlone
<1>6. Progress'
  <2>1. CASE state[Of(h)] = "closed"
      BY <2>1 DEF Progress, WasLaunched, LaunchedAlone
  <2>2. CASE state[Of(h)] # "closed"
    <3>1. state' = state /\ alive' = [alive EXCEPT ![Of(h)] = FALSE] /\ Of(h) \in Session
        BY <2>2
    <3>2. handler'[h] = [pc |-> "closed", session |-> Of(h)]
        BY <2>2
    <3>3. \A g \in Handler \ {h} : handler'[g] = handler[g]
        BY <2>2
    <3>. QED
        BY <3>1, <3>2, <3>3 DEF Progress
  <2>. QED
      BY <2>1, <2>2
<1>7. TurnIsReachable'
    BY DEF TurnIsReachable, SlotHeld, Progress, WasLaunched
<1>8. DrainedOnce'
    BY DEF DrainedOnce
<1>9. UnregisteredBeforeClosed'
    BY DEF UnregisteredBeforeClosed, LaunchedAlone
<1>10. NothingRegisteredAfterGate'
    BY DEF NothingRegisteredAfterGate
<1>11. ReadyIsOwned'
  <2>1. CASE state[Of(h)] = "closed"
      BY <2>1 DEF ReadyIsOwned, SessionOnlyWhenNeeded, Progress,
               TurnIsReachable, WasLaunched, LaunchedAlone
  <2>2. CASE state[Of(h)] # "closed"
    <3>1. alive' = [alive EXCEPT ![Of(h)] = FALSE] /\ Of(h) \in Session
        BY <2>2
    <3>2. handler'[h] = [pc |-> "closed", session |-> Of(h)]
        BY <2>2
    <3>3. \A g \in Handler \ {h} : handler'[g] = handler[g]
        BY <2>2
    <3>4. UNCHANGED <<state, registered, draining>>
        BY <2>2
    <3>. QED
        BY <3>1, <3>2, <3>3, <3>4 DEF ReadyIsOwned
  <2>. QED
      BY <2>1, <2>2
<1>. QED
    BY <1>1, <1>2, <1>3, <1>4, <1>5, <1>6, <1>7, <1>8, <1>9, <1>10, <1>11

LEMMA ClosedKeeps ==
    ASSUME IInv, NEW h \in Handler, Closed(h)
    PROVE  IInv'
<1> USE DEF IInv, Closed, MarkClosed, SetState, Goto,
            TypeOK, SessionTypeOK, PC, Creating, Turning, Removing, Launched,
            InUse, Sessionless, Idle, At, Of, Pc, sessionVars, registryVars, mainVars
<1>1. TypeOK'
    BY DEF ChatSessionState
<1>2. SessionOnlyWhenNeeded'
    BY DEF SessionOnlyWhenNeeded
<1>3. SlotHeld'
    BY DEF SlotHeld, WasLaunched, LaunchedAlone
<1>4. WasLaunched'
    BY DEF WasLaunched, LaunchedAlone
<1>5. LaunchedAlone'
    BY DEF LaunchedAlone, WasLaunched
<1>6. Progress'
    BY DEF Progress, WasLaunched, LaunchedAlone
<1>7. TurnIsReachable'
    BY DEF TurnIsReachable, SlotHeld, Progress, WasLaunched
<1>8. DrainedOnce'
    BY DEF DrainedOnce
<1>9. UnregisteredBeforeClosed'
    BY DEF UnregisteredBeforeClosed, LaunchedAlone
<1>10. NothingRegisteredAfterGate'
    BY DEF NothingRegisteredAfterGate
<1>11. ReadyIsOwned'
    BY DEF ReadyIsOwned, SessionOnlyWhenNeeded, Progress,
             TurnIsReachable, WasLaunched, LaunchedAlone
<1>. QED
    BY <1>1, <1>2, <1>3, <1>4, <1>5, <1>6, <1>7, <1>8, <1>9, <1>10, <1>11

LEMMA PhaseKeeps ==
    ASSUME IInv, StopServing \/ Down
    PROVE  IInv'
<1> USE DEF IInv, StopServing, Down,
            TypeOK, SessionTypeOK, PC, Creating, Turning, Removing, Launched,
            InUse, Sessionless, Idle, At, Of, Pc, sessionVars, registryVars, mainVars
<1>1. TypeOK'
    BY DEF ChatSessionState
<1>2. SessionOnlyWhenNeeded'
    BY DEF SessionOnlyWhenNeeded
<1>3. SlotHeld'
    BY DEF SlotHeld, WasLaunched, LaunchedAlone
<1>4. WasLaunched'
    BY DEF WasLaunched, LaunchedAlone
<1>5. LaunchedAlone'
    BY DEF LaunchedAlone, WasLaunched
<1>6. Progress'
    BY DEF Progress, WasLaunched, LaunchedAlone
<1>7. TurnIsReachable'
    BY DEF TurnIsReachable, SlotHeld, Progress, WasLaunched
<1>8. DrainedOnce'
    BY DEF DrainedOnce
<1>9. UnregisteredBeforeClosed'
    BY DEF UnregisteredBeforeClosed, LaunchedAlone
<1>10. NothingRegisteredAfterGate'
    BY DEF NothingRegisteredAfterGate
<1>11. ReadyIsOwned'
    BY DEF ReadyIsOwned, SessionOnlyWhenNeeded, Progress,
             TurnIsReachable, WasLaunched, LaunchedAlone
<1>. QED
    BY <1>1, <1>2, <1>3, <1>4, <1>5, <1>6, <1>7, <1>8, <1>9, <1>10, <1>11

LEMMA DrainKeeps ==
    ASSUME IInv, Drain
    PROVE  IInv'
<1> USE DEF IInv, Drain,
            TypeOK, SessionTypeOK, PC, Creating, Turning, Removing, Launched,
            InUse, Sessionless, Idle, At, Of, Pc, sessionVars, registryVars, mainVars
<1>1. TypeOK'
    BY DEF ChatSessionState
<1>2. SessionOnlyWhenNeeded'
    BY DEF SessionOnlyWhenNeeded
<1>3. SlotHeld'
    BY DEF SlotHeld, WasLaunched, LaunchedAlone
<1>4. WasLaunched'
    BY DEF WasLaunched, LaunchedAlone
<1>5. LaunchedAlone'
    BY DEF LaunchedAlone, WasLaunched
<1>6. Progress'
    BY DEF Progress, WasLaunched, LaunchedAlone
<1>7. TurnIsReachable'
    BY DEF TurnIsReachable, DrainedOnce
<1>8. DrainedOnce'
    BY DEF DrainedOnce
<1>9. UnregisteredBeforeClosed'
    BY DEF UnregisteredBeforeClosed, LaunchedAlone
<1>10. NothingRegisteredAfterGate'
    BY DEF NothingRegisteredAfterGate
<1>11. ReadyIsOwned'
    BY DEF ReadyIsOwned, DrainedOnce
<1>. QED
    BY <1>1, <1>2, <1>3, <1>4, <1>5, <1>6, <1>7, <1>8, <1>9, <1>10, <1>11

LEMMA CloseDrainedKeeps ==
    ASSUME IInv, NEW s \in Session, CloseDrained(s)
    PROVE  IInv'
<1> USE DEF IInv, CloseDrained, EndRuntime, MarkClosed, SetState,
            TypeOK, SessionTypeOK, PC, Creating, Turning, Removing, Launched,
            InUse, Sessionless, Idle, At, Of, Pc, sessionVars, registryVars, mainVars
<1>1. TypeOK'
    BY DEF ChatSessionState
<1>2. SessionOnlyWhenNeeded'
    BY DEF SessionOnlyWhenNeeded
<1>3. SlotHeld'
    BY DEF SlotHeld, WasLaunched, LaunchedAlone
<1>4. WasLaunched'
    BY DEF WasLaunched, LaunchedAlone
<1>5. LaunchedAlone'
    BY DEF LaunchedAlone, WasLaunched
<1>6. Progress'
    BY DEF Progress, WasLaunched, LaunchedAlone
<1>7. TurnIsReachable'
    BY DEF TurnIsReachable, SlotHeld, Progress, WasLaunched
<1>8. DrainedOnce'
    BY DEF DrainedOnce
<1>9. UnregisteredBeforeClosed'
    BY DEF UnregisteredBeforeClosed, LaunchedAlone
<1>10. NothingRegisteredAfterGate'
    BY DEF NothingRegisteredAfterGate
<1>11. ReadyIsOwned'
    BY DEF ReadyIsOwned, SessionOnlyWhenNeeded, Progress,
             TurnIsReachable, WasLaunched, LaunchedAlone
<1>. QED
    BY <1>1, <1>2, <1>3, <1>4, <1>5, <1>6, <1>7, <1>8, <1>9, <1>10, <1>11

LEMMA ExitsKeeps ==
    ASSUME IInv, NEW s \in Session, Exits(s)
    PROVE  IInv'
<1> USE DEF IInv, Exits, RuntimeExits, EndRuntime,
            TypeOK, SessionTypeOK, PC, Creating, Turning, Removing, Launched,
            InUse, Sessionless, Idle, At, Of, Pc, sessionVars, registryVars, mainVars
<1>1. TypeOK'
    BY DEF ChatSessionState
<1>2. SessionOnlyWhenNeeded'
    BY DEF SessionOnlyWhenNeeded
<1>3. SlotHeld'
    BY DEF SlotHeld, WasLaunched, LaunchedAlone
<1>4. WasLaunched'
    BY DEF WasLaunched, LaunchedAlone
<1>5. LaunchedAlone'
    BY DEF LaunchedAlone, WasLaunched
<1>6. Progress'
    BY DEF Progress, WasLaunched, LaunchedAlone
<1>7. TurnIsReachable'
    BY DEF TurnIsReachable, SlotHeld, Progress, WasLaunched
<1>8. DrainedOnce'
    BY DEF DrainedOnce
<1>9. UnregisteredBeforeClosed'
    BY DEF UnregisteredBeforeClosed, LaunchedAlone
<1>10. NothingRegisteredAfterGate'
    BY DEF NothingRegisteredAfterGate
<1>11. ReadyIsOwned'
    BY DEF ReadyIsOwned, SessionOnlyWhenNeeded, Progress,
             TurnIsReachable, WasLaunched, LaunchedAlone
<1>. QED
    BY <1>1, <1>2, <1>3, <1>4, <1>5, <1>6, <1>7, <1>8, <1>9, <1>10, <1>11

-----------------------------------------------------------------------------
LEMMA IInvInitially == Init => IInv
<1> SUFFICES ASSUME Init PROVE IInv
    OBVIOUS
<1> USE DEF Init, SessionInit
<1>1. TypeOK
    BY CapacityAssumption
    DEF TypeOK, SessionTypeOK, ChatSessionState, PC, Idle, Turning, Removing
<1>2. \A h \in Handler : Pc(h) = "idle" /\ Of(h) = NoSession
    BY DEF Pc, Of, Idle
<1>3. \A h \in Handler : Pc(h) \notin Launched \cup InUse
    BY <1>2 DEF Launched, InUse, Turning, Removing
<1>4. SessionOnlyWhenNeeded /\ SlotHeld /\ WasLaunched /\ LaunchedAlone
    BY <1>2, <1>3 DEF SessionOnlyWhenNeeded, SlotHeld, WasLaunched, LaunchedAlone
<1>5. Progress /\ TurnIsReachable /\ DrainedOnce
    BY <1>2 DEF Progress, TurnIsReachable, DrainedOnce, Turning
<1>6. UnregisteredBeforeClosed /\ NothingRegisteredAfterGate /\ ReadyIsOwned
    BY <1>2 DEF UnregisteredBeforeClosed, NothingRegisteredAfterGate, ReadyIsOwned
<1>. QED
    BY <1>1, <1>4, <1>5, <1>6 DEF IInv

LEMMA IInvInductive == IInv /\ [Next]_vars => IInv'
<1> SUFFICES ASSUME IInv, [Next]_vars PROVE IInv'
    OBVIOUS
<1>1. ASSUME NEW h \in Handler, Connect(h) \/ Request(h) PROVE IInv'
    BY <1>1, LockAndCheckKeep, TurnKeeps, DeleteKeeps DEF Request
<1>2. ASSUME NEW h \in Handler, Step(h) PROVE IInv'
    BY <1>2, LockAndCheckKeep, AdmitKeeps, WaitReadyKeeps, RegisterKeeps,
       DiscardKeeps, DiscardedKeeps, SendKeeps, WritePromptKeeps,
       GenerateKeeps, CompleteKeeps, EndTurnKeeps, CloseKeeps, ClosedKeeps
    DEF Step
<1>3. ASSUME Main PROVE IInv'
    BY <1>3, PhaseKeeps, DrainKeeps, CloseDrainedKeeps DEF Main
<1>4. ASSUME NEW s \in Session, Exits(s) PROVE IInv'
    BY <1>4, ExitsKeeps
<1>5. CASE UNCHANGED vars
    BY <1>5, StutterKeeps
<1>. QED
    BY <1>1, <1>2, <1>3, <1>4, <1>5 DEF Next, Terminated

LEMMA Invariance == Spec => []IInv
BY IInvInitially, IInvInductive, PTL DEF Spec

(* Every variable keeps its type, and a request that works on a session    *)
(* has one.                                                                *)
THEOREM TypeCorrect == Spec => []TypeOK
<1>1. IInv => TypeOK
    BY DEF IInv
<1>. QED
    BY <1>1, Invariance, PTL

(* No two requests send to, or remove, the same session at once.           *)
THEOREM SessionsExclusive == Spec => []OneUser
<1>1. IInv => OneUser
    BY DEF IInv, SlotHeld, OneUser, Pc
<1>. QED
    BY <1>1, Invariance, PTL

(* The runtime of every session that became ready can still be ended: it   *)
(* is registered, being drained, or in the hands of a request.  Closing    *)
(* never meets a session the registry still hands out, and nothing is      *)
(* registered once the gate is set.                                        *)
THEOREM RuntimesOwned ==
    Spec => [](ReadyIsOwned /\ UnregisteredBeforeClosed
                            /\ NothingRegisteredAfterGate)
<1>1. IInv => ReadyIsOwned /\ UnregisteredBeforeClosed
                           /\ NothingRegisteredAfterGate
    BY DEF IInv
<1>. QED
    BY <1>1, Invariance, PTL

(* A step removes sessions from the registry, or adds one while it is not  *)
(* full.                                                                   *)
LEMMA RegistryStep ==
    ASSUME TypeOK, [Next]_vars
    PROVE  \/ registered' \in SUBSET registered
           \/ \E s \in Session : ~Full /\ registered' = registered \cup {s}
<1>1. ASSUME NEW h \in Handler, Connect(h) \/ Request(h)
      PROVE registered' \in SUBSET registered
    BY <1>1 DEF Connect, Request, BadRequest, RunRequest, CreateRequest, Turn, Delete, registryVars
<1>2. ASSUME NEW h \in Handler, Register(h)
      PROVE  \/ registered' \in SUBSET registered
             \/ \E s \in Session : ~Full /\ registered' = registered \cup {s}
  <2>1. Of(h) \in Session
      BY <1>2 DEF TypeOK, Register, At, Of
  <2>. QED
      BY <1>2, <2>1 DEF Register
<1>3. ASSUME NEW h \in Handler, Step(h), ~Register(h)
      PROVE registered' \in SUBSET registered
    BY <1>3 DEF Step, TryRunLock, Run, CheckFull, Admit, WaitReady, Discard,
                Discarded, Send, WritePrompt, Generate, Complete, EndTurn,
                Close, Closed, Answer, EndRuntimeOf, registryVars
<1>4. ASSUME Main \/ \E s \in Session : Exits(s)
      PROVE registered' \in SUBSET registered
    BY <1>4 DEF Main, StopServing, Drain, Down, CloseDrained, Exits, registryVars
<1>5. CASE UNCHANGED vars
    BY <1>5 DEF vars, registryVars
<1>. QED
    BY <1>1, <1>2, <1>3, <1>4, <1>5 DEF Next, Terminated

LEMMA CapacityInductive ==
    ASSUME TypeOK, Capacity, [Next]_vars
    PROVE  Capacity'
<1>1. IsFiniteSet(registered) /\ MaxSessions \in Nat
    BY FS_Subset, SessionAssumption, CapacityAssumption
    DEF TypeOK, SessionAssumption, CapacityAssumption
<1>2. CASE registered' \in SUBSET registered
  <2>1. /\ Cardinality(registered') <= Cardinality(registered)
        /\ Cardinality(registered') \in Nat /\ Cardinality(registered) \in Nat
      BY <1>1, <1>2, FS_Subset, FS_CardinalityType
  <2>. QED
      BY <1>1, <2>1 DEF Capacity
<1>3. ASSUME NEW s \in Session, ~Full, registered' = registered \cup {s}
      PROVE  Capacity'
  <2>1. /\ Cardinality(registered') <= Cardinality(registered) + 1
        /\ Cardinality(registered') \in Nat /\ Cardinality(registered) \in Nat
      BY <1>1, <1>3, FS_AddElement, FS_CardinalityType
  <2>. QED
      BY <1>1, <1>3, <2>1 DEF Capacity, Full
<1>. QED
    BY <1>2, <1>3, RegistryStep

(* The registry never holds more than MAX_CHAT_SESSIONS sessions, although *)
(* a create request tests is_full long before it registers.                *)
THEOREM CapacityHolds == Spec => []Capacity
<1>1. Init => Capacity
    BY FS_EmptySet, CapacityAssumption DEF Init, Capacity, CapacityAssumption
<1>2. TypeOK /\ Capacity /\ [Next]_vars => Capacity'
    BY CapacityInductive
<1>. QED
    BY <1>1, <1>2, TypeCorrect, PTL DEF Spec

-----------------------------------------------------------------------------
(* When server_close joins the request threads: close_all works alone, and *)
(* no session is closed while a turn is in it.                             *)
InTurn == {"write", "generating", "complete"}

TurnIsOpen == \A h \in Handler : Pc(h) \in InTurn => state[Of(h)] # "closed"

(* Who works on a session of a turn is that turn.                          *)
LEMMA TurnAlone ==
    ASSUME IInv, NEW h \in Handler, NEW g \in Handler \ {h},
           Pc(h) \in InTurn, Pc(g) \in Launched \cup InUse
    PROVE  Of(g) # Of(h)
BY DEF IInv, SlotHeld, LaunchedAlone, InTurn, Launched, InUse, Turning, Removing, Pc

(* Once close_all has begun the main thread does not go back.              *)
LEMMA JoinedBefore ==
    ASSUME IInv, Joined', [Next]_vars
    PROVE  Joined \/ \A h \in Handler : Pc(h)' = "idle"
<1>1. ASSUME phase' = phase PROVE Joined \/ \A h \in Handler : Pc(h)' = "idle"
    BY <1>1 DEF Joined, Quiescent, At, Pc
<1>2. ASSUME NEW h \in Handler, Connect(h) \/ Request(h) \/ Step(h) PROVE phase' = phase
    BY <1>2 DEF Connect, Request, BadRequest, RunRequest, CreateRequest, Turn, Delete,
        Step, TryRunLock, Run, CheckFull, Admit, WaitReady, Register, Discard,
        Discarded, Send, WritePrompt, Generate, Complete, EndTurn, Close, Closed,
        Answer, EndRuntimeOf, mainVars
<1>3. CASE Main
    BY <1>1, <1>3 DEF Main, StopServing, Drain, Down, CloseDrained, Joined, Quiescent, At, Pc
<1>4. ASSUME NEW s \in Session, Exits(s) PROVE phase' = phase
    BY <1>4 DEF Exits, mainVars
<1>5. CASE UNCHANGED vars
    BY <1>1, <1>5 DEF vars, mainVars
<1>. QED
    BY <1>1, <1>2, <1>3, <1>4, <1>5 DEF Next, Terminated

(* What a step does to the states of sessions.                             *)
LEMMA ClosedStays ==
    ASSUME IInv, TurnIsOpen, Next, NEW s \in Session, state[s] = "closed"
    PROVE  state'[s] = "closed"
<1>1. ASSUME NEW h \in Handler, Connect(h) \/ Request(h) PROVE UNCHANGED state
    BY <1>1 DEF Connect, Request, BadRequest, RunRequest, CreateRequest, Turn, Delete, sessionVars
<1>2. ASSUME NEW h \in Handler,
             \/ TryRunLock(h, "acquireRun", "running") \/ Run(h)
             \/ TryRunLock(h, "acquire", "admit") \/ CheckFull(h)
             \/ Register(h) \/ Discard(h) \/ EndTurn(h) \/ Close(h) \/ Answer(h)
      PROVE  UNCHANGED state
    BY <1>2 DEF TryRunLock, Run, CheckFull, Register, Discard, EndTurn, Close, Answer,
        EndRuntimeOf, EndRuntime, sessionVars
<1>3. ASSUME NEW h \in Handler, Admit(h) PROVE state'[s] = "closed"
    BY <1>3 DEF Admit, StartRuntime, SetState, sessionVars, IInv, TypeOK, SessionTypeOK
<1>4. ASSUME NEW h \in Handler, WaitReady(h) \/ Send(h) PROVE state'[s] = "closed"
    BY <1>4 DEF WaitReady, Send, BecomeReady, Accepts, Accept, SetState, sessionVars, At, Pc,
        IInv, Progress, TypeOK, SessionTypeOK
<1>5. ASSUME NEW h \in Handler, WritePrompt(h) \/ Generate(h) \/ Complete(h)
      PROVE  state'[s] = "closed"
    <2>1. state[Of(h)] # "closed"
        BY <1>5 DEF WritePrompt, Generate, Complete, At, Pc, TurnIsOpen, InTurn
    <2>. QED
        BY <1>5, <2>1 DEF WritePrompt, Generate, Complete, FailTurn, LoseRuntime,
            CompleteTurn, SetState, sessionVars, IInv, TypeOK, SessionTypeOK
<1>6. ASSUME NEW h \in Handler, Discarded(h) \/ Closed(h) PROVE state'[s] = "closed"
    BY <1>6 DEF Discarded, Closed, MarkClosed, SetState, IInv, TypeOK, SessionTypeOK
<1>7. CASE Main
    BY <1>7 DEF Main, StopServing, Drain, Down, CloseDrained, EndRuntime, MarkClosed,
        SetState, sessionVars, IInv, TypeOK, SessionTypeOK
<1>8. ASSUME NEW r \in Session, Exits(r) PROVE UNCHANGED state
    BY <1>8 DEF Exits, RuntimeExits, EndRuntime
<1>9. CASE Terminated
    BY <1>9 DEF Terminated, vars, sessionVars
<1>. QED
    BY <1>1, <1>2, <1>3, <1>4, <1>5, <1>6, <1>7, <1>8, <1>9 DEF Next, Step

(* A step that closes nothing and lets no new turn in.                     *)
LEMMA TurnStaysOpen ==
    ASSUME TurnIsOpen,
           \A g \in Handler : Pc(g)' \in InTurn => Pc(g) \in InTurn /\ Of(g)' = Of(g),
           \A s \in Session : state'[s] = "closed" => state[s] = "closed",
           \A g \in Handler : Pc(g) \in InTurn => Of(g) \in Session
    PROVE  TurnIsOpen'
BY DEF TurnIsOpen

LEMMA TurnIsOpenKept ==
    ASSUME IInv, Joined, TurnIsOpen, [Next]_vars
    PROVE  TurnIsOpen'
<1>0. \A g \in Handler : Pc(g) \in InTurn => Of(g) \in Session
    BY DEF IInv, TypeOK, InTurn, Turning, Pc, Of
<1>. USE DEF IInv, TypeOK, SessionTypeOK
<1>1. ASSUME NEW h \in Handler, Connect(h) \/ Request(h) PROVE TurnIsOpen'
    <2>1. UNCHANGED state
        BY <1>1 DEF Connect, Request, BadRequest, RunRequest, CreateRequest, Turn, Delete,
            sessionVars
    <2>2. \A g \in Handler : Pc(g)' \in InTurn => Pc(g) \in InTurn /\ Of(g)' = Of(g)
        BY <1>1 DEF Connect, Request, BadRequest, RunRequest, CreateRequest, Turn, Delete,
            Claim, Work, Goto, Respond, Idle, InTurn, Pc, Of
    <2>. QED
        BY <1>0, <2>1, <2>2, TurnStaysOpen
<1>2. ASSUME NEW h \in Handler,
             \/ TryRunLock(h, "acquireRun", "running") \/ Run(h) \/ CheckFull(h)
             \/ TryRunLock(h, "acquire", "admit") \/ Register(h) \/ Discard(h)
             \/ EndTurn(h) \/ Close(h) \/ Answer(h)
      PROVE  TurnIsOpen'
    <2>1. UNCHANGED state
        BY <1>2 DEF TryRunLock, Run, CheckFull, Register, Discard, EndTurn, Close, Answer,
            EndRuntimeOf, EndRuntime, sessionVars
    <2>2. \A g \in Handler : Pc(g)' \in InTurn => Pc(g) \in InTurn /\ Of(g)' = Of(g)
        BY <1>2 DEF TryRunLock, Run, CheckFull, Register, Discard, EndTurn, Close, Answer,
            EndRuntimeOf, Goto, Work, Respond, Idle, InTurn, Pc, Of
    <2>. QED
        BY <1>0, <2>1, <2>2, TurnStaysOpen
<1>3. ASSUME NEW h \in Handler, Admit(h) \/ WaitReady(h) PROVE TurnIsOpen'
    <2>1. \A s \in Session : state'[s] = "closed" => state[s] = "closed"
        BY <1>3 DEF Admit, WaitReady, StartRuntime, BecomeReady, SetState, sessionVars
    <2>2. \A g \in Handler : Pc(g)' \in InTurn => Pc(g) \in InTurn /\ Of(g)' = Of(g)
        BY <1>3 DEF Admit, WaitReady, Work, Goto, Respond, Idle, InTurn, Pc, Of
    <2>. QED
        BY <1>0, <2>1, <2>2, TurnStaysOpen
<1>4. ASSUME NEW h \in Handler, Send(h) PROVE TurnIsOpen'
    <2>1. \A s \in Session : state'[s] = "closed" => state[s] = "closed"
        BY <1>4 DEF Send, Accept, SetState, sessionVars
    <2>2. \A g \in Handler \ {h} : Pc(g)' = Pc(g) /\ Of(g)' = Of(g)
        BY <1>4 DEF Send, Goto, Pc, Of
    <2>3. Pc(h)' \in InTurn => Of(h)' = Of(h) /\ state'[Of(h)] # "closed"
        <3>1. Of(h) \in Session
            BY <1>4 DEF Send, At, Turning, Of
        <3>. QED
            BY <1>4, <3>1 DEF Send, Accept, SetState, Goto, InTurn, Pc, Of
    <2>. QED
        BY <1>0, <2>1, <2>2, <2>3 DEF TurnIsOpen
<1>5. ASSUME NEW h \in Handler, WritePrompt(h) \/ Generate(h) \/ Complete(h)
      PROVE  TurnIsOpen'
    <2>1. \A s \in Session : state'[s] = "closed" => state[s] = "closed"
        BY <1>5 DEF WritePrompt, Generate, Complete, FailTurn, LoseRuntime, CompleteTurn,
            SetState, sessionVars
    <2>2. \A g \in Handler : Pc(g)' \in InTurn => Pc(g) \in InTurn /\ Of(g)' = Of(g)
        BY <1>5 DEF WritePrompt, Generate, Complete, At, Goto, InTurn, Pc, Of
    <2>. QED
        BY <1>0, <2>1, <2>2, TurnStaysOpen
<1>6. ASSUME NEW h \in Handler, Discarded(h) \/ Closed(h) PROVE TurnIsOpen'
    <2>1. Pc(h) \in Launched \cup InUse /\ Pc(h) \notin InTurn
        BY <1>6 DEF Discarded, Closed, At, Launched, InUse, Removing, InTurn, Pc
    <2>2. \A s \in Session \ {Of(h)} : state'[s] = state[s]
        BY <1>6 DEF Discarded, Closed, MarkClosed, SetState
    <2>3. \A g \in Handler : Pc(g)' \in InTurn =>
              g # h /\ Pc(g) \in InTurn /\ Of(g)' = Of(g)
        BY <1>6 DEF Discarded, Closed, Respond, Goto, Idle, InTurn, Pc, Of
    <2>4. ASSUME NEW g \in Handler, Pc(g)' \in InTurn PROVE state'[Of(g)'] # "closed"
        <3>1. g # h /\ Pc(g) \in InTurn /\ Of(g)' = Of(g) /\ Of(g) \in Session
            BY <1>0, <2>3, <2>4
        <3>2. Of(g) # Of(h)
            BY <2>1, <3>1, TurnAlone
        <3>. QED
            BY <2>2, <3>1, <3>2 DEF TurnIsOpen
    <2>. QED
        BY <2>4 DEF TurnIsOpen
<1>7. CASE StopServing \/ Drain \/ Down
    BY <1>7 DEF StopServing, Drain, Down, sessionVars, TurnIsOpen, Pc, Of
<1>8. ASSUME NEW s \in Session, CloseDrained(s) PROVE TurnIsOpen'
    <2>1. \A g \in Handler : Pc(g) = "idle"
        BY <1>8 DEF CloseDrained, DrainedOnce, Joined, Quiescent, At, Pc
    <2>. QED
        BY <1>8, <2>1 DEF CloseDrained, TurnIsOpen, InTurn, Pc
<1>9. ASSUME NEW s \in Session, Exits(s) PROVE TurnIsOpen'
    BY <1>9 DEF Exits, RuntimeExits, EndRuntime, TurnIsOpen, Pc, Of
<1>10. CASE UNCHANGED vars
    BY <1>10 DEF vars, sessionVars, TurnIsOpen, Pc, Of
<1>. QED
    BY <1>1, <1>2, <1>3, <1>4, <1>5, <1>6, <1>7, <1>8, <1>9, <1>10
       DEF Next, Step, Main, Terminated

(* No turn that ends late makes a closed session ready again: a removal    *)
(* has the slot, and the server's shutdown has joined the request threads. *)
(* Of a close_all that was called beside requests nothing is said.         *)
THEOREM ClosedForGood == Spec => ClosedIsFinal
<1>1. Init => TurnIsOpen
    BY DEF Init, TurnIsOpen, Idle, InTurn, Pc
<1>2. IInv /\ (Joined => TurnIsOpen) /\ [Next]_vars => (Joined' => TurnIsOpen')
    BY JoinedBefore, TurnIsOpenKept DEF TurnIsOpen, InTurn
<1>3. IInv /\ (Joined => TurnIsOpen) /\ [Next]_vars
        => [\A s \in Session : Joined /\ state[s] = "closed" => state'[s] = "closed"]_state
    BY ClosedStays DEF vars, sessionVars
<1>. QED
    BY <1>1, <1>2, <1>3, Invariance, PTL DEF Spec, ClosedIsFinal

-----------------------------------------------------------------------------
(* What a request holds is given back.                                     *)

HoldsRunLock == {"running", "admit", "starting"}

(* run_lock and the turn slots are held by requests that are using them    *)
(* and by nobody else: none is left behind by a request that was answered. *)
NoLockLeaks ==
    /\ \A h \in Handler : runLock = h <=> Pc(h) \in HoldsRunLock
    /\ \A h \in Handler, s \in Session : slot[s] = h <=> Pc(h) \in InUse /\ Of(h) = s

(* A step of a request that takes or leaves neither.                       *)
LEMMA LocksStay ==
    ASSUME NoLockLeaks, NEW h \in Handler,
           \A g \in Handler \ {h} : handler'[g] = handler[g],
           UNCHANGED <<runLock, slot>>,
           Pc(h) \in HoldsRunLock <=> handler'[h].pc \in HoldsRunLock,
           Pc(h) \in InUse <=> handler'[h].pc \in InUse,
           Pc(h) \in InUse => handler'[h].session = Of(h)
    PROVE  NoLockLeaks'
BY DEF NoLockLeaks, Pc, Of

LEMMA RunLockKept ==
    ASSUME IInv, NoLockLeaks, NEW h \in Handler,
           \/ TryRunLock(h, "acquireRun", "running") \/ Run(h)
           \/ TryRunLock(h, "acquire", "admit") \/ Admit(h) \/ WaitReady(h)
    PROVE  NoLockLeaks'
<1>. USE HandlerAssumption DEF HandlerAssumption
<1>1. /\ \A g \in Handler \ {h} : handler'[g] = handler[g]
      /\ Pc(h) \notin InUse /\ handler'[h].pc \notin InUse
      /\ UNCHANGED slot
    BY DEF TryRunLock, Run, Admit, WaitReady, Goto, Work, Respond, Idle, At, Pc, IInv, TypeOK,
        InUse, Turning, Removing
<1>2. \/ /\ runLock = NoHandler /\ runLock' = h
         /\ Pc(h) \notin HoldsRunLock /\ handler'[h].pc \in HoldsRunLock
      \/ /\ runLock # NoHandler /\ UNCHANGED runLock
         /\ Pc(h) \notin HoldsRunLock /\ handler'[h].pc \notin HoldsRunLock
      \/ /\ runLock' = NoHandler
         /\ Pc(h) \in HoldsRunLock /\ handler'[h].pc \notin HoldsRunLock
      \/ /\ UNCHANGED runLock
         /\ Pc(h) \in HoldsRunLock /\ handler'[h].pc \in HoldsRunLock
    <2>1. CASE TryRunLock(h, "acquireRun", "running") \/ TryRunLock(h, "acquire", "admit")
        <3>1. CASE runLock = NoHandler
            BY <2>1, <3>1 DEF TryRunLock, Goto, At, Pc, IInv, TypeOK, HoldsRunLock
        <3>2. CASE runLock # NoHandler
            BY <2>1, <3>2 DEF TryRunLock, Respond, Idle, At, Pc, IInv, TypeOK, HoldsRunLock
        <3>. QED
            BY <3>1, <3>2
    <2>2. CASE Run(h) \/ Admit(h) \/ WaitReady(h)
        BY <2>2 DEF Run, Admit, WaitReady, Goto, Work, Respond, Idle, At, Pc, IInv, TypeOK,
            HoldsRunLock
    <2>. QED
        BY <2>1, <2>2
<1>3. (\A g \in Handler : runLock = g <=> Pc(g) \in HoldsRunLock)'
    BY <1>1, <1>2 DEF NoLockLeaks, Pc
<1>4. (\A g \in Handler, s \in Session : slot[s] = g <=> Pc(g) \in InUse /\ Of(g) = s)'
    BY <1>1 DEF NoLockLeaks, Pc, Of
<1>. QED
    BY <1>3, <1>4 DEF NoLockLeaks

LEMMA SlotKept ==
    ASSUME IInv, NoLockLeaks, NEW h \in Handler,
           \/ \E s \in Session : Turn(h, s) \/ Delete(h, s)
           \/ EndTurn(h)
    PROVE  NoLockLeaks'
<1>. USE HandlerAssumption DEF HandlerAssumption
<1>1. CASE Arrives(h) /\ Respond(h) /\ UNCHANGED <<slot, runLock>>
    <2>1. /\ \A g \in Handler \ {h} : handler'[g] = handler[g]
          /\ Pc(h) = "reading" /\ handler'[h].pc = "idle"
        BY <1>1 DEF Arrives, Respond, Idle, At, Pc, IInv, TypeOK
    <2>. QED
        BY <1>1, <2>1, LocksStay DEF InUse, Turning, Removing, HoldsRunLock
<1>2. ASSUME NEW s \in Session, NEW label \in {"send", "close"},
             Arrives(h), slot[s] = NoHandler, slot' = [slot EXCEPT ![s] = h],
             Work(h, label, s), UNCHANGED runLock
      PROVE  NoLockLeaks'
    <2>1. /\ \A g \in Handler \ {h} : handler'[g] = handler[g]
          /\ Pc(h) = "reading" /\ handler'[h].pc \in {"send", "close"}
          /\ handler'[h].session = s
        BY <1>2 DEF Work, Arrives, At, Pc, IInv, TypeOK
    <2>2. \A r \in Session : slot'[r] = IF r = s THEN h ELSE slot[r]
        BY <1>2 DEF IInv, TypeOK
    <2>. QED
        BY <1>2, <2>1, <2>2 DEF NoLockLeaks, Pc, Of, InUse, Turning, Removing, HoldsRunLock
<1>3. CASE EndTurn(h)
    <2>1. /\ \A g \in Handler \ {h} : handler'[g] = handler[g]
          /\ Pc(h) = "endTurn" /\ handler'[h].pc = "answering" /\ Of(h) \in Session
        BY <1>3 DEF EndTurn, Work, At, Pc, Of, IInv, TypeOK
    <2>2. \A r \in Session : slot'[r] = IF r = Of(h) THEN NoHandler ELSE slot[r]
        BY <1>3 DEF EndTurn, IInv, TypeOK
    <2>3. UNCHANGED runLock
        BY <1>3 DEF EndTurn
    <2>. QED
        BY <2>1, <2>2, <2>3 DEF NoLockLeaks, Pc, Of, InUse, Turning, Removing, HoldsRunLock
<1>. QED
    BY <1>1, <1>2, <1>3 DEF Turn, Delete, Claim

LEMMA NoLockLeaksKept ==
    ASSUME IInv, NoLockLeaks, [Next]_vars
    PROVE  NoLockLeaks'
<1>1. ASSUME NEW h \in Handler,
             \/ Connect(h) \/ BadRequest(h) \/ Answer(h)
             \/ RunRequest(h) \/ CreateRequest(h) \/ CheckFull(h) \/ Register(h)
             \/ Discard(h) \/ Discarded(h) \/ Send(h) \/ WritePrompt(h)
             \/ Generate(h) \/ Complete(h) \/ Close(h) \/ Closed(h)
      PROVE  NoLockLeaks'
    <2>1. UNCHANGED <<runLock, slot>> /\ \A g \in Handler \ {h} : handler'[g] = handler[g]
        BY <1>1 DEF Connect, BadRequest, Answer, RunRequest,
            CreateRequest, CheckFull, Register, Discard, Discarded, Send,
            WritePrompt, Generate, Complete, Close, Closed, EndRuntimeOf, Goto, Respond,
            IInv, TypeOK
    <2>2. /\ Pc(h) \notin HoldsRunLock /\ handler'[h].pc \notin HoldsRunLock
          /\ Pc(h) \in InUse <=> handler'[h].pc \in InUse
          /\ Pc(h) \in InUse => handler'[h].session = Of(h)
        BY <1>1 DEF Connect, BadRequest, Answer, RunRequest,
            CreateRequest, CheckFull, Register, Discard, Discarded, Send,
            WritePrompt, Generate, Complete, Close, Closed, EndRuntimeOf, Goto, Respond,
            Arrives, Idle, At, Pc, Of, IInv, TypeOK, HoldsRunLock, InUse, Turning, Removing
    <2>. QED
        BY <2>1, <2>2, LocksStay
<1>2. ASSUME NEW h \in Handler, NEW s \in Session, Turn(h, s) \/ Delete(h, s)
      PROVE  NoLockLeaks'
    BY <1>2, SlotKept
<1>3. ASSUME NEW h \in Handler,
             \/ TryRunLock(h, "acquireRun", "running") \/ Run(h)
             \/ TryRunLock(h, "acquire", "admit") \/ Admit(h) \/ WaitReady(h) \/ EndTurn(h)
      PROVE  NoLockLeaks'
    BY <1>3, SlotKept, RunLockKept
<1>4. CASE UNCHANGED <<handler, runLock, slot>>
    BY <1>4 DEF NoLockLeaks, Pc, Of
<1>5. CASE Main \/ \E s \in Session : Exits(s)
    BY <1>4, <1>5 DEF Main, StopServing, Drain, Down, CloseDrained, Exits
<1>. QED
    BY <1>1, <1>2, <1>3, <1>4, <1>5 DEF Next, Request, Step, Terminated, vars

(* Nothing a request took stays taken once it is answered, on any path     *)
(* through its handler.                                                    *)
THEOREM LocksGivenBack == Spec => []NoLockLeaks
<1>1. Init => NoLockLeaks
    BY HandlerAssumption DEF Init, NoLockLeaks, HandlerAssumption, Idle, Pc, HoldsRunLock,
        InUse, Turning, Removing
<1>. QED
    BY <1>1, NoLockLeaksKept, Invariance, PTL DEF Spec

(* The most steps a request can still take.                                *)
StepsLeft(pc) ==
    CASE pc = "idle" -> 0
      [] pc \in {"answering", "discarded"} -> 1
      [] pc \in {"running", "endTurn", "discard"} -> 2
      [] pc \in {"acquireRun", "complete", "closed", "register"} -> 3
      [] pc \in {"generating", "close", "starting"} -> 4
      [] pc \in {"write", "admit"} -> 5
      [] pc \in {"send", "acquire"} -> 6
      [] pc = "checkFull" -> 7
      [] OTHER -> 8

(* Where a request may go on to, other than to its answer.                 *)
GoesOnTo(pc) ==
    CASE pc = "reading" -> {"acquireRun", "checkFull", "send", "close"}
      [] pc = "acquireRun" -> {"running"}
      [] pc \in {"running", "endTurn"} -> {"answering"}
      [] pc = "checkFull" -> {"acquire"}
      [] pc = "acquire" -> {"admit"}
      [] pc = "admit" -> {"starting"}
      [] pc = "starting" -> {"register"}
      [] pc = "register" -> {"discard"}
      [] pc = "discard" -> {"discarded"}
      [] pc = "send" -> {"write", "endTurn"}
      [] pc = "write" -> {"generating", "endTurn"}
      [] pc = "generating" -> {"complete", "endTurn"}
      [] pc = "complete" -> {"endTurn"}
      [] pc = "close" -> {"closed", "endTurn"}
      [] pc = "closed" -> {"endTurn"}
      [] OTHER -> {}

LEMMA NearerByStep ==
    ASSUME NEW a \in PC, NEW b \in GoesOnTo(a) \cup {"idle"}, a # "idle"
    PROVE  StepsLeft(b) < StepsLeft(a)
<1>1. StepsLeft(a) \in 1 .. 8
    BY DEF StepsLeft
<1>2. StepsLeft("idle") = 0
    BY DEF StepsLeft
<1>3. CASE b = "idle"
    BY <1>1, <1>2, <1>3
<1>4. CASE b \in GoesOnTo(a)
    BY <1>4 DEF StepsLeft, GoesOnTo, PC, Creating, Turning, Removing
<1>. QED
    BY <1>3, <1>4

(* Every step of a request brings it nearer to its answer, and none waits  *)
(* for another request, since every lock is tried: a request takes at most *)
(* eight, and one that is never answered stays at one of them for ever.    *)
THEOREM RequestsAreBounded ==
    Spec => [][\A h \in Handler : Pc(h) # "idle" =>
                  \/ UNCHANGED handler[h]
                  \/ StepsLeft(Pc(h)') < StepsLeft(Pc(h))]_vars
<1>. DEFINE Nearer(h) == Pc(h) # "idle" =>
                            \/ UNCHANGED handler[h]
                            \/ StepsLeft(Pc(h)') < StepsLeft(Pc(h))
<1>1. ASSUME IInv, [Next]_vars PROVE \A h \in Handler : Nearer(h)
    <2>. SUFFICES ASSUME NEW g \in Handler PROVE Nearer(g)
        OBVIOUS
    <2>1. CASE UNCHANGED handler
        BY <2>1
    <2>2. ASSUME NEW h \in Handler, Connect(h) PROVE Nearer(g)
        BY <1>1, <2>2 DEF Connect, Goto, At, Pc, IInv, TypeOK
    <2>3. ASSUME NEW h \in Handler, Request(h) \/ Step(h) PROVE Nearer(g)
        <3>1. CASE g = h
            <4>1. handler'[h].pc \in GoesOnTo(Pc(h)) \/ handler'[h].pc = "idle"
                <5>0. CASE Request(h)
                    BY <1>1, <5>0 DEF Request, BadRequest, RunRequest, CreateRequest, Turn,
                        Delete, Claim, Arrives, Goto, Work, Respond, Idle, At, Pc, IInv,
                        TypeOK, GoesOnTo
                <5>1. CASE \/ TryRunLock(h, "acquireRun", "running") \/ Run(h) \/ CheckFull(h)
                           \/ TryRunLock(h, "acquire", "admit") \/ Admit(h) \/ WaitReady(h)
                    BY <1>1, <5>1 DEF TryRunLock, Run, CheckFull, Admit, WaitReady, Goto, Work,
                        Respond, Idle, At, Pc, IInv, TypeOK, GoesOnTo
                <5>2. CASE Register(h) \/ Discard(h) \/ Discarded(h)
                    BY <1>1, <5>2 DEF Register, Discard, Discarded, EndRuntimeOf, Goto, Respond,
                        Idle, At, Pc, IInv, TypeOK, GoesOnTo
                <5>3. CASE Send(h) \/ WritePrompt(h) \/ Generate(h) \/ Complete(h) \/ EndTurn(h)
                    BY <1>1, <5>3 DEF Send, WritePrompt, Generate, Complete, EndTurn, Goto, Work,
                        At, Pc, IInv, TypeOK, GoesOnTo
                <5>4. CASE Close(h) \/ Closed(h) \/ Answer(h)
                    BY <1>1, <5>4 DEF Close, Closed, Answer, EndRuntimeOf, Goto, Respond, Idle,
                        At, Pc, IInv, TypeOK, GoesOnTo
                <5>. QED
                    BY <2>3, <5>0, <5>1, <5>2, <5>3, <5>4 DEF Step
            <4>2. Pc(h) \in PC
                BY <1>1 DEF IInv, TypeOK, Pc
            <4>. QED
                BY <3>1, <4>1, <4>2, NearerByStep DEF Pc
        <3>2. CASE g # h
            BY <1>1, <2>3, <3>2 DEF Request, BadRequest, RunRequest, CreateRequest, Turn, Delete,
                Claim, Answer, Step, TryRunLock, Run, CheckFull, Admit, WaitReady, Register,
                Discard, Discarded, Send, WritePrompt, Generate, Complete, EndTurn, Close, Closed,
                EndRuntimeOf, Goto, Work, Respond, IInv, TypeOK
        <3>. QED
            BY <3>1, <3>2
    <2>4. CASE Main \/ \E s \in Session : Exits(s)
        BY <2>1, <2>4 DEF Main, StopServing, Drain, Down, CloseDrained, Exits
    <2>. QED
        BY <1>1, <2>1, <2>2, <2>3, <2>4 DEF Next, Terminated, vars
<1>. QED
    BY <1>1, Invariance, PTL DEF Spec
=============================================================================
