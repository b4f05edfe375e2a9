----------------------------- MODULE ChatServer ------------------------------
(***************************************************************************)
(* The HTTP API's execution routes: POST /v1/run, POST, DELETE and turns   *)
(* of /v1/chat/sessions, each request in a thread of its own, over the     *)
(* global run_lock, the _ChatSessionRegistry with its per-session turn     *)
(* slots, and the sessions; and the shutdown of the server.                *)
(***************************************************************************)
EXTENDS LlamaSession, Naturals, FiniteSets

CONSTANTS Handler,     \* the request threads that may run at once
          NoHandler,   \* a lock nobody holds
          NoSession,   \* a handler that has no session
          MaxSessions, \* MAX_CHAT_SESSIONS
          BlockOnClose \* ThreadingMixIn.block_on_close, TRUE in the server;
                       \* FALSE leaves open whether close_all, which can be
                       \* called directly, comes after the request threads

ASSUME HandlerAssumption == NoHandler \notin Handler
ASSUME SessionAssumption == NoSession \notin Session /\ IsFiniteSet(Session)
ASSUME CapacityAssumption == MaxSessions \in Nat /\ BlockOnClose \in BOOLEAN

VARIABLES handler,    \* the local state of each request thread
          runLock,    \* the holder of run_lock
          slot,       \* session -> the holder of its turn_lock
          registered, \* the registry's map
          closing,    \* the registry's shutdown gate
          draining,   \* the sessions close_all took out and has to close
          phase       \* the main thread: serving, then server_close

registryVars == <<registered, closing>>
mainVars == <<draining, phase>>
vars == <<sessionVars, handler, runLock, slot, registryVars, mainVars>>

Creating == {"checkFull", "acquire", "admit", "starting", "register",
             "discard", "discarded"}
Turning  == {"send", "write", "generating", "complete"}
Removing == {"close", "closed"}

PC == {"idle", "reading", "acquireRun", "running", "endTurn", "answering"}
        \cup Creating \cup Turning \cup Removing

TypeOK ==
    /\ SessionTypeOK
    /\ handler \in [Handler -> [pc : PC, session : Session \cup {NoSession}]]
    /\ \A h \in Handler :
         handler[h].pc \in {"starting", "register", "discard", "discarded",
                            "endTurn"} \cup Turning \cup Removing
           => handler[h].session \in Session
    /\ runLock \in Handler \cup {NoHandler}
    /\ slot \in [Session -> Handler \cup {NoHandler}]
    /\ registered \subseteq Session
    /\ closing \in BOOLEAN
    /\ draining \subseteq Session
    /\ phase \in {"serving", "refusing", "draining", "down"}

Idle == [pc |-> "idle", session |-> NoSession]

Init ==
    /\ SessionInit
    /\ handler = [h \in Handler |-> Idle]
    /\ runLock = NoHandler
    /\ slot = [s \in Session |-> NoHandler]
    /\ registered = {}
    /\ closing = FALSE
    /\ draining = {}
    /\ phase = "serving"

At(h, label) == handler[h].pc = label
Of(h) == handler[h].session

Goto(h, label) == handler' = [handler EXCEPT ![h] = [@ EXCEPT !.pc = label]]
Work(h, label, s) == handler' = [handler EXCEPT ![h] = [pc |-> label, session |-> s]]
Respond(h) == handler' = [handler EXCEPT ![h] = Idle]

(* A connection is accepted while the listening socket is open, and gets a *)
(* thread that reads its request: the headers, then the body.  No read has *)
(* a timeout.                                                              *)
Connect(h) ==
    /\ At(h, "idle") /\ phase = "serving"
    /\ Goto(h, "reading")
    /\ UNCHANGED <<sessionVars, runLock, slot, registryVars, mainVars>>

Arrives(h) == At(h, "reading")

(* A request that is answered 400 or 413 when it has been read, or drained,*)
(* or whose client is gone before that.                                    *)
BadRequest(h) ==
    /\ Arrives(h)
    /\ Respond(h)
    /\ UNCHANGED <<sessionVars, runLock, slot, registryVars, mainVars>>

(* The answer of a run or a turn is sent when its lock is free again; the  *)
(* client may be slow to take it.  Every other answer is a line or two,    *)
(* which the socket's buffer takes at once.                                *)
Answer(h) ==
    /\ At(h, "answering")
    /\ Respond(h)
    /\ UNCHANGED <<sessionVars, runLock, slot, registryVars, mainVars>>

Full == Cardinality(registered) >= MaxSessions

-----------------------------------------------------------------------------
(* run_lock is tried, never waited for: 409 when another thread holds it.  *)
TryRunLock(h, from, next) ==
    /\ At(h, from)
    /\ IF runLock = NoHandler
       THEN runLock' = h /\ Goto(h, next)
       ELSE Respond(h) /\ UNCHANGED runLock
    /\ UNCHANGED <<sessionVars, slot, registryVars, mainVars>>

(* _handle_run: evaluation, admission and execution end somehow, and the   *)
(* finally releases the lock.                                              *)
RunRequest(h) ==
    /\ Arrives(h)
    /\ Goto(h, "acquireRun")
    /\ UNCHANGED <<sessionVars, runLock, slot, registryVars, mainVars>>

Run(h) ==
    /\ At(h, "running")
    /\ runLock' = NoHandler
    /\ Goto(h, "answering")
    /\ UNCHANGED <<sessionVars, slot, registryVars, mainVars>>

-----------------------------------------------------------------------------
(* _handle_chat_create: is_closing and is_full are two critical sections,  *)
(* and neither is the one that registers.                                  *)
CreateRequest(h) ==
    /\ Arrives(h)
    /\ IF closing THEN Respond(h) ELSE Goto(h, "checkFull")
    /\ UNCHANGED <<sessionVars, runLock, slot, registryVars, mainVars>>

CheckFull(h) ==
    /\ At(h, "checkFull")
    /\ IF Full THEN Respond(h) ELSE Goto(h, "acquire")
    /\ UNCHANGED <<sessionVars, runLock, slot, registryVars, mainVars>>

AdmitHolding(h) ==  \* mutant: a refusal returns without releasing run_lock
    /\ At(h, "admit")
    /\ \/ Respond(h) /\ UNCHANGED <<sessionVars, runLock>>
       \/ \E s \in Session : /\ StartRuntime(s)
                             /\ Work(h, "starting", s)
                             /\ UNCHANGED runLock
    /\ UNCHANGED <<slot, registryVars, mainVars>>

AdmitFallingThrough(h) ==  \* mutant: a refusal is answered without return
    /\ At(h, "admit")
    /\ \/ Goto(h, "register") /\ runLock' = NoHandler /\ UNCHANGED sessionVars
       \/ \E s \in Session : /\ StartRuntime(s)
                             /\ Work(h, "starting", s)
                             /\ UNCHANGED runLock
    /\ UNCHANGED <<slot, registryVars, mainVars>>

(* Refused by admission, resolution or preparation; or the runtime starts. *)
Admit(h) ==
    /\ At(h, "admit")
    /\ \/ /\ runLock' = NoHandler
          /\ Respond(h)
          /\ UNCHANGED sessionVars
       \/ \E s \in Session : /\ StartRuntime(s)
                             /\ Work(h, "starting", s)
                             /\ UNCHANGED runLock
    /\ UNCHANGED <<slot, registryVars, mainVars>>

(* _wait_ready: ready; or ChatLaunchError because the runtime exited or    *)
(* did not become ready in time, and then nothing ends it.  run_lock is    *)
(* released before the session is registered.                              *)
WaitReady(h) ==
    /\ At(h, "starting")
    /\ runLock' = NoHandler
    /\ \/ BecomeReady(Of(h)) /\ Goto(h, "register")
       \/ Respond(h) /\ UNCHANGED sessionVars
    /\ UNCHANGED <<slot, registryVars, mainVars>>

RegisterUngated(h) ==  \* mutant: the gate is not checked again
    /\ At(h, "register")
    /\ IF Full
       THEN Goto(h, "discard") /\ UNCHANGED registered
       ELSE Respond(h) /\ registered' = registered \cup {Of(h)}
    /\ UNCHANGED <<sessionVars, runLock, slot, closing, mainVars>>

RegisterUncapped(h) ==  \* mutant: is_full is trusted
    /\ At(h, "register")
    /\ IF closing
       THEN Goto(h, "discard") /\ UNCHANGED registered
       ELSE Respond(h) /\ registered' = registered \cup {Of(h)}
    /\ UNCHANGED <<sessionVars, runLock, slot, closing, mainVars>>

RegisterForgetting(h) ==  \* mutant: at capacity the session is not closed
    /\ At(h, "register")
    /\ IF closing THEN Goto(h, "discard") /\ UNCHANGED registered
       ELSE /\ Respond(h)
            /\ registered' = IF Full THEN registered
                                     ELSE registered \cup {Of(h)}
    /\ UNCHANGED <<sessionVars, runLock, slot, closing, mainVars>>

(* register, and the create handler's answer to what it raises.            *)
Register(h) ==
    /\ At(h, "register")
    /\ IF closing \/ Full
       THEN Goto(h, "discard") /\ UNCHANGED registered
       ELSE Respond(h) /\ registered' = registered \cup {Of(h)}
    /\ UNCHANGED <<sessionVars, runLock, slot, closing, mainVars>>

(* session.close() in a handler: end the runtime, then set CLOSED.         *)
EndRuntimeOf(h, from, next, done) ==
    /\ At(h, from)
    /\ IF state[Of(h)] = "closed"
       THEN Goto(h, done) /\ UNCHANGED sessionVars
       ELSE Goto(h, next) /\ EndRuntime(Of(h))
    /\ UNCHANGED <<runLock, slot, registryVars, mainVars>>

Discard(h) == EndRuntimeOf(h, "discard", "discarded", "discarded")

Discarded(h) ==
    /\ At(h, "discarded")
    /\ MarkClosed(Of(h))
    /\ Respond(h)
    /\ UNCHANGED <<runLock, slot, registryVars, mainVars>>

-----------------------------------------------------------------------------
(* begin_turn and claim_for_removal: one critical section each.            *)
Claim(h, s, next) ==
    IF s \in registered /\ slot[s] = NoHandler
    THEN slot' = [slot EXCEPT ![s] = h] /\ Work(h, next, s)
    ELSE Respond(h) /\ UNCHANGED slot  \* 404 or 409

TurnUnclaimed(h, s) ==  \* mutant: the slot is taken without looking
    /\ Arrives(h) /\ s \in registered
    /\ slot' = [slot EXCEPT ![s] = h]
    /\ Work(h, "send", s)
    /\ UNCHANGED <<sessionVars, runLock, registryVars, mainVars>>

Turn(h, s) ==
    /\ Arrives(h)
    /\ Claim(h, s, "send")
    /\ UNCHANGED <<sessionVars, runLock, registryVars, mainVars>>

Send(h) ==
    /\ At(h, "send")
    /\ IF Accepts(Of(h))
       THEN Accept(Of(h)) /\ Goto(h, "write")
       ELSE Goto(h, "endTurn") /\ UNCHANGED sessionVars
    /\ UNCHANGED <<runLock, slot, registryVars, mainVars>>

WritePrompt(h) ==
    /\ At(h, "write")
    /\ \/ /\ alive[Of(h)]
          /\ Goto(h, "generating")
          /\ UNCHANGED sessionVars
       \/ Goto(h, "endTurn") /\ FailTurn(Of(h))
    /\ UNCHANGED <<runLock, slot, registryVars, mainVars>>

(* The response is complete in the buffer; or the runtime ended; or the    *)
(* operation timeout passed.                                               *)
GenerateLeaking(h) ==  \* mutant: a timeout returns without end_turn
    /\ At(h, "generating")
    /\ \/ Goto(h, "complete") /\ UNCHANGED sessionVars
       \/ Goto(h, "endTurn") /\ LoseRuntime(Of(h))
       \/ Respond(h) /\ FailTurn(Of(h))
    /\ UNCHANGED <<runLock, slot, registryVars, mainVars>>

Generate(h) ==
    /\ At(h, "generating")
    /\ \/ Goto(h, "complete") /\ UNCHANGED sessionVars
       \/ Goto(h, "endTurn") /\ LoseRuntime(Of(h))
       \/ Goto(h, "endTurn") /\ FailTurn(Of(h))
    /\ UNCHANGED <<runLock, slot, registryVars, mainVars>>

Complete(h) ==
    /\ At(h, "complete")
    /\ CompleteTurn(Of(h))
    /\ Goto(h, "endTurn")
    /\ UNCHANGED <<runLock, slot, registryVars, mainVars>>

EndTurn(h) ==
    /\ At(h, "endTurn")
    /\ slot' = [slot EXCEPT ![Of(h)] = NoHandler]
    /\ Work(h, "answering", NoSession)
    /\ UNCHANGED <<sessionVars, runLock, registryVars, mainVars>>

-----------------------------------------------------------------------------
(* _handle_chat_delete: unregister with the claim, close, release.         *)
DeleteUnclaimed(h, s) ==  \* mutant: a generating session is removed too
    /\ Arrives(h) /\ s \in registered
    /\ Work(h, "close", s)
    /\ registered' = registered \ {s}
    /\ UNCHANGED <<sessionVars, runLock, slot, closing, mainVars>>

DeleteRegistered(h, s) ==  \* mutant: closed before it is unregistered
    /\ Arrives(h)
    /\ Claim(h, s, "close")
    /\ UNCHANGED <<sessionVars, runLock, registryVars, mainVars>>

Delete(h, s) ==
    /\ Arrives(h)
    /\ Claim(h, s, "close")
    /\ registered' = IF slot[s] = NoHandler THEN registered \ {s}
                                            ELSE registered
    /\ UNCHANGED <<sessionVars, runLock, closing, mainVars>>

Close(h) == EndRuntimeOf(h, "close", "closed", "endTurn")

Closed(h) ==
    /\ At(h, "closed")
    /\ MarkClosed(Of(h))
    /\ Goto(h, "endTurn")
    /\ UNCHANGED <<runLock, slot, registryVars, mainVars>>

-----------------------------------------------------------------------------
(* serve: an interrupt ends serve_forever and server_close closes the      *)
(* listening socket.                                                       *)
StopServing ==
    /\ phase = "serving"
    /\ phase' = "refusing"
    /\ UNCHANGED <<sessionVars, handler, runLock, slot, registryVars, draining>>

(* server_close joins the request threads; then close_all flips the gate   *)
(* and empties the map in one critical section.                            *)
Drain ==
    /\ phase = "refusing"
    /\ BlockOnClose => \A h \in Handler : At(h, "idle")
    /\ phase' = "draining"
    /\ closing' = TRUE
    /\ draining' = registered
    /\ registered' = {}
    /\ UNCHANGED <<sessionVars, handler, runLock, slot>>

(* entry.session.close() for each of them, in two steps as above.  It does *)
(* not take the turn slot.                                                 *)
CloseDrained(s) ==
    /\ s \in draining
    /\ IF state[s] # "closed" /\ alive[s]
       THEN EndRuntime(s) /\ UNCHANGED draining
       ELSE MarkClosed(s) /\ draining' = draining \ {s}
    /\ UNCHANGED <<handler, runLock, slot, registryVars, phase>>

DownWhenEnded ==  \* mutant: waits for sessions that were drained alive
    /\ phase = "draining" /\ draining = {} /\ \A s \in Session : ~alive[s]
    /\ phase' = "down"
    /\ UNCHANGED <<sessionVars, handler, runLock, slot, registryVars, draining>>

Down ==
    /\ phase = "draining" /\ draining = {}
    /\ phase' = "down"
    /\ UNCHANGED <<sessionVars, handler, runLock, slot, registryVars, draining>>

Exits(s) ==
    /\ RuntimeExits(s)
    /\ UNCHANGED <<handler, runLock, slot, registryVars, mainVars>>

(* Nothing arrives any more.                                               *)
Terminated == phase = "down" /\ UNCHANGED vars

-----------------------------------------------------------------------------
Request(h) ==
    \/ BadRequest(h) \/ RunRequest(h) \/ CreateRequest(h)
    \/ \E s \in Session : Turn(h, s) \/ Delete(h, s)

Step(h) ==
    \/ TryRunLock(h, "acquireRun", "running") \/ Run(h)
    \/ CheckFull(h) \/ TryRunLock(h, "acquire", "admit") \/ Admit(h)
    \/ WaitReady(h) \/ Register(h) \/ Discard(h) \/ Discarded(h)
    \/ Send(h) \/ WritePrompt(h) \/ Generate(h) \/ Complete(h) \/ EndTurn(h)
    \/ Close(h) \/ Closed(h) \/ Answer(h)

Main == StopServing \/ Drain \/ Down \/ \E s \in Session : CloseDrained(s)

Next ==
    \/ \E h \in Handler : Connect(h) \/ Request(h) \/ Step(h)
    \/ Main
    \/ \E s \in Session : Exits(s)
    \/ Terminated

Spec == Init /\ [][Next]_vars

(* Every request thread has ended: what server_close waits for.            *)
Quiescent == \A h \in Handler : At(h, "idle")

(* Waiting for the runtime to get ready, to answer a turn and to end is    *)
(* bounded by the ready, operation and close timeouts.  Waiting for a      *)
(* client to send its request or take its answer is not, nor is a write to *)
(* the stdin of a runtime that does not read it, be it of a prompt         *)
(* (chat.py:314) or of close()'s "/exit" (chat.py:407): of neither is      *)
(* anything assumed.  Once interrupted, the main thread joins the requests *)
(* and goes on when they have ended, as soon as it can.                    *)
ForClient(h) == handler[h].pc \in {"reading", "answering"}

ForRuntime(h) ==
    handler[h].pc \in {"write", "close"} /\ MayBlock(Of(h))

MainGoesOn ==
    \/ Quiescent /\ Drain
    \/ \E s \in Session : ~MayBlock(s) /\ CloseDrained(s)
    \/ Down

Fairness ==
    /\ \A h \in Handler : WF_vars(~ForClient(h) /\ ~ForRuntime(h) /\ Step(h))
    /\ WF_vars(MainGoesOn)

FairSpec == Spec /\ Fairness
-----------------------------------------------------------------------------
InUse == Turning \cup Removing \cup {"endTurn"}

(* At most MAX_CHAT_SESSIONS sessions are registered, although requests    *)
(* test is_full long before they register.                                 *)
Capacity == Cardinality(registered) <= MaxSessions

(* The turn slot excludes: no two requests send to, or close, one session. *)
OneUser ==
    \A h, g \in Handler :
        handler[h].pc \in InUse /\ handler[g].pc \in InUse /\ Of(h) = Of(g)
            => h = g

(* The close invariant of claim_for_removal and close_all: a session whose *)
(* close() may be running is no longer reachable through the registry.     *)
UnregisteredBeforeClosed ==
    /\ draining \cap registered = {}
    /\ \A h \in Handler :
         handler[h].pc \in Removing \cup {"discard", "discarded"}
             => Of(h) \notin registered

(* Once the gate is set nothing is ever registered again.                  *)
NothingRegisteredAfterGate == closing => registered = {}

(* The runtime of a session that became ready always has somebody who will *)
(* end it: the registry, close_all, or the request that still holds it.    *)
ReadyIsOwned ==
    \A s \in Session : alive[s] /\ state[s] # "starting" =>
        \/ s \in registered \cup draining
        \/ \E h \in Handler : handler[h].pc # "idle" /\ Of(h) = s

(* No turn brings a closed session back, although send() sets READY        *)
(* without looking at the state: removal excludes turns by the slot, and   *)
(* the server's shutdown by joining the request threads before close_all.  *)
(* (A close_all called beside turns in flight has only the registry's word *)
(* that nobody can reach a closed session.)                                *)
Joined == phase \in {"draining", "down"} => Quiescent

ClosedIsFinal ==
    [][\A s \in Session : Joined /\ state[s] = "closed" => state'[s] = "closed"]_state

(* Whatever happens in a turn or a removal, the session's slot is freed:   *)
(* on success, on failure, on a timeout and when the client is gone.  The  *)
(* exception is a runtime that lives on without ever reading what is       *)
(* written to it: the write is made before the turn's deadline is set.     *)
SlotFreed ==
    \A s \in Session :
        \/ (slot[s] # NoHandler) ~> (slot[s] = NoHandler)
        \/ <>[](\E h \in Handler : slot[s] = h /\ ForRuntime(h))

(* Whatever happens in an execution, run_lock is freed.                    *)
RunLockFreed == (runLock # NoHandler) ~> (runLock = NoHandler)

(* An interrupted server comes down, in-flight requests or not, unless for *)
(* ever some client neither sends its request nor takes its answer, or     *)
(* some runtime does not read its input: handler threads are joined        *)
(* (api.py:1693) and have no timeout of their own.                         *)
Held ==
    \/ \E h \in Handler : ForClient(h) \/ ForRuntime(h)
    \/ \E s \in draining : MayBlock(s)

ComesDown == ((phase = "refusing") ~> (phase = "down")) \/ <>[]Held

(* "No session or runtime can outlive the shutdown as an orphan."          *)
NoOrphan == phase = "down" => \A s \in Session : ~alive[s]
=============================================================================
