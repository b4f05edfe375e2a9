---------------------------- MODULE LlamaSession -----------------------------
(***************************************************************************)
(* LlamaCppChatSession: interactive sessions, each over one runtime        *)
(* process.  A session has a state, changed under its state lock, and a    *)
(* process that may exit at any time.  Every operator is one atomic step   *)
(* of __init__, send or close for one session; the callers order them.     *)
(* The turn log, the text of a turn and its metrics are left out: no step  *)
(* depends on them.                                                        *)
(***************************************************************************)
CONSTANT Session

VARIABLES state, \* session -> its ChatSessionState, "none" before __init__
          alive  \* session -> its runtime process is running

sessionVars == <<state, alive>>

ChatSessionState == {"none", "starting", "ready", "generating", "failed", "closed"}

SessionTypeOK ==
    /\ state \in [Session -> ChatSessionState]
    /\ alive \in [Session -> BOOLEAN]

SessionInit ==
    /\ state = [s \in Session |-> "none"]
    /\ alive = [s \in Session |-> FALSE]

SetState(s, new) == state' = [state EXCEPT ![s] = new]

(* __init__: Popen.                                                        *)
StartRuntime(s) ==
    /\ state[s] = "none"
    /\ SetState(s, "starting")
    /\ alive' = [alive EXCEPT ![s] = TRUE]

(* _wait_ready: the ready marker was read.                                 *)
BecomeReady(s) == SetState(s, "ready") /\ UNCHANGED alive

(* send: READY becomes GENERATING in one critical section.                 *)
Accepts(s) == state[s] = "ready"

Accept(s) == SetState(s, "generating") /\ UNCHANGED alive

(* What is written to the runtime's stdin has no timeout: it goes out once *)
(* the runtime reads what was written before, or is gone.  A runtime that  *)
(* was ready has read everything; one with a turn unanswered may not.      *)
MayBlock(s) == alive[s] /\ state[s] \in {"generating", "failed"}

(* send: poll() says the process is gone, or writing the prompt fails.     *)
FailTurn(s) == SetState(s, "failed") /\ UNCHANGED alive

(* send, waiting for the response: the process ended, which only fails a   *)
(* session that is still GENERATING.                                       *)
LoseRuntime(s) ==
    /\ ~alive[s]
    /\ state' = [state EXCEPT ![s] = IF @ = "generating" THEN "failed" ELSE @]
    /\ UNCHANGED alive

(* send: the completed turn is logged and the state set to READY, whatever *)
(* it was.                                                                 *)
CompleteTurn(s) == SetState(s, "ready") /\ UNCHANGED alive

(* close: /exit, then SIGINT, then SIGKILL, until the process is gone.     *)
EndRuntime(s) == alive' = [alive EXCEPT ![s] = FALSE] /\ UNCHANGED state

MarkClosed(s) == SetState(s, "closed") /\ UNCHANGED alive

(* The runtime exits on its own: killed, out of memory, an error.          *)
RuntimeExits(s) == alive[s] /\ EndRuntime(s)
=============================================================================
