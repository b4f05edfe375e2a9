------------------------------ MODULE Execution ------------------------------
(***************************************************************************)
(* One command that executes a model - `run`, `execute`, `chat`, or their  *)
(* HTTP forms - from the evaluation of an artifact to the launch of the    *)
(* runtime on a path, while downloads, imports, the user and the commands  *)
(* on the admitted model's record change what it read.                     *)
(***************************************************************************)
EXTENDS Compatibility, AdmittedRecords

CONSTANTS Artifact,     \* artifacts a store may hold
          Spec,         \* artifact -> what its manifest says
          Content,      \* what half of a file may hold
          HeaderOf,     \* content -> architecture its GGUF header names
          Catalog,      \* model id -> model of the catalogue
          AdmittedId,   \* the id of the admitted model
          Command,      \* commands that are given
          Scene,        \* bound: a command and what the store holds at first
          Hosts,        \* what runtime detection may find
          MaxChanges    \* bound: changes around the command

NoFile == <<>>

Operation == {"run", "execute", "chat", "http run", "http chat"}

ArtifactSpec == [model_id : STRING, imported : BOOLEAN, format : STRING, backend : STRING,
                 declared : {NoFile} \cup [1 .. 2 -> Content]]

ASSUME ExecutionAssumption ==
    /\ MaxChanges \in Nat
    /\ Hosts \subseteq Host
    /\ Scene \subseteq Command \X SUBSET Artifact
    /\ IsFiniteSet(Artifact)
    /\ Spec \in [Artifact -> ArtifactSpec]
    /\ \A c \in Command :
           c.op \in Operation /\ c.wanted \subseteq Artifact
    /\ AdmittedId \notin DOMAIN Catalog

VARIABLES registered,  \* artifacts with a manifest
          part,        \* artifacts with a .part
          final,       \* artifact -> its file
          record,      \* the record of the admitted model
          host,        \* what runtime detection finds now
          cmd,         \* the command
          clear,       \* the model was free of conflicts once since the start
          changes      \* what is left of the bound

storeVars == <<registered, part, final>>
vars == <<storeVars, record, host, cmd, clear, changes>>

Label == {"detect", "evaluate", "header", "admitted", "resolve", "gate", "preflight",
          "hash", "select", "launch", "running", "done"}

Result == {None, "no runtime", "evaluation failed", "denied", "not resolved", "missing",
           "partial", "inconsistent", "no integrity identifiers", "checksum mismatch",
           "no target", "unsupported backend", "no runner", "artifact invalid",
           "executable missing", "session", "success", "timeout", "process failed"}

CommandState ==
    [given : Command,
     at : Label,
     capability : {DetectCapability(h) : h \in Host},
     evaluated : Artifact \cup {None},  \* the artifact that was evaluated
     header : {None} \cup {HeaderOf[c] : c \in Content},
                                        \* the architecture read from it
     admission : {None, "blocked", "compatible", "incompatible", "insufficient_evidence"},
     artifact : Artifact \cup {None},   \* the artifact to launch
     halves : Seq(Content \cup {None}), \* what the preflight read of it
     changed : BOOLEAN,                 \* its stat changed since the preflight opened it
     result : Result]

TypeOK ==
    /\ registered \subseteq Artifact
    /\ part \subseteq Artifact
    /\ final \in [Artifact -> {NoFile} \cup [1 .. 2 -> Content]]
    /\ record \in Record \cup {NoRecord}
    /\ host \in Hosts
    /\ cmd \in CommandState
    /\ clear \in BOOLEAN
    /\ changes \in 0 .. MaxChanges

-----------------------------------------------------------------------------

(* inspect_manifest of an artifact that has a manifest.                    *)
Inspected(a, verify) ==
    CASE a \in part         -> "downloading"
      [] final[a] = NoFile  -> "not_downloaded"
      [] ~verify            -> "downloaded"
      [] Spec[a].declared = NoFile -> "downloaded"
      [] final[a] = Spec[a].declared -> "verified"
      [] OTHER              -> "failed"

Usable == {"downloaded", "verified"}

(* mutant: the first match of several is taken.                            *)
SelectFirst(candidates, wanted) ==
    IF candidates \cap wanted # {} THEN {CHOOSE a \in candidates \cap wanted : TRUE} ELSE {}

(* select_artifact: one match, or an error.                                *)
SelectArtifact(candidates, wanted) ==
    IF Cardinality(candidates \cap wanted) = 1 THEN candidates \cap wanted ELSE {}

(* The imported artifacts with that label, unverified.                     *)
ResolveImported(id, wanted) ==
    SelectArtifact({a \in registered :
                      /\ Spec[a].imported
                      /\ Spec[a].model_id = id
                      /\ Inspected(a, FALSE) \in Usable}, wanted)

(* Every artifact of the model must be usable, the one that is selected    *)
(* and the others.                                                         *)
ResolveManaged(id, wanted) ==
    LET matching == {a \in registered : Spec[a].model_id = id}
    IN  IF \E a \in matching : Inspected(a, TRUE) \notin Usable THEN {}
        ELSE SelectArtifact(matching, wanted)

(* mutant: a conflict falls back to the imports, like a missing record.    *)
ResolveFallingBack(id, wanted) ==
    IF id \in DOMAIN Catalog \/ (id = AdmittedId /\ record.described /\ ~MaterialConflict(record))
    THEN ResolveManaged(id, wanted) ELSE ResolveImported(id, wanted)

(* The catalogue, the admitted record, the imports, in this order; the     *)
(* empty set for every resolution error.                                   *)
Resolve(id, wanted) ==
    IF id \in DOMAIN Catalog THEN ResolveManaged(id, wanted)
    ELSE IF id = AdmittedId /\ record.described
    THEN IF MaterialConflict(record) THEN {} ELSE ResolveManaged(id, wanted)
    ELSE ResolveImported(id, wanted)

Imported(id) == id \notin DOMAIN Catalog /\ ~(id = AdmittedId /\ record.described)

(* The model that is resolved with the artifact.                           *)
ResolvedModel(id) ==
    IF id \in DOMAIN Catalog THEN Catalog[id]
    ELSE [id |-> IF Imported(id) THEN None ELSE id,
          architecture |-> IF Imported(id) THEN "Unknown" ELSE record.accepted,
          supported_runtimes |-> {"llama.cpp / llama.app"},
          supported_backends |-> {"Vulkan", "CPU"}]

-----------------------------------------------------------------------------

Idle(c) ==
    [given |-> c, at |-> "detect", capability |-> Unavailable, evaluated |-> None,
     header |-> None, admission |-> None, artifact |-> None, halves |-> <<>>,
     changed |-> FALSE, result |-> None]

Conflicting(c, r) == c.model = AdmittedId /\ MaterialConflict(r)

Init ==
    /\ \E s \in Scene : cmd = Idle(s[1]) /\ registered = s[2]
    /\ part = {}
    /\ final = [a \in Artifact |-> IF a \in registered THEN Spec[a].declared ELSE NoFile]
    /\ record \in {NoRecord} \cup {Describe(NoRecord, claim) : claim \in Value}
    /\ host \in Hosts
    /\ clear = TRUE
    /\ changes = MaxChanges

At(label) == cmd.at = label

Move(c) == cmd' = c /\ UNCHANGED <<storeVars, record, host, clear, changes>>

Goto(label) == Move([cmd EXCEPT !.at = label])

Stop(result) == Move([cmd EXCEPT !.at = "done", !.result = result])

Http == cmd.given.op \in {"http run", "http chat"}
Chat == cmd.given.op \in {"chat", "http chat"}
Execute == cmd.given.op \in {"execute", "http run"}
DetectsAgain == cmd.given.op \in {"execute", "http run", "http chat"}

Detect ==
    /\ At("detect")
    /\ cmd' = IF cmd.given.op = "chat" /\ ~DetectCapability(host).available
              THEN [cmd EXCEPT !.at = "done", !.result = "no runtime"]
              ELSE [cmd EXCEPT !.capability = DetectCapability(host), !.at = "evaluate"]
    /\ clear' = ~Conflicting(cmd.given, record)
    /\ UNCHANGED <<storeVars, record, host, changes>>

(* evaluate_model_compatibility: what cannot be evaluated is blocked.      *)
EvaluateResolve ==
    /\ At("evaluate")
    /\ LET found == IF cmd.capability.available THEN Resolve(cmd.given.model, cmd.given.wanted)
                    ELSE {}
       IN  IF found = {}
           THEN Move([cmd EXCEPT !.admission = "blocked", !.at = "admitted"])
           ELSE \E a \in found : Move([cmd EXCEPT !.evaluated = a, !.at = "header"])

Header(a) == IF final[a] = NoFile THEN "unreadable" ELSE HeaderOf[final[a][1]]

(* A header that cannot be read raises; `execute` makes that a blocked     *)
(* admission, `run` and `chat` none at all, a handler answers 500.         *)
ReadHeader ==
    /\ At("header")
    /\ LET a == cmd.evaluated
           id == cmd.given.model
           checks == Checks(ResolvedModel(id), Spec[a], Header(a), cmd.capability, None,
                            Observation(None, FALSE, FALSE))
       IN  IF Header(a) # "unreadable"
           THEN Move([cmd EXCEPT !.header = Header(a), !.at = "admitted",
                                 !.admission = ToAdmission(checks, Imported(id))])
           ELSE IF Http THEN Stop("evaluation failed")
           ELSE Move([cmd EXCEPT !.at = "admitted",
                                 !.admission = IF Execute THEN "blocked" ELSE None])

(* A handler refuses at once; the commands leave it to the gate.           *)
Admitted ==
    /\ At("admitted")
    /\ IF Http /\ ~Admits(cmd.admission) THEN Stop("denied") ELSE Goto("resolve")

(* run_once, execute_model and open_chat_session resolve once more, and    *)
(* the runtime is detected once more by execute_model and, as the handler  *)
(* gives it none, by the open_chat_session of a chat over HTTP.            *)
ResolveAgain ==
    /\ At("resolve")
    /\ LET found == Resolve(cmd.given.model, cmd.given.wanted)
           capability == IF DetectsAgain THEN DetectCapability(host) ELSE cmd.capability
       IN  IF found = {} THEN Stop("not resolved")
           ELSE IF Execute /\ ~capability.available THEN Stop("no runtime")
           ELSE \E a \in found :
                    Move([cmd EXCEPT !.artifact = a, !.capability = capability, !.at = "gate"])

OpenVINOChat == Chat /\ Spec[cmd.artifact].backend = "openvino"

(* require_evaluation_admission, on every path but an OpenVINO chat's.     *)
Gate ==
    /\ At("gate")
    /\ IF OpenVINOChat \/ Admits(cmd.admission) THEN Goto("preflight") ELSE Stop("denied")

(* The preflight: the file's state, then the file is opened and its stat   *)
(* taken.                                                                  *)
OpenFinal ==
    /\ At("preflight")
    /\ LET a == cmd.artifact
       IN  CASE final[a] = NoFile /\ a \notin part -> Stop("missing")
             [] final[a] = NoFile /\ a \in part    -> Stop("partial")
             [] final[a] # NoFile /\ a \in part    -> Stop("inconsistent")
             [] Spec[a].declared = NoFile          -> Stop("no integrity identifiers")
             [] OTHER -> Move([cmd EXCEPT !.at = "hash", !.halves = <<>>, !.changed = FALSE])

ReadHalf ==
    /\ At("hash")
    /\ Len(cmd.halves) < 2
    /\ LET file == final[cmd.artifact]
       IN  Move([cmd EXCEPT !.halves =
                   Append(@, IF file = NoFile THEN None ELSE file[Len(cmd.halves) + 1])])

(* mutant: the stat is not compared after the file was read.               *)
DigestOnly == cmd.halves = Spec[cmd.artifact].declared

(* The digest of what was read, and the stat before and after.             *)
Verified == cmd.halves = Spec[cmd.artifact].declared /\ ~cmd.changed

Verify ==
    /\ At("hash")
    /\ Len(cmd.halves) = 2
    /\ IF Verified THEN Goto("select") ELSE Stop("checksum mismatch")

(* RuntimeBackendSelector and create_runner; a chat needs a GGUF backend.  *)
Select ==
    /\ At("select")
    /\ LET a == Spec[cmd.artifact]
           target == SelectTarget(host, cmd.capability, ResolvedModel(cmd.given.model), a)
       IN  IF OpenVINOChat THEN Goto("launch")
           ELSE IF target = None THEN Stop("no target")
           ELSE IF Chat /\ a.backend # "gguf" THEN Stop("unsupported backend")
           ELSE IF ~Chat /\ ~RunnerExists(cmd.capability, target) THEN Stop("no runner")
           ELSE Goto("launch")

(* The runtime opens the file by its path.                                 *)
Launch ==
    /\ At("launch")
    /\ IF final[cmd.artifact] = NoFile THEN Stop("artifact invalid")
       ELSE IF ~OpenVINOChat /\ ~host.executable THEN Stop("executable missing")
       ELSE Goto("running")

Finish ==
    /\ At("running")
    /\ \E result \in IF Chat THEN {"session"} ELSE {"success", "timeout", "process failed"} :
           Stop(result)

CommandStep ==
    Detect \/ EvaluateResolve \/ ReadHeader \/ Admitted \/ ResolveAgain \/ Gate
    \/ OpenFinal \/ ReadHalf \/ Verify \/ Select \/ Launch \/ Finish

-----------------------------------------------------------------------------

Change == ~At("done") /\ changes > 0 /\ changes' = changes - 1

(* The file of an artifact changes, and with it the stat of what is open.  *)
Write(a, file) ==
    /\ final' = [final EXCEPT ![a] = file]
    /\ cmd' = [cmd EXCEPT !.changed = @ \/ (a = cmd.artifact /\ At("hash"))]
    /\ UNCHANGED <<record, host, clear>>

(* An import or an acquisition of another artifact completes.              *)
Install(a) ==
    /\ Change
    /\ a \notin registered
    /\ Spec[a].declared # NoFile
    /\ registered' = registered \cup {a}
    /\ Write(a, Spec[a].declared)
    /\ UNCHANGED part

(* A download of a registered artifact whose file is gone.                 *)
OpenPart(a) ==
    /\ Change
    /\ a \in registered \ part
    /\ ~Spec[a].imported
    /\ final[a] = NoFile
    /\ part' = part \cup {a}
    /\ UNCHANGED <<registered, final, record, host, cmd, clear>>

Publish(a) ==
    /\ a \in part
    /\ final[a] = NoFile
    /\ Write(a, Spec[a].declared)
    /\ UNCHANGED <<registered, part, changes>>

UnlinkPart(a) ==
    /\ a \in part
    /\ final[a] # NoFile
    /\ part' = part \ {a}
    /\ UNCHANGED <<registered, final, record, host, cmd, clear, changes>>

(* The user removes a file, or writes into it.                             *)
Remove(a) ==
    /\ Change
    /\ final[a] # NoFile
    /\ Write(a, NoFile)
    /\ UNCHANGED <<registered, part>>

Overwrite(a, i, c) ==
    /\ Change
    /\ final[a] # NoFile
    /\ final[a][i] # c
    /\ Write(a, [final[a] EXCEPT ![i] = c])
    /\ UNCHANGED <<registered, part>>

HostChanges ==
    /\ Change
    /\ host' \in Hosts \ {host}
    /\ UNCHANGED <<storeVars, record, cmd, clear>>

SetRecord(r) ==
    /\ Change
    /\ r \notin {Rejected, record}
    /\ record' = r
    /\ clear' = (clear \/ ~Conflicting(cmd.given, r))
    /\ UNCHANGED <<storeVars, host, cmd>>

(* By hand, or from the header of an artifact of the model.                *)
ObserveRecord == \E claim \in Claim : SetRecord(RecordObservation(record, claim))

DescribeRecord == \E claim \in Value : SetRecord(Describe(record, claim))

RefreshRecord == \E claim \in Value : SetRecord(Refresh(record, claim))

ReconcileRecord == \E decision \in Decision : SetRecord(Reconcile(record, decision))

Environment ==
    \/ \E a \in Artifact :
           Install(a) \/ OpenPart(a) \/ Publish(a) \/ UnlinkPart(a) \/ Remove(a)
           \/ \E i \in 1 .. 2, c \in Content : Overwrite(a, i, c)
    \/ HostChanges \/ DescribeRecord \/ ObserveRecord \/ RefreshRecord \/ ReconcileRecord

Next == CommandStep \/ Environment

Executions == Init /\ [][Next]_vars

-----------------------------------------------------------------------------

(* The admission names no artifact, and the artifact is resolved again     *)
(* after it was given (run_once, execute_model, open_chat_session): it is  *)
(* only ever used for the artifact it was given for, unless that one is no *)
(* longer usable.                                                          *)
AdmissionIsForResolved ==
    [][At("resolve") /\ cmd'.at = "gate" /\ cmd.evaluated \notin {None, cmd'.artifact}
           => Inspected(cmd.evaluated, TRUE) \notin Usable]_vars

(* What passes the preflight is, when it passes, the file that was         *)
(* declared, whatever was written into it while it was read.               *)
VerifiedIsWhole ==
    [][At("hash") /\ cmd'.at = "select"
           => final[cmd.artifact] = Spec[cmd.artifact].declared]_vars

(* A conflict between the claims that were accepted for a model and what   *)
(* was observed keeps it from being launched until it is reconciled, by    *)
(* whichever of its artifacts, its own or an import of the same name.      *)
ConflictBlocks == At("running") => clear

(* What passed the preflight and is launched has an architecture that the *)
(* runtime is known to support, when its header names one, whatever was    *)
(* declared for the model.  No single change around the command breaks     *)
(* that; two may, as the header is read long before the launch: the file   *)
(* is exchanged while it is evaluated and put back, or the artifact that   *)
(* was evaluated disappears and another one is installed in its place.     *)
KnownArchitecture ==
    At("running") /\ ~OpenVINOChat =>
        LET named == HeaderOf[Spec[cmd.artifact].declared[1]]
        IN  \/ named = None
            \/ TriState("llama.cpp", "architecture", named) = "passed"
            \/ changes + 2 <= MaxChanges

(* "`None` is NOT authorization: it is handed to a fail-closed gate, so a  *)
(* broken evaluation still refuses execution." (main.py)                   *)
AdmittedBeforeLaunch == At("running") => Admits(cmd.admission)
=============================================================================
