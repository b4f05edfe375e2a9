--------------------------- MODULE Execution_proofs ---------------------------
(***************************************************************************)
(* For any store, catalogue, command and host, and any number of changes   *)
(* around a command: types, and what an execution's launch rests on.       *)
(***************************************************************************)
EXTENDS Execution, FiniteSetTheorems, SequenceTheorems, TLAPS

OpenVINO(c) == c.given.op \in {"chat", "http chat"} /\ Spec[c.artifact].backend = "openvino"

IsImport(a) == Spec[a].imported

UsableUnverified(a) == Inspected(a, FALSE) \in Usable

(* What the evaluation was made of can be resolved for the command.        *)
Chosen(a, given) ==
    /\ a \in registered /\ a \in given.wanted
    /\ Spec[a].model_id = given.model
    /\ Imported(given.model) => IsImport(a)

(* An admission that lets a command through rests on the header.           *)
Assessed(c) ==
    c.header # None /\ Admits(c.admission)
        => TriState("llama.cpp", "architecture", c.header) = "passed"

(* What was read is still there, unless the file's stat has changed.       *)
Reads(c) ==
    /\ Len(c.halves) <= 2
    /\ ~c.changed => /\ final[c.artifact] # NoFile
                     /\ \A i \in 1 .. Len(c.halves) : c.halves[i] = final[c.artifact][i]

(* What a command knows at each of its steps.                              *)
Sound(c) ==
    /\ c \in CommandState
    /\ c.at \in {"detect", "evaluate"} => c.evaluated = None
    /\ c.at \in {"gate", "preflight", "hash", "select", "launch", "running"}
         => c.artifact \in Artifact /\ clear
    /\ c.at = "header" => c.evaluated \in Artifact /\ c.capability.available
    /\ c.at \in {"header", "admitted", "resolve"} /\ c.evaluated # None
         => Chosen(c.evaluated, c.given)
    /\ Assessed(c)
    /\ c.at \in {"preflight", "hash", "select", "launch", "running"}
         => OpenVINO(c) \/ Admits(c.admission)
    /\ c.at = "hash" => Reads(c)

IInv ==
    /\ TypeOK
    /\ ~Conflicting(cmd.given, record) => clear
    /\ Sound(cmd)

-----------------------------------------------------------------------------
(* Everything known is known of one of two runtimes, and llama.cpp is one. *)
LEMMA KnownRuntimes == {a.runtime : a \in InitialKnowledge} \subseteq {"llama.cpp", "ollama"}
<1>1. \A r, k, os, ss, t : \A a \in Assertions(r, k, os, ss, t) : a.runtime = r
    BY DEF Assertions
<1>2. \A a \in LlamaBackends : a.runtime = "llama.cpp"
    BY <1>1 DEF LlamaBackends
<1>3. \A a \in OllamaBackends : a.runtime = "ollama"
    BY <1>1 DEF OllamaBackends
<1>4. \A a \in Architectures : a.runtime \in {"llama.cpp", "ollama"}
    BY <1>1 DEF Architectures
<1>5. \A a \in RuntimeCapabilities : a.runtime \in {"llama.cpp", "ollama"}
    BY <1>1 DEF RuntimeCapabilities
<1>6. \A a \in Platforms : a.runtime = "ollama"
    BY <1>1 DEF Platforms
<1>. QED
    BY <1>2, <1>3, <1>4, <1>5, <1>6 DEF InitialKnowledge

LEMMA LlamaIsKnown == "llama.cpp" \in {a.runtime : a \in InitialKnowledge}
<1>. DEFINE a == [runtime |-> "llama.cpp", kind |-> "architecture", object |-> "llama",
                  scope |-> "any", state |-> "supported"]
<1>1. a \in Architectures
    BY DEF Architectures, Assertions
<1>. QED
    BY <1>1 DEF InitialKnowledge

(* What is detected is evaluated as llama.cpp.                             *)
LEMMA SubjectIsLlama ==
    ASSUME NEW h \in Host, DetectCapability(h).available
    PROVE  RuntimeSubjects(DetectCapability(h)) = {"llama.cpp"}
<1>1. /\ DetectCapability(h).name = "llama.cpp CLI"
      /\ DetectCapability(h).compatibility_names = {"llama.cpp / llama.app", "llama.cpp"}
    BY DEF DetectCapability, Unavailable
<1>. QED
    BY <1>1, KnownRuntimes, LlamaIsKnown DEF RuntimeSubjects

LEMMA TriStateType ==
    ASSUME NEW r, NEW k, NEW o
    PROVE  TriState(r, k, o) \in {"passed", "failed", "unknown"}
BY DEF TriState

LEMMA AdmissionType ==
    ASSUME NEW checks, NEW imported
    PROVE  ToAdmission(checks, imported) \in {"compatible", "incompatible", "insufficient_evidence"}
BY DEF ToAdmission, Verdict

(* No admission passes over an architecture that fails or is unknown.      *)
LEMMA AdmissionNeedsArchitecture ==
    ASSUME NEW checks, "architecture" \in DOMAIN checks,
           checks.architecture \in {"passed", "failed", "unknown"},
           NEW imported, Admits(ToAdmission(checks, imported))
    PROVE  checks.architecture = "passed"
<1>1. With(checks, "failed") = {}
    BY DEF ToAdmission, Verdict, Admits
<1>2. "architecture" \notin With(checks, "unknown")
    BY DEF ToAdmission, Verdict, Admits, NonBlockingUnknowns
<1>. QED
    BY <1>1, <1>2 DEF With

(* A selection is one artifact of the candidates, and the only one.        *)
LEMMA SelectionIsUnique ==
    ASSUME NEW candidates \in SUBSET Artifact, NEW wanted,
           NEW a \in SelectArtifact(candidates, wanted)
    PROVE  a \in candidates /\ a \in wanted /\ \A b \in candidates \cap wanted : b = a
<1>1. IsFiniteSet(candidates \cap wanted)
    BY ExecutionAssumption, FS_Subset DEF ExecutionAssumption
<1>2. Cardinality(candidates \cap wanted) = 1 /\ a \in candidates \cap wanted
    BY DEF SelectArtifact
<1>3. PICK b : candidates \cap wanted = {b}
    BY <1>1, <1>2, FS_Singleton
<1>. QED
    BY <1>2, <1>3

LEMMA ImportedSelection ==
    ASSUME IInv, NEW id, NEW wanted, NEW a \in ResolveImported(id, wanted)
    PROVE  /\ a \in registered /\ a \in wanted
           /\ IsImport(a) /\ Spec[a].model_id = id
           /\ \A b \in registered : /\ b \in wanted /\ IsImport(b)
                                   /\ Spec[b].model_id = id
                                   /\ UsableUnverified(b)
                                   => b = a
<1>. DEFINE labelled == {b \in registered : /\ IsImport(b)
                                            /\ Spec[b].model_id = id
                                            /\ UsableUnverified(b)}
<1>1. labelled \in SUBSET Artifact
    BY DEF IInv, TypeOK
<1>2. a \in SelectArtifact(labelled, wanted)
    BY DEF ResolveImported, IsImport, UsableUnverified
<1>. HIDE DEF labelled
<1>3. a \in labelled /\ a \in wanted /\ \A b \in labelled \cap wanted : b = a
    BY <1>1, <1>2, SelectionIsUnique
<1>. QED
    BY <1>3 DEF labelled

LEMMA ManagedSelection ==
    ASSUME IInv, NEW id, NEW wanted, NEW a \in ResolveManaged(id, wanted)
    PROVE  /\ a \in registered /\ a \in wanted /\ Spec[a].model_id = id
           /\ \A b \in registered : b \in wanted /\ Spec[b].model_id = id => b = a
<1>. DEFINE matching == {b \in registered : Spec[b].model_id = id}
<1>1. matching \in SUBSET Artifact
    BY DEF IInv, TypeOK
<1>2. a \in SelectArtifact(matching, wanted)
    BY DEF ResolveManaged
<1>. HIDE DEF matching
<1>3. a \in matching /\ a \in wanted /\ \A b \in matching \cap wanted : b = a
    BY <1>1, <1>2, SelectionIsUnique
<1>. QED
    BY <1>3 DEF matching

LEMMA Resolving ==
    ASSUME IInv, NEW given \in Command, NEW a \in Resolve(given.model, given.wanted)
    PROVE  a \in Artifact /\ Chosen(a, given) /\ ~Conflicting(given, record)
<1>1. registered \subseteq Artifact /\ record \in Record \cup {NoRecord}
    BY DEF IInv, TypeOK
<1>2. CASE Imported(given.model)
    <2>1. a \in ResolveImported(given.model, given.wanted)
        BY <1>2 DEF Resolve, Imported
    <2>2. /\ a \in registered /\ a \in given.wanted
          /\ IsImport(a) /\ Spec[a].model_id = given.model
        BY <2>1, ImportedSelection
    <2>3. ~Conflicting(given, record)
        <3>1. given.model = AdmittedId => ~record.described
            BY <1>2 DEF Imported
        <3>2. ~record.described => record = NoRecord
            BY <1>1 DEF Record
        <3>3. ~MaterialConflict(NoRecord)
            BY DEF MaterialConflict, NoRecord
        <3>. QED
            BY <3>1, <3>2, <3>3 DEF Conflicting
    <2>. QED
        BY <1>1, <2>2, <2>3 DEF Chosen
<1>3. CASE ~Imported(given.model)
    <2>1. a \in ResolveManaged(given.model, given.wanted)
        BY <1>3 DEF Resolve, Imported
    <2>2. a \in registered /\ a \in given.wanted /\ Spec[a].model_id = given.model
        BY <2>1, ManagedSelection
    <2>3. ~Conflicting(given, record)
        BY <1>3, ExecutionAssumption DEF ExecutionAssumption, Resolve, Imported, Conflicting
    <2>. QED
        BY <1>1, <1>3, <2>2, <2>3 DEF Chosen
<1>. QED
    BY <1>2, <1>3

(* As long as what was evaluated is usable, nothing else is resolved.      *)
LEMMA ResolvesTheEvaluated ==
    ASSUME IInv, NEW given \in Command, NEW a \in Resolve(given.model, given.wanted),
           NEW e \in Artifact, Chosen(e, given), Inspected(e, TRUE) \in Usable
    PROVE  a = e
<1>1. CASE Imported(given.model)
    <2>1. a \in ResolveImported(given.model, given.wanted)
        BY <1>1 DEF Resolve, Imported
    <2>2. UsableUnverified(e)
        BY DEF Inspected, Usable, UsableUnverified
    <2>. QED
        BY <1>1, <2>1, <2>2, ImportedSelection DEF Chosen
<1>2. CASE ~Imported(given.model)
    <2>1. a \in ResolveManaged(given.model, given.wanted)
        BY <1>2 DEF Resolve, Imported
    <2>. QED
        BY <2>1, ManagedSelection DEF Chosen
<1>. QED
    BY <1>1, <1>2

-----------------------------------------------------------------------------
(* A step of the command that leaves what is around it.                    *)
LEMMA Moving ==
    ASSUME IInv, NEW c, Sound(c), c.given = cmd.given, Move(c)
    PROVE  IInv'
<1>1. cmd' = c /\ UNCHANGED <<registered, part, final, record, host, clear, changes>>
    BY DEF Move, storeVars
<1>2. TypeOK'
    BY <1>1 DEF IInv, TypeOK, Sound
<1>3. Sound(cmd)'
    BY <1>1 DEF Sound, Chosen, Assessed, Reads, OpenVINO, Imported
<1>4. (~Conflicting(cmd.given, record) => clear)'
    BY <1>1 DEF IInv, Conflicting
<1>. QED
    BY <1>2, <1>3, <1>4 DEF IInv

LEMMA Given == IInv => cmd \in CommandState /\ cmd.given \in Command /\ Sound(cmd)
BY DEF IInv, TypeOK, CommandState

(* A command may end anywhere.                                             *)
LEMMA Ending ==
    ASSUME IInv, NEW r \in Result, Stop(r)
    PROVE  IInv'
<1>. DEFINE c == [cmd EXCEPT !.at = "done", !.result = r]
<1>1. c \in CommandState
    BY Given DEF CommandState, Label
<1>2. Sound(c)
    BY <1>1, Given DEF Sound, CommandState, Assessed
<1>3. c.given = cmd.given
    BY Given DEF CommandState
<1>. QED
    BY <1>2, <1>3, Moving DEF Stop

(* Or go on to where no more has to be known.                              *)
LEMMA GoingOn ==
    ASSUME IInv, NEW label \in Label, Goto(label), cmd.artifact \in Artifact, clear,
           label # "detect", label # "evaluate", label # "header", label # "admitted", label # "resolve", label # "hash",
           OpenVINO(cmd) \/ Admits(cmd.admission)
    PROVE  IInv'
<1>. DEFINE c == [cmd EXCEPT !.at = label]
<1>1. c \in CommandState /\ c.given = cmd.given /\ c.artifact = cmd.artifact
      /\ c.admission = cmd.admission /\ c.header = cmd.header /\ c.at = label
    BY Given DEF CommandState
<1>2. Sound(c)
    BY <1>1, Given DEF Sound, Assessed, OpenVINO
<1>. QED
    BY <1>1, <1>2, Moving DEF Goto

LEMMA DetectKeeps == ASSUME IInv, Detect PROVE IInv'
<1>1. /\ clear' = ~Conflicting(cmd.given, record)
      /\ UNCHANGED <<registered, part, final, record, host, changes>>
    BY DEF Detect, storeVars
<1>2. cmd \in CommandState /\ cmd.at = "detect" /\ Sound(cmd)
    BY Given DEF Detect, At
<1>3. DetectCapability(host) \in {DetectCapability(h) : h \in Host}
    BY ExecutionAssumption DEF ExecutionAssumption, IInv, TypeOK
<1>4. cmd' \in CommandState /\ cmd'.given = cmd.given /\ cmd'.at \in {"done", "evaluate"}
      /\ cmd'.header = cmd.header /\ cmd'.admission = cmd.admission
      /\ cmd'.evaluated = cmd.evaluated
    <2>1. ASSUME cmd' = [cmd EXCEPT !.at = "done", !.result = "no runtime"]
          PROVE  cmd' \in CommandState /\ cmd'.given = cmd.given /\ cmd'.at = "done"
                 /\ cmd'.header = cmd.header /\ cmd'.admission = cmd.admission
                 /\ cmd'.evaluated = cmd.evaluated
        BY <1>2, <2>1 DEF CommandState, Label, Result
    <2>2. ASSUME cmd' = [cmd EXCEPT !.capability = DetectCapability(host), !.at = "evaluate"]
          PROVE  cmd' \in CommandState /\ cmd'.given = cmd.given /\ cmd'.at = "evaluate"
                 /\ cmd'.header = cmd.header /\ cmd'.admission = cmd.admission
                 /\ cmd'.evaluated = cmd.evaluated
        BY <1>2, <1>3, <2>2 DEF CommandState, Label
    <2>. QED
        BY <2>1, <2>2 DEF Detect
<1>5. clear' \in BOOLEAN
    BY <1>1 DEF Conflicting
<1>6. TypeOK'
    BY <1>1, <1>4, <1>5 DEF IInv, TypeOK
<1>7. Sound(cmd)'
    BY <1>2, <1>4 DEF Sound, Assessed, CommandState, Label
<1>8. (~Conflicting(cmd.given, record) => clear)'
    BY <1>1, <1>4 DEF Conflicting
<1>. QED
    BY <1>6, <1>7, <1>8 DEF IInv

LEMMA EvaluateResolveKeeps == ASSUME IInv, EvaluateResolve PROVE IInv'
<1>. DEFINE found == IF cmd.capability.available
                     THEN Resolve(cmd.given.model, cmd.given.wanted) ELSE {}
<1>1. cmd \in CommandState /\ cmd.given \in Command /\ Sound(cmd) /\ cmd.at = "evaluate"
    BY Given DEF EvaluateResolve, At
<1>2. ASSUME Move([cmd EXCEPT !.admission = "blocked", !.at = "admitted"]),
             cmd.evaluated = None
      PROVE  IInv'
    <2> DEFINE c == [cmd EXCEPT !.admission = "blocked", !.at = "admitted"]
    <2>1. c \in CommandState /\ c.given = cmd.given /\ c.at = "admitted"
          /\ c.admission = "blocked" /\ c.evaluated = None
        BY <1>1, <1>2 DEF CommandState, Label
    <2>2. Sound(c)
        BY <2>1 DEF Sound, Assessed, Admits
    <2>. QED
        BY <1>2, <2>1, <2>2, Moving
<1>3. ASSUME NEW a \in found, Move([cmd EXCEPT !.evaluated = a, !.at = "header"])
      PROVE  IInv'
    <2> DEFINE c == [cmd EXCEPT !.evaluated = a, !.at = "header"]
    <2>1. a \in Artifact /\ Chosen(a, cmd.given) /\ cmd.capability.available
        BY <1>1, Resolving
    <2>2. /\ c \in CommandState /\ c.given = cmd.given /\ c.at = "header"
          /\ c.evaluated = a /\ c.capability = cmd.capability
          /\ c.header = cmd.header /\ c.admission = cmd.admission
        BY <1>1, <2>1 DEF CommandState, Label
    <2>3. Sound(c)
        BY <1>1, <2>1, <2>2 DEF Sound, Assessed
    <2>. QED
        BY <1>3, <2>2, <2>3, Moving
<1>. QED
    BY <1>1, <1>2, <1>3 DEF EvaluateResolve, Sound

LEMMA ReadHeaderKeeps == ASSUME IInv, ReadHeader PROVE IInv'
<1>. DEFINE a == cmd.evaluated
            id == cmd.given.model
            checks == Checks(ResolvedModel(id), Spec[a], Header(a), cmd.capability, None,
                             Observation(None, FALSE, FALSE))
<1>1. cmd \in CommandState /\ cmd.given \in Command /\ Sound(cmd) /\ cmd.at = "header"
    BY Given DEF ReadHeader, At
<1>2. a \in Artifact /\ cmd.capability.available
    BY <1>1 DEF Sound
<1>3. Header(a) # "unreadable" => Header(a) \in {HeaderOf[x] : x \in Content}
    <2>1. final[a] # NoFile => final[a][1] \in Content
        BY <1>2 DEF IInv, TypeOK
    <2>. QED
        BY <2>1 DEF Header
<1>4. ASSUME Header(a) # "unreadable",
             Move([cmd EXCEPT !.header = Header(a), !.at = "admitted",
                              !.admission = ToAdmission(checks, Imported(id))])
      PROVE  IInv'
    <2> DEFINE c == [cmd EXCEPT !.header = Header(a), !.at = "admitted",
                                !.admission = ToAdmission(checks, Imported(id))]
    <2>1. ToAdmission(checks, Imported(id)) \in
              {"compatible", "incompatible", "insufficient_evidence"}
        BY AdmissionType
    <2>2. /\ c \in CommandState /\ c.given = cmd.given /\ c.at = "admitted"
          /\ c.header = Header(a) /\ c.admission = ToAdmission(checks, Imported(id))
          /\ c.evaluated = cmd.evaluated
        BY <1>1, <1>3, <1>4, <2>1 DEF CommandState, Label
    <2>3. ASSUME Header(a) # None, Admits(ToAdmission(checks, Imported(id)))
          PROVE  TriState("llama.cpp", "architecture", Header(a)) = "passed"
        <3>1. PICK h \in Host : cmd.capability = DetectCapability(h)
            BY <1>1 DEF CommandState
        <3>2. RuntimeSubjects(cmd.capability) = {"llama.cpp"}
            BY <1>2, <3>1, SubjectIsLlama
        <3>3. (CHOOSE r \in RuntimeSubjects(cmd.capability) : TRUE) = "llama.cpp"
            BY <3>2
        <3>4. EvaluatedArchitecture(ResolvedModel(id), Header(a)) = Header(a)
            BY <2>3 DEF EvaluatedArchitecture
        <3>5. /\ "architecture" \in DOMAIN checks
              /\ checks.architecture = TriState("llama.cpp", "architecture", Header(a))
            BY <3>3, <3>4 DEF Checks
        <3>. QED
            BY <2>3, <3>5, TriStateType, AdmissionNeedsArchitecture
    <2>4. Sound(c)
        BY <1>1, <2>2, <2>3 DEF Sound, Assessed
    <2>. QED
        BY <1>4, <2>2, <2>4, Moving
<1>5. ASSUME NEW admission \in {None, "blocked"},
             Move([cmd EXCEPT !.at = "admitted", !.admission = admission])
      PROVE  IInv'
    <2> DEFINE c == [cmd EXCEPT !.at = "admitted", !.admission = admission]
    <2>1. /\ c \in CommandState /\ c.given = cmd.given /\ c.at = "admitted"
          /\ c.admission = admission /\ c.evaluated = cmd.evaluated
        BY <1>1 DEF CommandState, Label
    <2>2. Sound(c)
        BY <1>1, <2>1 DEF Sound, Assessed, Admits, None
    <2>. QED
        BY <1>5, <2>1, <2>2, Moving
<1>6. ASSUME Stop("evaluation failed") PROVE IInv'
    BY <1>6, Ending DEF Result
<1>. QED
    BY <1>4, <1>5, <1>6 DEF ReadHeader

LEMMA AdmittedKeeps == ASSUME IInv, Admitted PROVE IInv'
<1>1. cmd \in CommandState /\ Sound(cmd) /\ cmd.at = "admitted"
    BY Given DEF Admitted, At
<1>2. ASSUME Stop("denied") PROVE IInv'
    BY <1>2, Ending DEF Result
<1>3. ASSUME Goto("resolve") PROVE IInv'
    <2> DEFINE c == [cmd EXCEPT !.at = "resolve"]
    <2>1. /\ c \in CommandState /\ c.given = cmd.given /\ c.at = "resolve"
          /\ c.evaluated = cmd.evaluated /\ c.header = cmd.header
          /\ c.admission = cmd.admission
        BY <1>1 DEF CommandState, Label
    <2>2. Sound(c)
        BY <1>1, <2>1 DEF Sound, Assessed
    <2>. QED
        BY <1>3, <2>1, <2>2, Moving DEF Goto
<1>. QED
    BY <1>2, <1>3 DEF Admitted

LEMMA ResolveAgainKeeps == ASSUME IInv, ResolveAgain PROVE IInv'
<1>. DEFINE capability == IF DetectsAgain THEN DetectCapability(host) ELSE cmd.capability
<1>1. cmd \in CommandState /\ cmd.given \in Command /\ Sound(cmd)
    BY Given
<1>2. capability \in {DetectCapability(h) : h \in Host}
    BY <1>1, ExecutionAssumption DEF ExecutionAssumption, IInv, TypeOK, CommandState
<1>3. ASSUME Stop("not resolved") \/ Stop("no runtime") PROVE IInv'
    BY <1>3, Ending DEF Result
<1>4. ASSUME NEW a \in Resolve(cmd.given.model, cmd.given.wanted),
             Move([cmd EXCEPT !.artifact = a, !.capability = capability, !.at = "gate"])
      PROVE  IInv'
    <2> DEFINE c == [cmd EXCEPT !.artifact = a, !.capability = capability, !.at = "gate"]
    <2>1. a \in Artifact /\ clear
        BY <1>1, Resolving DEF IInv
    <2>2. /\ c \in CommandState /\ c.given = cmd.given /\ c.at = "gate" /\ c.artifact = a
          /\ c.header = cmd.header /\ c.admission = cmd.admission
        BY <1>1, <1>2, <2>1 DEF CommandState, Label
    <2>3. Sound(c)
        BY <1>1, <2>1, <2>2 DEF Sound, Assessed
    <2>. QED
        BY <1>4, <2>2, <2>3, Moving
<1>. QED
    BY <1>3, <1>4 DEF ResolveAgain

LEMMA GateKeeps == ASSUME IInv, Gate PROVE IInv'
<1>1. cmd.artifact \in Artifact /\ clear
    BY Given DEF Gate, At, Sound
<1>2. ASSUME Stop("denied") PROVE IInv'
    BY <1>2, Ending DEF Result
<1>3. ASSUME OpenVINO(cmd) \/ Admits(cmd.admission), Goto("preflight") PROVE IInv'
    BY <1>1, <1>3, GoingOn DEF Label
<1>. QED
    BY <1>2, <1>3 DEF Gate, OpenVINOChat, Chat, OpenVINO

LEMMA OpenFinalKeeps == ASSUME IInv, OpenFinal PROVE IInv'
<1>1. /\ cmd \in CommandState /\ Sound(cmd) /\ cmd.artifact \in Artifact /\ clear
      /\ OpenVINO(cmd) \/ Admits(cmd.admission)
    BY Given DEF OpenFinal, At, Sound
<1>2. ASSUME NEW r \in {"missing", "partial", "inconsistent", "no integrity identifiers"}, Stop(r)
      PROVE  IInv'
    BY <1>2, Ending DEF Result
<1>3. ASSUME final[cmd.artifact] # NoFile,
             Move([cmd EXCEPT !.at = "hash", !.halves = <<>>, !.changed = FALSE])
      PROVE  IInv'
    <2> DEFINE c == [cmd EXCEPT !.at = "hash", !.halves = <<>>, !.changed = FALSE]
    <2>1. <<>> \in Seq(Content \cup {None})
        OBVIOUS
    <2>2. c \in CommandState
        BY <1>1, <2>1 DEF CommandState, Label
    <2>3. /\ c.given = cmd.given /\ c.at = "hash" /\ c.artifact = cmd.artifact
          /\ c.admission = cmd.admission /\ c.header = cmd.header /\ c.halves = <<>>
        BY <1>1 DEF CommandState
    <2>4. Reads(c)
        BY <1>3, <2>3 DEF Reads
    <2>5. Sound(c)
        BY <1>1, <2>2, <2>3, <2>4 DEF Sound, Assessed, OpenVINO
    <2>. QED
        BY <1>3, <2>3, <2>5, Moving
<1>. QED
    BY <1>2, <1>3 DEF OpenFinal

LEMMA ReadHalfKeeps == ASSUME IInv, ReadHalf PROVE IInv'
<1>. DEFINE file == final[cmd.artifact]
            half == IF file = NoFile THEN None ELSE file[Len(cmd.halves) + 1]
            c == [cmd EXCEPT !.halves = Append(@, half)]
<1>1. /\ cmd \in CommandState /\ Sound(cmd) /\ cmd.artifact \in Artifact /\ clear
      /\ OpenVINO(cmd) \/ Admits(cmd.admission)
      /\ cmd.at = "hash" /\ Reads(cmd) /\ Len(cmd.halves) < 2
      /\ cmd.halves \in Seq(Content \cup {None}) /\ Len(cmd.halves) \in Nat
    BY Given DEF ReadHalf, At, Sound, CommandState
<1>2. half \in Content \cup {None}
    <2>1. file # NoFile => file \in [1 .. 2 -> Content]
        BY <1>1 DEF IInv, TypeOK
    <2>2. Len(cmd.halves) + 1 \in 1 .. 2
        BY <1>1
    <2>. QED
        BY <2>1, <2>2
<1>3. /\ c \in CommandState /\ c.given = cmd.given /\ c.at = "hash"
      /\ c.artifact = cmd.artifact /\ c.admission = cmd.admission /\ c.header = cmd.header
      /\ c.halves = Append(cmd.halves, half) /\ c.changed = cmd.changed
    BY <1>1, <1>2 DEF CommandState
<1>4. Reads(c)
    <2>1. Len(c.halves) = Len(cmd.halves) + 1
        BY <1>1, <1>2, <1>3
    <2>2. ASSUME ~c.changed, NEW i \in 1 .. Len(c.halves)
          PROVE  file # NoFile /\ c.halves[i] = file[i]
        <3>1. file # NoFile
            BY <1>1, <1>3, <2>2 DEF Reads
        <3>2. CASE i = Len(cmd.halves) + 1
            BY <1>1, <1>3, <3>1, <3>2
        <3>3. CASE i \in 1 .. Len(cmd.halves)
            BY <1>1, <1>3, <2>2, <3>3 DEF Reads
        <3>. QED
            BY <1>1, <2>1, <2>2, <3>1, <3>2, <3>3
    <2>3. ~c.changed => file # NoFile
        BY <1>1, <1>3 DEF Reads
    <2>. QED
        BY <1>1, <1>3, <2>1, <2>2, <2>3 DEF Reads
<1>5. Sound(c)
    BY <1>1, <1>3, <1>4 DEF Sound, Assessed, OpenVINO
<1>. QED
    BY <1>3, <1>5, Moving DEF ReadHalf

LEMMA LastStepsKeep == ASSUME IInv, Verify \/ Select \/ Launch \/ Finish PROVE IInv'
<1>1. cmd.artifact \in Artifact /\ clear /\ (OpenVINO(cmd) \/ Admits(cmd.admission))
    BY Given DEF Verify, Select, Launch, Finish, At, Sound
<1>2. ASSUME NEW r \in Result, Stop(r) PROVE IInv'
    BY <1>2, Ending
<1>3. ASSUME NEW label \in {"select", "launch", "running"}, Goto(label) PROVE IInv'
    BY <1>1, <1>3, GoingOn DEF Label
<1>4. CASE Verify
    BY <1>2, <1>3, <1>4 DEF Verify, Result
<1>5. CASE Select
    BY <1>2, <1>3, <1>5 DEF Select, Result
<1>6. CASE Launch
    BY <1>2, <1>3, <1>6 DEF Launch, Result
<1>7. CASE Finish
    BY <1>2, <1>7 DEF Finish, Result
<1>. QED
    BY <1>4, <1>5, <1>6, <1>7

-----------------------------------------------------------------------------
LEMMA Writing ==
    ASSUME IInv, NEW a \in Artifact, NEW file \in {NoFile} \cup [1 .. 2 -> Content],
           Write(a, file), registered \subseteq registered', registered' \subseteq Artifact,
           part' \subseteq Artifact, changes' \in 0 .. MaxChanges
    PROVE  IInv'
<1>1. /\ cmd \in CommandState /\ Sound(cmd)
      /\ final' = [final EXCEPT ![a] = file] /\ UNCHANGED <<record, host, clear>>
    BY Given DEF Write
<1>2. (cmd.changed \/ (a = cmd.artifact /\ At("hash"))) \in BOOLEAN
    BY <1>1 DEF CommandState
<1>3. cmd' \in CommandState
    BY <1>1, <1>2 DEF Write, CommandState
<1>4. /\ cmd'.given = cmd.given /\ cmd'.at = cmd.at /\ cmd'.artifact = cmd.artifact
      /\ cmd'.evaluated = cmd.evaluated /\ cmd'.capability = cmd.capability
      /\ cmd'.header = cmd.header /\ cmd'.admission = cmd.admission
      /\ cmd'.halves = cmd.halves
      /\ cmd'.changed = (cmd.changed \/ (a = cmd.artifact /\ At("hash")))
    BY <1>1 DEF Write, CommandState
<1>5. TypeOK'
    <2>1. final' \in [Artifact -> {NoFile} \cup [1 .. 2 -> Content]]
        BY <1>1 DEF IInv, TypeOK
    <2>. QED
        BY <1>1, <1>3, <2>1 DEF IInv, TypeOK
<1>6. cmd.at = "hash" => Reads(cmd)'
    <2>. SUFFICES ASSUME cmd.at = "hash" PROVE Reads(cmd)'
        OBVIOUS
    <2>1. Reads(cmd)
        BY <1>1 DEF Sound
    <2>2. ~cmd'.changed => ~cmd.changed /\ a # cmd.artifact
        BY <1>4 DEF At
    <2>3. a # cmd.artifact => final'[cmd.artifact] = final[cmd.artifact]
        BY <1>1 DEF IInv, TypeOK
    <2>. QED
        BY <1>4, <2>1, <2>2, <2>3 DEF Reads
<1>7. \A g : \A e \in Artifact \cup {None} : Chosen(e, g) => Chosen(e, g)'
    BY <1>1 DEF Chosen, Imported, IsImport
<1>8. Sound(cmd)'
    <2>1. cmd.evaluated \in Artifact \cup {None}
        BY <1>1 DEF CommandState
    <2>. QED
        BY <1>1, <1>3, <1>4, <1>6, <1>7, <2>1 DEF Sound, Assessed, OpenVINO
<1>9. (~Conflicting(cmd.given, record) => clear)'
    BY <1>1, <1>4 DEF IInv, Conflicting
<1>. QED
    BY <1>5, <1>8, <1>9 DEF IInv

LEMMA ChangeCounts == ASSUME IInv, Change PROVE changes' \in 0 .. MaxChanges
BY ExecutionAssumption DEF Change, IInv, TypeOK, ExecutionAssumption

LEMMA StoreKeeps ==
    ASSUME IInv, NEW a \in Artifact,
           \/ Install(a) \/ OpenPart(a) \/ Publish(a) \/ UnlinkPart(a) \/ Remove(a)
           \/ \E i \in 1 .. 2, c \in Content : Overwrite(a, i, c)
    PROVE  IInv'
<1>1. /\ registered \subseteq Artifact /\ part \subseteq Artifact /\ changes \in 0 .. MaxChanges
      /\ final \in [Artifact -> {NoFile} \cup [1 .. 2 -> Content]]
    BY DEF IInv, TypeOK
<1>2. Spec[a].declared \in {NoFile} \cup [1 .. 2 -> Content]
    BY ExecutionAssumption DEF ExecutionAssumption, ArtifactSpec
<1>3. CASE Install(a)
    BY <1>1, <1>2, <1>3, ChangeCounts, Writing DEF Install
<1>4. CASE Publish(a)
    BY <1>1, <1>2, <1>4, Writing DEF Publish
<1>5. CASE Remove(a)
    BY <1>1, <1>5, ChangeCounts, Writing DEF Remove
<1>6. ASSUME NEW i \in 1 .. 2, NEW c \in Content, Overwrite(a, i, c) PROVE IInv'
    <2>1. [final[a] EXCEPT ![i] = c] \in [1 .. 2 -> Content]
        BY <1>1, <1>6 DEF Overwrite
    <2>. QED
        BY <1>1, <1>6, <2>1, ChangeCounts, Writing DEF Overwrite
<1>7. CASE OpenPart(a) \/ UnlinkPart(a)
    <2>1. UNCHANGED <<registered, final, record, host, cmd, clear>> /\ part' \subseteq Artifact
        BY <1>1, <1>7 DEF OpenPart, UnlinkPart
    <2>2. changes' \in 0 .. MaxChanges
        BY <1>1, <1>7, ChangeCounts DEF OpenPart, UnlinkPart
    <2>3. TypeOK'
        BY <2>1, <2>2 DEF IInv, TypeOK
    <2>4. Sound(cmd)' /\ (~Conflicting(cmd.given, record) => clear)'
        BY <2>1 DEF IInv, Sound, Chosen, Assessed, Reads, OpenVINO, Imported, IsImport,
                    Conflicting
    <2>. QED
        BY <2>3, <2>4 DEF IInv
<1>. QED
    BY <1>3, <1>4, <1>5, <1>6, <1>7

LEMMA HostKeeps == ASSUME IInv, HostChanges PROVE IInv'
<1>1. /\ UNCHANGED <<registered, part, final, record, cmd, clear>>
      /\ host' \in Hosts /\ changes' \in 0 .. MaxChanges
    BY ChangeCounts DEF HostChanges, storeVars
<1>2. TypeOK'
    BY <1>1 DEF IInv, TypeOK
<1>3. Sound(cmd)' /\ (~Conflicting(cmd.given, record) => clear)'
    BY <1>1 DEF IInv, Sound, Chosen, Assessed, Reads, OpenVINO, Imported, IsImport, Conflicting
<1>. QED
    BY <1>2, <1>3 DEF IInv

(* A model that is described remains so.                                   *)
LEMMA Recording ==
    ASSUME IInv, NEW r \in Record, SetRecord(r)
    PROVE  IInv'
<1>1. /\ UNCHANGED <<registered, part, final, host, cmd>> /\ record' = r
      /\ clear' = (clear \/ ~Conflicting(cmd.given, r)) /\ changes' \in 0 .. MaxChanges
    BY ChangeCounts DEF SetRecord, storeVars
<1>2. r.described
    BY DEF Record
<1>3. clear \in BOOLEAN /\ clear' \in BOOLEAN /\ (clear => clear')
    BY <1>1 DEF IInv, TypeOK
<1>4. TypeOK'
    BY <1>1, <1>3 DEF IInv, TypeOK
<1>5. \A id : Imported(id)' => Imported(id)
    BY <1>1, <1>2 DEF Imported
<1>6. \A e, g : Chosen(e, g) => Chosen(e, g)'
    BY <1>1, <1>5 DEF Chosen, IsImport
<1>7. Reads(cmd) => Reads(cmd)'
    BY <1>1 DEF Reads
<1>8. Sound(cmd)'
    BY <1>1, <1>3, <1>6, <1>7 DEF IInv, Sound, Assessed, OpenVINO
<1>9. (~Conflicting(cmd.given, record) => clear)'
    BY <1>1 DEF Conflicting
<1>. QED
    BY <1>4, <1>8, <1>9 DEF IInv

LEMMA RecordsType ==
    ASSUME NEW r \in Record \cup {NoRecord}
    PROVE  /\ \A v \in Value : Describe(r, v) \in Record \cup {Rejected}
           /\ \A v \in Claim : RecordObservation(r, v) \in Record \cup {Rejected}
           /\ \A v \in Value : Refresh(r, v) \in Record \cup {Rejected}
           /\ \A d \in Decision : Reconcile(r, d) \in Record \cup {Rejected}
<1>1. r.described => r \in Record
    BY DEF NoRecord
<1>2. ASSUME NEW v \in Value PROVE Describe(r, v) \in Record \cup {Rejected}
    <2>1. [NoRecord EXCEPT !.described = TRUE, !.accepted = v] \in Record
        BY DEF NoRecord, Record, NoDeclaration, Value
    <2>. QED
        BY <1>1, <2>1 DEF Describe
<1>3. ASSUME NEW v \in Claim PROVE RecordObservation(r, v) \in Record \cup {Rejected}
    BY <1>1 DEF RecordObservation, Record
<1>4. ASSUME NEW v \in Value PROVE Refresh(r, v) \in Record \cup {Rejected}
    <2>1. [given |-> TRUE, claim |-> v] \in [given : BOOLEAN, claim : Value]
        OBVIOUS
    <2>. QED
        BY <1>1, <2>1 DEF Refresh, Record
<1>5. ASSUME NEW d \in Decision PROVE Reconcile(r, d) \in Record \cup {Rejected}
    <2>1. NoDeclaration \in [given : BOOLEAN, claim : Value] /\ Unknown \in Value
        BY DEF NoDeclaration, Value
    <2>2. r \in Record => r.accepted \in Value /\ r.pending.claim \in Value
        BY DEF Record
    <2>. DEFINE accepted == CASE d = "keep_accepted"  -> r.accepted
                              [] d = "accept_pending" -> r.pending.claim
                              [] d = "mark_unknown"   -> Unknown
    <2>3. r \in Record => accepted \in Value
        BY <2>1, <2>2 DEF Decision
    <2>. HIDE DEF accepted
    <2>4. r \in Record => [r EXCEPT !.pending = NoDeclaration, !.accepted = accepted] \in Record
        BY <2>1, <2>3 DEF Record
    <2>. QED
        BY <1>1, <2>4 DEF Reconcile, accepted
<1>. QED
    BY <1>2, <1>3, <1>4, <1>5

LEMMA RecordKeeps ==
    ASSUME IInv, DescribeRecord \/ ObserveRecord \/ RefreshRecord \/ ReconcileRecord
    PROVE  IInv'
<1>1. ASSUME NEW r \in Record \cup {Rejected}, SetRecord(r) PROVE IInv'
    <2>1. r \in Record
        BY <1>1 DEF SetRecord
    <2>. QED
        BY <1>1, <2>1, Recording
<1>2. record \in Record \cup {NoRecord}
    BY DEF IInv, TypeOK
<1>. QED
    BY <1>1, <1>2, RecordsType DEF DescribeRecord, ObserveRecord, RefreshRecord, ReconcileRecord

-----------------------------------------------------------------------------
LEMMA Initially == Init => IInv
<1>. SUFFICES ASSUME Init PROVE IInv
    OBVIOUS
<1>1. PICK s \in Scene : cmd = Idle(s[1]) /\ registered = s[2]
    BY DEF Init
<1>2. s[1] \in Command /\ registered \subseteq Artifact
    BY <1>1, ExecutionAssumption DEF ExecutionAssumption
<1>3. /\ cmd.at = "detect" /\ cmd.evaluated = None /\ cmd.header = None
    BY <1>1 DEF Idle
<1>4. Unavailable \in {DetectCapability(h) : h \in Host}
    <2>. DEFINE h == [executable |-> FALSE, probes |-> FALSE, options |-> FALSE,
                      vulkan |-> FALSE, gpuBackends |-> {}]
    <2>1. h \in Host
        BY DEF Host
    <2>2. DetectCapability(h) = Unavailable
        BY DEF DetectCapability
    <2>. QED
        BY <2>1, <2>2
<1>5. <<>> \in Seq(Content \cup {None})
    OBVIOUS
<1>6. cmd \in CommandState
    BY <1>1, <1>2, <1>4, <1>5 DEF Idle, CommandState, Label, Result
<1>7. \A a \in Artifact : Spec[a].declared \in {NoFile} \cup [1 .. 2 -> Content]
    BY ExecutionAssumption DEF ExecutionAssumption, ArtifactSpec
<1>8. final \in [Artifact -> {NoFile} \cup [1 .. 2 -> Content]]
    BY <1>7 DEF Init
<1>9. record \in Record \cup {NoRecord}
    <2>1. \A v \in Value : Describe(NoRecord, v) \in Record
        BY DEF Describe, NoRecord, Record, NoDeclaration, Value
    <2>. QED
        BY <2>1 DEF Init
<1>10. TypeOK
    BY <1>2, <1>6, <1>8, <1>9, ExecutionAssumption DEF Init, TypeOK, ExecutionAssumption
<1>11. Sound(cmd)
    BY <1>3, <1>6 DEF Sound, Assessed
<1>. QED
    BY <1>10, <1>11 DEF IInv, Init

LEMMA Inductive == IInv /\ [Next]_vars => IInv'
<1>. SUFFICES ASSUME IInv, [Next]_vars PROVE IInv'
    OBVIOUS
<1>1. CASE CommandStep
    BY <1>1, DetectKeeps, EvaluateResolveKeeps, ReadHeaderKeeps, AdmittedKeeps,
       ResolveAgainKeeps, GateKeeps, OpenFinalKeeps, ReadHalfKeeps, LastStepsKeep
    DEF CommandStep
<1>2. CASE Environment
    BY <1>2, StoreKeeps, HostKeeps, RecordKeeps DEF Environment
<1>3. CASE UNCHANGED vars
    BY <1>3 DEF vars, storeVars, IInv, TypeOK, Sound, Chosen, Assessed, Reads, OpenVINO,
                Imported, IsImport, Conflicting
<1>. QED
    BY <1>1, <1>2, <1>3 DEF Next

LEMMA Invariance == Executions => []IInv
BY Initially, Inductive, PTL DEF Executions

(* The command, the store and the record are well typed.                   *)
THEOREM TypeCorrect == Executions => []TypeOK
<1>1. IInv => TypeOK
    BY DEF IInv
<1>. QED
    BY <1>1, Invariance, PTL

(* A model whose claims are in conflict all the while is not launched: both*)
(* resolutions refuse it, and what they find otherwise was free of it.     *)
THEOREM ConflictsBlock == Executions => []ConflictBlocks
<1>1. IInv => ConflictBlocks
    BY DEF IInv, Sound, ConflictBlocks, At
<1>. QED
    BY <1>1, Invariance, PTL

(* The header that the admission of a launched artifact rests on.          *)
HeaderKnown ==
    At("running") /\ ~OpenVINOChat /\ cmd.header # None
        => TriState("llama.cpp", "architecture", cmd.header) = "passed"

(* On every path through the gate, the header that was evaluated names an  *)
(* architecture that llama.cpp is known to support, or none: a launch of   *)
(* another architecture is one of a file other than the evaluated one.     *)
THEOREM ArchitectureKnown == Executions => []HeaderKnown
<1>1. IInv => HeaderKnown
    BY DEF IInv, Sound, Assessed, HeaderKnown, At, OpenVINO, OpenVINOChat, Chat
<1>. QED
    BY <1>1, Invariance, PTL

-----------------------------------------------------------------------------
(* Nothing around the command moves it.                                    *)
LEMMA EnvironmentWaits == ASSUME IInv, Environment PROVE cmd'.at = cmd.at
<1>1. cmd \in CommandState
    BY Given
<1>2. ASSUME NEW a \in Artifact, NEW file, Write(a, file) PROVE cmd'.at = cmd.at
    BY <1>1, <1>2 DEF Write, CommandState
<1>3. ASSUME NEW r, SetRecord(r) PROVE cmd'.at = cmd.at
    BY <1>3 DEF SetRecord
<1>4. ASSUME NEW a \in Artifact,
             Install(a) \/ OpenPart(a) \/ Publish(a) \/ UnlinkPart(a) \/ Remove(a)
      PROVE  cmd'.at = cmd.at
    BY <1>2, <1>4 DEF Install, OpenPart, Publish, UnlinkPart, Remove
<1>5. ASSUME NEW a \in Artifact, NEW i \in 1 .. 2, NEW c \in Content, Overwrite(a, i, c)
      PROVE  cmd'.at = cmd.at
    BY <1>2, <1>5 DEF Overwrite
<1>6. ASSUME HostChanges PROVE cmd'.at = cmd.at
    BY <1>6 DEF HostChanges
<1>7. ASSUME DescribeRecord \/ ObserveRecord \/ RefreshRecord \/ ReconcileRecord
      PROVE  cmd'.at = cmd.at
    BY <1>3, <1>7 DEF DescribeRecord, ObserveRecord, RefreshRecord, ReconcileRecord
<1>. QED
    BY <1>4, <1>5, <1>6, <1>7 DEF Environment

LEMMA GateFollowsResolution ==
    ASSUME IInv, Next, cmd.at = "resolve", cmd'.at = "gate"
    PROVE  \E a \in Resolve(cmd.given.model, cmd.given.wanted) : cmd'.artifact = a
<1>1. cmd \in CommandState /\ CommandStep
    BY Given, EnvironmentWaits DEF Next
<1>2. ResolveAgain
    BY <1>1 DEF CommandStep, Detect, EvaluateResolve, ReadHeader, Admitted, Gate, OpenFinal,
                ReadHalf, Verify, Select, Launch, Finish, At
<1>3. ASSUME NEW r, Stop(r) PROVE FALSE
    BY <1>1, <1>3 DEF Stop, Move, CommandState
<1>4. ASSUME NEW a, NEW capability,
             Move([cmd EXCEPT !.artifact = a, !.capability = capability, !.at = "gate"])
      PROVE  cmd'.artifact = a
    BY <1>1, <1>4 DEF Move, CommandState
<1>. QED
    BY <1>2, <1>3, <1>4 DEF ResolveAgain

(* The second resolution finds what was evaluated, while it can be used.   *)
THEOREM AdmissionFollows == Executions => AdmissionIsForResolved
<1>1. ASSUME IInv, Next, cmd.at = "resolve", cmd'.at = "gate",
             cmd.evaluated \notin {None, cmd'.artifact}
      PROVE  Inspected(cmd.evaluated, TRUE) \notin Usable
    <2>1. PICK a \in Resolve(cmd.given.model, cmd.given.wanted) : cmd'.artifact = a
        BY <1>1, GateFollowsResolution
    <2>2. cmd.given \in Command /\ cmd.evaluated \in Artifact
        BY <1>1, Given DEF CommandState
    <2>3. Chosen(cmd.evaluated, cmd.given)
        BY <1>1, Given DEF Sound
    <2>4. ASSUME Inspected(cmd.evaluated, TRUE) \in Usable PROVE FALSE
        <3>1. a = cmd.evaluated
            BY <1>1, <2>1, <2>2, <2>3, <2>4, ResolvesTheEvaluated
        <3>. QED
            BY <1>1, <2>1, <3>1
    <2>. QED
        BY <2>4
<1>2. IInv /\ [Next]_vars =>
        [At("resolve") /\ cmd'.at = "gate" /\ cmd.evaluated \notin {None, cmd'.artifact}
             => Inspected(cmd.evaluated, TRUE) \notin Usable]_vars
    BY <1>1 DEF At
<1>. QED
    BY <1>2, Invariance, PTL DEF Executions, AdmissionIsForResolved

(* The preflight passes the file that was declared, and no mixture of what *)
(* it held while it was read.                                              *)
THEOREM PreflightVerifies == Executions => VerifiedIsWhole
<1>1. ASSUME IInv, Next, cmd.at = "hash", cmd'.at = "select"
      PROVE  final[cmd.artifact] = Spec[cmd.artifact].declared
    <2>1. cmd \in CommandState /\ Sound(cmd) /\ CommandStep
        BY <1>1, Given, EnvironmentWaits DEF Next
    <2>2. ~ReadHalf
        BY <1>1, <2>1 DEF ReadHalf, Move, CommandState
    <2>3. Verify
        BY <1>1, <2>1, <2>2 DEF CommandStep, Detect, EvaluateResolve, ReadHeader, Admitted,
            ResolveAgain, Gate, OpenFinal, Select, Launch, Finish, At
    <2>4. ASSUME Stop("checksum mismatch") PROVE FALSE
        BY <1>1, <2>1, <2>4 DEF Stop, Move, CommandState
    <2>5. /\ cmd.halves = Spec[cmd.artifact].declared /\ ~cmd.changed
          /\ Len(cmd.halves) = 2 /\ cmd.halves \in Seq(Content \cup {None})
        BY <2>1, <2>3, <2>4 DEF Verify, Verified, CommandState
    <2>6. cmd.artifact \in Artifact /\ Reads(cmd)
        BY <1>1, <2>1 DEF Sound
    <2>7. final[cmd.artifact] \in [1 .. 2 -> Content]
          /\ \A i \in 1 .. 2 : cmd.halves[i] = final[cmd.artifact][i]
        BY <1>1, <2>5, <2>6 DEF Reads, IInv, TypeOK
    <2>8. cmd.halves \in [1 .. 2 -> Content \cup {None}]
        BY <2>5, LenProperties
    <2>9. cmd.halves = final[cmd.artifact]
        BY <2>7, <2>8
    <2>. QED
        BY <2>5, <2>9
<1>2. IInv /\ [Next]_vars =>
        [At("hash") /\ cmd'.at = "select"
             => final[cmd.artifact] = Spec[cmd.artifact].declared]_vars
    BY <1>1 DEF At
<1>. QED
    BY <1>2, Invariance, PTL DEF Executions, VerifiedIsWhole
=============================================================================
