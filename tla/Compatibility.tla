---------------------------- MODULE Compatibility ----------------------------
(***************************************************************************)
(* What is known of the runtimes, the strict evaluation of a model with an *)
(* artifact, the admission that is made of it, and the choice of a target: *)
(* functions of their arguments, all of them.                              *)
(***************************************************************************)
EXTENDS Naturals, FiniteSets, Sequences

None == "none"

-----------------------------------------------------------------------------

(* The initial knowledge: what a runtime supports, and in which scope.     *)
Assertions(runtime, kind, objects, scopes, state) ==
    {[runtime |-> runtime, kind |-> kind, object |-> o, scope |-> s, state |-> state] :
        o \in objects, s \in scopes}

Capabilities == {"text_generation", "code_generation", "vision", "embeddings", "tool_use"}

LlamaBackends ==
    UNION {
        Assertions("llama.cpp", "format", {"gguf"}, {"any"}, "supported"),
        Assertions("llama.cpp", "backend", {"cpu", "cuda", "hip"}, {"any"}, "supported"),
        Assertions("llama.cpp", "backend", {"rocm"}, {"any"}, "unknown"),
        Assertions("llama.cpp", "backend", {"hip", "sycl", "vulkan"}, {"linux", "windows"}, "supported"),
        Assertions("llama.cpp", "backend", {"vulkan"}, {"macos"}, "supported"),
        Assertions("llama.cpp", "backend", {"sycl"}, {"b5377"}, "supported")}

OllamaBackends ==
    UNION {
        Assertions("ollama", "format", {"gguf"}, {"any"}, "supported"),
        Assertions("ollama", "backend", {"cpu", "rocm"}, {"any"}, "supported"),
        Assertions("ollama", "backend", {"cuda", "sycl"}, {"any"}, "unknown"),
        Assertions("ollama", "backend", {"rocm", "vulkan"}, {"linux", "windows"}, "supported")}

Architectures ==
    Assertions("llama.cpp", "architecture", {"llama", "qwen2", "qwen3"}, {"any"}, "supported")
    \cup Assertions("ollama", "architecture", {"llama"}, {"any"}, "unknown")

RuntimeCapabilities ==
    UNION {Assertions(r, "capability", Capabilities, {"any"}, "supported") : r \in {"llama.cpp", "ollama"}}

Platforms == Assertions("ollama", "platform", {"linux", "macos", "windows"}, {"any"}, "supported")

InitialKnowledge ==
    LlamaBackends \cup OllamaBackends \cup Architectures \cup RuntimeCapabilities \cup Platforms

(* A capability names one known runtime, or the evaluation raises.         *)
RuntimeSubjects(capability) ==
    {a.runtime : a \in InitialKnowledge} \cap ({capability.name} \cup capability.compatibility_names)

(* The projection: assertions of the exact scope and a representable kind. *)
Projected(runtime) ==
    {a \in InitialKnowledge :
        /\ a.runtime = runtime
        /\ a.scope = "any"
        /\ a.kind \in {"format", "architecture", "backend"}}

States(runtime, kind, object) ==
    {a.state : a \in {b \in Projected(runtime) : b.kind = kind /\ b.object = object}}

(* A relation both supported and unsupported is a conflict, in no list.    *)
TriState(runtime, kind, object) ==
    LET states == IF object = None THEN {} ELSE States(runtime, kind, object)
    IN  CASE {"supported", "unsupported"} \subseteq states -> "unknown"
          [] "supported" \in states                        -> "passed"
          [] "unsupported" \in states                      -> "failed"
          [] OTHER                                         -> "unknown"

-----------------------------------------------------------------------------

Explicit(value) == IF value = "Unknown" THEN None ELSE value

CanonicalFormat(format) == IF format = "GGUF" THEN "gguf" ELSE Explicit(format)

CanonicalBackend(backend) ==
    CASE backend = "CPU"    -> "cpu"
      [] backend = "Vulkan" -> "vulkan"
      [] backend = "CUDA"   -> "cuda"
      [] backend = "ROCm"   -> "rocm"
      [] backend = "HIP"    -> "hip"
      [] backend = "SYCL"   -> "sycl"
      [] OTHER              -> None

(* mutant: what the catalogue says of the architecture comes first.        *)
DeclaredFirst(model, header) ==
    IF Explicit(model.architecture) # None THEN model.architecture ELSE header

(* What the file's header says replaces what the model's description says. *)
EvaluatedArchitecture(model, header) ==
    IF header # None THEN header ELSE Explicit(model.architecture)

(* A trial load of the artifact; without a backend there is none.          *)
Observation(backend, rejected, loaded) ==
    CASE backend = None -> "unknown"
      [] rejected       -> "failed"
      [] loaded         -> "passed"
      [] OTHER          -> "unknown"

CheckIdentity(model, artifact) ==
    IF model.id = None \/ Explicit(artifact.model_id) = None THEN "unknown"
    ELSE IF artifact.model_id = model.id THEN "passed" ELSE "failed"

Checks(model, artifact, header, capability, backend, observation) ==
    LET runtime == CHOOSE r \in RuntimeSubjects(capability) : TRUE
    IN  [identity     |-> CheckIdentity(model, artifact),
         format       |-> TriState(runtime, "format", CanonicalFormat(artifact.format)),
         architecture |-> TriState(runtime, "architecture", EvaluatedArchitecture(model, header)),
         runtime      |-> observation,
         backend      |-> TriState(runtime, "backend", CanonicalBackend(backend))]

With(checks, status) == {name \in DOMAIN checks : checks[name] = status}

Verdict(checks) ==
    IF With(checks, "failed") # {} THEN "incompatible"
    ELSE IF With(checks, "unknown") \subseteq {"runtime"} THEN "compatible"
    ELSE "insufficient_evidence"

NonBlockingUnknowns(imported) ==
    {"runtime", "backend"} \cup (IF imported THEN {"identity"} ELSE {})

(* Evidence is insufficient only of what cannot be known before the run.   *)
ToAdmission(checks, imported) ==
    LET unknown == With(checks, "unknown")
    IN  IF /\ Verdict(checks) = "insufficient_evidence"
           /\ With(checks, "failed") = {}
           /\ unknown # {}
           /\ unknown \subseteq NonBlockingUnknowns(imported)
        THEN "compatible" ELSE Verdict(checks)

(* Deny by default: no admission, a blocked one, another verdict.          *)
Admits(admission) == admission \in {"compatible", "compatible_with_conditions"}

-----------------------------------------------------------------------------

(* What the probes of the llama executable answer.                         *)
Host == [executable : BOOLEAN, probes : BOOLEAN, options : BOOLEAN, vulkan : BOOLEAN,
         gpuBackends : SUBSET {"Vulkan", "OpenCL", "SYCL", "CUDA", "ROCm"}]

Unavailable ==
    [name |-> "llama.cpp CLI", available |-> FALSE, compatibility_names |-> {},
     supported_formats |-> {}, supported_backends |-> {}]

DetectCapability(host) ==
    IF host.executable /\ host.probes /\ host.options
    THEN [name |-> "llama.cpp CLI", available |-> TRUE,
          compatibility_names |-> {"llama.cpp / llama.app", "llama.cpp"},
          supported_formats |-> {"GGUF"},
          supported_backends |-> {"CPU"} \cup (IF host.vulkan THEN {"Vulkan"} ELSE {})]
    ELSE Unavailable

BackendOrder == <<"Vulkan", "OpenCL", "SYCL", "CUDA", "ROCm", "CPU">>

(* The first backend that the host, the model and the runtime all have.    *)
ChooseBackend(host, capability, model) ==
    LET usable == {i \in DOMAIN BackendOrder :
                     /\ BackendOrder[i] \in host.gpuBackends \cup {"CPU"}
                     /\ BackendOrder[i] \in model.supported_backends
                     /\ BackendOrder[i] \in capability.supported_backends}
    IN  IF usable = {} THEN None
        ELSE BackendOrder[CHOOSE i \in usable : \A j \in usable : i <= j]

ChooseRuntime(capability, model) ==
    IF capability.available /\ "llama.cpp / llama.app" \in model.supported_runtimes
    THEN "llama.cpp / llama.app" ELSE None

(* The backend to run on, None when the selection refuses.                 *)
SelectTarget(host, capability, model, artifact) ==
    IF /\ capability.available
       /\ ChooseRuntime(capability, model) \in capability.compatibility_names
       /\ artifact.format \in capability.supported_formats
    THEN ChooseBackend(host, capability, model) ELSE None

(* create_runner: SYCL needs a runtime of its own.                         *)
RunnerExists(capability, backend) ==
    /\ backend \in {"CPU", "Vulkan"}
    /\ backend \in capability.supported_backends
=============================================================================
