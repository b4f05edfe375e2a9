--------------------------- MODULE OpenVINOService ---------------------------
(***************************************************************************)
(* OpenVINOInferenceService: one cached pipeline per service object, used  *)
(* under its pipeline lock, and a closed flag written under another lock.  *)
(* Every operator is one critical section, or one step under the pipeline  *)
(* lock, of a call made by thread t on service v.                          *)
(***************************************************************************)
EXTENDS FiniteSets

CONSTANTS Service,      \* service objects
          Thread,       \* threads that call them
          NoThread,     \* holder of a free lock
          Device,       \* devices a pipeline is built for
          NoPipeline,   \* nothing cached
          Artifact      \* what may be found on disk when a generation begins

(* What inspection finds beside the manifest when a generation begins: any *)
(* of it may be missing or damaged, as the directory is not locked.        *)
TokenizerFile == {"openvino_tokenizer.xml", "openvino_tokenizer.bin",
                  "openvino_detokenizer.xml", "openvino_detokenizer.bin"}

ArtifactOnDisk ==
    [usable : BOOLEAN,            \* inspected, not FAILED or NOT_DOWNLOADED, OpenVINO IR
     xml : BOOLEAN,               \* openvino_model.xml is a regular file
     files : BOOLEAN,             \* every declared file is there, inside the directory
     weights : BOOLEAN,           \* some .bin file
     tokenizer : SUBSET TokenizerFile,
     checksums : BOOLEAN]         \* no recorded tokenizer digest contradicts its file

ASSUME ServiceAssumption ==
    /\ NoThread \notin Thread
    /\ NoPipeline \notin Device
    /\ Artifact \subseteq ArtifactOnDisk

VARIABLES serviceClosed,  \* service -> _service_closed
          pipelineLock,   \* service -> holder of _pipeline_lock
          pipeline        \* service -> device of the cached pipeline

serviceVars == <<serviceClosed, pipelineLock, pipeline>>

ServiceTypeOK ==
    /\ serviceClosed \in [Service -> BOOLEAN]
    /\ pipelineLock \in [Service -> Thread \cup {NoThread}]
    /\ pipeline \in [Service -> Device \cup {NoPipeline}]

ServiceInit ==
    /\ serviceClosed = [v \in Service |-> FALSE]
    /\ pipelineLock = [v \in Service |-> NoThread]
    /\ pipeline = [v \in Service |-> NoPipeline]

(* _validate_integrated_tokenizer: no tokenizer at all is accepted, a part *)
(* of one never.                                                           *)
TokenizerValid(a) ==
    \/ a.tokenizer = {}
    \/ a.tokenizer = TokenizerFile /\ a.checksums

Valid(a) == a.usable /\ a.xml /\ a.files /\ a.weights /\ TokenizerValid(a)

TakePipelineLock(v, t) ==
    /\ pipelineLock[v] = NoThread
    /\ pipelineLock' = [pipelineLock EXCEPT ![v] = t]

ReleasePipelineLock(v) == pipelineLock' = [pipelineLock EXCEPT ![v] = NoThread]

(* generate, first thing under the lock: the flag is read without the lock *)
(* it is written under.                                                    *)
EnterGenerate(v, t) ==
    /\ ~serviceClosed[v]
    /\ TakePipelineLock(v, t)
    /\ UNCHANGED <<serviceClosed, pipeline>>

(* The lock is taken, the flag is set, the lock is released again.         *)
RefusedAsClosed(v) ==
    /\ pipelineLock[v] = NoThread
    /\ serviceClosed[v]
    /\ UNCHANGED serviceVars

(* The artifact is not valid: the cache stays as it is.                    *)
RefuseArtifact(v, t, a) ==
    /\ pipelineLock[v] = t
    /\ ~Valid(a)
    /\ ReleasePipelineLock(v)
    /\ UNCHANGED <<serviceClosed, pipeline>>

(* A pipeline of the same key is reused, any other is built anew.          *)
ObtainPipeline(v, t, a, device) ==
    /\ pipelineLock[v] = t
    /\ Valid(a)
    /\ pipeline' = [pipeline EXCEPT ![v] = device]
    /\ UNCHANGED <<serviceClosed, pipelineLock>>

(* The factory raises: what was cached is dropped with it.                 *)
FailPipeline(v, t, a, device) ==
    /\ pipelineLock[v] = t
    /\ Valid(a)
    /\ pipeline[v] # device
    /\ pipeline' = [pipeline EXCEPT ![v] = NoPipeline]
    /\ ReleasePipelineLock(v)
    /\ UNCHANGED serviceClosed

(* The generation returned a text or raised.                               *)
LeaveGenerate(v, t) ==
    /\ pipelineLock[v] = t
    /\ ReleasePipelineLock(v)
    /\ UNCHANGED <<serviceClosed, pipeline>>

(* close, first critical section: only the first caller goes on.           *)
ClaimClose(v) ==
    /\ ~serviceClosed[v]
    /\ serviceClosed' = [serviceClosed EXCEPT ![v] = TRUE]
    /\ UNCHANGED <<pipelineLock, pipeline>>

(* mutant: the reference is kept.                                          *)
KeepPipeline(v) == pipelineLock[v] = NoThread /\ UNCHANGED serviceVars

(* close, second critical section: no generation is under way.             *)
DropPipeline(v) ==
    /\ pipelineLock[v] = NoThread
    /\ pipeline' = [pipeline EXCEPT ![v] = NoPipeline]
    /\ UNCHANGED <<serviceClosed, pipelineLock>>
=============================================================================
