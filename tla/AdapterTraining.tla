--------------------------- MODULE AdapterTraining ---------------------------
(***************************************************************************)
(* train_adapter_model: the request is validated, the runner writes into a *)
(* staging directory beside the destination, and one rename publishes it.  *)
(***************************************************************************)
EXTENDS Integers

CONSTANTS Trainer,   \* processes that train
          Request    \* requests that are made

MIN_TRAINING_STEPS == 1
MAX_TRAINING_STEPS == 1000
MIN_LORA_RANK == 1
MAX_LORA_RANK == 64
MAX_DATASET_ROWS == 10000

(* What a request names, as the validators see it.                         *)
TrainingRequest ==
    [steps : Int, rank : Int, alpha : Int,
     base : SUBSET {"symlink", "directory", "gguf", "config.json", "weights"},
     dataset : SUBSET {"symlink", "file", "jsonl", "bad row"},
     rows : Nat,
     destination : SUBSET {"symlink", "parent"},
     verdict : {"none", "compatible", "compatible_with_conditions", "unknown", "incompatible"}]

ASSUME TrainingAssumption == Request \subseteq TrainingRequest
ASSUME TrainerAssumption == Trainer \cap {"absent", "empty", "user"} = {}

VARIABLES output,    \* the destination: absent, empty, the user's, or a run's adapter
          training,  \* trainer -> step of its run
          staging    \* trainer -> its staging directory

trainingVars == <<output, training, staging>>

TrainingTypeOK ==
    /\ output \in {"absent", "empty", "user"} \cup Trainer
    /\ training \in [Trainer -> {"idle", "run", "publish"}]
    /\ staging \in [Trainer -> {"none", "partial", "whole"}]

TrainingInit ==
    /\ output \in {"absent", "empty", "user"}
    /\ training = [p \in Trainer |-> "idle"]
    /\ staging = [p \in Trainer |-> "none"]

ValidRequest(r) ==
    /\ r.steps \in MIN_TRAINING_STEPS .. MAX_TRAINING_STEPS
    /\ r.rank \in MIN_LORA_RANK .. MAX_LORA_RANK
    /\ r.alpha > 0

ValidBaseModel(r) ==
    /\ {"directory", "config.json", "weights"} \subseteq r.base
    /\ r.base \cap {"symlink", "gguf"} = {}

ValidDataset(r) ==
    /\ r.dataset = {"file", "jsonl"}
    /\ r.rows \in 1 .. MAX_DATASET_ROWS

ValidOutput(r) == r.destination = {"parent"} /\ output \in {"absent", "empty"}

Admitted(r) == r.verdict \in {"none", "compatible", "compatible_with_conditions"}

(* The first validator that objects names the error.                       *)
RequestError(r) ==
    CASE ~ValidRequest(r)   -> "invalid_request"
      [] ~ValidBaseModel(r) -> "unsupported_model_format"
      [] ~ValidDataset(r)   -> "invalid_dataset"
      [] ~ValidOutput(r)    -> "invalid_destination"
      [] ~Admitted(r)       -> "admission_denied"
      [] OTHER              -> "none"

(* A request with an error touches nothing.                                *)
StartTraining(p, r) ==
    /\ training[p] = "idle"
    /\ staging[p] = "none"
    /\ RequestError(r) = "none"
    /\ training' = [training EXCEPT ![p] = "run"]
    /\ staging' = [staging EXCEPT ![p] = "partial"]
    /\ UNCHANGED output

(* The runner, then the metadata beside the adapter.                       *)
RunTraining(p) ==
    /\ training[p] = "run"
    /\ training' = [training EXCEPT ![p] = "publish"]
    /\ staging' = [staging EXCEPT ![p] = "whole"]
    /\ UNCHANGED output

(* The finally block: rmtree of the staging directory ignores its errors.  *)
RemoveStaging(p) ==
    /\ training' = [training EXCEPT ![p] = "idle"]
    /\ \E left \in {"none", "partial"} : staging' = [staging EXCEPT ![p] = left]

(* No training stack, a defect of the runner, no room for the metadata.    *)
TrainingFails(p) ==
    /\ training[p] = "run"
    /\ RemoveStaging(p)
    /\ UNCHANGED output

(* mutant: the destination is removed first.                               *)
Replaceable == TRUE

(* rename(2) of a directory: onto nothing, or onto an empty directory.     *)
Publishable == output \in {"absent", "empty"}

Publish(p) ==
    /\ training[p] = "publish"
    /\ IF Publishable
       THEN /\ output' = p
            /\ training' = [training EXCEPT ![p] = "idle"]
            /\ staging' = [staging EXCEPT ![p] = "none"]
       ELSE RemoveStaging(p) /\ UNCHANGED output

(* The user makes the destination, or fills it, while a run is under way.  *)
UserWrites ==
    /\ output \in {"absent", "empty"}
    /\ output' \in {"empty", "user"} \ {output}
    /\ UNCHANGED <<training, staging>>

TrainingStep(p) == RunTraining(p) \/ TrainingFails(p) \/ Publish(p)
=============================================================================
