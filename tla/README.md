# CastleArq: a TLA+ verification project

CastleArq finds a language model for the user's machine, acquires it into a
managed store, and runs it through a local runtime, from a command line or from
a small HTTP API. Its hard parts are seldom computations: they are files that
several CLI processes write without locks, verdicts that are used after what
they were made of may have changed, runtimes that outlive or predecease the
object that represents them, and a threaded server with an orderly shutdown.
This project models those parts, checks them with TLC on small instances and
proves most of the safety results with TLAPS for every instance.

## 1. Inventory

| Component (under `src/castlearq/`) | State it keeps | Operations | Hard behaviour | What makes it correct |
|---|---|---|---|---|
| **Artifact download** `downloads/`, `acquisition_service.py` | `<final>` and `<final>.part` in `<model_id>/<artifact_id>` | plan, download (probe, open or resume, request, read, verify, link, unlink), explicit deletion | several processes on one `.part`; faults and crashes at each system call; resuming with the bytes of another revision | only whole files are published, nothing is replaced, an interruption is recoverable |
| **Model store** `model_store.py` | `manifest.json`, `manifest.json.part` | save_manifest, inspect_manifest, list_artifacts, find_by_content_id | exclusive temporary left by a crash | a manifest describes the file beside it |
| **Local import** `importing.py` | the same directory, addressed by content | reuse, clear, copy, verify, publish, register, take back | clears what another import is writing; recognises its own file by inode and then unlinks a name | no incomplete file is published; a failure leaves other imports alone |
| **Identity admission** `identity_admission.py` | `identity-admission.json`, `.tmp` | register, lookup | read-check-write-rename without a lock, one temporary name | an identity belongs to one locator, what was acknowledged stays |
| **Acquisition bindings** `acquisition_resolution.py`, `admitted_commands.py` | `acquisition-bindings.json` | bind, update, delete, resolve | two files written one after the other, each through one temporary name; operators bind what downloads bind | a download can be repeated while both files parse |
| **Admitted model records** `admitted_models.py`, `admitted_resolution.py`, `admitted_commands.py` | one record per model | describe, observe, refresh, reconcile | a record changes while its model is executed | a conflict blocks until it is reconciled |
| **Discovery, selection, pipeline** `discovery*.py`, `sources/`, `acquisition_mapping.py` | none | fetch metadata and tree, select a file, map it to an artifact | the head of a repository moves; an artifact's directory is shared by revisions | what is answered for is what is installed |
| **llama.cpp chat session** `chat.py` | session state, runtime process | start, send, cancel, close | the process exits at any moment; state set without being read | CLOSED is final, no orphan runtime |
| **OpenVINO session and service** `openvino_inference.py`, `chat.py` | pipeline cache, two closed flags, active sends | send, generate, close | flag read and written under different locks; close waits for sends while holding their condition | an admitted turn is served, what is closed is released, every call returns |
| **HTTP API** `api.py` | `run_lock`, session registry, turn locks, shared OpenVINO service, shutdown gate | run, create, turn, infer, delete, shutdown | checks made long before they are used; shutdown racing requests; waits for clients and runtimes that nothing bounds; double-checked creation | capacity, exclusion, every runtime owned, one shared service, locks freed |
| **Compatibility, admission** `initial_knowledge.py`, `evaluate_compatibility.py`, `admission.py` | none | project the knowledge, evaluate, admit, gate | partial evidence from three places | an admission rests on the file's own header when it is known |
| **Resolution, execution** `resolver.py`, `selection.py`, `execution*.py`, `runner*.py`, `run_service.py` | a child process | evaluate, resolve again, gate, preflight, select a target, launch, time out | store, host and record change between any two of these | the admission is for what is launched, what was hashed is what was declared |
| **Manifest migration** `manifest_migration.py` | manifests and directory names | migrate | several artifacts share the directory that is renamed; crashes, failed writes | a repeated migration converges |
| **Conversion, OpenVINO import** `conversion.py` | package directories | export, copy, register, inspect, remove on failure | a failing import removes what another has registered | a registered import stays whole |
| **Training** `training.py` | staging directory, destination | validate, train, publish by rename | destination checked before, used hours later | the destination receives one run's whole adapter or nothing |
| **Observation, diagnosis, remediation** `observation_*.py`, `gpu_*.py`, `remediation*.py`, `session.py` | a session file | observe, compare | before and after | - |
| **Evidence, reports, CLI** `gguf_reader.py`, `*_evidence.py`, `main.py`, `json_output.py` | none | parse, print | - | - |

Interactions: the CLI and the API call the acquisition service (plan, then
download, then save_manifest), which a `download owner/name` precedes with the
two registries; import and download meet in the store, migration, conversion and
package imports rename and fill the same directories; executions read the store,
the records and the host, each at its own time; the API's handlers share the
registry, the sessions, the OpenVINO service and `run_lock`, and its main thread
closes all of them at shutdown. CLI processes share nothing but files.

`PROJECT.json` names each component's sources and status and lists the hazards
of the code, each at its line, with the properties that cover it.

## 2. Modules

| Module | Models |
|---|---|
| `ArtifactDirectory` | one artifact directory: names, inodes, contents, `manifest.json` and its temporary; the system calls as atomic operators |
| `Download` | plan, download, save_manifest by any number of processes on one directory |
| `WriteOnceArtifact` | the abstract specification of `Download`: publish once, record what is published, lose it only by an explicit deletion |
| `LocalImport` | `import_artifact` on the directory a content identity denotes |
| `IdentityAdmission` | the identity registry file and its writers, write by write |
| `AdmittedIdentities` | its abstract specification: a map that only grows, by unshared identities |
| `AcquisitionBindings` | the checks of the two registries, as operators on their contents |
| `Acquisition` | `download` and the registry commands from end to end: register, bind, resolve, discover, select, map, plan, transfer, save, by any number of processes over repositories whose head moves |
| `ModelTree` | the store as directories that can be renamed, and what inspecting a package answers |
| `ManifestMigration` | `migrate_model_store` over that tree |
| `PackageRegistration` | `convert` and `import-openvino` over that tree |
| `AdapterTraining` | `train_adapter_model` |
| `StoreCommands` | the composition of the last three, by several processes that may be killed |
| `Compatibility` | the knowledge table, the strict evaluation, the admission, the choice of a target: functions of their arguments |
| `AdmittedRecords` | the record of an admitted model and the operations on it |
| `Execution` | one command that executes a model, from evaluation to launch, among changes of store, host and record |
| `LlamaSession` | the atomic steps of a llama.cpp session |
| `ChatServer` | the HTTP server's execution routes, registry and shutdown over those sessions |
| `OpenVINOService` | the atomic steps of `OpenVINOInferenceService` |
| `OpenVINOChat` | an OpenVINO session, the inference route and the shutdown over two such services |
| `MC*` | the constants that are not plain model values, and symmetry sets |
| `*_proofs` | theorems about `ChatServer`, `OpenVINOChat`, `IdentityAdmission`, `Download`, `LocalImport`, `Acquisition`, `Execution`, `StoreCommands` |

`Download` and `LocalImport` extend `ArtifactDirectory`; `ManifestMigration` and
`PackageRegistration` extend `ModelTree` and are composed by `StoreCommands`;
`Acquisition` extends `AcquisitionBindings`, `Execution` extends `Compatibility`
and `AdmittedRecords`; `ChatServer` extends `LlamaSession` and `OpenVINOChat`
extends `OpenVINOService`; the two abstract specifications are instantiated with
a refinement mapping. Mutated forms of definitions (marked `mutant` in a
comment) stand before the definition they alter; no specification uses them.
They show that each property can be broken by a plausible error in the code.

### How the state corresponds to the code

*Artifact directory.* `entry` maps the two names to inodes; a descriptor keeps
denoting its inode when the name moves, which is what makes races on the `.part`
interesting. Contents are sequences of blocks, a block being a revision and a
position, or `Junk`. A file of `Size` blocks is complete. An append and a
positioned write are distinguished because the downloader resumes with
`O_APPEND` and creates without it. A free inode may be reused.

*Download.* `proc[p]` holds the locals of `_download_to_destination`:
`resumed` is `part_exists`, `created` is `created_part`, `fd` is `part_fd`,
`offset` is `bytes_downloaded`. One action is one system call together with the
decisions around it. `Plan` is one step (inspection, decision); a process may
have anything happen between it and the download. A body is read until it ends,
as in the code, which compares its length with the declared size afterwards:
`ReadChunk` goes on beyond `Size` as long as there are faults to spend on it.
The finally block is `CleanUp`. Wrong or surplus bytes, an early end, errors of
the server, the network and the disk (`Interrupt`, `DiskError`,
`ManifestFails`), and crashes are counted by `faults`; `Cleanup` is
`ArtifactCleanup`.

*Import.* The same granularity; the inode recorded after the copy is
`identity`. `CopyFails` and `TakeBackFails` are the errors of the calls before
and after the publication.

*Identity admission.* A content is what it parses to, or `Garbage`, and its
length, which decides whether an overwritten text keeps a tail. Locators and
identities are taken to be of equal length. `register` up to `_write` is one
step because only its read touches the file. Errors of the write unlink the
`.tmp` (`WriteFails`); errors of the open, the rename and the directory's fsync
do not (`SystemCallFails`), and after the last one the binding is there although
its caller was told otherwise. `overlapped` is a history
variable: two calls have been in progress at once.

*Acquisition.* `proc[p]` is one command with its locals: the locator it
registers or has resolved, the request, the artifact it mapped. The two
registries are read in one step and replaced in a later one, so a write can
discard another's. All who write one registry share one temporary, which each
truncates: `texts` is what the temporary may hold when a command renames it,
its own text alone if nobody else was writing, the other's or a mixture (`Torn`)
if somebody was (`Opens`); one whose temporary was renamed under it writes on
into the registry (`Replaces`). That is the outcome of the byte by byte model of
`IdentityAdmission`, without the bytes. `overlapped` is a history variable: two
writes of one registry have been in progress at once. `head` is what upstream
calls main. An artifact's directory has no revision in its name, so `final` and
`manifest` are indexed by locator and file; `final` is the revision the published
bytes are of, `Torn` when they are of none, and a digest is represented by the
revision it was computed from. A transfer is one step with the outcomes that
`Download` gives it.

*Store tree.* `tree` maps the legacy and the logical name of one model to a
directory, which keeps its identity when it is renamed, as processes hold
descriptors of it; `dir` gives each artifact's manifest, files and leftover
temporary. Processes hold the position they have reached in `migration`,
`package` and `training`. A migration's `names` and `artifacts` are what
`listdir` gave it and it has still to visit; `sorted()` is an order of each, so
that a proof can be about any number of artifacts. What it listed may be gone
when it comes to it, which ends the migration with an exception. `RewriteFails`
has the three outcomes of an error: the temporary is removed, it stays (the
unlink or the `os.replace` failed), or the manifest is replaced although an
exception says otherwise.

*Execution.* `cmd` holds the locals of `run_once`, `execute_model` and
`open_chat_session`; `registered`, `part`, `final` are the store, `record` the
admitted model's record, `host` what detection would find. A file is two halves,
because it is hashed in pieces by one descriptor while others write it;
`changed` is the difference of the two `fstat`s. `clear` is a history variable:
the model has been free of conflicts at some moment of the command. `run_once` and
the CLI's chat keep the runtime they detected first; `execute_model` and a chat
over HTTP detect it again when they resolve again (`DetectsAgain`). Each change
of the environment counts against `MaxChanges`.

*llama.cpp server.* Each request thread is a handler with a program counter and
the session it works on, from the accepted connection to the answer: reading the
request and, after a run or a turn, sending the answer are steps of their own,
since a client may keep either waiting. One action is one critical section of
the registry, one access of the session's state under its lock, or one wait for
the runtime. `close()` is two steps (the process ends; the state is set) with
the waits inside the first. An execution of `POST /v1/run` is one step under
`run_lock`. With `BlockOnClose` `close_all` comes after the request threads have
ended, as `ThreadingMixIn` has it in the server; without, it may also run
against them, as when it is called directly.

*OpenVINO.* `call[t]` is a thread's one call and where it is; `sessionLock`,
`condition`, `creating` and `pipelineLock` are the session's `_lock`, `_closed_cv`,
the server's creation lock and a service's pipeline lock; `closed` and
`serviceClosed` are the two flags, `activeSends` the counter the close waits on.
`Artifact` is what inspection may find when a generation begins, since the
directory is not locked; a pipeline is the device it was built for.

## 3. Runs

All passing runs exhaust their state space. `Execute`, `ChatUnadmitted` and
`StoreWriters` do not check for deadlock, because a command that has ended, or a
store nobody writes any more, is where the system stops; the others do.

| Run | Question | Bounds and why they are enough |
|---|---|---|
| `DownloadAlone` | Is the directory write-once (`WriteOnceSpec`, `FinalIsWhole`), is what is recorded healthy, does each call return that the server lets return, does asking again complete an interrupted transfer? | one process that keeps asking, two revisions (one pinned, one not) so that a `.part` of one meets a request for the other, files of two blocks so that there is a middle, three faults so that an interrupted resume can be interrupted again or a body can go on three blocks too far, one deletion |
| `DownloadRace` | Can a process delete another's `.part` or replace a published file? | three processes, because the interesting race needs a creator, a resumer that publishes first and a newcomer; requests with a declared digest and without, so that a complete `.part` is now verified, now refused; one fault or crash; files of one block, as no step of this question depends on the middle of a file; four inodes are as many as three processes and two names can hold when a file is created |
| `Import` | Is only a complete copy published, and is an import recoverable? (That the states are well typed is proved.) | one process, four faults: a crash, then a failure while cleaning up after it, twice |
| `Identity` | What do two writers on one temporary name preserve, and what does a single one promise? | two writers, two locators (one curated), two identities, one failure or crash |
| `Acquire` | Is a download refused only when a registry has been torn, and is what a download answers for installed? | two processes, which is what tearing takes; a curated repository and a discovered one that gains a file with its second revision; one file whose size is stated and one whose is not; requests by quantization, so that the selection has something to leave out |
| `StoreWriters` | Does an imported package stay, is nothing else lost or left without a name, does a destination receive one adapter, does the repeated migration converge? | two processes, one crash, two packages; six scenes: two migrations at once on three kinds of legacy stores, a migration beside an import, one beside a conversion, two trainings |
| `Execute` | What does a launch rest on? | all five operations on a catalogue model with two quantizations, an admitted model with a download and imports of its name, an OpenVINO package; two of the files have an architecture that is not supported; two changes at any point: one to invalidate what was evaluated, one to restore or confuse it |
| `ChatServing` | Capacity, exclusion, finality, the registry's soundness when `close_all` runs against requests in flight, and freedom from leaks of slots and locks | three handlers, two sessions, room for one: two creates race for the last place while a third request uses or removes a session. `BlockOnClose` is FALSE: every behaviour with the join is also one without, `ClosedIsFinal` is about those with it, and the fairness makes the main thread drain only after it, so that `ComesDown` rests on the requests' ends. No symmetry, because liveness is checked |
| `OpenVINO` | Are admitted turns served, closed services released, is one shared service made, does nobody wait forever? | three request threads (a send, a close and a second close or an inference meet), two devices so that a cached pipeline may not fit, two candidates for the shared service, a sound artifact and each single defect of one |
| `ChatOrphan` | Is every runtime ended when the server is down? **No** | one session |
| `ChatUnadmitted` | Is nothing launched without an admission? **No** | as `Execute` |
| `IdentityCurated` | Is an identity that is curated for one repository kept from the others? **No** | as `Identity` |

### What the failing runs show

Each refutes a sentence of the repository; `findings` in `PROJECT.json` quotes it.

- `NoOrphan`: `_wait_ready` times out and raises out of `__init__`; nobody holds
  the process (`chat.py:293`).
- `AdmittedBeforeLaunch`: for an artifact whose backend is openvino,
  `open_chat_session` runs the integrity preflight and opens the session
  (`run_service.py:457-463`); the gate in `prepare`, which refuses a missing
  admission on every other path, is not reached. The evaluation of such a
  package cannot produce an admission, since there is no GGUF header to read.
- `CuratedAuthority`: `register`'s docstring says that an identity curated for
  another locator is refused (`identity_admission.py:328-329`); the code asks the
  curated table for the locator being registered only (365-370), so another
  repository is admitted under that identity if it comes first, and the curated
  one is refused from then on.

### Known limits of the code

Seen while modelling, stated here because the properties have to leave them out:

- Two downloads that overlap in one directory may publish an incomplete file: A
  verifies the `.part`, B, which opened it for appending, adds a block, A links
  it. `FinalIsWhole`, `RegisteredIsHealthy` and `WriteOnceSpec` are therefore
  about calls that do not overlap (one process that never stops asking, and
  crashes, is the same as many that take turns).
- A crash while `manifest.json.part` exists: it is created with `O_EXCL` and
  nothing removes it, so that artifact can never be registered again.
  `RecoverableUnlessManifestPart` and `RecoverableCompletes` exclude it, as they
  exclude a published file without a manifest and a `.part` of another revision,
  which only an operator can clear; the planner reports the former deliberately.
- Two overlapping imports of one file: B removes what A is writing and starts
  its own `.part` under the same name; A links B's incomplete one.
  `PublishedIsComplete` is about imports that take turns.
- The size of a response is compared after its body has ended
  (`downloader.py:277-289`, 315): a server that never ends it keeps the call, and
  fills the `.part`, for ever. `CallReturns` and `CallsAreBounded` name this case.
- Two writers of a registry, of identities or of bindings, share the `.tmp`: B
  truncates what A has finished, A renames it, and a reader meets a file that
  does not parse, although `_write` says that none ever does
  (`identity_admission.py:67-68`, `acquisition_resolution.py:288-289`). Two
  registrations of the same locator, which the module calls benign (76-78), are
  enough. If B is killed before it writes on, or the texts differ in length, the
  registry stays like that, and every registration is refused from then on:
  `EnsureNeverRefused` has this as its one exception. Lost updates are documented
  in the module. `AcknowledgedIsBound` and `SerialAdmitted` are about
  registrations that do not overlap.
- The theorem `RepeatedDownload` has the hypothesis that repositories have
  distinct identities. Derived identities, which end in a digest of their
  repository, meet it; an identity given by hand need not (`CuratedAuthority`).
- The migration's docstring says "running it again changes nothing"
  (`manifest_migration.py:23`); a directory of two artifacts needs two runs,
  because the first artifact renames the directory and the second is then
  reported as a conflict. A `manifest.json.migration.part` that a crash or a
  failed `os.replace` left is never removed and ends every later migration where
  it meets it, and a directory already under the logical name is never merged:
  `MigrationConverges` excepts the manifests that come after such a file
  (`StoppedBefore`), those whose place is taken (`Taken`), and a rewrite that
  fails again and again. The temporary of a
  rewrite that is under way is no exception. No command of the CLI calls the
  migration.
- An import of an OpenVINO package is kept as long as the model id it goes to
  leads to a directory that is not renamed, which `ImportName` states. If the
  migration renames it between two imports of one package, the second import
  finds its old name free, and what it removes when it fails may be found by either name.
- `convert` exports over an existing package in place, and its XML has no
  digest, so a torn mixture is inspected as present; the preflight refuses it. A
  package with a subdirectory always fails inspection. An `rmtree` that fails
  half way leaves a directory that later imports refuse as existing.
- `OnlyOwnPart` ends when something is published. Then a process that created
  the `.part`, had it published by another one that resumed it, and fails with
  "already exists", deletes by name whatever a third process has created there.
  That third download could only have failed as well, so nothing is lost.
- `RegisteredIsHealthy` ends with the first explicit deletion.
- The waits of a handler for its client have no timeout: for the request's
  headers and body (`api.py:1068`), for the draining of a body too large (215), for
  the answer to be taken (970). Nor has a write to a runtime's stdin: the prompt is
  written before the turn's deadline is set (`chat.py:314`, 324), `/exit` before
  the close timeout (407). A client or a runtime that keeps silent for ever keeps
  a turn slot, and keeps an interrupted server from coming down, because
  `server_close` joins the handlers: the exceptions of `SlotFreed` and `ComesDown`.
- `ClosedIsFinal` is about the server as it is run, with the join; `close_all`
  against a turn that completes would let the turn set READY after CLOSED, which
  is harmless only because the session is no longer registered.
- `AcquiredRevision` speaks of artifacts whose revision and digest are known.
  The manifest's download_url names main even for a pinned revision; nested
  files in a repository make its whole discovery fail (`Nested` is empty in the
  run, and the proofs hold for any); the CLI does not expose the service's
  `revision` argument. An operator is assumed not to delete a published file in
  the moment a download is about to register it.
- The runtime opens the file by its path after it was hashed by a descriptor;
  nothing holds the file between the two. `run` and `chat` choose a target from
  what detection found when the command began. A chat over HTTP detects the runtime
  a second time (`run_service.py:442-444`), although the handler's comment says "no
  second capability detection" (`api.py:1305-1307`).
- The header is read when the command is evaluated, and the file launched much
  later. Two changes around one command, a file exchanged for the evaluation and
  put back, or the evaluated artifact deleted and another one installed, launch
  an architecture that is not supported; one change does not, which is what
  `KnownArchitecture` says.
- A catalogue model's id passes by the conflict gate, which is the admitted
  models' alone. `AdmittedModelError` of an unreadable record is caught by
  neither the resolver nor the CLI. The HTTP form of an OpenVINO chat is refused.
- Smaller oddities: the CLI's chat loop reads `session.state` on an interrupt,
  which `OpenVINOChatSession` does not have; its docstring says that it does not
  own the pipeline, while its `close()` closes the service; "before" telemetry
  of a generation is taken after it; `_validate_compatibility` of the backend
  selector and `decide` of `evaluation_policy.py` have no caller; a comment in
  `initial_knowledge.py` counts 38 rows of a table of 39.

### Fairness

A download or import call is fair (`WF` on its next step): each read of the
transport has a timeout and all other steps are local calls. Nothing is assumed
of a body that has become longer than declared (`Overlong`): the bound on faults
limits how much of it a run looks at, not how long it lasts. The operator is fair
in asking again, which is the assumption of "recoverable by retrying"; no
fairness is assumed of crashes, faults or deletions.

In the server a step of a handler is fair when it is local or waits for what the
code bounds: the ready, operation and close timeouts, and the execution of
`POST /v1/run`, whose runtime has a timeout too. No fairness is assumed of a
handler that waits for its client (`ForClient`) or that writes to a runtime
which may not be reading (`ForRuntime`, `MayBlock`: one that is alive and has a
turn unanswered; one that was ready has read what it was sent). Answers of a line
or two are taken to fit into the socket's buffer. Arrivals and the interrupt are
not fair; after the interrupt the main thread is, once the requests have ended.

Threads of `OpenVINOChat` are strongly fair: they wait for locks others take
and release again and again, and CPython's locks let a waiter in eventually; a
generation is assumed to end. In `StoreCommands` each step of a running command
is weakly fair, and starting the migration is strongly fair (the operator repeats
it whenever it is not running, while crashes and other commands come between);
conversions, imports, trainings and the user are not fair.

## 4. Proofs

Eight modules hold theorems, about any number of processes or threads and every
value of the constants their assumptions allow. Where the code promises
something only for calls that do not overlap, the hypothesis says so, and not
that there is one process. Each proof has the same shape: an invariant `IInv`, a
lemma per action that it is preserved, `Initially`, `Inductive`, `Invariance`,
and the theorems. `PROJECT.json` lists what each theorem establishes. None of
the properties is inductive alone; what has to be added is the argument of the
code. Every safety property that a run checks and the code has is a theorem, but
`KnownArchitecture`.

Liveness under fairness is out of the prover's reach, but the argument behind it
has a safety half, and that is proved: every step of a call lessens a variant,
whatever other calls do (`CallsAreBounded`, `ImportsAreBounded`,
`RequestsAreBounded`, `MigrationsAreBounded`), what a call holds is given back
(`LocksGivenBack`), and no call waits in a circle (`NobodyWaitsInACircle`,
`NoNotificationLost`, `NoDeadlock`). What remains to TLC is that fair steps are
therefore taken.

`ChatServer_proofs` proves type correctness, `OneUser`, `Capacity`, and the
conjunction of `ReadyIsOwned`, `UnregisteredBeforeClosed` and
`NothingRegisteredAfterGate`, for either value of `BlockOnClose`:

- `SessionOnlyWhenNeeded`: a handler has a session only from its launch on;
- `SlotHeld`: a handler that uses a session holds its turn slot, and a slot has
  one holder (gives `OneUser`);
- `WasLaunched`, `LaunchedAlone`: a session a handler has launched is known to
  that handler alone until it is registered;
- `Progress`: the states a session can have at each step of its handler;
- `TurnIsReachable`: a live runtime that a turn is using stays with the registry
  or with `close_all`, so the end of the turn does not orphan it;
- `DrainedOnce`: nothing is being drained before the gate is set.

It also proves `ClosedIsFinal`: as long as `close_all` has only begun after
every request had ended (`Joined`), no session is closed while a turn is in it
(`TurnIsOpen`), since whoever else could close it would need its slot or have
launched it alone; and a `close_all` that was called too early does not become
right later, but for all requests ending (`JoinedBefore`).

`LocksGivenBack` says that `run_lock` and the turn slots are held by exactly the
requests at the steps that use them, which is the safety half of `RunLockFreed`
and `SlotFreed`. `RequestsAreBounded` is the other: no lock of this server is
waited for, each step leads on in the handler (`GoesOnTo`), and the longest way
to an answer is eight steps (`StepsLeft`), so that a request that is never
answered stays at one of them, with its client or its runtime.

`OpenVINOChat_proofs` proves type correctness, `AdmittedIsServed`,
`ClosedIsReleased` and `OneSharedService`, from the assumptions that threads are
finite in number, there is a device, and the handlers can construct a service:

- `SessionHeld`: the session's lock is held from a turn's admission to its end,
  so there is at most one active send;
- `ConditionHeld`, `Drained`: between two steps the condition is held only by
  the thread that closes the service, which found no active send, so an admitted
  turn never meets a closed service and none is admitted afterwards;
- `PipelineHeld`: a generation in a service holds its pipeline lock, hence a
  close finds nobody inside;
- `CreationHeld`, `SharedFits`: what has been created is what is shared;
- `MainLast`: the main thread closes after every handler is done;
- `ServiceFits`, `ResultFits`, `TurnsCounted`: which service a call works on,
  what it will answer, and that completed turns are as many as the history has,
  which bounds the type.

Here locks are waited for. `WaitsFor` names whom a call waits for, `Level` the
order in which locks are taken: the session's, the condition, a pipeline's.
`NobodyWaitsInACircle` is that a call waits for higher levels only;
`NoNotificationLost`, that whoever sleeps in `wait()` has a turn that will wake
it; `NoDeadlock`, that until every call has returned one of them meets the
conditions of its next step (`CanStep`, the guards of the actions, written out
because `ENABLED` cannot be proved about). What is added to `IInv` is
`WInv`: a pipeline lock is held by a generation at work in that service
(`LockIsUsed`), and each service is closed by one call, once (`OneCloser`).

`Download_proofs` proves `OnlyOwnPart` and `FinalNeverReplaced`. `OneCreator`
says that while nothing is published the one `.part` has one creator, as it was
made exclusively; `PublishedStays` that whoever has linked the final name still
finds it, until an operator deletes. A lemma `Quiet` deals at once with the many
steps that change no name.

For acquisitions that take turns of artifacts that declare a sha256
(`AllDeclared`; without one wrong bytes of the right length are published) it
also proves `FinalIsWhole`, `RegisteredIsHealthy` and the refinement
`WriteOnceSpec`. `TakeTurns` is a predicate on states: at most one call is at
work, of whichever of any number of processes, and each may be interrupted or
killed at any step and leave its files to the next. `Fits` says what the
directory holds at each step of the call: no final file from its probe to the
link, so that nothing written can reach one; under the name about to be linked,
what was hashed; nothing registered while a call is on its way. Each action then
is a step of `WriteOnceArtifact` or leaves `Abstract`, what it sees, alone.
The assumption added is that no artifact is `NoManifest`.

`TypeOK` needs no turns. What is hard in it is that `bytes_downloaded` never
counts more than the file that `part_fd` has open holds, although others append
to it, overwrite it from its beginning and take its name: `Measured` says it of
each call from its opening on, and no step shortens a file that somebody has
open (`OnlyGrows`).

Nor does `CallsAreBounded`: each step of a call lessens `StepsLeft`, which starts
at `Size` + 10, or reads a block that the server sends beyond the declared size
(`Overruns`). Nothing bounds the number of those.

`LocalImport_proofs` proves type correctness for any number of imports, from
`HasFile` (who copies has the file it created), and `PublishedIsComplete` for
imports that take turns in the same sense. `Whole` says
that from the clearing of the directory to the link there is no file with the
final name, and that what is about to be linked was compared with the source;
`QuietWhole` deals with the steps that write no byte and publish nothing. Without
`TakeTurns` the property is false (known limits). `ImportsAreBounded` is the
variant of an import, `Size` + 14 steps at most, for imports that may overlap.

`IdentityAdmission_proofs` proves type correctness, that a registry that parses
binds no identity to two locators (`IdentitiesUnique`), and that it binds a
curated locator to its curated identity only (`CuratedLocatorsKept`); not the
converse, which is what the run `IdentityCurated` refutes. The file under the
registry's name may have been written by any writer that had the temporary open,
so the invariant `EveryTextSound` is about every text in any inode and every
proposal on its way to one: each is either garbage or a sound binding. The
assumptions used are those of the module: locators are finite in number,
`Unbound` is no identity, and the curated table gives no identity twice.

It also proves, for any number of writers whose calls do not overlap,
`AcknowledgedIsBound` and the refinement `SerialAdmitted`. `OneAtATime` says that
then one call at most is on its way, the temporary is its own and holds what it
wrote, and its proposal is what the registry still holds with one binding more,
which is exactly the step of `AdmittedIdentities`; each action maps to that step
or leaves `Load` alone (`Maps`). The assumption added is that garbage is no
binding.

`Acquisition_proofs` proves type correctness, `EnsureNeverRefused` and
`AcquiredRevision`. `OwnBindings` says that a model is bound only to a
repository of its own identity, in the file and in every text on its way to it,
since a stale copy may become the file; `Formed` what a command knows at
each of its steps; `TextsExplained` and `RegistriesExplained` that a temporary,
and hence a registry, may fail to parse only after two writes overlapped;
`ManifestsSound` that a manifest declares a digest exactly for files that have
one, of its revision; `SavesVerified` that what is about to be registered is what
was verified. `EnsureNeverRefused` has the hypothesis `DistinctIdentities`, which
the run's constants satisfy and derived identities justify by the digest they end
in. What it says of two writers is no more than the code allows: a registry that
does not parse refuses everybody.

`Execution_proofs` proves type correctness, `ConflictBlocks`,
`AdmissionIsForResolved` and `VerifiedIsWhole`, and `ArchitectureKnown`: the
header that was read when the command was evaluated names a supported
architecture or none. `Sound` says what a command knows at each step: from the
gate on its model has been free of conflicts (`clear`); what was evaluated is
what the next resolution chooses (`Chosen`), if it is still usable; an admission
that lets a command through rests on the header (`Assessed`, from the table of
what llama.cpp supports); the halves that were hashed are still those of the
file unless its `fstat` changed (`Reads`). The assumptions are finiteness of the
artifacts and the typing of the constants.

`StoreCommands_proofs` proves `AdapterIsOneRuns`: a run about to publish has its
whole adapter in a staging directory of its own (`StagedWhole`), and the rename
itself looks at the destination again. The assumption added is that no process
has the name of another content of the destination.

It further proves type correctness, `NothingIsLost` and `ImportedIsKept` of the
store's tree, beside any number of migrations, conversions, imports, trainings
and crashes. `BaseInv` holds wherever imports go: conversions and imports write
different artifacts (`WritersApart`), an import's manifest is unmapped, so that
the migration leaves it alone (`ImportsUnmapped`), and what the migration
renames has the legacy name (`MigratesLegacy`). From it follows `NothingIsLost`:
no step takes away a directory's last name (`NamesStay`), as a rename goes to a
name that leads to nothing or to an empty directory, and none takes an artifact
or its registration out of a directory that keeps a name (`ContentStays`), but
for the failed import of that artifact. `ImportedIsKept` needs `ImportsHeld` as
well: from its exclusive `mkdir` until it ends an import has its artifact's
directory to itself (`HeldByOne`, `HeldExists`), so what has been imported is
not touched by one that fails (`ImportedIsWhole`). Its hypothesis
`ImportsSettle` is that no import goes to the legacy name; without it the second
import of the known limits above does harm. `MigrationsAreBounded` gives a
migration's variant: directories to visit, artifacts to look at, the step it is
at. That the next name and artifact are members of what was listed (`First`, a
least element) rests on the well-foundedness of the naturals. The assumptions on
the constants are that orders are numbers, and that names of artifacts,
directories and versions are distinct.

Only model-checked: `KnownArchitecture`, which goes on from that header to the
file that is launched and counts the changes between them, and the liveness
properties (`CallReturns`, `RecoverableCompletes`,
`RecoverableUnlessManifestPart`, `SlotFreed`, `RunLockFreed`, `ComesDown`,
`EveryCallReturns`, `MigrationConverges`), which are out of the prover's reach
but for the variants and the order of locks above.

## 5. Not modelled

- Text formats, URLs and HTTP parsing, path validation, symbolic links in the
  store, the sizes of disks, argument vectors, the runtime's own output, and
  presentation: pure functions or pure I/O, of which the models keep the verdict.
- `observation_*`, `gpu_*`, `hardware.py`, `remediation*`: they read `/sys`,
  `/proc` and tools into reports and compare two reports, without state and
  without concurrency. `session.py` writes one file by temporary and rename, the
  protocol of `IdentityAdmission` without its registry.
- Parsing of GGUF headers: `HeaderOf` is what the reader answers.
- Memory assessment, the observation of a backend (no command passes one, so its
  check always answers "not performed"), SYCL and the detection of other
  runtimes than llama.cpp; `decide` of `evaluation_policy.py`, which has no
  caller; `compatibility_report.py` and `boundary_adapter.py`, which word a verdict.
- `update` and `delete` of bindings have no command that calls them; they are
  modelled as an operator's use of the module.
- `cancel` of a llama.cpp session, which only the CLI's chat loop calls; a
  second interrupt during `server_close`, after which the process ends with a
  traceback at any point of it; a runtime that survives SIGKILL.
- Ranking of search results and groups of split GGUF files; listings
  (`catalog_query_service.py`, `dynamic_model_library.py`, `model_domain.py`).
- For an OpenVINO package the hash of its XML stands for the signature checks
  of every file; the final checks are one step. In resolution, the
  verification of a candidate is read in one step.

## 6. Plan

The modules above were written in the order: artifact directory and its users,
identity registry, server and sessions, OpenVINO, store commands, compatibility
and execution, acquisition; each with its runs before its proofs. What is left,
in the order of what it would add:

1. `Cancel` and the CLI's chat loop over `LlamaSession`; the second interrupt of
   `serve`.
2. Two overlapping imports, where the failing one compares an inode and then
   unlinks a name under which the other may have published: what can be said of
   them beyond the limits above.
3. An abstract specification of the server's sessions (created, used by one
   request, removed, gone) that `ChatServer` implements, and a proof of it.
4. The ranking and grouping of search results against a declarative reference.
