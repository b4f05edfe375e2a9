----------------------------- MODULE Acquisition -----------------------------
(***************************************************************************)
(* `download` and the registry commands, run by any number of processes:   *)
(* run_download, ensure_discovered_repository, the acquisition bindings,   *)
(* and ModelAcquisitionService.acquire over a repository whose head moves. *)
(* A transfer is one step here; its own steps are module Download.         *)
(***************************************************************************)
EXTENDS AcquisitionBindings, Naturals, Sequences, FiniteSets

CONSTANTS Process,
          File,       \* GGUF files a repository may list
          Tree,       \* locator -> its revisions in order, each a set of files
          Quant,      \* file -> its quantization label
          Sized,      \* the files whose size the tree states
          Hashed,     \* the files whose SHA-256 the tree states
          Nested,     \* the files listed under a subdirectory
          None,       \* an absent revision, selector, digest or file
          Request     \* selections to consider

ASSUME TreeAssumption ==
    /\ \A l \in Locator : Tree[l] \in Seq(SUBSET File) /\ Tree[l] # <<>>
    /\ Sized \cup Hashed \cup Nested \subseteq File
    /\ None \notin Nat /\ Torn \notin Nat \cup {None}
ASSUME RequestAssumption == Model # {} /\ Request # {}

VARIABLES identities, \* identity-admission.json: who is admitted, or Torn
          bindings,   \* acquisition-bindings.json, or Torn
          overlapped, \* history: two writes of one registry were in progress at once
          head,       \* locator -> the revision upstream now calls main
          final,      \* artifact -> the revision its published bytes are of
          manifest,   \* artifact -> what manifest.json records
          proc        \* the command each process runs, or ran last

vars == <<identities, bindings, overlapped, head, final, manifest, proc>>

Revision == UNION {DOMAIN Tree[l] : l \in Locator}

(* artifact_id has no revision: one directory holds them all.              *)
Artifact == Locator \X File

ArtifactSpec == [locator : Locator, file : File, rev : Revision \cup {None},
                 sha : Revision \cup {None}]

NoManifest == [rev |-> None, sha |-> None, saved |-> FALSE]

Manifest == [rev : Revision \cup {None}, sha : Revision \cup {None}, saved : {TRUE}]

Op == {"download", "admit", "bind", "update", "delete"}

PC == {"idle", "identify", "register", "bind", "write", "resolve", "metadata",
       "tree", "plan", "transfer", "save"}

Result == {"none", "ok", "rejected", "failed", "not resolvable", "discovery failed",
           "selection failed", "identity unresolved", "planning failed", "blocked",
           "transfer failed", "already downloaded", "ready"}

Text == {Torn} \cup Bindings \cup Admissions

(* locator: the repository named, or resolved; texts: what the temporary   *)
(* of a write may hold; sha: the revision the metadata declared.           *)
Command == [pc : PC, op : Op, model : Model, locator : Locator \cup {NoLocator},
            want : Request, texts : SUBSET Text,
            sha : Revision \cup {None}, spec : ArtifactSpec \cup {None}, result : Result]

TypeOK ==
    /\ identities \in {Torn} \cup Admissions
    /\ bindings \in {Torn} \cup Bindings
    /\ overlapped \in BOOLEAN
    /\ head \in [Locator -> Nat] /\ \A l \in Locator : head[l] \in DOMAIN Tree[l]
    /\ final \in [Artifact -> Revision \cup {None, Torn}]
    /\ manifest \in [Artifact -> Manifest \cup {NoManifest}]
    /\ proc \in [Process -> Command]

Idle == [pc |-> "idle", op |-> "download", model |-> CHOOSE m \in Model : TRUE,
         locator |-> NoLocator, want |-> CHOOSE r \in Request : TRUE,
         texts |-> {}, sha |-> None, spec |-> None,
         result |-> "none"]

Init ==
    /\ identities = Nobody /\ bindings = Unbound /\ overlapped = FALSE
    /\ head = [l \in Locator |-> 1]
    /\ final = [a \in Artifact |-> None]
    /\ manifest = [a \in Artifact |-> NoManifest]
    /\ proc = [p \in Process |-> Idle]

registries == <<identities, bindings, overlapped>>
store == <<final, manifest>>

At(p, label) == proc[p].pc = label

Go(p, command) == proc' = [proc EXCEPT ![p] = command]

Ended(result) == [Idle EXCEPT !.result = result]

Stop(p, result) == Go(p, Ended(result))

-----------------------------------------------------------------------------
(* run_download, in its two forms, and `admitted --op admit | bind`;       *)
(* update and delete have no caller in the program.                        *)
Start(p) ==
    /\ At(p, "idle")
    /\ \/ \E l \in Locator, r \in Request :
            Go(p, [Idle EXCEPT !.pc = "identify", !.model = ModelOf[l],
                               !.locator = l, !.want = r])
       \/ \E m \in Model, r \in Request :
            Go(p, [Idle EXCEPT !.pc = "resolve", !.model = m, !.want = r])
       \/ \E l \in Locator :
            Go(p, [Idle EXCEPT !.pc = "identify", !.op = "admit",
                               !.model = ModelOf[l], !.locator = l])
       \/ \E op \in {"bind", "update"}, m \in Model, l \in Locator :
            Go(p, [Idle EXCEPT !.pc = "bind", !.op = op, !.model = m, !.locator = l])
       \/ \E m \in Model :
            Go(p, [Idle EXCEPT !.pc = "bind", !.op = "delete", !.model = m])
    /\ UNCHANGED <<registries, head, store>>

(* _write, up to the rename.  The temporary has one name for all who write *)
(* a registry, and each opens it with O_TRUNC: writes that overlap may     *)
(* leave either text in it, or a mixture.                                  *)
Opens(p, label, text) ==
    LET others == {q \in Process \ {p} : At(q, label)} IN
    /\ proc' = [q \in Process |->
         IF q = p
         THEN [proc[p] EXCEPT !.pc = label,
                 !.texts = {text} \cup UNION {proc[o].texts \cup {Torn} : o \in others}]
         ELSE IF q \in others THEN [proc[q] EXCEPT !.texts = @ \cup {text, Torn}]
         ELSE proc[q]]
    /\ overlapped' = (overlapped \/ others # {})

(* os.replace; or one that overlaps writes on after another renamed the    *)
(* temporary, into the registry itself.                                    *)
Replaces(p, command) ==
    \/ Go(p, command)
    \/ Torn \in proc[p].texts /\ UNCHANGED proc

(* ensure_discovered_repository refuses a source it cannot download from   *)
(* before it registers anything; admit_command does not.                   *)
Identify(p) ==
    /\ At(p, "identify")
    /\ LET l == proc[p].locator
           answer == AnswerRegister(identities, l) IN
         IF answer = "rejected" \/ (proc[p].op = "download" /\ l \notin Supported)
         THEN Stop(p, "rejected") /\ UNCHANGED overlapped
         ELSE IF answer = "write" THEN Opens(p, "register", [identities EXCEPT ![l] = TRUE])
         ELSE /\ IF proc[p].op = "admit" THEN Stop(p, "ok")
                 ELSE Go(p, [proc[p] EXCEPT !.pc = "bind"])
              /\ UNCHANGED overlapped
    /\ UNCHANGED <<identities, bindings, head, store>>

WriteIdentities(p) ==
    /\ At(p, "register")
    /\ identities' \in proc[p].texts
    /\ Replaces(p, IF proc[p].op = "admit" THEN Ended("ok")
                   ELSE [proc[p] EXCEPT !.pc = "bind", !.texts = {}])
    /\ UNCHANGED <<bindings, overlapped, head, store>>

Answer(c) == CASE c.op \in {"download", "bind"} -> AnswerBind(bindings, c.model, c.locator)
               [] c.op = "update" -> AnswerUpdate(bindings, c.model, c.locator)
               [] c.op = "delete" -> AnswerDelete(bindings, c.model)

(* After the write, or without one, a download goes on.                    *)
Registered(c) ==
    IF c.op = "download"
    THEN [Idle EXCEPT !.pc = "resolve", !.model = c.model, !.want = c.want]
    ELSE Ended("ok")

Bind(p) ==
    /\ At(p, "bind")
    /\ LET c == proc[p]
           bound == IF c.op = "delete" THEN NoLocator ELSE c.locator IN
         IF Answer(c) = "write"
         THEN Opens(p, "write", [bindings EXCEPT ![c.model] = bound])
         ELSE /\ Go(p, IF Answer(c) = "ok" THEN Registered(c) ELSE Ended("rejected"))
              /\ UNCHANGED overlapped
    /\ UNCHANGED <<identities, bindings, head, store>>

WriteBindings(p) ==
    /\ At(p, "write")
    /\ bindings' \in proc[p].texts
    /\ Replaces(p, Registered(proc[p]))
    /\ UNCHANGED <<identities, overlapped, head, store>>

-----------------------------------------------------------------------------
(* _resolve_repository.  A named repository is resolved again, by model.   *)
Resolve(p) ==
    /\ At(p, "resolve")
    /\ LET l == ResolveAcquisitionLocator(bindings, proc[p].model) IN
         IF l = NoLocator THEN Stop(p, "not resolvable")
         ELSE IF l = Torn THEN Stop(p, "failed")
         ELSE Go(p, [proc[p] EXCEPT !.pc = "metadata", !.locator = l])
    /\ UNCHANGED <<registries, head, store>>

(* The provider's first request: the head commit, unless its hash is       *)
(* missing or malformed.                                                   *)
ReadMetadata(p) ==
    /\ At(p, "metadata")
    /\ \E sha \in {head[proc[p].locator], None} :
         Go(p, [proc[p] EXCEPT !.pc = "tree", !.sha = sha])
    /\ UNCHANGED <<registries, head, store>>

(* The files a selection leaves.                                           *)
Matching(files, want, sha) ==
    {f \in files : /\ want.quant \in {None, Quant[f]}
                   /\ want.file \in {None, f}
                   /\ want.rev \in {None, sha}}

(* The second request, for the tree at that commit or at main; then        *)
(* select_discovered_artifact and map_discovered_artifacts.                *)
ReadTree(p) ==
    /\ At(p, "tree")
    /\ LET c == proc[p]
           at == IF c.sha = None THEN head[c.locator] ELSE c.sha
           files == Tree[c.locator][at]
           found == Matching(files, c.want, c.sha) IN
         IF files \cap Nested # {} THEN Stop(p, "discovery failed")
         ELSE IF Cardinality(found) # 1 THEN Stop(p, "selection failed")
         ELSE IF ModelOf[c.locator] # c.model THEN Stop(p, "identity unresolved")
         ELSE \E f \in found :
                Go(p, [Idle EXCEPT !.pc = "plan",
                        !.spec = [locator |-> c.locator, file |-> f, rev |-> c.sha,
                                  sha |-> IF f \in Hashed THEN at ELSE None]])
    /\ UNCHANGED <<registries, head, store>>

-----------------------------------------------------------------------------
Directory(spec) == <<spec.locator, spec.file>>

(* inspect_manifest(verify=True).                                          *)
State(a) ==
    CASE final[a] = None -> "not downloaded"
      [] final[a] # None /\ manifest[a].sha \notin {None, final[a]} -> "failed"
      [] OTHER -> "downloaded"

(* mutant: what is installed is taken for what is asked for.               *)
PlanStatusAnyRevision(spec) ==
    LET a == Directory(spec) IN
    CASE manifest[a].saved /\ State(a) = "downloaded" -> "already downloaded"
      [] manifest[a].saved /\ State(a) = "failed" -> "blocked"
      [] ~manifest[a].saved /\ final[a] # None -> "blocked"
      [] OTHER -> IF spec.file \in Sized THEN "ready" ELSE "planning failed"

PlanStatus(spec) ==
    LET a == Directory(spec) IN
    CASE manifest[a].saved /\ State(a) = "downloaded" ->
           IF spec.rev \in {None, manifest[a].rev} THEN "already downloaded" ELSE "blocked"
      [] manifest[a].saved /\ State(a) = "failed" -> "blocked"
      [] ~manifest[a].saved /\ final[a] # None -> "blocked"
      [] OTHER -> IF spec.file \in Sized THEN "ready" ELSE "planning failed"

(* Too little disk blocks a plan that is ready.                            *)
Plan(p) ==
    /\ At(p, "plan")
    /\ LET status == PlanStatus(proc[p].spec) IN
         IF status = "ready"
         THEN \/ Go(p, [proc[p] EXCEPT !.pc = "transfer"])
              \/ Stop(p, "blocked")
         ELSE Stop(p, status)
    /\ UNCHANGED <<registries, head, store>>

(* The bytes at `resolve/<revision or main>/<file>`, continued from        *)
(* whatever a .part held; a declared digest must match them.               *)
Transfer(p) ==
    /\ At(p, "transfer")
    /\ LET spec == proc[p].spec
           a == Directory(spec)
           served == IF spec.rev = None THEN head[spec.locator] ELSE spec.rev IN
         \E bytes \in {served, Torn} :
           IF final[a] # None \/ spec.sha \notin {None, bytes}
           THEN Stop(p, "transfer failed") /\ UNCHANGED final
           ELSE /\ final' = [final EXCEPT ![a] = bytes]
                /\ Go(p, [proc[p] EXCEPT !.pc = "save"])
    /\ UNCHANGED <<registries, head, manifest>>

SaveManifest(p) ==
    /\ At(p, "save")
    /\ LET spec == proc[p].spec IN
         manifest' = [manifest EXCEPT ![Directory(spec)] =
                        [rev |-> spec.rev, sha |-> spec.sha, saved |-> TRUE]]
    /\ Stop(p, "ready")
    /\ UNCHANGED <<registries, head, final>>

-----------------------------------------------------------------------------
(* An error of the network or the file system, or the process is killed.   *)
Fails(p) ==
    /\ ~At(p, "idle")
    /\ Stop(p, "failed")
    /\ UNCHANGED <<registries, head, store>>

HeadMoves(l) ==
    /\ head[l] < Len(Tree[l])
    /\ head' = [head EXCEPT ![l] = @ + 1]
    /\ UNCHANGED <<registries, store, proc>>

(* ArtifactCleanup's DELETE_FINAL, of what no process is about to          *)
(* register.  The manifest stays.                                          *)
DeleteFinal(a) ==
    /\ final[a] # None
    /\ \A p \in Process : At(p, "save") => Directory(proc[p].spec) # a
    /\ final' = [final EXCEPT ![a] = None]
    /\ UNCHANGED <<registries, head, manifest, proc>>

Step(p) ==
    \/ Start(p) \/ Identify(p) \/ WriteIdentities(p) \/ Bind(p) \/ WriteBindings(p)
    \/ Resolve(p) \/ ReadMetadata(p) \/ ReadTree(p)
    \/ Plan(p) \/ Transfer(p) \/ SaveManifest(p) \/ Fails(p)

Next ==
    \/ \E p \in Process : Step(p)
    \/ \E l \in Locator : HeadMoves(l)
    \/ \E a \in Artifact : DeleteFinal(a)

Spec == Init /\ [][Next]_vars

-----------------------------------------------------------------------------
(* The registrations of a `download owner/name` are refused only because a *)
(* registry does not parse, and a registry does not parse only after two   *)
(* processes wrote it at once: nothing that commands one after another do, *)
(* or leave undone when they are killed, no registration another process   *)
(* overwrote and no binding an operator made or deleted has that effect.   *)
EnsureNeverRefused ==
    \A l \in Supported :
        /\ AnswerRegister(identities, l) = "rejected" => identities = Torn /\ overlapped
        /\ AnswerBind(bindings, ModelOf[l], l) = "rejected" => bindings = Torn /\ overlapped

(* A download that answers READY or ALREADY_DOWNLOADED for an artifact of  *)
(* known revision and digest leaves exactly that revision installed and    *)
(* recorded, while the head moves, other downloads run in the same         *)
(* directory and are killed, and published files are deleted.              *)
AcquiredRevision ==
    [][\A p \in Process :
         LET spec == proc[p].spec IN
         /\ ~At(p, "idle")
         /\ proc'[p].result \in {"ready", "already downloaded"}
         /\ spec.rev # None /\ spec.sha # None
         => /\ final'[Directory(spec)] = spec.rev
            /\ manifest'[Directory(spec)].rev = spec.rev]_vars
=============================================================================
