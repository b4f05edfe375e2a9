---------------------------- MODULE LocalImport ----------------------------
(***************************************************************************)
(* LocalArtifactImporter.import_artifact: processes importing one local    *)
(* file under one label, which meet in the directory                       *)
(* <label>/<content_id>.  Unlike a download, an import takes over whatever *)
(* it finds there: it deletes the final file and the .part, copies the     *)
(* source again, publishes by link and registers the manifest, and on      *)
(* failure removes what it published, recognised by its inode number.      *)
(***************************************************************************)
EXTENDS ArtifactDirectory, FiniteSets

CONSTANTS Proc, Size, MaxFaults,
          Registered,  \* the one manifest this directory can hold
          Junk         \* a block the source did not hold when it was hashed

ASSUME SizeAssumption == Size \in Nat \ {0}
ASSUME BoundAssumption == MaxFaults \in Nat
ASSUME RegisteredAssumption == Registered # NoManifest

VARIABLES proc,    \* the local state of each process's current import
          outcome, \* how the last import of each process ended
          faults

vars == <<dirVars, proc, outcome, faults>>

(* The source file: content_id is the digest of exactly this.              *)
Source == [i \in 1..Size |-> i]

PC == {"idle", "seeFinal", "dropFinal", "seePart", "dropPart", "create",
       "copying", "digest", "identify", "link", "linked", "published",
       "manifest", "discardPart", "match", "remove"}

(* copied: bytes written; identity: the inode of the .part that was linked *)
Import == [pc : PC, fd : Inode \cup {NoInode}, copied : 0..Size,
           identity : Inode \cup {NoInode}]

Idle == [pc |-> "idle", fd |-> NoInode, copied |-> 0, identity |-> NoInode]

TypeOK ==
    /\ entry \in [Name -> Inode \cup {NoInode}]
    /\ data \in [Inode -> Seq((1..Size) \cup {Junk})]
    /\ manifest \in {Registered, NoManifest}
    /\ manifestPart \in BOOLEAN
    /\ proc \in [Proc -> Import]
    /\ outcome \in [Proc -> {"none", "imported", "reused", "failed"}]
    /\ faults \in 0..MaxFaults

Init ==
    /\ EmptyDirectory
    /\ proc = [p \in Proc |-> Idle]
    /\ outcome = [p \in Proc |-> "none"]
    /\ faults = 0

Opened == {proc[p].fd : p \in Proc} \ {NoInode}

At(p, label) == proc[p].pc = label

Goto(p, label) ==
    proc' = [proc EXCEPT ![p].pc = label] /\ UNCHANGED outcome

Return(p, result) ==
    /\ proc' = [proc EXCEPT ![p] = Idle]
    /\ outcome' = [outcome EXCEPT ![p] = result]

Fault == faults < MaxFaults /\ faults' = faults + 1

(* Every error of _copy_atomically ends by deleting the .part by name.     *)
GiveUp(p) == Goto(p, "discardPart")

-----------------------------------------------------------------------------
(* find_by_content_id: a verified artifact with these bytes is reused.     *)
Managed ==
    /\ manifest = Registered
    /\ ~Exists("part") /\ Exists("final") /\ Content("final") = Source

Start(p) ==
    /\ At(p, "idle")
    /\ IF Managed THEN Return(p, "reused") ELSE Goto(p, "seeFinal")
    /\ UNCHANGED <<dirVars, faults>>

(* for name in (final, part): lstat, then unlink what is there.            *)
See(p, name, from, drop, next) ==
    /\ At(p, from)
    /\ Goto(p, IF Exists(name) THEN drop ELSE next)
    /\ UNCHANGED <<dirVars, faults>>

Drop(p, name, from, next) ==
    /\ At(p, from)
    /\ IF Exists(name)
       THEN Unlink(name) /\ Goto(p, next)
       ELSE GiveUp(p) /\ UNCHANGED entry
    /\ UNCHANGED <<data, manifest, manifestPart, faults>>

ClearPartOnly(p) ==  \* mutant: a final file left behind is kept
    \/ See(p, "part", "seeFinal", "dropPart", "create")
    \/ Drop(p, "part", "dropPart", "create")

ClearDirectory(p) ==
    \/ See(p, "final", "seeFinal", "dropFinal", "seePart")
    \/ Drop(p, "final", "dropFinal", "seePart")
    \/ See(p, "part", "seePart", "dropPart", "create")
    \/ Drop(p, "part", "dropPart", "create")

CreatePart(p) ==
    /\ At(p, "create")
    /\ IF Exists("part")
       THEN GiveUp(p) /\ UNCHANGED dirVars
       ELSE /\ \E i \in Free(Opened) :
                 /\ Create("part", i)
                 /\ proc' = [proc EXCEPT ![p].pc = "copying", ![p].fd = i]
            /\ UNCHANGED <<manifest, manifestPart, outcome>>
    /\ UNCHANGED faults

(* One chunk; the source may have changed since it was hashed.             *)
CopyChunk(p) ==
    /\ At(p, "copying") /\ proc[p].copied < Size
    /\ \E block \in {proc[p].copied + 1, Junk} :
         /\ IF block = Junk THEN Fault ELSE UNCHANGED faults
         /\ data' = [data EXCEPT ![proc[p].fd] =
                       Written(@, FALSE, proc[p].copied, block)]
    /\ proc' = [proc EXCEPT ![p].copied = @ + 1]
    /\ UNCHANGED <<entry, manifest, manifestPart, outcome>>

(* An error of any call, or a source that ended early.  Until the link has *)
(* succeeded there is no published_identity.                               *)
CopyFails(p) ==
    /\ proc[p].pc \in PC \ {"idle", "published", "manifest", "discardPart",
                            "match", "remove"}
    /\ Fault
    /\ proc' = [proc EXCEPT ![p].pc = "discardPart",
                            ![p].identity = IF At(p, "linked") THEN @ ELSE NoInode]
    /\ UNCHANGED <<dirVars, outcome>>

CopyDone(p) ==
    /\ At(p, "copying") /\ proc[p].copied = Size
    /\ proc' = [proc EXCEPT ![p].pc = "digest", ![p].fd = NoInode]
    /\ UNCHANGED <<dirVars, outcome, faults>>

(* _partial_digest and the stat that gives the identity open by name.      *)
DigestUnchecked(p) ==  \* mutant: the copy is not compared with content_id
    /\ At(p, "digest")
    /\ Goto(p, "identify")
    /\ UNCHANGED <<dirVars, faults>>

Digest(p) ==
    /\ At(p, "digest")
    /\ IF Exists("part") /\ Content("part") = Source
       THEN Goto(p, "identify") ELSE GiveUp(p)
    /\ UNCHANGED <<dirVars, faults>>

Identify(p) ==
    /\ At(p, "identify")
    /\ IF Exists("part")
       THEN proc' = [proc EXCEPT ![p].pc = "link",
                                 ![p].identity = entry["part"]]
            /\ UNCHANGED outcome
       ELSE GiveUp(p)
    /\ UNCHANGED <<dirVars, faults>>

(* published_identity is only set once the link has succeeded.             *)
PublishLink(p) ==
    /\ At(p, "link")
    /\ IF Exists("part") /\ ~Exists("final")
       THEN /\ Link
            /\ Goto(p, "linked")
       ELSE /\ proc' = [proc EXCEPT ![p].pc = "discardPart",
                                    ![p].identity = NoInode]
            /\ UNCHANGED <<entry, outcome>>
    /\ UNCHANGED <<data, manifest, manifestPart, faults>>

PublishUnlink(p) ==
    /\ At(p, "linked")
    /\ IF Exists("part")
       THEN Unlink("part") /\ Goto(p, "published")
       ELSE GiveUp(p) /\ UNCHANGED entry
    /\ UNCHANGED <<data, manifest, manifestPart, faults>>

-----------------------------------------------------------------------------
(* save_manifest, as in Download; a failure takes the publication back.    *)
OpenManifest(p) ==
    /\ At(p, "published")
    /\ \/ /\ ~manifestPart
          /\ Goto(p, "manifest")
          /\ manifestPart' = TRUE
          /\ UNCHANGED faults
       \/ /\ IF manifestPart THEN UNCHANGED faults ELSE Fault
          /\ Goto(p, "match")
          /\ UNCHANGED manifestPart
    /\ UNCHANGED <<entry, data, manifest>>

WriteManifest(p) ==
    /\ At(p, "manifest")
    /\ \/ /\ ManifestSaved(Registered)
          /\ Return(p, "imported")
          /\ UNCHANGED faults
       \/ /\ ManifestFails(Registered)
          /\ Fault
          /\ Goto(p, "match")
    /\ UNCHANGED <<entry, data>>

-----------------------------------------------------------------------------
(* _discard(part), whose errors are ignored, then _discard_published when  *)
(* something was published.                                                *)
DiscardPart(p) ==
    /\ At(p, "discardPart")
    /\ \/ Unlink("part") /\ UNCHANGED faults
       \/ UNCHANGED entry /\ Fault
    /\ IF proc[p].identity = NoInode THEN Return(p, "failed")
                                     ELSE Goto(p, "match")
    /\ UNCHANGED <<data, manifest, manifestPart>>

(* _discard_published / _remove_published_artifact: stat the final name,   *)
(* compare the inode number, unlink the name.                              *)
MatchPublished(p) ==
    /\ At(p, "match")
    /\ IF entry["final"] = proc[p].identity
       THEN Goto(p, "remove") ELSE Return(p, "failed")
    /\ UNCHANGED <<dirVars, faults>>

RemovePublished(p) ==
    /\ At(p, "remove")
    /\ Unlink("final")
    /\ Return(p, "failed")
    /\ UNCHANGED <<data, manifest, manifestPart, faults>>

TakeBackFails(p) ==
    /\ proc[p].pc \in {"match", "remove"}
    /\ Fault
    /\ Return(p, "failed")
    /\ UNCHANGED dirVars

Crash(p) ==
    /\ ~At(p, "idle")
    /\ Fault
    /\ Return(p, "none")
    /\ UNCHANGED dirVars

Step(p) ==
    \/ ClearDirectory(p) \/ CreatePart(p) \/ CopyChunk(p) \/ CopyDone(p)
    \/ Digest(p) \/ Identify(p) \/ PublishLink(p) \/ PublishUnlink(p)
    \/ OpenManifest(p) \/ WriteManifest(p)
    \/ DiscardPart(p) \/ MatchPublished(p) \/ RemovePublished(p)

Next ==
    \E p \in Proc :
      Start(p) \/ Step(p) \/ CopyFails(p) \/ TakeBackFails(p) \/ Crash(p)

Spec == Init /\ [][Next]_vars

(* An import runs to its end, and an operator keeps importing the file.    *)
Fairness == \A p \in Proc : WF_vars(Step(p)) /\ WF_vars(Start(p))

FairSpec == Spec /\ Fairness

-----------------------------------------------------------------------------
(* While imports do not overlap, a file with the final name is complete    *)
(* even before it is registered, whatever failed, crashed or changed the   *)
(* source between hashing and copying.                                     *)
PublishedIsComplete == Exists("final") => Content("final") = Source

(* An interrupted import is recoverable: once nothing fails any more,      *)
(* importing again ends with the artifact managed, unless the interruption *)
(* left manifest.json.part.  For imports that do not overlap.              *)
RecoverableUnlessManifestPart ==
    (faults = MaxFaults /\ ~manifestPart /\ \A p \in Proc : At(p, "idle"))
        ~> Managed
=============================================================================
