------------------------------ MODULE Download ------------------------------
(***************************************************************************)
(* The acquisition of one artifact: DownloadPlanner.plan, then             *)
(* Downloader.download, then ModelStore.save_manifest, as                  *)
(* ModelAcquisitionService._plan_and_acquire runs them, by any number of   *)
(* CLI processes on one artifact directory, with network and disk faults,  *)
(* process crashes and the explicit deletions of ArtifactCleanup.          *)
(*                                                                         *)
(* The declared revision is not part of artifact_id, so requests for       *)
(* different revisions meet in the same directory and on the same `.part`. *)
(***************************************************************************)
EXTENDS ArtifactDirectory, FiniteSets

CONSTANTS Proc,        \* the processes that acquire
          Rev,         \* the declared revisions a request may carry
          Unpinned,    \* the revision of a request that declares none
          Checksums,   \* the values of "a sha256 is declared" to consider
          Size,        \* blocks in the complete file
          MaxFaults,   \* bound on faults, crashes and wrong blocks
          MaxCleanups, \* bound on operator deletions
          Junk         \* a block that belongs to no revision

ASSUME SizeAssumption == Size \in Nat \ {0}
ASSUME ChecksumAssumption == Checksums \subseteq BOOLEAN
ASSUME BoundAssumption == MaxFaults \in Nat /\ MaxCleanups \in Nat

VARIABLES proc,     \* the local state of each process's current call
          outcome,  \* how the last acquisition of each process ended
          faults, cleanups

budget == <<faults, cleanups>>
vars == <<dirVars, proc, outcome, budget>>

Artifact == [rev : Rev, sha : Checksums]

ASSUME ManifestAssumption == NoManifest \notin Artifact

(* The bytes the upstream repository holds for a revision.                 *)
Good(r) == [i \in 1..Size |-> <<r, i>>]

PC == {"idle", "probeFinal", "probePart", "openPart", "request", "reading",
       "received", "hashed", "linked", "published", "manifest", "cleanup"}

Outcome == {"none", "ready", "already_downloaded", "blocked",
            "planning_failed", "persistence_failed",
            "already_exists", "partial_exists", "partial_too_large",
            "partial_complete_unverified", "resume_not_supported",
            "range_not_satisfiable", "invalid_content_range", "http_error",
            "network_error", "size_mismatch", "checksum_mismatch",
            "filesystem_error"}

(* pc: the next step; want: the requested artifact; resumed: part_exists;  *)
(* created: created_part, the .part must be deleted on failure, as the     *)
(* inode it was created with; fd: the inode part_fd has open; offset:      *)
(* bytes_downloaded.                                                       *)
Call == [pc : PC, want : Artifact \cup {NoManifest}, resumed : BOOLEAN,
         created : Inode \cup {NoInode}, fd : Inode \cup {NoInode},
         offset : Nat]

Idle == [pc |-> "idle", want |-> NoManifest, resumed |-> FALSE,
         created |-> NoInode, fd |-> NoInode, offset |-> 0]

(* In particular bytes_downloaded counts no block that is not in the file  *)
(* part_fd has open, whoever else writes to that file.                     *)
TypeOK ==
    /\ entry \in [Name -> Inode \cup {NoInode}]
    /\ data \in [Inode -> Seq((Rev \X (1..Size)) \cup {Junk})]
    /\ manifest \in Artifact \cup {NoManifest}
    /\ manifestPart \in BOOLEAN
    /\ proc \in [Proc -> Call]
    /\ \A p \in Proc : proc[p].pc = "reading" =>
         proc[p].fd \in Inode /\ proc[p].offset <= Len(data[proc[p].fd])
    /\ outcome \in [Proc -> Outcome]
    /\ faults \in 0..MaxFaults
    /\ cleanups \in 0..MaxCleanups

Init ==
    /\ EmptyDirectory
    /\ proc = [p \in Proc |-> Idle]
    /\ outcome = [p \in Proc |-> "none"]
    /\ faults = 0 /\ cleanups = 0

Opened == {proc[p].fd : p \in Proc} \ {NoInode}

At(p, label) == proc[p].pc = label

Goto(p, label) ==
    proc' = [proc EXCEPT ![p].pc = label] /\ UNCHANGED outcome

(* The call returns and its locals are gone.                               *)
Return(p, result) ==
    /\ proc' = [proc EXCEPT ![p] = Idle]
    /\ outcome' = [outcome EXCEPT ![p] = result]

(* self._failure(...): the finally block still has to run.                 *)
Fail(p, result) ==
    /\ proc' = [proc EXCEPT ![p].pc = "cleanup"]
    /\ outcome' = [outcome EXCEPT ![p] = result]

Fault == faults < MaxFaults /\ faults' = faults + 1 /\ UNCHANGED cleanups

-----------------------------------------------------------------------------
(* ModelStore.inspect_manifest(verify=True) on the recorded artifact.      *)
Inspect ==
    CASE Exists("part") -> "downloading"
      [] ~Exists("part") /\ ~Exists("final") -> "not_downloaded"
      [] OTHER ->
           IF Len(Content("final")) # Size THEN "failed"
           ELSE IF ~manifest.sha THEN "downloaded"
           ELSE IF Content("final") = Good(manifest.rev) THEN "verified"
           ELSE "failed"

Registered == manifest # NoManifest

Healthy == Registered /\ Inspect \in {"downloaded", "verified"}

(* The status plan() gives a request.                                      *)
PlanStatus(a) ==
    IF Healthy
    THEN IF a.rev # Unpinned /\ manifest.rev # a.rev
         THEN "blocked" ELSE "already_downloaded"
    ELSE IF \/ Registered /\ Inspect = "failed"
            \/ ~Registered /\ Exists("final") /\ ~Exists("part")
         THEN "blocked"
         ELSE "ready"

(* Too little disk, or a disk that cannot be measured, is a fault.         *)
Plan(p) ==
    /\ At(p, "idle")
    /\ \E a \in Artifact :
         \/ /\ PlanStatus(a) = "ready"
            /\ proc' = [proc EXCEPT ![p].pc = "probeFinal", ![p].want = a]
            /\ outcome' = [outcome EXCEPT ![p] = "none"]
            /\ UNCHANGED budget
         \/ /\ PlanStatus(a) # "ready"
            /\ Return(p, PlanStatus(a))
            /\ UNCHANGED budget
         \/ /\ PlanStatus(a) = "ready"
            /\ Fault
            /\ \E s \in {"blocked", "planning_failed"} : Return(p, s)
    /\ UNCHANGED dirVars

-----------------------------------------------------------------------------
(* os.lstat of the final name, then of the .part.                          *)
ProbeFinal(p) ==
    /\ At(p, "probeFinal")
    /\ IF Exists("final") THEN Return(p, "already_exists")
                          ELSE Goto(p, "probePart")
    /\ UNCHANGED <<dirVars, budget>>

ProbePart(p) ==
    /\ At(p, "probePart")
    /\ proc' = [proc EXCEPT ![p].pc = "openPart",
                            ![p].resumed = Exists("part")]
    /\ UNCHANGED <<dirVars, outcome, budget>>

(* The .part was seen: open it for appending and measure it.               *)
OpenExistingRefusing(p) ==  \* mutant: a complete .part is always refused
    /\ At(p, "openPart") /\ proc[p].resumed
    /\ IF ~Exists("part") \/ Len(Content("part")) >= Size
       THEN Fail(p, "filesystem_error")
       ELSE /\ proc' = [proc EXCEPT ![p].pc = "request",
                                    ![p].fd = entry["part"],
                                    ![p].offset = Len(Content("part"))]
            /\ UNCHANGED outcome
    /\ UNCHANGED <<dirVars, budget>>

OpenExisting(p) ==
    /\ At(p, "openPart") /\ proc[p].resumed
    /\ IF ~Exists("part")
       THEN Fail(p, "filesystem_error")
       ELSE LET n == Len(Content("part"))
                refused == \/ n > Size
                           \/ n = Size /\ ~proc[p].want.sha
            IN /\ proc' = [proc EXCEPT
                    ![p].pc = IF refused THEN "cleanup" ELSE "request",
                    ![p].fd = entry["part"],
                    ![p].offset = n]
               /\ outcome' = [outcome EXCEPT ![p] =
                    IF ~refused THEN @
                    ELSE IF n > Size THEN "partial_too_large"
                    ELSE "partial_complete_unverified"]
    /\ UNCHANGED <<dirVars, budget>>

OpenNewReplacing(p) ==  \* mutant: an existing .part is deleted first
    /\ At(p, "openPart") /\ ~proc[p].resumed
    /\ \E i \in Free(Opened) :
         /\ Create("part", i)
         /\ proc' = [proc EXCEPT ![p].pc = "request", ![p].fd = i,
                                 ![p].created = i]
    /\ UNCHANGED <<manifest, manifestPart, outcome, budget>>

OpenNew(p) ==
    /\ At(p, "openPart") /\ ~proc[p].resumed
    /\ IF Exists("part")
       THEN Fail(p, "partial_exists") /\ UNCHANGED dirVars
       ELSE \E i \in Free(Opened) :
              /\ Create("part", i)
              /\ proc' = [proc EXCEPT ![p].pc = "request", ![p].fd = i,
                                      ![p].created = i]
              /\ UNCHANGED <<manifest, manifestPart, outcome>>
    /\ UNCHANGED budget

(* A .part of full size is only verified; otherwise GET, with a Range      *)
(* header when resuming, and a 206 that must match the local offset.       *)
OnlyVerify(p) == proc[p].resumed /\ proc[p].offset = Size

RequestFailures(p) ==
    {"http_error", "network_error"} \cup
    IF proc[p].resumed
    THEN {"resume_not_supported", "range_not_satisfiable",
          "invalid_content_range"}
    ELSE {}

Request(p) ==
    /\ At(p, "request")
    /\ \/ Goto(p, IF OnlyVerify(p) THEN "received" ELSE "reading")
          /\ UNCHANGED budget
       \/ /\ ~OnlyVerify(p)
          /\ Fault
          /\ \E s \in RequestFailures(p) : Fail(p, s)
    /\ UNCHANGED dirVars

(* One chunk of the response body: the bytes the upstream holds at this    *)
(* offset for the requested revision, or, as a fault, other bytes.  The    *)
(* size is not looked at before the body ends: a response longer than      *)
(* declared is written as long as it goes on.                              *)
NextBlock(p) == IF proc[p].offset < Size
                THEN <<proc[p].want.rev, proc[p].offset + 1>> ELSE Junk

WriteBlock(p, block) ==
    /\ data' = [data EXCEPT ![proc[p].fd] =
                  Written(@, proc[p].resumed, proc[p].offset, block)]
    /\ UNCHANGED <<entry, manifest, manifestPart>>

ReadChunkRequested(p) ==  \* mutant: counts the bytes asked for, not read
    /\ At(p, "reading")
    /\ \/ proc[p].offset < Size /\ WriteBlock(p, NextBlock(p)) /\ UNCHANGED budget
       \/ Fault /\ WriteBlock(p, Junk)
    /\ proc' = [proc EXCEPT ![p].offset = @ + 2]
    /\ UNCHANGED outcome

ReadChunk(p) ==
    /\ At(p, "reading")
    /\ \/ /\ proc[p].offset < Size
          /\ WriteBlock(p, NextBlock(p))
          /\ UNCHANGED budget
       \/ Fault /\ WriteBlock(p, Junk)
    /\ proc' = [proc EXCEPT ![p].offset = @ + 1]
    /\ UNCHANGED outcome

(* A read, write or fsync error.  A write may have put bytes in the file   *)
(* that bytes_downloaded does not count.                                   *)
Interrupt(p) ==
    /\ At(p, "reading")
    /\ Fault
    /\ Fail(p, "network_error")
    /\ \/ UNCHANGED dirVars
       \/ WriteBlock(p, NextBlock(p))

(* An error of a local system call: in the probes and the open, while the  *)
(* .part is read back (created_part is cleared first), or after the link,  *)
(* in the unlink or in the fsync that follows it.                          *)
DiskError(p) ==
    /\ proc[p].pc \in {"probeFinal", "probePart", "openPart", "received", "linked"}
    /\ At(p, "received") => proc[p].want.sha
    /\ Fault
    /\ proc' = [proc EXCEPT ![p].pc = "cleanup",
                            ![p].created = IF At(p, "received") THEN NoInode ELSE @]
    /\ outcome' = [outcome EXCEPT ![p] = "filesystem_error"]
    /\ \/ UNCHANGED entry
       \/ At(p, "linked") /\ Unlink("part")
    /\ UNCHANGED <<data, manifest, manifestPart>>

(* End of the body, fsync, and the size check.  Ending early is a fault.   *)
EndOfBodyRetrying(p) ==  \* mutant: asks again until the size is right
    /\ At(p, "reading")
    /\ IF proc[p].offset < Size THEN Fault ELSE UNCHANGED budget
    /\ Goto(p, IF proc[p].offset = Size THEN "received" ELSE "request")
    /\ UNCHANGED dirVars

EndOfBody(p) ==
    /\ At(p, "reading")
    /\ IF proc[p].offset < Size THEN Fault ELSE UNCHANGED budget
    /\ IF proc[p].offset = Size THEN Goto(p, "received")
                                ELSE Fail(p, "size_mismatch")
    /\ UNCHANGED dirVars

(* _sha256_partial re-opens the .part by name.  A .part that fails the     *)
(* check is kept: created_part is cleared before returning.                *)
HashUnchecked(p) ==  \* mutant: the digest is not compared
    /\ At(p, "received")
    /\ Goto(p, "hashed")
    /\ UNCHANGED <<dirVars, budget>>

HashNewOnly(p) ==  \* mutant: bytes found in the .part are trusted
    /\ At(p, "received")
    /\ IF \/ ~proc[p].want.sha \/ proc[p].resumed
          \/ Exists("part") /\ Content("part") = Good(proc[p].want.rev)
       THEN Goto(p, "hashed") ELSE Fail(p, "checksum_mismatch")
    /\ UNCHANGED <<dirVars, budget>>

Hash(p) ==
    /\ At(p, "received")
    /\ IF \/ ~proc[p].want.sha
          \/ Exists("part") /\ Content("part") = Good(proc[p].want.rev)
       THEN Goto(p, "hashed")
       ELSE /\ proc' = [proc EXCEPT ![p].pc = "cleanup",
                                    ![p].created = NoInode]
            /\ outcome' = [outcome EXCEPT ![p] =
                 IF Exists("part") THEN "checksum_mismatch"
                                   ELSE "filesystem_error"]
    /\ UNCHANGED <<dirVars, budget>>

(* os.close(part_fd), then os.link(part, final), which never replaces.     *)
AfterLink(p, label, result) ==
    /\ proc' = [proc EXCEPT ![p].pc = label, ![p].fd = NoInode]
    /\ outcome' = [outcome EXCEPT ![p] = result]

PublishReplacing(p) ==  \* mutant: os.replace instead of os.link
    /\ At(p, "hashed") /\ Exists("part")
    /\ Link
    /\ AfterLink(p, "linked", outcome[p])
    /\ UNCHANGED <<data, manifest, manifestPart, budget>>

PublishLink(p) ==
    /\ At(p, "hashed")
    /\ \/ /\ ~Exists("part")
          /\ AfterLink(p, "cleanup", "filesystem_error")
          /\ UNCHANGED <<dirVars, budget>>
       \/ /\ Exists("part") /\ Exists("final")
          /\ AfterLink(p, "cleanup", "already_exists")
          /\ UNCHANGED <<dirVars, budget>>
       \/ /\ Exists("part") /\ ~Exists("final")
          /\ Link
          /\ AfterLink(p, "linked", outcome[p])
          /\ UNCHANGED <<data, manifest, manifestPart, budget>>
       \/ /\ Fault
          /\ AfterLink(p, "cleanup", "filesystem_error")
          /\ UNCHANGED dirVars

(* os.unlink(part) and fsync of the directory.                             *)
PublishKeeping(p) ==  \* mutant: the .part is not unlinked
    /\ At(p, "linked")
    /\ proc' = [proc EXCEPT ![p].pc = "published", ![p].created = NoInode]
    /\ UNCHANGED <<dirVars, outcome, budget>>

PublishUnlink(p) ==
    /\ At(p, "linked")
    /\ IF Exists("part")
       THEN /\ Unlink("part")
            /\ proc' = [proc EXCEPT ![p].pc = "published",
                                    ![p].created = NoInode]
            /\ UNCHANGED outcome
       ELSE Fail(p, "filesystem_error") /\ UNCHANGED entry
    /\ UNCHANGED <<data, manifest, manifestPart, budget>>

(* The finally block: close part_fd and delete, by name, a .part this      *)
(* process created.                                                        *)
CleanUp(p) ==
    /\ At(p, "cleanup")
    /\ Return(p, outcome[p])
    /\ IF proc[p].created # NoInode THEN Unlink("part") ELSE UNCHANGED entry
    /\ UNCHANGED <<data, manifest, manifestPart, budget>>

-----------------------------------------------------------------------------
(* ModelStore._write_manifest: an exclusive manifest.json.part, removed    *)
(* when writing it fails, then os.replace.                                 *)
OpenManifest(p) ==
    /\ At(p, "published")
    /\ \/ /\ ~manifestPart
          /\ Goto(p, "manifest")
          /\ manifestPart' = TRUE
          /\ UNCHANGED budget
       \/ /\ IF manifestPart THEN UNCHANGED budget ELSE Fault
          /\ Return(p, "persistence_failed")
          /\ UNCHANGED manifestPart
    /\ UNCHANGED <<entry, data, manifest>>

WriteManifest(p) ==
    /\ At(p, "manifest")
    /\ \/ /\ ManifestSaved(proc[p].want)
          /\ Return(p, "ready")
          /\ UNCHANGED budget
       \/ /\ ManifestFails(proc[p].want)
          /\ Fault
          /\ Return(p, "persistence_failed")
    /\ UNCHANGED <<entry, data>>

-----------------------------------------------------------------------------
(* The process dies: its descriptors close, nothing else is undone.        *)
Crash(p) ==
    /\ ~At(p, "idle")
    /\ Fault
    /\ Return(p, "none")
    /\ UNCHANGED dirVars

(* ArtifactCleanup.execute(DELETE_PARTIAL | DELETE_FINAL), an operator's   *)
(* explicit request.                                                       *)
Cleanup(name) ==
    /\ cleanups < MaxCleanups /\ cleanups' = cleanups + 1
    /\ Exists(name)
    /\ Unlink(name)
    /\ UNCHANGED <<data, manifest, manifestPart, proc, outcome, faults>>

Step(p) ==
    \/ ProbeFinal(p) \/ ProbePart(p) \/ OpenExisting(p) \/ OpenNew(p)
    \/ Request(p) \/ ReadChunk(p) \/ EndOfBody(p)
    \/ Hash(p) \/ PublishLink(p) \/ PublishUnlink(p) \/ CleanUp(p)
    \/ OpenManifest(p) \/ WriteManifest(p)

Next ==
    \/ \E p \in Proc :
         Plan(p) \/ Step(p) \/ Interrupt(p) \/ DiskError(p) \/ Crash(p)
    \/ \E name \in Name : Cleanup(name)

Spec == Init /\ [][Next]_vars

(* Every step of a call is local or waits for a read with a timeout.  But  *)
(* whether a body that is longer than declared ever ends is the server's   *)
(* affair alone, so nothing is assumed of it: MaxFaults bounds how much of *)
(* it a run looks at, not how long it lasts.  An operator keeps asking for *)
(* the artifact.                                                           *)
Overlong(p) == At(p, "reading") /\ proc[p].offset > Size

Fairness == \A p \in Proc : WF_vars(Step(p) /\ ~Overlong(p)) /\ WF_vars(Plan(p))

FairSpec == Spec /\ Fairness

-----------------------------------------------------------------------------
(* While acquisitions of one artifact do not overlap, the final name       *)
(* denotes the complete file of one revision: a crash, an early end, wrong *)
(* bytes or a .part left by another revision never reaches it.  This is    *)
(* what the .part, the size and digest checks and the link at the end of   *)
(* _download_to_destination are for.                                       *)
FinalIsWhole ==
    Exists("final") => \E r \in Rev : Content("final") = Good(r)

(* A manifest always describes the file beside it: from the moment it is   *)
(* saved inspect_manifest reports the artifact available, whatever the     *)
(* requests, revisions and faults that follow, until an operator deletes.  *)
(* For acquisitions that do not overlap.                                   *)
RegisteredIsHealthy == Registered /\ cleanups = 0 => Healthy

(* Nobody's download replaces a published file, whoever wins the race to   *)
(* publish (os.link, not os.replace).                                      *)
FinalNeverReplaced ==
    [][Exists("final") => entry'["final"] \in {entry["final"], NoInode}]_entry

(* Until something is published or an operator deletes, the .part a        *)
(* process will delete by name when it fails is the file it created,       *)
(* although other processes open, append to, verify and try to publish     *)
(* that same name, fail and crash.  (Once another process has published,   *)
(* the name may be that of a third one's new .part, whose download can     *)
(* only end with "already exists".)                                        *)
OnlyOwnPart ==
    ~Exists("final") /\ cleanups = 0 =>
        \A p \in Proc : proc[p].created # NoInode
            => entry["part"] = proc[p].created

(* Every acquisition ends, whatever fails and wherever the response stops, *)
(* but for one case: a server that sends without end keeps the call for    *)
(* good, since the size is compared after the loop (downloader.py:315).    *)
CallReturns ==
    \A p \in Proc : ~At(p, "idle") ~> (At(p, "idle") \/ []Overlong(p))

(* An interrupted transfer is completed by asking again: from a directory  *)
(* that holds nothing, or a .part with the revision's right bytes so far,  *)
(* requests that meet no further fault end with the artifact registered,   *)
(* unless somebody asks for something else.  Excepted is the .part that is *)
(* complete when no sha256 is declared to verify it with: it is refused.   *)
IsPrefix(content, whole) ==
    /\ Len(content) <= Len(whole)
    /\ \A i \in 1..Len(content) : content[i] = whole[i]

Recoverable(a) ==
    /\ ~Exists("final") /\ ~Registered /\ ~manifestPart
    /\ Exists("part") => /\ IsPrefix(Content("part"), Good(a.rev))
                         /\ Len(Content("part")) = Size => a.sha
    /\ \A p \in Proc : At(p, "idle")

SomethingElseWanted(a) ==
    \E p \in Proc : proc[p].want \notin {a, NoManifest}

RecoverableCompletes ==
    \A a \in Artifact :
        (faults = MaxFaults /\ cleanups = MaxCleanups /\ Recoverable(a))
            ~> (Healthy \/ SomethingElseWanted(a))

(* The directory as its readers see it implements WriteOnceArtifact: what  *)
(* gets the final name is the whole file of a revision, stays there until  *)
(* an operator deletes it, and is what the manifest then records.          *)
PublishedRevision ==
    IF ~Exists("final") THEN NoManifest
    ELSE IF \E r \in Rev : Content("final") = Good(r)
         THEN CHOOSE r \in Rev : Content("final") = Good(r)
         ELSE Junk

WriteOnce == INSTANCE WriteOnceArtifact WITH
                 Nothing <- NoManifest,
                 stored <- PublishedRevision,
                 recorded <- IF Registered THEN manifest.rev ELSE NoManifest,
                 deleted <- cleanups > 0

WriteOnceSpec == WriteOnce!Spec
=============================================================================
