-------------------------- MODULE ManifestMigration --------------------------
(***************************************************************************)
(* migrate_model_store: every manifest that carries a repository as its    *)
(* model id is rewritten to the logical id, and its model directory        *)
(* renamed.  An exception that leaves the function ends the migration.     *)
(***************************************************************************)
EXTENDS ModelTree, Naturals

CONSTANTS NameOrder,      \* the place of a name in sorted()
          ArtifactOrder   \* the place of an artifact in sorted()

ASSUME MigrationAssumption ==
    /\ NameOrder \in [Name -> Nat]
    /\ ArtifactOrder \in [Artifact -> Nat]

VARIABLE migration  \* process -> where its migration is

migrationVars == <<migration>>

Migration ==
    [at : {"idle", "directory", "artifact", "rewrite", "replace", "rename"},
     names : SUBSET Name,           \* listed, and still to visit, as is the current one
     fd : Dir \cup {NoDir},         \* model_fd
     artifacts : SUBSET Artifact]   \* listed in model_fd, and still to visit

Idle == [at |-> "idle", names |-> {}, fd |-> NoDir, artifacts |-> {}]

MigrationTypeOK == migration \in [Process -> Migration]

MigrationInit == migration = [p \in Process |-> Idle]

Move(p, label) == migration' = [migration EXCEPT ![p].at = label]

First(listed, order) == CHOOSE x \in listed : \A y \in listed : order[x] <= order[y]

CurrentName(p) == First(migration[p].names, NameOrder)
CurrentArtifact(p) == First(migration[p].artifacts, ArtifactOrder)

NextOf(p) ==
    [migration EXCEPT ![p].at = "artifact", ![p].artifacts = @ \ {CurrentArtifact(p)}]

(* An uncaught OSError.                                                    *)
Abort(p) == migration' = [migration EXCEPT ![p] = Idle]

StartMigration(p) ==
    /\ migration[p].at = "idle"
    /\ migration' = [migration EXCEPT ![p] =
           [Idle EXCEPT !.at = "directory",
                        !.names = {n \in Name : tree[n] # NoDir}]]
    /\ UNCHANGED <<tree, dir>>

(* lstat, open and listdir of the next model directory.                    *)
OpenModel(p) ==
    LET d == tree[CurrentName(p)]
    IN  /\ migration[p].at = "directory"
        /\ migration[p].names # {}
        /\ IF d = NoDir
           THEN Abort(p)
           ELSE migration' = [migration EXCEPT
                    ![p].at = "artifact", ![p].fd = d,
                    ![p].artifacts = {a \in Artifact : dir[d][a].exists}]
        /\ UNCHANGED <<tree, dir>>

Report(p) ==
    /\ migration[p].at = "directory"
    /\ migration[p].names = {}
    /\ Abort(p)
    /\ UNCHANGED <<tree, dir>>

CloseModel(p) ==
    /\ migration[p].at = "artifact"
    /\ migration[p].artifacts = {}
    /\ migration' = [migration EXCEPT ![p].at = "directory", ![p].fd = NoDir,
                                      ![p].names = @ \ {CurrentName(p)}]
    /\ UNCHANGED <<tree, dir>>

Current(p) == dir[migration[p].fd][CurrentArtifact(p)]
Placed(p) == CurrentName(p) = "logical"

(* mutant: a rewritten manifest is done with, wherever it is.               *)
SkippedOnceRewritten(p) ==
    LET m == Current(p).manifest
    IN  \/ m.model \in {"none", "damaged", "logical"}
        \/ ~m.mapped
        \/ ~Placed(p) /\ tree["logical"] # NoDir

(* INVALID, UNMAPPED (as every converted or imported package is),          *)
(* UNCHANGED and CONFLICT leave everything as it is.                       *)
Skipped(p) ==
    LET m == Current(p).manifest
    IN  \/ m.model \in {"none", "damaged"}
        \/ ~m.mapped
        \/ m.model = "logical" /\ Placed(p)
        \/ ~Placed(p) /\ tree["logical"] # NoDir

(* A directory listed before a failed import removed it is not found.      *)
ReadManifest(p) ==
    /\ migration[p].at = "artifact"
    /\ migration[p].artifacts # {}
    /\ IF ~Current(p).exists THEN Abort(p)
       ELSE IF Skipped(p) THEN migration' = NextOf(p)
       ELSE Move(p, IF Current(p).manifest.model = "logical" THEN "rename" ELSE "rewrite")
    /\ UNCHANGED <<tree, dir>>

(* O_EXCL: a temporary file left by a crash stops every later migration.   *)
OpenRewrite(p) ==
    /\ migration[p].at = "rewrite"
    /\ IF Current(p).migrationPart
       THEN Abort(p) /\ UNCHANGED dir
       ELSE /\ With(migration[p].fd, CurrentArtifact(p),
                    [Current(p) EXCEPT !.migrationPart = TRUE])
            /\ Move(p, "replace")
    /\ UNCHANGED tree

(* The write fails and its temporary is removed; or that fails too, or the *)
(* replacement does, and it stays; or only the directory's fsync fails.    *)
RewriteFails(p) ==
    /\ migration[p].at = "replace"
    /\ \/ With(migration[p].fd, CurrentArtifact(p),
                [Current(p) EXCEPT !.migrationPart = FALSE])
       \/ UNCHANGED dir
       \/ With(migration[p].fd, CurrentArtifact(p),
                [Current(p) EXCEPT !.migrationPart = FALSE, !.manifest.model = "logical"])
    /\ Abort(p)
    /\ UNCHANGED tree

ReplaceManifest(p) ==
    /\ migration[p].at = "replace"
    /\ With(migration[p].fd, CurrentArtifact(p),
            [Current(p) EXCEPT !.migrationPart = FALSE, !.manifest.model = "logical"])
    /\ IF Placed(p) THEN migration' = NextOf(p) ELSE Move(p, "rename")
    /\ UNCHANGED tree

RenamableAsChecked(p) == tree[CurrentName(p)] # NoDir  \* mutant: replaces what is there

(* rename(2) replaces an empty directory, and no other.                    *)
Renamable(p) ==
    /\ tree[CurrentName(p)] # NoDir
    /\ \A a \in Artifact : ~At("logical", a).exists

RenameModel(p) ==
    /\ migration[p].at = "rename"
    /\ IF Renamable(p)
       THEN /\ tree' = [tree EXCEPT !["logical"] = tree[CurrentName(p)],
                                    ![CurrentName(p)] = NoDir]
            /\ migration' = NextOf(p)
       ELSE Abort(p) /\ UNCHANGED tree
    /\ UNCHANGED dir

MigrationStep(p) ==
    \/ OpenModel(p) \/ Report(p) \/ CloseModel(p) \/ ReadManifest(p)
    \/ OpenRewrite(p) \/ ReplaceManifest(p) \/ RenameModel(p)
=============================================================================
