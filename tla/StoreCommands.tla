---------------------------- MODULE StoreCommands ----------------------------
(***************************************************************************)
(* The commands that write whole directories: `convert`, `import-openvino` *)
(* and `train`, and the manifest migration.  Every process runs one of     *)
(* them at a time, and may be killed in the middle of it.                  *)
(***************************************************************************)
EXTENDS ManifestMigration, PackageRegistration, AdapterTraining

CONSTANTS MaxPackages,  \* bound: conversions and imports started
          MaxCrashes,   \* bound: processes killed
          Scene         \* bound: legacy stores, and which commands the processes run on them

ASSUME CommandAssumption ==
    /\ Trainer = Process
    /\ MaxPackages \in Nat /\ MaxCrashes \in Nat
    /\ Scene \subseteq [manifests : [Downloaded -> Manifest],
                        cast : [Process -> SUBSET {"migrate", "convert", "import", "train"}]]

VARIABLES packages, crashes,  \* what is left of the two bounds
          cast               \* the commands each process runs

treeVars == <<tree, dir>>
vars == <<treeVars, migrationVars, packageVars, trainingVars, packages, crashes, cast>>

TypeOK ==
    /\ TreeTypeOK /\ MigrationTypeOK /\ PackageTypeOK /\ TrainingTypeOK
    /\ packages \in 0 .. MaxPackages
    /\ crashes \in 0 .. MaxCrashes
    /\ \E s \in Scene : cast = s.cast

Init ==
    /\ \E s \in Scene : TreeInit(s.manifests) /\ cast = s.cast
    /\ MigrationInit /\ PackageInit /\ TrainingInit
    /\ (\A p \in Process : "train" \notin cast[p]) => output = "absent"
    /\ packages = MaxPackages
    /\ crashes = MaxCrashes

Free(p) == migration[p] = Idle /\ package[p] = IdlePackage /\ training[p] = "idle"

StartMigrate(p) ==
    /\ "migrate" \in cast[p] /\ Free(p)
    /\ StartMigration(p)
    /\ UNCHANGED <<packageVars, trainingVars, packages, crashes, cast>>

StartPackage(p) ==
    /\ Free(p)
    /\ packages > 0
    /\ packages' = packages - 1
    /\ \/ "convert" \in cast[p] /\ \E v \in ExportContent : StartExport(p, v)
       \/ "import" \in cast[p] /\ \E n \in ImportName : StartImport(p, n)
    /\ UNCHANGED <<migrationVars, trainingVars, crashes, cast>>

StartTrain(p) ==
    /\ "train" \in cast[p] /\ Free(p)
    /\ \E r \in Request : StartTraining(p, r)
    /\ UNCHANGED <<treeVars, migrationVars, packageVars, packages, crashes, cast>>

Migrate(p) ==
    /\ MigrationStep(p) \/ RewriteFails(p)
    /\ UNCHANGED <<packageVars, trainingVars, packages, crashes, cast>>

WritePackage(p) == PackageStep(p) /\ UNCHANGED <<migrationVars, trainingVars, packages, crashes, cast>>

Train(p) ==
    /\ TrainingStep(p)
    /\ UNCHANGED <<treeVars, migrationVars, packageVars, packages, crashes, cast>>

User ==
    /\ \/ ChangeSource /\ UNCHANGED trainingVars
       \/ (\E p \in Process : "train" \in cast[p]) /\ UserWrites /\ UNCHANGED <<treeVars, packageVars>>
    /\ UNCHANGED <<migrationVars, packages, crashes, cast>>

(* The process is killed: what it wrote stays.                             *)
Crash(p) ==
    /\ ~Free(p)
    /\ crashes > 0
    /\ crashes' = crashes - 1
    /\ migration' = [migration EXCEPT ![p] = Idle]
    /\ package' = [package EXCEPT ![p] = IdlePackage]
    /\ training' = [training EXCEPT ![p] = "idle"]
    /\ UNCHANGED <<treeVars, source, imported, output, staging, packages, cast>>

Next ==
    \/ \E p \in Process :
           StartMigrate(p) \/ StartPackage(p) \/ StartTrain(p)
           \/ Migrate(p) \/ WritePackage(p) \/ Train(p) \/ Crash(p)
    \/ User

Spec == Init /\ [][Next]_vars

(* A command that runs goes on, and the operator repeats the migration.    *)
FairSpec ==
    /\ Spec
    /\ \A p \in Process :
           /\ WF_vars(MigrationStep(p) /\ Migrate(p))
           /\ WF_vars(WritePackage(p))
           /\ WF_vars(Train(p))
           /\ SF_vars(StartMigrate(p))

-----------------------------------------------------------------------------

(* A package whose import was reported as a success stays, whole, whatever *)
(* other imports of it lose the race or fail, are killed, or clean up, and *)
(* whatever the migration renames (conversion.py: "to avoid silent         *)
(* overwrites of preexisting content").                                    *)
ImportedIsKept ==
    \A v \in imported : \E n \in Name : Inspected(n, v) = "verified"

(* No other command loses what is in the store: an artifact directory that *)
(* has a name keeps one, and a manifest it registered stays registered,    *)
(* though the migration looks at its target's name before it renames and   *)
(* others make directories in between.  Only a failed import removes       *)
(* anything, and nothing but what has its own artifact id.                 *)
Kept(before, after) ==
    after.exists /\ (before.manifest.model \in Name => after.manifest.model \in Name)

NothingIsLost ==
    [][\A n \in Name, a \in Artifact :
         At(n, a).exists =>
            \/ \E m \in Name : tree'[m] = tree[n] /\ Kept(At(n, a), At(m, a)')
            \/ \E p \in Process : package[p].import /\ package[p].at = "failed"
                                   /\ package[p].artifact = a]_vars

(* Repeated, the migration brings every mapped manifest under its logical  *)
(* name and id and leaves it there, however migrations, kills, conversions *)
(* and imports interleave.  Three exceptions: the rewrite fails for ever;  *)
(* the logical name is taken by something else; or a rewrite that was      *)
(* killed, or could not clean up, left its temporary beside a manifest     *)
(* still to be rewritten, which stops every later migration right there,   *)
(* before what it would visit after it.                                    *)
Settled(a) == At("logical", a).manifest.model = "logical"

Taken(a) == At("legacy", a).exists /\ tree["logical"] # NoDir

Rewriting(p, d, a) ==
    migration[p].at = "replace" /\ migration[p].fd = d /\ CurrentArtifact(p) = a

StoppedBefore(a) ==
    \E n \in Name, b \in Downloaded :
        /\ At(n, a).exists /\ ArtifactOrder[b] <= ArtifactOrder[a]
        /\ At(n, b).migrationPart /\ At(n, b).manifest.model # "logical"
        /\ \A p \in Process : ~Rewriting(p, tree[n], b)

Migratable(a) ==
    \E n \in Name :
        /\ At(n, a).manifest.mapped /\ At(n, a).manifest.model \in Name
        /\ n = "logical" => At(n, a).manifest.model # "logical"

MigrationConverges ==
    \/ []<><<\E p \in Process : RewriteFails(p)>>_vars
    \/ \A a \in Downloaded :
          [](Migratable(a) => <>[](Settled(a) \/ Taken(a) \/ StoppedBefore(a)))

(* train: a destination receives one run's whole adapter or nothing; what  *)
(* the user or another run put there meanwhile is never replaced (the      *)
(* destination is checked before a run that may take hours).               *)
AdapterIsOneRuns ==
    [][output' # output /\ output' \in Process
           => output \in {"absent", "empty"} /\ staging[output'] = "whole"]_vars
=============================================================================
