------------------------ MODULE StoreCommands_proofs -------------------------
(***************************************************************************)
(* What the commands leave in the store, for any number of processes that  *)
(* run them, and crashes at any point: what `train` publishes, beside a    *)
(* user who writes to the destination, and what `import-openvino`          *)
(* reported as imported, beside other imports, conversions and migrations. *)
(***************************************************************************)
EXTENDS StoreCommands, TLAPS, WellFoundedInduction

-----------------------------------------------------------------------------
(* What training publishes.                                                *)

(* A run that is about to publish has its whole adapter, in a staging      *)
(* directory no other run touches.                                         *)
StagedWhole == \A p \in Process : training[p] = "publish" => staging[p] = "whole"

IInv == TrainingTypeOK /\ StagedWhole

(* The names of the destination's other contents name no process.          *)
LEMMA NoProcessName ==
    Trainer = Process /\ \A p \in Process : p \notin {"absent", "empty", "user"}
BY CommandAssumption, TrainerAssumption DEF CommandAssumption, TrainerAssumption

(* One process's run goes on or ends; nothing else of training changes.    *)
LEMMA RunKeeps ==
    ASSUME IInv, NEW p \in Process, NEW l \in {"idle", "run", "publish"},
           NEW c \in {"none", "partial", "whole"}, l = "publish" => c = "whole",
           training' = [training EXCEPT ![p] = l], staging' = [staging EXCEPT ![p] = c],
           output' \in {"absent", "empty", "user"} \cup Process
    PROVE  IInv'
BY NoProcessName DEF IInv, TrainingTypeOK, StagedWhole

LEMMA StartTrainKeeps ==
    ASSUME IInv, NEW p \in Process, StartTrain(p)
    PROVE  IInv' /\ UNCHANGED output
<1>1. /\ training' = [training EXCEPT ![p] = "run"]
      /\ staging' = [staging EXCEPT ![p] = "partial"] /\ UNCHANGED output
    BY DEF StartTrain, StartTraining
<1>. QED
    BY <1>1, RunKeeps, NoProcessName DEF IInv, TrainingTypeOK

LEMMA RunEndsKeep ==
    ASSUME IInv, NEW p \in Process, RunTraining(p) \/ TrainingFails(p)
    PROVE  IInv' /\ UNCHANGED output
<1>1. CASE RunTraining(p)
    BY <1>1, RunKeeps, NoProcessName DEF RunTraining, IInv, TrainingTypeOK
<1>2. CASE TrainingFails(p)
  <2>1. PICK c \in {"none", "partial"} : staging' = [staging EXCEPT ![p] = c]
      BY <1>2 DEF TrainingFails, RemoveStaging
  <2>2. training' = [training EXCEPT ![p] = "idle"] /\ UNCHANGED output
      BY <1>2 DEF TrainingFails, RemoveStaging
  <2>. QED
      BY <2>1, <2>2, RunKeeps, NoProcessName DEF IInv, TrainingTypeOK
<1>. QED
    BY <1>1, <1>2

(* The rename: onto nothing or an empty directory, of a whole adapter.     *)
LEMMA PublishKeeps ==
    ASSUME IInv, NEW p \in Process, Publish(p)
    PROVE  /\ IInv'
           /\ output' # output
                => output' = p /\ output \in {"absent", "empty"} /\ staging[p] = "whole"
<1>1. staging[p] = "whole"
    BY DEF Publish, IInv, StagedWhole
<1>2. PICK c \in {"none", "partial"} : staging' = [staging EXCEPT ![p] = c]
    BY DEF Publish, RemoveStaging
<1>3. /\ training' = [training EXCEPT ![p] = "idle"]
      /\ \/ output' = p /\ output \in {"absent", "empty"}
         \/ UNCHANGED output
    BY DEF Publish, Publishable, RemoveStaging
<1>4. IInv'
    BY <1>2, <1>3, RunKeeps, NoProcessName DEF IInv, TrainingTypeOK
<1>. QED
    BY <1>1, <1>3, <1>4

(* The user fills the destination.                                         *)
LEMMA UserKeeps ==
    ASSUME IInv, User
    PROVE  IInv' /\ (output' # output => output' \notin Process)
BY NoProcessName DEF User, UserWrites, ChangeSource, trainingVars, IInv, TrainingTypeOK,
   StagedWhole

(* A killed run leaves its staging directory as it is.                     *)
LEMMA CrashKeeps ==
    ASSUME IInv, NEW p \in Process, Crash(p)
    PROVE  IInv' /\ UNCHANGED output
BY NoProcessName DEF Crash, IInv, TrainingTypeOK, StagedWhole

(* The other commands write elsewhere.                                     *)
LEMMA OthersKeep ==
    ASSUME IInv, NEW p \in Process,
           StartMigrate(p) \/ StartPackage(p) \/ Migrate(p) \/ WritePackage(p)
    PROVE  IInv' /\ UNCHANGED output
BY DEF StartMigrate, StartPackage, Migrate, WritePackage, trainingVars, IInv, TrainingTypeOK,
   StagedWhole

LEMMA StepKeeps ==
    ASSUME IInv, [Next]_vars
    PROVE  /\ IInv'
           /\ output' # output /\ output' \in Process
                => output \in {"absent", "empty"} /\ staging[output'] = "whole"
<1>1. ASSUME NEW p \in Process,
             \/ StartMigrate(p) \/ StartPackage(p) \/ Migrate(p) \/ WritePackage(p)
             \/ StartTrain(p) \/ Crash(p) \/ RunTraining(p) \/ TrainingFails(p)
      PROVE  IInv' /\ UNCHANGED output
    BY <1>1, OthersKeep, StartTrainKeeps, CrashKeeps, RunEndsKeep
<1>2. CASE UNCHANGED vars
    BY <1>2 DEF vars, trainingVars, IInv, TrainingTypeOK, StagedWhole
<1>. QED
    BY <1>1, <1>2, PublishKeeps, UserKeeps DEF Next, Train, TrainingStep

LEMMA Invariance == Spec => []IInv
<1>1. Init => IInv
    BY NoProcessName DEF Init, TrainingInit, IInv, TrainingTypeOK, StagedWhole
<1>2. IInv /\ [Next]_vars => IInv'
    BY StepKeeps
<1>. QED
    BY <1>1, <1>2, PTL DEF Spec

(* The destination receives one run's whole adapter or nothing, and what   *)
(* the user or another run put there is never replaced: the destination is *)
(* looked at before a run of hours, and again by the rename itself.        *)
THEOREM AdapterPublished == Spec => AdapterIsOneRuns
<1>1. IInv /\ [Next]_vars
        => [output' # output /\ output' \in Process
                => output \in {"absent", "empty"} /\ staging[output'] = "whole"]_vars
    BY StepKeeps
<1>. QED
    BY <1>1, Invariance, PTL DEF Spec, AdapterIsOneRuns

-----------------------------------------------------------------------------
(* What the commands that write whole packages read and write.             *)

(* Every nonempty set of places has a least one.                           *)
LEMMA LeastNumber ==
    ASSUME NEW T \in SUBSET Nat, T # {}
    PROVE  \E x \in T : \A y \in T : x <= y
<1>1. PICK x \in T : \A y \in T : <<y, x>> \notin OpToRel(<, Nat)
    BY NatLessThanWellFounded, WFMin
<1>2. ASSUME NEW y \in T
      PROVE  x <= y
  <2>1. x \in Nat /\ y \in Nat
      OBVIOUS
  <2>2. y < x => <<y, x>> \in {ss \in Nat \X Nat : ss[1] < ss[2]}
      BY <2>1
  <2>3. ~(y < x)
      BY <1>1, <2>2 DEF OpToRel
  <2>. QED
      BY <2>1, <2>3
<1>. QED
    BY <1>2

(* The next of what is listed was listed.                                  *)
LEMMA FirstIsListed ==
    ASSUME NEW T, NEW order \in [T -> Nat], NEW S \in SUBSET T, S # {}
    PROVE  First(S, order) \in S
<1>1. {order[x] : x \in S} \in SUBSET Nat /\ {order[x] : x \in S} # {}
    OBVIOUS
<1>2. PICK n \in {order[x] : x \in S} : \A m \in {order[x] : x \in S} : n <= m
    BY <1>1, LeastNumber
<1>3. PICK x \in S : order[x] = n
    OBVIOUS
<1>4. \A y \in S : order[x] <= order[y]
    BY <1>2, <1>3
<1>. QED
    BY <1>4 DEF First

LEMMA NextName ==
    ASSUME MigrationTypeOK, NEW p \in Process, migration[p].names # {}
    PROVE  CurrentName(p) \in Name
<1>1. migration[p].names \in SUBSET Name
    BY DEF MigrationTypeOK, Migration
<1>. QED
    BY <1>1, FirstIsListed, MigrationAssumption DEF MigrationAssumption, CurrentName

LEMMA NextArtifact ==
    ASSUME MigrationTypeOK, NEW p \in Process, migration[p].artifacts # {}
    PROVE  CurrentArtifact(p) \in Artifact
<1>1. migration[p].artifacts \in SUBSET Artifact
    BY DEF MigrationTypeOK, Migration
<1>. QED
    BY <1>1, FirstIsListed, MigrationAssumption DEF MigrationAssumption, CurrentArtifact

(* mkdir makes a directory no other name leads to.                         *)
LEMMA EnsuredIsFresh ==
    ASSUME TreeTypeOK, NEW n \in Name
    PROVE  /\ Ensured(n) \in Dir
           /\ tree[n] = NoDir => \A m \in Name : tree[m] # Ensured(n)
           /\ tree[n] # NoDir => Ensured(n) = tree[n]
<1>1. ASSUME tree[n] = NoDir
      PROVE  \E d \in Dir : \A m \in Name : tree[m] # d
  <2>1. PICK d, e \in Dir : d # e
      BY TreeAssumption DEF TreeAssumption
  <2>2. \/ \A m \in Name : tree[m] # d
        \/ \A m \in Name : tree[m] # e
      BY <1>1, <2>1, TreeAssumption DEF TreeAssumption, Name
  <2>. QED
      BY <2>1, <2>2
<1>. QED
    BY <1>1 DEF Ensured, TreeTypeOK

LEMMA EnsureKeeps ==
    ASSUME TreeTypeOK, NEW n \in Name, Ensure(n)
    PROVE  /\ tree' \in [Name -> Dir \cup {NoDir}]
           /\ tree'[n] = Ensured(n) /\ tree'[n] # NoDir
           /\ \A m \in Name : tree[m] # NoDir \/ m # n => tree'[m] = tree[m]
BY EnsuredIsFresh, TreeAssumption DEF TreeAssumption, Ensure, TreeTypeOK

(* A write to one artifact of one directory.                               *)
LEMMA WithWrites ==
    ASSUME TreeTypeOK, NEW d, NEW a, NEW c, With(d, a, c)
    PROVE  /\ (d \in Dir /\ a \in Artifact => c \in ArtifactDirectory)
                => dir' \in [Dir -> [Artifact -> ArtifactDirectory]]
           /\ \A e \in Dir, b \in Artifact :
                  dir'[e][b] = IF e = d /\ b = a THEN c ELSE dir[e][b]
BY DEF With, TreeTypeOK

LEMMA NewDirectories ==
    /\ NoFiles \in [File -> Version \cup {NoFile}]
    /\ NoManifest \in Manifest
    /\ Missing \in ArtifactDirectory
    /\ EmptyDirectory \in ArtifactDirectory
<1>1. NoFiles \in [File -> Version \cup {NoFile}]
    BY DEF NoFiles
<1>2. NoManifest \in Manifest
    BY <1>1 DEF NoManifest, Manifest
<1>3. Missing \in ArtifactDirectory
    BY <1>1, <1>2 DEF Missing, ArtifactDirectory
<1>4. EmptyDirectory \in ArtifactDirectory
    BY <1>3 DEF EmptyDirectory, ArtifactDirectory
<1>. QED
    BY <1>1, <1>2, <1>3, <1>4

LEMMA AtType ==
    ASSUME TreeTypeOK, NEW n \in Name, NEW a \in Artifact
    PROVE  At(n, a) \in ArtifactDirectory
BY NewDirectories DEF At, TreeTypeOK

-----------------------------------------------------------------------------
(* The types of the store's commands.                                      *)

(* A conversion writes the exported artifact under the legacy name, an     *)
(* import its own artifact.                                                *)
WritersApart ==
    \A p \in Process :
        IF package[p].import
        THEN package[p].name \in ImportName /\ package[p].artifact \in Version
        ELSE package[p].name = "legacy" /\ package[p].artifact = Exported

PackageOK == PackageTypeOK /\ WritersApart

StoreTypes == TreeTypeOK /\ MigrationTypeOK /\ PackageOK

LEMMA IdleTypes == Idle \in Migration /\ IdlePackage \in Package
BY DEF Idle, Migration, IdlePackage, Package, Name, Artifact

LEMMA MigrationMoves ==
    ASSUME MigrationTypeOK, NEW p \in Process,
           \/ \E l \in {"directory", "artifact", "rewrite", "replace", "rename"} : Move(p, l)
           \/ Abort(p)
           \/ migration' = NextOf(p)
    PROVE  MigrationTypeOK'
<1>1. CASE Abort(p)
    BY <1>1, IdleTypes DEF Abort, MigrationTypeOK
<1>2. ASSUME NEW l \in {"directory", "artifact", "rewrite", "replace", "rename"}, Move(p, l)
      PROVE  MigrationTypeOK'
    BY <1>2 DEF Move, MigrationTypeOK, Migration
<1>3. CASE migration' = NextOf(p)
  <2>1. migration[p].artifacts \ {CurrentArtifact(p)} \in SUBSET Artifact
      BY DEF MigrationTypeOK, Migration
  <2>. QED
      BY <1>3, <2>1 DEF NextOf, MigrationTypeOK, Migration
<1>. QED
    BY <1>1, <1>2, <1>3

(* The steps that only look: the tree is as it was.                        *)
LEMMA MigrationLooks ==
    ASSUME StoreTypes, NEW p \in Process,
           \/ StartMigration(p) \/ OpenModel(p) \/ Report(p) \/ CloseModel(p) \/ ReadManifest(p)
    PROVE  MigrationTypeOK' /\ UNCHANGED <<tree, dir>>
<1>. USE DEF StoreTypes
<1>1. CASE StartMigration(p)
    BY <1>1, IdleTypes DEF StartMigration, MigrationTypeOK, Migration
<1>2. CASE OpenModel(p)
  <2>1. CASE tree[CurrentName(p)] = NoDir
      BY <1>2, <2>1, MigrationMoves DEF OpenModel
  <2>2. CASE tree[CurrentName(p)] # NoDir
    <3>1. CurrentName(p) \in Name
        BY <1>2, NextName DEF OpenModel
    <3>2. /\ tree[CurrentName(p)] \in Dir
          /\ {a \in Artifact : dir[tree[CurrentName(p)]][a].exists} \in SUBSET Artifact
        BY <2>2, <3>1 DEF TreeTypeOK
    <3>3. migration' = [migration EXCEPT
                  ![p].at = "artifact", ![p].fd = tree[CurrentName(p)],
                  ![p].artifacts = {a \in Artifact : dir[tree[CurrentName(p)]][a].exists}]
        BY <1>2, <2>2 DEF OpenModel
    <3>4. MigrationTypeOK'
      <4>1. migration[p] \in Migration
          BY DEF MigrationTypeOK
      <4>2. [migration[p] EXCEPT !.at = "artifact", !.fd = tree[CurrentName(p)],
                 !.artifacts = {a \in Artifact : dir[tree[CurrentName(p)]][a].exists}]
                \in Migration
          BY <3>2, <4>1 DEF Migration
      <4>. QED
          BY <3>3, <4>2 DEF MigrationTypeOK
    <3>. QED
        BY <1>2, <3>4 DEF OpenModel
  <2>. QED
      BY <2>1, <2>2, <1>2 DEF OpenModel
<1>3. CASE Report(p)
    BY <1>3, MigrationMoves DEF Report
<1>4. CASE CloseModel(p)
  <2>1. migration[p].names \ {CurrentName(p)} \in SUBSET Name
      BY DEF MigrationTypeOK, Migration
  <2>2. migration' = [migration EXCEPT ![p].at = "directory", ![p].fd = NoDir,
                          ![p].names = migration[p].names \ {CurrentName(p)}]
      BY <1>4 DEF CloseModel, MigrationTypeOK, Migration
  <2>3. MigrationTypeOK'
      BY <2>1, <2>2 DEF MigrationTypeOK, Migration
  <2>. QED
      BY <1>4, <2>3 DEF CloseModel
<1>5. CASE ReadManifest(p)
    BY <1>5, MigrationMoves DEF ReadManifest
<1>. QED
    BY <1>1, <1>2, <1>3, <1>4, <1>5

(* The steps that write the manifest of a listed artifact.                 *)
LEMMA RewritingType ==
    ASSUME StoreTypes, NEW p \in Process,
           OpenRewrite(p) \/ RewriteFails(p) \/ ReplaceManifest(p)
    PROVE  /\ StoreTypes' \/ ~UNCHANGED packageVars
           /\ UNCHANGED tree
<1>. USE DEF StoreTypes
<1>. DEFINE d == migration[p].fd  a == CurrentArtifact(p)
<1>1. ASSUME d \in Dir, a \in Artifact
      PROVE  /\ [Current(p) EXCEPT !.migrationPart = TRUE] \in ArtifactDirectory
             /\ [Current(p) EXCEPT !.migrationPart = FALSE] \in ArtifactDirectory
             /\ [Current(p) EXCEPT !.migrationPart = FALSE, !.manifest.model = "logical"]
                    \in ArtifactDirectory
  <2>1. Current(p) \in ArtifactDirectory
      BY <1>1 DEF Current, TreeTypeOK
  <2>. QED
      BY <2>1 DEF ArtifactDirectory, Manifest, Name
<1>2. TreeTypeOK' /\ UNCHANGED tree
    BY <1>1, WithWrites DEF OpenRewrite, RewriteFails, ReplaceManifest, TreeTypeOK
<1>3. MigrationTypeOK'
    BY MigrationMoves DEF OpenRewrite, RewriteFails, ReplaceManifest
<1>4. UNCHANGED packageVars => PackageOK'
    BY DEF packageVars, PackageOK, PackageTypeOK, WritersApart
<1>. QED
    BY <1>2, <1>3, <1>4

LEMMA RenameType ==
    ASSUME StoreTypes, NEW p \in Process, RenameModel(p), CurrentName(p) \in Name
    PROVE  TreeTypeOK' /\ MigrationTypeOK'
<1>1. tree' \in [Name -> Dir \cup {NoDir}]
    BY DEF RenameModel, StoreTypes, TreeTypeOK, Name
<1>. QED
    BY <1>1, MigrationMoves DEF RenameModel, StoreTypes, TreeTypeOK

PackageLabels == {"idle", "mkdir", "copy", "check", "open", "write", "inspect", "failed"}

LEMMA PackageGoes ==
    ASSUME PackageOK, NEW p \in Process, UNCHANGED source, imported' \subseteq Version,
           End(p) \/ \E l \in PackageLabels : Goto(p, l)
    PROVE  PackageOK'
<1>1. CASE End(p)
    BY <1>1, IdleTypes DEF End, PackageOK, PackageTypeOK, WritersApart, IdlePackage
<1>2. ASSUME NEW l \in PackageLabels, Goto(p, l)
      PROVE  PackageOK'
  <2>1. package[p] \in Package /\ [package[p] EXCEPT !.at = l] \in Package
      BY DEF PackageLabels, PackageOK, PackageTypeOK, Package
  <2>2. package' \in [Process -> Package] /\ source' = source
      BY <1>2, <2>1 DEF Goto, PackageOK, PackageTypeOK
  <2>3. \A q \in Process : /\ package'[q].import = package[q].import
                           /\ package'[q].name = package[q].name
                           /\ package'[q].artifact = package[q].artifact
      BY <1>2, <2>1 DEF Goto, PackageOK, PackageTypeOK, Package
  <2>. QED
      BY <2>2, <2>3 DEF PackageOK, PackageTypeOK, WritersApart
<1>. QED
    BY <1>1, <1>2

LEMMA PackagePlace ==
    ASSUME StoreTypes, NEW p \in Process
    PROVE  /\ package[p].name \in Name /\ package[p].artifact \in Artifact
           /\ Place(p) \in ArtifactDirectory
           /\ package[p].content \in Version \cup {NoFile} /\ package[p].import \in BOOLEAN
<1>1. /\ package[p].name \in Name /\ package[p].artifact \in Artifact
      /\ package[p].content \in Version \cup {NoFile} /\ package[p].import \in BOOLEAN
    BY DEF StoreTypes, PackageOK, PackageTypeOK, Package
<1>. QED
    BY <1>1, AtType DEF StoreTypes, Place

LEMMA StartPackageType ==
    ASSUME StoreTypes, NEW p \in Process,
           \/ \E v \in ExportContent : StartExport(p, v)
           \/ \E n \in ImportName : StartImport(p, n)
    PROVE  PackageOK' /\ UNCHANGED <<tree, dir>>
<1>. USE PackageAssumption, IdleTypes DEF PackageAssumption, StoreTypes, PackageOK
<1>1. ASSUME NEW v \in ExportContent, StartExport(p, v)
      PROVE  PackageOK' /\ UNCHANGED <<tree, dir>>
    BY <1>1 DEF StartExport, PackageTypeOK, Package, WritersApart, IdlePackage
<1>2. ASSUME NEW n \in ImportName, StartImport(p, n)
      PROVE  PackageOK' /\ UNCHANGED <<tree, dir>>
  <2>1. source \in Artifact
      BY DEF PackageTypeOK, Artifact
  <2>. QED
      BY <1>2, <2>1 DEF StartImport, PackageTypeOK, Package, WritersApart, IdlePackage
<1>. QED
    BY <1>1, <1>2

(* The steps that only look, at the package or at the source.              *)
LEMMA PackageLooks ==
    ASSUME StoreTypes, NEW p \in Process, CopyFails(p) \/ CheckContent(p) \/ Inspect(p)
    PROVE  PackageOK' /\ UNCHANGED <<tree, dir>>
<1>. USE DEF StoreTypes, PackageOK, PackageLabels
<1>1. CASE CopyFails(p)
    BY <1>1, PackageGoes DEF CopyFails, PackageTypeOK
<1>2. CASE CheckContent(p)
    BY <1>2, PackageGoes DEF CheckContent, PackageTypeOK
<1>3. CASE Inspect(p)
  <2>1. imported' \subseteq Version
      BY <1>3 DEF Inspect, PackageTypeOK, WritersApart
  <2>. QED
      BY <1>3, <2>1, PackageGoes DEF Inspect
<1>. QED
    BY <1>1, <1>2, <1>3

(* The steps that write the package write its artifact alone, and make no  *)
(* directory but that of its name; none of them makes a manifest mapped.   *)
WritesOwn(p) ==
    /\ \A m \in Name : tree[m] # NoDir \/ m # package[p].name => tree'[m] = tree[m]
    /\ \A e \in Dir, b \in Artifact : b # package[p].artifact => dir'[e][b] = dir[e][b]
    /\ \A e \in Dir, b \in Artifact : dir'[e][b].manifest.mapped => dir[e][b].manifest.mapped

(* Afterwards the package's directory is there.                            *)
PlaceMade(p) ==
    LET n == tree'[package[p].name]
    IN  n # NoDir /\ dir'[n][package[p].artifact].exists

(* A write below the name, whose directory is made when it is missing.     *)
LEMMA EnsuredWrite ==
    ASSUME StoreTypes, NEW p \in Process, Ensure(package[p].name),
           NEW c \in ArtifactDirectory, c.exists,
           c.manifest.mapped => Place(p).manifest.mapped,
           With(Ensured(package[p].name), package[p].artifact, c)
    PROVE  TreeTypeOK' /\ WritesOwn(p) /\ PlaceMade(p)
<1>. DEFINE n == package[p].name  a == package[p].artifact  d == Ensured(n)
<1>1. /\ n \in Name /\ a \in Artifact /\ Place(p) \in ArtifactDirectory
      /\ TreeTypeOK /\ NoDir \notin Dir
    BY PackagePlace, TreeAssumption DEF TreeAssumption, StoreTypes
<1>2. d \in Dir
    BY <1>1, EnsuredIsFresh
<1>3. /\ tree' \in [Name -> Dir \cup {NoDir}] /\ tree'[n] = d
      /\ \A m \in Name : tree[m] # NoDir \/ m # n => tree'[m] = tree[m]
    BY <1>1, EnsureKeeps
<1>4. /\ dir' \in [Dir -> [Artifact -> ArtifactDirectory]]
      /\ \A e \in Dir, b \in Artifact :
             dir'[e][b] = IF e = d /\ b = a THEN c ELSE dir[e][b]
    BY <1>1, WithWrites
<1>5. c.manifest.mapped => dir[d][a].manifest.mapped
  <2>1. CASE tree[n] = NoDir
      BY <2>1 DEF Place, At, Missing, NoManifest
  <2>2. CASE tree[n] # NoDir
      BY <1>1, <2>2, EnsuredIsFresh DEF Place, At
  <2>. QED
      BY <2>1, <2>2
<1>6. PlaceMade(p)
    BY <1>1, <1>2, <1>3, <1>4 DEF PlaceMade
<1>. QED
    BY <1>2, <1>3, <1>4, <1>5, <1>6 DEF TreeTypeOK, WritesOwn

LEMMA MakeDirectoryWrites ==
    ASSUME StoreTypes, NEW p \in Process, MakeDirectory(p)
    PROVE  TreeTypeOK' /\ PackageOK' /\ WritesOwn(p) /\ PlaceMade(p)
<1>. DEFINE n == package[p].name  a == package[p].artifact  d == Ensured(n)
<1>1. n \in Name /\ a \in Artifact /\ TreeTypeOK /\ NoDir \notin Dir
    BY PackagePlace, TreeAssumption DEF TreeAssumption, StoreTypes
<1>2. PackageOK'
    BY PackageGoes DEF MakeDirectory, RefuseIfTaken, StoreTypes, PackageOK, PackageTypeOK,
       PackageLabels
<1>3. CASE dir[d][a].exists
  <2>1. UNCHANGED dir /\ Ensure(n)
      BY <1>3 DEF MakeDirectory
  <2>2. d \in Dir
      BY <1>1, EnsuredIsFresh
  <2>3. /\ tree' \in [Name -> Dir \cup {NoDir}] /\ tree'[n] = d
        /\ \A m \in Name : tree[m] # NoDir \/ m # n => tree'[m] = tree[m]
      BY <1>1, <2>1, EnsureKeeps
  <2>. QED
      BY <1>1, <1>2, <1>3, <2>1, <2>2, <2>3 DEF TreeTypeOK, WritesOwn, PlaceMade
<1>4. CASE ~dir[d][a].exists
  <2>1. Ensure(n) /\ With(d, a, EmptyDirectory)
      BY <1>4 DEF MakeDirectory
  <2>2. EmptyDirectory.exists /\ ~EmptyDirectory.manifest.mapped
      BY DEF EmptyDirectory, Missing, NoManifest
  <2>. QED
      BY <1>2, <2>1, <2>2, NewDirectories, EnsuredWrite
<1>. QED
    BY <1>3, <1>4

LEMMA CopyFileWrites ==
    ASSUME StoreTypes, NEW p \in Process, NEW f \in File, CopyFile(p, f)
    PROVE  TreeTypeOK' /\ PackageOK' /\ WritesOwn(p) /\ PlaceMade(p)
<1>. DEFINE x == IF package[p].import THEN source ELSE package[p].content
            c == [Place(p) EXCEPT !.exists = TRUE, !.files[f] = x]
<1>1. x \in Version \cup {NoFile} /\ Place(p) \in ArtifactDirectory
    BY PackagePlace DEF StoreTypes, PackageOK, PackageTypeOK
<1>2. /\ c \in ArtifactDirectory /\ c.exists
      /\ c.manifest.mapped => Place(p).manifest.mapped
    BY <1>1 DEF ArtifactDirectory
<1>3. Ensure(package[p].name) /\ With(Ensured(package[p].name), package[p].artifact, c)
    BY DEF CopyFile
<1>4. PackageOK'
  <2>1. PICK l \in {"copy", "check", "open"} :
            /\ package' = [package EXCEPT ![p].todo = @ \ {f}, ![p].at = l]
            /\ UNCHANGED <<source, imported>>
      BY DEF CopyFile
  <2>2. package[p].todo \ {f} \in SUBSET File
      BY DEF StoreTypes, PackageOK, PackageTypeOK, Package
  <2>3. package' = [package EXCEPT ![p].todo = package[p].todo \ {f}, ![p].at = l]
      BY <2>1 DEF StoreTypes, PackageOK, PackageTypeOK, Package
  <2>4. PackageTypeOK'
    <3>1. \A q \in Process : package[q] \in Package
        BY DEF StoreTypes, PackageOK, PackageTypeOK
    <3>2. [package[p] EXCEPT !.todo = package[p].todo \ {f}, !.at = l] \in Package
        BY <2>2, <3>1 DEF Package
    <3>. QED
        BY <2>1, <2>3, <3>2 DEF StoreTypes, PackageOK, PackageTypeOK
  <2>5. WritersApart'
      BY <2>3 DEF StoreTypes, PackageOK, PackageTypeOK, Package, WritersApart
  <2>. QED
      BY <2>4, <2>5 DEF PackageOK
<1>. QED
    BY <1>2, <1>3, <1>4, EnsuredWrite

LEMMA OpenManifestWrites ==
    ASSUME StoreTypes, NEW p \in Process, OpenManifest(p)
    PROVE  /\ TreeTypeOK' /\ PackageOK' /\ WritesOwn(p)
           /\ Place(p).exists => PlaceMade(p)
<1>. DEFINE n == package[p].name  a == package[p].artifact  d == Ensured(n)
<1>1. n \in Name /\ a \in Artifact /\ TreeTypeOK /\ Place(p) \in ArtifactDirectory
    BY PackagePlace DEF StoreTypes
<1>2. CASE Place(p).part
  <2>1. Goto(p, "failed") /\ UNCHANGED dir /\ Ensure(n)
      BY <1>2 DEF OpenManifest
  <2>2. PackageOK'
      BY <2>1, PackageGoes DEF OpenManifest, StoreTypes, PackageOK, PackageTypeOK, PackageLabels
  <2>3. /\ tree' \in [Name -> Dir \cup {NoDir}] /\ tree'[n] # NoDir
        /\ \A m \in Name : tree[m] # NoDir \/ m # n => tree'[m] = tree[m]
      BY <1>1, <2>1, EnsureKeeps
  <2>. QED
      BY <1>1, <2>1, <2>2, <2>3 DEF TreeTypeOK, WritesOwn, PlaceMade, Place, At, Missing
<1>3. CASE ~Place(p).part
  <2>. DEFINE c == [Place(p) EXCEPT !.exists = TRUE, !.part = TRUE]
  <2>1. /\ c \in ArtifactDirectory /\ c.exists
        /\ c.manifest.mapped => Place(p).manifest.mapped
      BY <1>1 DEF ArtifactDirectory
  <2>2. /\ Ensure(n) /\ With(d, a, c)
        /\ package' = [package EXCEPT ![p].at = "write", ![p].fd = d]
        /\ UNCHANGED <<source, imported>>
      BY <1>3 DEF OpenManifest
  <2>3. d \in Dir
      BY <1>1, EnsuredIsFresh
  <2>4. PackageTypeOK' /\ WritersApart'
    <3>1. PackageTypeOK'
      <4>1. \A q \in Process : package[q] \in Package
          BY DEF StoreTypes, PackageOK, PackageTypeOK
      <4>2. [package[p] EXCEPT !.at = "write", !.fd = d] \in Package
          BY <2>3, <4>1 DEF Package
      <4>. QED
          BY <2>2, <4>2 DEF StoreTypes, PackageOK, PackageTypeOK
    <3>2. WritersApart'
        BY <2>2 DEF StoreTypes, PackageOK, PackageTypeOK, Package, WritersApart
    <3>. QED
        BY <3>1, <3>2
  <2>. QED
      BY <2>1, <2>2, <2>4, EnsuredWrite DEF PackageOK
<1>. QED
    BY <1>2, <1>3

LEMMA WriteManifestWrites ==
    ASSUME StoreTypes, NEW p \in Process, WriteManifest(p)
    PROVE  /\ TreeTypeOK' /\ PackageOK' /\ WritesOwn(p) /\ UNCHANGED tree
           /\ \A e \in Dir, b \in Artifact : dir'[e][b].exists = dir[e][b].exists
<1>. DEFINE d == package[p].fd  a == package[p].artifact
<1>1. /\ a \in Artifact /\ package[p].name \in Name /\ TreeTypeOK
      /\ package[p].content \in Version \cup {NoFile}
    BY PackagePlace DEF StoreTypes
<1>2. PackageOK' /\ UNCHANGED tree
    BY PackageGoes DEF WriteManifest, StoreTypes, PackageOK, PackageTypeOK, PackageLabels
<1>3. Registered(p) \in Manifest /\ ~Registered(p).mapped
  <2>1. package[p].import => a \in Version
      BY DEF StoreTypes, PackageOK, WritersApart
  <2>. QED
      BY <1>1, <2>1 DEF Registered, Manifest
<1>4. PICK c : /\ With(d, a, c)
               /\ \/ c = [dir[d][a] EXCEPT !.part = FALSE, !.manifest = Registered(p)]
                  \/ c = [dir[d][a] EXCEPT !.part = FALSE]
    BY DEF WriteManifest
<1>5. d \in Dir => /\ c \in ArtifactDirectory /\ c.exists = dir[d][a].exists
                   /\ c.manifest.mapped => dir[d][a].manifest.mapped
  <2>1. d \in Dir => dir[d][a] \in ArtifactDirectory
      BY <1>1 DEF TreeTypeOK
  <2>2. CASE c = [dir[d][a] EXCEPT !.part = FALSE, !.manifest = Registered(p)]
      BY <1>3, <2>1, <2>2 DEF ArtifactDirectory
  <2>3. CASE c = [dir[d][a] EXCEPT !.part = FALSE]
      BY <2>1, <2>3 DEF ArtifactDirectory
  <2>. QED
      BY <1>4, <2>2, <2>3
<1>. QED
    BY <1>1, <1>2, <1>4, <1>5, WithWrites DEF TreeTypeOK, WritesOwn

LEMMA CleanUpWrites ==
    ASSUME StoreTypes, NEW p \in Process, CleanUp(p)
    PROVE  /\ TreeTypeOK' /\ PackageOK' /\ UNCHANGED tree
           /\ package' = [package EXCEPT ![p] = IdlePackage]
           /\ \/ UNCHANGED dir
              \/ package[p].import /\ WritesOwn(p)
<1>. DEFINE n == package[p].name  a == package[p].artifact
<1>1. /\ a \in Artifact /\ n \in Name /\ TreeTypeOK /\ Place(p) \in ArtifactDirectory
    BY PackagePlace DEF StoreTypes
<1>2. PackageOK' /\ UNCHANGED tree /\ package' = [package EXCEPT ![p] = IdlePackage]
    BY PackageGoes DEF CleanUp, End, StoreTypes, PackageOK, PackageTypeOK, PackageLabels
<1>3. CASE package[p].import /\ Place(p).exists
  <2>1. PICK left \in {Missing, [EmptyDirectory EXCEPT !.files[Xml] = Place(p).files[Xml]]} :
            With(tree[n], a, left)
      BY <1>3 DEF CleanUp
  <2>2. left \in ArtifactDirectory /\ ~left.manifest.mapped
    <3>1. Place(p).files[Xml] \in Version \cup {NoFile}
        BY <1>1 DEF ArtifactDirectory, File
    <3>2. [EmptyDirectory EXCEPT !.files[Xml] = Place(p).files[Xml]] \in ArtifactDirectory
        BY <3>1, NewDirectories DEF ArtifactDirectory
    <3>3. /\ ~Missing.manifest.mapped
          /\ ~[EmptyDirectory EXCEPT !.files[Xml] = Place(p).files[Xml]].manifest.mapped
        BY DEF EmptyDirectory, Missing, NoManifest
    <3>. QED
        BY <3>2, <3>3, NewDirectories
  <2>. QED
    <3>1. dir' \in [Dir -> [Artifact -> ArtifactDirectory]]
        BY <1>1, <2>1, <2>2, WithWrites
    <3>2. \A e \in Dir, b \in Artifact :
              dir'[e][b] = IF e = tree[n] /\ b = a THEN left ELSE dir[e][b]
        BY <1>1, <2>1, WithWrites
    <3>3. TreeTypeOK'
        BY <1>1, <1>2, <3>1 DEF TreeTypeOK
    <3>4. WritesOwn(p)
        BY <1>2, <2>2, <3>2 DEF WritesOwn
    <3>. QED
        BY <1>2, <1>3, <3>3, <3>4
<1>4. CASE ~(package[p].import /\ Place(p).exists)
  <2>1. UNCHANGED dir
      BY <1>4 DEF CleanUp
  <2>2. TreeTypeOK'
      BY <1>1, <1>2, <2>1 DEF TreeTypeOK
  <2>. QED
      BY <1>2, <2>1, <2>2
<1>. QED
    BY <1>3, <1>4

(* A converted package's or an import's steps.                             *)
LEMMA PackageStepTypes ==
    ASSUME StoreTypes, NEW p \in Process, PackageStep(p)
    PROVE  TreeTypeOK' /\ PackageOK'
<1>1. CASE CopyFails(p) \/ CheckContent(p) \/ Inspect(p)
    BY <1>1, PackageLooks DEF StoreTypes, TreeTypeOK
<1>. QED
    BY <1>1, MakeDirectoryWrites, CopyFileWrites, OpenManifestWrites, WriteManifestWrites,
       CleanUpWrites DEF PackageStep

LEMMA MigrationStepTypes ==
    ASSUME StoreTypes, NEW p \in Process, MigrationStep(p) \/ RewriteFails(p),
           RenameModel(p) => CurrentName(p) \in Name, UNCHANGED packageVars
    PROVE  StoreTypes'
<1>1. UNCHANGED packageVars => PackageOK'
    BY DEF StoreTypes, packageVars, PackageOK, PackageTypeOK, WritersApart
<1>2. CASE OpenModel(p) \/ Report(p) \/ CloseModel(p) \/ ReadManifest(p)
    BY <1>1, <1>2, MigrationLooks DEF StoreTypes, TreeTypeOK
<1>. QED
    BY <1>1, <1>2, RewritingType, RenameType DEF StoreTypes, MigrationStep

-----------------------------------------------------------------------------
(* An imported package stays.                                              *)

Holding == {"copy", "check", "open", "write", "inspect", "failed"}

(* An import from its exclusive mkdir until it ends.                       *)
Holds(p) == package[p].import /\ package[p].at \in Holding

HeldByOne ==
    \A p, q \in Process :
        Holds(p) /\ Holds(q) /\ package[p].artifact = package[q].artifact => p = q

HeldExists == \A p \in Process : Holds(p) => At("logical", package[p].artifact).exists

(* An imported package is whole, and no import is at work on it.           *)
ImportedIsWhole ==
    \A v \in imported :
        /\ At("logical", v).exists
        /\ Inspected("logical", v) = "verified"
        /\ \A p \in Process : Holds(p) => package[p].artifact # v

(* The migration rewrites no import, and moves the legacy name alone.      *)
ImportsUnmapped == \A d \in Dir, v \in Version : ~dir[d][v].manifest.mapped

Visited == {"artifact", "rewrite", "replace", "rename"}

MigratesLegacy ==
    \A p \in Process :
        /\ migration[p].at \in Visited => migration[p].names # {} /\ migration[p].fd \in Dir
        /\ migration[p].at \in {"rewrite", "replace"} => CurrentArtifact(p) \notin Version
        /\ migration[p].at = "rename" => CurrentName(p) = "legacy"

ImportsHeld == HeldByOne /\ HeldExists /\ ImportedIsWhole

(* What holds wherever imports go.                                         *)
BaseInv == StoreTypes /\ ImportsUnmapped /\ MigratesLegacy

StoreInv == BaseInv /\ ImportsHeld

(* Imports go where the migration takes nothing from: had two of them the  *)
(* legacy name, one whose directory was renamed would fail, and clean up   *)
(* what the other made meanwhile under the name.                           *)
ImportsSettle == "legacy" \notin ImportName

(* One process's step on its package p, which is r afterwards: what it     *)
(* must leave alone.                                                       *)
LEMMA ImportsStayHeld ==
    ASSUME StoreTypes, ImportsHeld, NEW p \in Process, NEW r,
           package' = [package EXCEPT ![p] = r],
           \A v \in Version :
               At("logical", v).exists
                   => \/ At("logical", v)' = At("logical", v)
                      \/ Holds(p) /\ v = package[p].artifact,
           r.import /\ r.at \in Holding
               => /\ r.artifact \in Version
                  /\ \A v \in Version : v = r.artifact => At("logical", v)'.exists
                  /\ \/ Holds(p) /\ r.artifact = package[p].artifact
                     \/ ~At("logical", r.artifact).exists,
           \A v \in imported' :
               \/ v \in imported
               \/ /\ v = package[p].artifact /\ v \in Version
                  /\ Holds(p) /\ ~(r.import /\ r.at \in Holding)
                  /\ At("logical", v)' = At("logical", v)
                  /\ Inspected("logical", v) = "verified"
    PROVE  ImportsHeld'
<1>1. /\ imported \subseteq Version
      /\ \A q \in Process : Holds(q)' =>
             IF q = p THEN r.import /\ r.at \in Holding ELSE Holds(q)
      /\ \A q \in Process :
             package'[q].artifact = IF q = p THEN r.artifact ELSE package[q].artifact
      /\ \A q \in Process : Holds(q) => package[q].artifact \in Version
  <2>1. imported \subseteq Version /\ package = [q \in Process |-> package[q]]
      BY DEF StoreTypes, PackageOK, PackageTypeOK
  <2>. QED
      BY <2>1 DEF Holds, StoreTypes, PackageOK, WritersApart
<1>2. HeldByOne'
    BY <1>1 DEF ImportsHeld, HeldByOne, HeldExists
<1>3. HeldExists'
  <2>1. ASSUME NEW q \in Process, Holds(q)', q # p, NEW v \in Version, v = package[q].artifact
        PROVE  At("logical", v)'.exists
      BY <1>1, <2>1 DEF ImportsHeld, HeldByOne, HeldExists
  <2>. QED
      BY <1>1, <2>1 DEF HeldExists
<1>4. ASSUME NEW v \in imported'
      PROVE  /\ At("logical", v)'.exists
             /\ Inspected("logical", v)' = "verified"
             /\ \A q \in Process : Holds(q)' => package'[q].artifact # v
  <2>1. v \in Version /\ At("logical", v).exists /\ Inspected("logical", v) = "verified"
      BY <1>1 DEF ImportsHeld, HeldExists, ImportedIsWhole
  <2>2. At("logical", v)' = At("logical", v)
      BY <1>1, <2>1 DEF ImportsHeld, ImportedIsWhole
  <2>3. \A q \in Process : Holds(q)' => package'[q].artifact # v
      BY <1>1, <2>1 DEF ImportsHeld, HeldByOne, HeldExists, ImportedIsWhole
  <2>. QED
      BY <2>1, <2>2, <2>3 DEF Inspected
<1>. QED
    BY <1>2, <1>3, <1>4 DEF ImportsHeld, ImportedIsWhole

(* A step that touches no package, and takes none away.                    *)
LEMMA ImportsUntouched ==
    ASSUME StoreTypes, ImportsHeld, UNCHANGED <<package, imported>>,
           \A v \in Version :
               At("logical", v).exists => At("logical", v)' = At("logical", v)
    PROVE  ImportsHeld'
<1>1. /\ imported \subseteq Version
      /\ \A q \in Process : Holds(q)' = Holds(q)
      /\ \A q \in Process : Holds(q) => package[q].artifact \in Version
    BY DEF Holds, StoreTypes, PackageOK, PackageTypeOK, WritersApart
<1>2. HeldByOne'
    BY <1>1 DEF ImportsHeld, HeldByOne
<1>3. HeldExists'
  <2>1. ASSUME NEW q \in Process, Holds(q), NEW v \in Version, v = package[q].artifact
        PROVE  At("logical", v)'.exists
      BY <2>1 DEF ImportsHeld, HeldExists
  <2>. QED
      BY <1>1, <2>1 DEF HeldExists
<1>4. ASSUME NEW v \in imported
      PROVE  /\ At("logical", v)'.exists
             /\ Inspected("logical", v)' = "verified"
  <2>1. v \in Version /\ At("logical", v).exists /\ Inspected("logical", v) = "verified"
      BY <1>1 DEF ImportsHeld, ImportedIsWhole
  <2>. QED
      BY <2>1 DEF Inspected
<1>. QED
    BY <1>1, <1>2, <1>3, <1>4 DEF ImportsHeld, ImportedIsWhole

(* What a step that writes its own package leaves of the others.           *)
LEMMA OthersStay ==
    ASSUME StoreTypes, NEW p \in Process, WritesOwn(p),
           NEW v \in Version, v # package[p].artifact, At("logical", v).exists
    PROVE  At("logical", v)' = At("logical", v)
<1>1. tree["logical"] # NoDir
    BY DEF At, Missing
<1>2. "logical" \in Name /\ v \in Artifact
    BY DEF Name, Artifact
<1>3. tree["logical"] \in Dir /\ tree'["logical"] = tree["logical"]
    BY <1>1, <1>2 DEF WritesOwn, StoreTypes, TreeTypeOK
<1>. QED
    BY <1>1, <1>2, <1>3 DEF WritesOwn, At

LEMMA StaysUnmapped ==
    ASSUME ImportsUnmapped, NEW p \in Process, WritesOwn(p)
    PROVE  ImportsUnmapped'
BY DEF ImportsUnmapped, WritesOwn, Artifact

(* An import writes its own artifact of the logical name, a conversion no  *)
(* import's.                                                               *)
LEMMA WritersApartLogical ==
    ASSUME ImportsSettle, StoreTypes, NEW p \in Process
    PROVE  IF package[p].import
           THEN package[p].name = "logical" /\ package[p].artifact \in Version
           ELSE package[p].artifact \notin Version
BY PackageAssumption, TreeAssumption
   DEF PackageAssumption, TreeAssumption, ImportsSettle, StoreTypes, PackageOK, WritersApart, Name

LEMMA StartPackageHolds ==
    ASSUME ImportsSettle, StoreInv, NEW p \in Process,
           \/ \E v \in ExportContent : StartExport(p, v)
           \/ \E n \in ImportName : StartImport(p, n)
    PROVE  ImportsHeld'
<1>1. PICK r : package' = [package EXCEPT ![p] = r] /\ r.at = "mkdir"
  <2>1. ASSUME NEW v \in ExportContent, StartExport(p, v)
        PROVE  \E r : package' = [package EXCEPT ![p] = r] /\ r.at = "mkdir"
    <3>1. [IdlePackage EXCEPT !.at = "mkdir", !.content = v, !.todo = File].at = "mkdir"
        BY DEF IdlePackage
    <3>. QED
        BY <2>1, <3>1 DEF StartExport
  <2>2. ASSUME NEW n \in ImportName, StartImport(p, n)
        PROVE  \E r : package' = [package EXCEPT ![p] = r] /\ r.at = "mkdir"
    <3>1. [IdlePackage EXCEPT !.at = "mkdir", !.import = TRUE, !.name = n,
                              !.artifact = source, !.todo = File].at = "mkdir"
        BY DEF IdlePackage
    <3>. QED
        BY <2>2, <3>1 DEF StartImport
  <2>. QED
      BY <2>1, <2>2
<1>2. UNCHANGED <<tree, dir, imported>>
    BY DEF StartExport, StartImport
<1>3. \A v \in Version : At("logical", v)' = At("logical", v)
    BY <1>2 DEF At
<1>. QED
    BY <1>1, <1>2, <1>3, ImportsStayHeld DEF StoreInv, BaseInv, Holding

LEMMA LookingHolds ==
    ASSUME ImportsSettle, StoreInv, NEW p \in Process,
           CopyFails(p) \/ CheckContent(p) \/ Inspect(p)
    PROVE  ImportsHeld'
<1>1. UNCHANGED <<tree, dir>>
    BY DEF CopyFails, CheckContent, Inspect
<1>2. \A v \in Version : At("logical", v)' = At("logical", v)
    BY <1>1 DEF At
<1>3. /\ \A q \in Process : package[q] \in Package
      /\ package = [q \in Process |-> package[q]]
    BY DEF StoreInv, BaseInv, StoreTypes, PackageOK, PackageTypeOK
<1>4. ASSUME NEW l \in Holding, Goto(p, l), package[p].at \in Holding, UNCHANGED imported
      PROVE  ImportsHeld'
  <2>. DEFINE r == [package[p] EXCEPT !.at = l]
  <2>1. /\ package' = [package EXCEPT ![p] = r]
        /\ r.import = package[p].import /\ r.artifact = package[p].artifact
      BY <1>3, <1>4 DEF Goto, Package
  <2>2. r.import => /\ r.artifact \in Version /\ Holds(p)
                    /\ At("logical", r.artifact).exists
      BY <1>4, <2>1, WritersApartLogical DEF Holds, StoreInv, BaseInv, ImportsHeld, HeldExists
  <2>. HIDE DEF r
  <2>. QED
      BY <1>2, <1>4, <2>1, <2>2, ImportsStayHeld DEF StoreInv, BaseInv
<1>5. CASE CopyFails(p)
    BY <1>2, <1>4, <1>5 DEF CopyFails, Holding
<1>6. CASE CheckContent(p)
    BY <1>2, <1>4, <1>6 DEF CheckContent, Holding
<1>7. CASE Inspect(p)
  <2>1. CASE Inspected(package[p].name, package[p].artifact) \in {"downloaded", "verified"}
    <3>1. /\ package' = [package EXCEPT ![p] = IdlePackage]
          /\ imported' = IF package[p].import THEN imported \cup {package[p].artifact}
                         ELSE imported
        BY <1>7, <2>1 DEF Inspect, End
    <3>2. package[p].import
              => /\ Inspected("logical", package[p].artifact) = "verified"
                 /\ package[p].artifact \in Version /\ Holds(p)
      <4>1. package[p].import
                => /\ package[p].artifact \in Version
                   /\ Inspected("logical", package[p].artifact) \in {"downloaded", "verified"}
          BY <2>1, WritersApartLogical DEF StoreInv, BaseInv
      <4>2. package[p].at \in Holding
          BY <1>7 DEF Inspect, Holding
      <4>. QED
          BY <4>1, <4>2 DEF Inspected, Holds
    <3>3. ~IdlePackage.import
        BY DEF IdlePackage
    <3>. QED
        BY <1>2, <3>1, <3>2, <3>3, ImportsStayHeld DEF StoreInv, BaseInv
  <2>2. CASE Inspected(package[p].name, package[p].artifact) \notin {"downloaded", "verified"}
      BY <1>2, <1>4, <1>7, <2>2 DEF Inspect, Holding
  <2>. QED
      BY <1>2, <2>1, <2>2
<1>. QED
    BY <1>2, <1>5, <1>6, <1>7

LEMMA MakeDirectoryHolds ==
    ASSUME ImportsSettle, StoreInv, NEW p \in Process, MakeDirectory(p)
    PROVE  ImportsHeld'
<1>. DEFINE a == package[p].artifact
<1>1. WritesOwn(p) /\ PlaceMade(p) /\ StoreTypes
    BY MakeDirectoryWrites DEF StoreInv, BaseInv
<1>2. /\ \A q \in Process : package[q] \in Package
      /\ package = [q \in Process |-> package[q]]
    BY <1>1 DEF StoreTypes, PackageOK, PackageTypeOK
<1>3. UNCHANGED imported
    BY DEF MakeDirectory
<1>4. CASE package[p].import /\ Place(p).exists
  <2>1. package' = [package EXCEPT ![p] = IdlePackage] /\ ~IdlePackage.import
      BY <1>4 DEF MakeDirectory, RefuseIfTaken, End, IdlePackage
  <2>2. package[p].name = "logical" /\ a \in Version
      BY <1>1, <1>4, WritersApartLogical
  <2>3. /\ "logical" \in Name /\ a \in Artifact /\ tree["logical"] # NoDir
        /\ dir[tree["logical"]][a].exists
      BY <1>4, <2>2 DEF Place, At, Missing, Name, Artifact
  <2>4. Ensured("logical") = tree["logical"] /\ tree'["logical"] = tree["logical"]
      BY <1>1, <2>3, EnsuredIsFresh DEF StoreTypes, WritesOwn
  <2>5. UNCHANGED dir
      BY <2>2, <2>3, <2>4 DEF MakeDirectory
  <2>6. \A v \in Version : At("logical", v)' = At("logical", v)
      BY <2>4, <2>5 DEF At
  <2>. QED
      BY <1>1, <1>3, <2>1, <2>6, ImportsStayHeld DEF StoreInv, BaseInv
<1>5. CASE ~(package[p].import /\ Place(p).exists)
  <2>. DEFINE r == [package[p] EXCEPT !.at = "copy"]
  <2>1. /\ package' = [package EXCEPT ![p] = r]
        /\ r.import = package[p].import /\ r.artifact = a
      BY <1>2, <1>5 DEF MakeDirectory, RefuseIfTaken, Goto, Package
  <2>2. r.import => /\ a \in Version /\ ~At("logical", a).exists
                    /\ \A v \in Version : v = a => At("logical", v)'.exists
      BY <1>1, <1>5, <2>1, WritersApartLogical DEF Place, PlaceMade, At
  <2>3. \A v \in Version :
            At("logical", v).exists => At("logical", v)' = At("logical", v)
      BY <1>1, <1>5, OthersStay, WritersApartLogical DEF Place
  <2>. HIDE DEF r
  <2>. QED
      BY <1>1, <1>3, <2>1, <2>2, <2>3, ImportsStayHeld DEF StoreInv, BaseInv
<1>. QED
    BY <1>4, <1>5

(* An import that holds its directory writes it, or leaves it to the next. *)
LEMMA HolderWrites ==
    ASSUME ImportsSettle, StoreInv, NEW p \in Process, WritesOwn(p), UNCHANGED imported,
           NEW r, package' = [package EXCEPT ![p] = r],
           r.import => r.artifact = package[p].artifact /\ package[p].import,
           package[p].at \in Holding,
           r.import => PlaceMade(p)
    PROVE  ImportsHeld'
<1>1. \A v \in Version :
          At("logical", v).exists => \/ At("logical", v)' = At("logical", v)
                                     \/ Holds(p) /\ v = package[p].artifact
    BY OthersStay, WritersApartLogical DEF StoreInv, BaseInv, Holds
<1>2. r.import => /\ Holds(p) /\ r.artifact \in Version
                  /\ \A v \in Version : v = r.artifact => At("logical", v)'.exists
    BY WritersApartLogical DEF StoreInv, BaseInv, Holds, PlaceMade, At
<1>. QED
    BY <1>1, <1>2, ImportsStayHeld DEF StoreInv, BaseInv

LEMMA CopyFileHolds ==
    ASSUME ImportsSettle, StoreInv, NEW p \in Process, NEW f \in File, CopyFile(p, f)
    PROVE  ImportsHeld'
<1>1. \A q \in Process : package[q] \in Package
    BY DEF StoreInv, BaseInv, StoreTypes, PackageOK, PackageTypeOK
<1>2. PICK l \in {"copy", "check", "open"} :
          package' = [package EXCEPT ![p].todo = @ \ {f}, ![p].at = l]
    BY DEF CopyFile
<1>3. /\ package' = [package EXCEPT
                 ![p] = [package[p] EXCEPT !.todo = package[p].todo \ {f}, !.at = l]]
      /\ [package[p] EXCEPT !.todo = package[p].todo \ {f}, !.at = l].artifact
             = package[p].artifact
      /\ [package[p] EXCEPT !.todo = package[p].todo \ {f}, !.at = l].import
             = package[p].import
    BY <1>1, <1>2 DEF StoreInv, BaseInv, StoreTypes, PackageOK, PackageTypeOK, Package
<1>4. UNCHANGED imported /\ package[p].at \in Holding
    BY DEF CopyFile, Holding
<1>. QED
    BY <1>3, <1>4, CopyFileWrites, HolderWrites DEF StoreInv, BaseInv

LEMMA OpenManifestHolds ==
    ASSUME ImportsSettle, StoreInv, NEW p \in Process, OpenManifest(p)
    PROVE  ImportsHeld'
<1>1. /\ package = [q \in Process |-> package[q]]
      /\ package[p] \in Package
    BY DEF StoreInv, BaseInv, StoreTypes, PackageOK, PackageTypeOK
<1>2. PICK l \in {"failed", "write"}, d \in {package[p].fd, Ensured(package[p].name)} :
          package' = [package EXCEPT ![p].at = l, ![p].fd = d]
  <2>1. CASE Place(p).part
    <3>1. package' = [package EXCEPT ![p].at = "failed", ![p].fd = package[p].fd]
        BY <1>1, <2>1 DEF OpenManifest, Goto, Package
    <3>. QED
        BY <3>1
  <2>2. CASE ~Place(p).part
      BY <2>2 DEF OpenManifest
  <2>. QED
      BY <2>1, <2>2
<1>3. /\ package' = [package EXCEPT ![p] = [package[p] EXCEPT !.at = l, !.fd = d]]
      /\ [package[p] EXCEPT !.at = l, !.fd = d].artifact = package[p].artifact
      /\ [package[p] EXCEPT !.at = l, !.fd = d].import = package[p].import
    BY <1>1, <1>2 DEF Package
<1>4. UNCHANGED imported /\ package[p].at \in Holding
    BY DEF OpenManifest, Holding
<1>5. package[p].import => Place(p).exists
    BY <1>4, WritersApartLogical DEF StoreInv, BaseInv, ImportsHeld, HeldExists, Holds, Place
<1>. QED
    BY <1>3, <1>4, <1>5, OpenManifestWrites, HolderWrites DEF StoreInv, BaseInv

LEMMA WriteManifestHolds ==
    ASSUME ImportsSettle, StoreInv, NEW p \in Process, WriteManifest(p)
    PROVE  ImportsHeld'
<1>1. /\ package = [q \in Process |-> package[q]] /\ package[p] \in Package
      /\ package[p].artifact \in Artifact /\ package[p].name \in Name
      /\ TreeTypeOK
    BY PackagePlace DEF StoreInv, BaseInv, StoreTypes, PackageOK, PackageTypeOK
<1>2. PICK l \in {"failed", "inspect"} : package' = [package EXCEPT ![p].at = l]
    BY DEF WriteManifest, Goto
<1>3. /\ package' = [package EXCEPT ![p] = [package[p] EXCEPT !.at = l]]
      /\ [package[p] EXCEPT !.at = l].artifact = package[p].artifact
      /\ [package[p] EXCEPT !.at = l].import = package[p].import
    BY <1>1, <1>2 DEF Package
<1>4. UNCHANGED imported /\ package[p].at \in Holding
    BY DEF WriteManifest, Holding
<1>5. package[p].import => Place(p).exists
    BY <1>4, WritersApartLogical DEF StoreInv, BaseInv, ImportsHeld, HeldExists, Holds, Place
<1>6. Place(p).exists => tree[package[p].name] \in Dir /\ tree[package[p].name] # NoDir
                         /\ dir[tree[package[p].name]][package[p].artifact].exists
    BY <1>1 DEF Place, At, Missing, TreeTypeOK
<1>7. /\ WritesOwn(p) /\ UNCHANGED tree
      /\ \A e \in Dir, b \in Artifact : dir'[e][b].exists = dir[e][b].exists
    BY WriteManifestWrites DEF StoreInv, BaseInv
<1>8. package[p].import => PlaceMade(p)
    BY <1>1, <1>5, <1>6, <1>7 DEF PlaceMade
<1>. QED
    BY <1>3, <1>4, <1>7, <1>8, HolderWrites

LEMMA CleanUpHolds ==
    ASSUME ImportsSettle, StoreInv, NEW p \in Process, CleanUp(p)
    PROVE  ImportsHeld'
<1>1. /\ package' = [package EXCEPT ![p] = IdlePackage] /\ ~IdlePackage.import
      /\ UNCHANGED <<tree, imported>> /\ package[p].at \in Holding
    BY DEF CleanUp, End, IdlePackage, Holding
<1>2. CASE UNCHANGED dir
  <2>1. \A v \in Version : At("logical", v)' = At("logical", v)
      BY <1>1, <1>2 DEF At
  <2>. QED
      BY <1>1, <1>2, <2>1, ImportsStayHeld DEF StoreInv, BaseInv
<1>3. CASE WritesOwn(p)
    BY <1>1, <1>3, HolderWrites
<1>. QED
    BY <1>2, <1>3, CleanUpWrites DEF StoreInv, BaseInv

(* One process's migration goes on as m.                                   *)
LEMMA MigrationGoesOn ==
    ASSUME StoreTypes, MigratesLegacy, NEW p \in Process, NEW m,
           migration' = [migration EXCEPT ![p] = m],
           m.at \in Visited => m.names # {} /\ m.fd \in Dir,
           m.at \in {"rewrite", "replace"} => First(m.artifacts, ArtifactOrder) \notin Version,
           m.at = "rename" => First(m.names, NameOrder) = "legacy"
    PROVE  MigratesLegacy'
<1>1. \A q \in Process : migration'[q] = IF q = p THEN m ELSE migration[q]
    BY DEF StoreTypes, MigrationTypeOK
<1>. QED
    BY <1>1 DEF MigratesLegacy, CurrentArtifact, CurrentName

(* It moves on with the names and the artifacts it is at.                  *)
LEMMA MigrationMovesOn ==
    ASSUME StoreTypes, MigratesLegacy, NEW p \in Process,
           NEW l \in {"rewrite", "replace", "rename"}, Move(p, l),
           migration[p].at \in Visited,
           l # "rename" => CurrentArtifact(p) \notin Version,
           l = "rename" => CurrentName(p) = "legacy"
    PROVE  MigratesLegacy'
<1>. DEFINE m == [migration[p] EXCEPT !.at = l]
<1>1. migration[p] \in Migration
    BY DEF StoreTypes, MigrationTypeOK
<1>2. /\ migration' = [migration EXCEPT ![p] = m] /\ m.at = l
      /\ m.names = migration[p].names /\ m.artifacts = migration[p].artifacts
      /\ m.fd = migration[p].fd
    BY <1>1 DEF Move, Migration
<1>. HIDE DEF m
<1>. QED
    BY <1>2, MigrationGoesOn DEF MigratesLegacy, CurrentArtifact, CurrentName

LEMMA MigrationNext ==
    ASSUME StoreTypes, MigratesLegacy, NEW p \in Process, migration' = NextOf(p),
           migration[p].at \in Visited
    PROVE  MigratesLegacy'
<1>. DEFINE m == [migration[p] EXCEPT !.at = "artifact",
                                      !.artifacts = migration[p].artifacts \ {CurrentArtifact(p)}]
<1>1. migration[p] \in Migration
    BY DEF StoreTypes, MigrationTypeOK
<1>2. /\ migration' = [migration EXCEPT ![p] = m] /\ m.at = "artifact"
      /\ m.names = migration[p].names /\ m.fd = migration[p].fd
    BY <1>1 DEF NextOf, Migration, StoreTypes, MigrationTypeOK
<1>. HIDE DEF m
<1>. QED
    BY <1>2, MigrationGoesOn DEF MigratesLegacy

LEMMA MigrationEnds ==
    ASSUME StoreTypes, MigratesLegacy, NEW p \in Process, Abort(p)
    PROVE  MigratesLegacy'
BY MigrationGoesOn DEF Abort, Idle, Visited

(* The name of a model directory that is visited, and its place.           *)
LEMMA VisitedName ==
    ASSUME StoreTypes, MigratesLegacy, NEW p \in Process, migration[p].at \in Visited
    PROVE  /\ CurrentName(p) \in Name
           /\ ~Placed(p) => CurrentName(p) = "legacy"
BY NextName DEF MigratesLegacy, StoreTypes, Placed, Name

(* A mapped manifest is no import's.                                       *)
LEMMA MappedIsNoImport ==
    ASSUME ImportsUnmapped, MigratesLegacy, NEW p \in Process, migration[p].at = "artifact",
           ~Skipped(p)
    PROVE  CurrentArtifact(p) \notin Version
BY DEF Skipped, Current, ImportsUnmapped, MigratesLegacy, Visited

LEMMA LooksLegacy ==
    ASSUME BaseInv, NEW p \in Process,
           \/ StartMigration(p) \/ OpenModel(p) \/ Report(p) \/ CloseModel(p) \/ ReadManifest(p)
    PROVE  MigratesLegacy'
<1>. USE DEF BaseInv
<1>0. migration[p] \in Migration
    BY DEF StoreTypes, MigrationTypeOK
<1>1. CASE StartMigration(p)
    BY <1>1, MigrationGoesOn DEF StartMigration, Idle, Visited
<1>2. CASE OpenModel(p)
  <2>1. CASE tree[CurrentName(p)] = NoDir
      BY <1>2, <2>1, MigrationEnds DEF OpenModel
  <2>2. CASE tree[CurrentName(p)] # NoDir
    <3>. DEFINE d == tree[CurrentName(p)]
                m == [migration[p] EXCEPT !.at = "artifact", !.fd = d,
                          !.artifacts = {a \in Artifact : dir[d][a].exists}]
    <3>1. d \in Dir
        BY <1>2, <2>2, NextName DEF OpenModel, StoreTypes, TreeTypeOK
    <3>2. migration' = [migration EXCEPT ![p] = m]
        BY <1>2, <2>2 DEF OpenModel, StoreTypes, MigrationTypeOK
    <3>3. m.at = "artifact" /\ m.fd = d /\ m.names = migration[p].names
        BY <1>0 DEF Migration
    <3>4. m.names # {}
        BY <1>2, <3>3 DEF OpenModel
    <3>. HIDE DEF m
    <3>. QED
        BY <3>1, <3>2, <3>3, <3>4, MigrationGoesOn
  <2>. QED
      BY <2>1, <2>2
<1>3. CASE Report(p)
    BY <1>3, MigrationEnds DEF Report
<1>4. CASE CloseModel(p)
  <2>. DEFINE m == [migration[p] EXCEPT !.at = "directory", !.fd = NoDir,
                        !.names = migration[p].names \ {CurrentName(p)}]
  <2>1. migration' = [migration EXCEPT ![p] = m] /\ m.at = "directory"
      BY <1>0, <1>4 DEF CloseModel, StoreTypes, MigrationTypeOK, Migration
  <2>. HIDE DEF m
  <2>. QED
      BY <2>1, MigrationGoesOn DEF Visited
<1>5. CASE ReadManifest(p)
  <2>1. migration[p].at = "artifact"
      BY <1>5 DEF ReadManifest
  <2>2. CASE ~Current(p).exists
      BY <1>5, <2>2, MigrationEnds DEF ReadManifest
  <2>3. CASE Current(p).exists /\ Skipped(p)
      BY <1>5, <2>1, <2>3, MigrationNext DEF ReadManifest, Visited
  <2>4. CASE Current(p).exists /\ ~Skipped(p)
    <3>1. CurrentArtifact(p) \notin Version
        BY <2>1, <2>4, MappedIsNoImport
    <3>2. CASE Current(p).manifest.model = "logical"
      <4>1. Move(p, "rename")
          BY <1>5, <2>4, <3>2 DEF ReadManifest
      <4>2. CurrentName(p) = "legacy"
          BY <2>1, <2>4, <3>2, VisitedName DEF Skipped, Visited
      <4>. QED
          BY <2>1, <4>1, <4>2, MigrationMovesOn DEF Visited
    <3>3. CASE Current(p).manifest.model # "logical"
      <4>1. Move(p, "rewrite")
          BY <1>5, <2>4, <3>3 DEF ReadManifest
      <4>. QED
          BY <2>1, <3>1, <4>1, MigrationMovesOn DEF Visited
    <3>. QED
        BY <3>2, <3>3
  <2>. QED
      BY <2>2, <2>3, <2>4
<1>. QED
    BY <1>1, <1>2, <1>3, <1>4, <1>5

(* A rewrite keeps to an artifact that is no import's.                     *)
LEMMA RewritingHolds ==
    ASSUME BaseInv, NEW p \in Process,
           OpenRewrite(p) \/ RewriteFails(p) \/ ReplaceManifest(p)
    PROVE  /\ ImportsUnmapped' /\ MigratesLegacy'
           /\ \A v \in Version :
                  At("logical", v).exists => At("logical", v)' = At("logical", v)
<1>. USE DEF BaseInv
<1>1. /\ UNCHANGED tree /\ TreeTypeOK
      /\ CurrentArtifact(p) \notin Version /\ migration[p].at \in Visited
    BY DEF OpenRewrite, RewriteFails, ReplaceManifest, MigratesLegacy, StoreTypes, Visited
<1>2. \A e \in Dir, v \in Version : dir'[e][v] = dir[e][v]
  <2>1. Version \subseteq Artifact
      BY DEF Artifact
  <2>2. UNCHANGED dir \/ \E c : With(migration[p].fd, CurrentArtifact(p), c)
      BY DEF OpenRewrite, RewriteFails, ReplaceManifest
  <2>. QED
      BY <1>1, <2>1, <2>2, WithWrites
<1>3. \A v \in Version : At("logical", v)' = At("logical", v)
    BY <1>1, <1>2 DEF At, TreeTypeOK, Name
<1>4. ImportsUnmapped'
    BY <1>2 DEF ImportsUnmapped
<1>5. MigratesLegacy'
  <2>1. CASE OpenRewrite(p)
      BY <1>1, <2>1, MigrationEnds, MigrationMovesOn DEF OpenRewrite
  <2>2. CASE RewriteFails(p)
      BY <2>2, MigrationEnds DEF RewriteFails
  <2>3. CASE ReplaceManifest(p)
      BY <1>1, <2>3, MigrationNext, MigrationMovesOn, VisitedName DEF ReplaceManifest
  <2>. QED
      BY <2>1, <2>2, <2>3
<1>. QED
    BY <1>3, <1>4, <1>5

(* The rename takes the logical name only from a directory without         *)
(* packages.                                                               *)
LEMMA RenameHolds ==
    ASSUME BaseInv, NEW p \in Process, RenameModel(p)
    PROVE  /\ ImportsUnmapped' /\ MigratesLegacy'
           /\ \A v \in Version :
                  At("logical", v).exists => At("logical", v)' = At("logical", v)
<1>. USE DEF BaseInv
<1>1. migration[p].at = "rename" /\ UNCHANGED dir
    BY DEF RenameModel
<1>2. ImportsUnmapped'
    BY <1>1 DEF ImportsUnmapped
<1>3. CASE Renamable(p)
  <2>1. \A v \in Version : ~At("logical", v).exists
      BY <1>3 DEF Renamable, Artifact
  <2>2. migration' = NextOf(p)
      BY <1>3 DEF RenameModel
  <2>. QED
      BY <1>1, <1>2, <2>1, <2>2, MigrationNext DEF Visited
<1>4. CASE ~Renamable(p)
  <2>1. UNCHANGED tree /\ Abort(p)
      BY <1>4 DEF RenameModel
  <2>2. \A v \in Version : At("logical", v)' = At("logical", v)
      BY <1>1, <2>1 DEF At
  <2>. QED
      BY <1>2, <2>1, <2>2, MigrationEnds
<1>. QED
    BY <1>3, <1>4

LEMMA MigrationKeeps ==
    ASSUME BaseInv, NEW p \in Process, StartMigrate(p) \/ Migrate(p)
    PROVE  /\ BaseInv' /\ UNCHANGED <<packageVars, trainingVars>>
           /\ \A v \in Version :
                  At("logical", v).exists => At("logical", v)' = At("logical", v)
<1>1. UNCHANGED packageVars /\ UNCHANGED trainingVars
    BY DEF StartMigrate, Migrate
<1>2. PackageOK'
    BY <1>1 DEF BaseInv, StoreTypes, PackageOK, PackageTypeOK, WritersApart, packageVars
<1>3. CASE \/ StartMigration(p) \/ OpenModel(p) \/ Report(p) \/ CloseModel(p)
           \/ ReadManifest(p)
  <2>1. MigrationTypeOK' /\ UNCHANGED <<tree, dir>>
      BY <1>3, MigrationLooks DEF BaseInv
  <2>2. TreeTypeOK' /\ ImportsUnmapped' /\ \A v \in Version : At("logical", v)' = At("logical", v)
      BY <2>1 DEF BaseInv, StoreTypes, TreeTypeOK, ImportsUnmapped, At
  <2>. QED
      BY <1>1, <1>2, <1>3, <2>1, <2>2, LooksLegacy DEF BaseInv, StoreTypes
<1>4. CASE OpenRewrite(p) \/ RewriteFails(p) \/ ReplaceManifest(p)
    BY <1>1, <1>4, RewritingType, RewritingHolds DEF BaseInv
<1>5. CASE RenameModel(p)
  <2>1. migration[p].at \in Visited
      BY <1>5 DEF RenameModel, Visited
  <2>2. CurrentName(p) \in Name
      BY <2>1, VisitedName DEF BaseInv
  <2>. QED
      BY <1>1, <1>2, <1>5, <2>2, RenameType, RenameHolds DEF BaseInv, StoreTypes
<1>. QED
    BY <1>3, <1>4, <1>5 DEF StartMigrate, Migrate, MigrationStep

LEMMA MigrationLeft ==
    ASSUME MigrationTypeOK, MigratesLegacy, UNCHANGED migrationVars
    PROVE  MigrationTypeOK' /\ MigratesLegacy'
BY DEF migrationVars, MigrationTypeOK, MigratesLegacy, CurrentArtifact, CurrentName

LEMMA PackageKeepsBase ==
    ASSUME BaseInv, NEW p \in Process, StartPackage(p) \/ WritePackage(p)
    PROVE  BaseInv'
<1>. USE DEF BaseInv, StoreTypes
<1>1. MigrationTypeOK' /\ MigratesLegacy'
    BY MigrationLeft DEF StartPackage, WritePackage
<1>2. CASE StartPackage(p)
  <2>1. PackageOK' /\ UNCHANGED <<tree, dir>>
      BY <1>2, StartPackageType DEF StartPackage
  <2>. QED
      BY <1>1, <2>1 DEF TreeTypeOK, ImportsUnmapped
<1>3. CASE WritePackage(p)
  <2>1. PackageStep(p)
      BY <1>3 DEF WritePackage
  <2>2. TreeTypeOK' /\ PackageOK'
      BY <2>1, PackageStepTypes
  <2>3. UNCHANGED dir \/ WritesOwn(p)
      BY <2>1, MakeDirectoryWrites, CopyFileWrites, OpenManifestWrites, WriteManifestWrites,
         CleanUpWrites DEF PackageStep, CopyFails, CheckContent, Inspect
  <2>4. ImportsUnmapped'
      BY <2>3, StaysUnmapped DEF ImportsUnmapped
  <2>. QED
      BY <1>1, <2>2, <2>4
<1>. QED
    BY <1>2, <1>3

LEMMA CrashKeepsBase ==
    ASSUME BaseInv, NEW p \in Process, Crash(p)
    PROVE  BaseInv'
<1>. USE DEF BaseInv, StoreTypes
<1>1. Abort(p) /\ End(p) /\ UNCHANGED <<tree, dir, source, imported>>
    BY DEF Crash, Abort, End, treeVars
<1>2. TreeTypeOK' /\ ImportsUnmapped'
    BY <1>1 DEF TreeTypeOK, ImportsUnmapped
<1>3. MigrationTypeOK' /\ MigratesLegacy'
    BY <1>1, MigrationMoves, MigrationEnds
<1>4. PackageOK'
    BY <1>1, PackageGoes DEF PackageOK, PackageTypeOK
<1>. QED
    BY <1>2, <1>3, <1>4

(* Training, and the user, who changes no more than the source.            *)
LEMMA OthersKeepBase ==
    ASSUME BaseInv,
           \/ \E p \in Process : StartTrain(p) \/ Train(p)
           \/ User
           \/ UNCHANGED vars
    PROVE  /\ BaseInv' /\ UNCHANGED <<package, imported>>
           /\ \A v \in Version : At("logical", v)' = At("logical", v)
<1>. USE DEF BaseInv, StoreTypes
<1>1. /\ UNCHANGED <<tree, dir, package, imported>> /\ UNCHANGED migrationVars
      /\ source' \in Version
    BY DEF StartTrain, Train, User, ChangeSource, UserWrites, vars, treeVars, packageVars,
       PackageOK, PackageTypeOK
<1>2. MigrationTypeOK' /\ MigratesLegacy'
    BY <1>1, MigrationLeft
<1>3. PackageOK'
    BY <1>1 DEF PackageOK, PackageTypeOK, WritersApart
<1>4. /\ TreeTypeOK' /\ ImportsUnmapped'
      /\ \A v \in Version : At("logical", v)' = At("logical", v)
    BY <1>1 DEF TreeTypeOK, ImportsUnmapped, At
<1>. QED
    BY <1>1, <1>2, <1>3, <1>4

LEMMA BaseStep == BaseInv /\ [Next]_vars => BaseInv'
<1>. SUFFICES ASSUME BaseInv, [Next]_vars
              PROVE  BaseInv'
    OBVIOUS
<1>1. CASE UNCHANGED vars
    BY <1>1, OthersKeepBase
<1>2. CASE User
    BY <1>2, OthersKeepBase
<1>3. ASSUME NEW p \in Process,
             \/ StartMigrate(p) \/ StartPackage(p) \/ StartTrain(p)
             \/ Migrate(p) \/ WritePackage(p) \/ Train(p) \/ Crash(p)
      PROVE  BaseInv'
    BY <1>3, MigrationKeeps, PackageKeepsBase, CrashKeepsBase, OthersKeepBase
<1>. QED
    BY <1>1, <1>2, <1>3 DEF Next

LEMMA BaseInit == Init => BaseInv
<1>. SUFFICES ASSUME Init
              PROVE  BaseInv
    OBVIOUS
<1>1. PICK s \in Scene : TreeInit(s.manifests) /\ s.manifests \in [Downloaded -> Manifest]
    BY CommandAssumption DEF Init, CommandAssumption
<1>2. PICK d \in Dir :
          /\ tree = [n \in Name |-> IF n = "legacy" THEN d ELSE NoDir]
          /\ dir = [e \in Dir |-> [a \in Artifact |->
                      IF e = d /\ a \in Downloaded
                      THEN [EmptyDirectory EXCEPT !.manifest = s.manifests[a]] ELSE Missing]]
  <2>1. (CHOOSE e \in Dir : TRUE) \in Dir
      BY TreeAssumption DEF TreeAssumption
  <2>. QED
      BY <1>1, <2>1 DEF TreeInit
<1>3. \A a \in Downloaded :
          [EmptyDirectory EXCEPT !.manifest = s.manifests[a]] \in ArtifactDirectory
    BY <1>1, NewDirectories DEF ArtifactDirectory
<1>4. TreeTypeOK
    BY <1>2, <1>3, NewDirectories DEF TreeTypeOK
<1>5. ImportsUnmapped
  <2>1. \A e \in Dir, v \in Version : dir[e][v] = Missing
      BY <1>2, TreeAssumption DEF TreeAssumption, Artifact
  <2>. QED
      BY <2>1 DEF ImportsUnmapped, Missing, NoManifest
<1>6. MigrationTypeOK /\ MigratesLegacy
    BY IdleTypes DEF Init, MigrationInit, MigrationTypeOK, MigratesLegacy, Idle, Visited
<1>7. PackageOK
    BY IdleTypes, TreeAssumption DEF TreeAssumption, Init, PackageInit, PackageOK,
       PackageTypeOK, WritersApart, IdlePackage
<1>. QED
    BY <1>4, <1>5, <1>6, <1>7 DEF BaseInv, StoreTypes

LEMMA BaseInvariance == Spec => []BaseInv
BY BaseInit, BaseStep, PTL DEF Spec

(* The store, its commands and what is left of the bounds have their       *)
(* types, wherever imports go.                                             *)
THEOREM StoreTypeCorrect == Spec => []TypeOK
<1>. DEFINE Bounds == /\ packages \in 0 .. MaxPackages
                      /\ crashes \in 0 .. MaxCrashes
                      /\ \E s \in Scene : cast = s.cast
<1>1. Init => Bounds
    BY CommandAssumption DEF CommandAssumption, Init
<1>2. Bounds /\ [Next]_vars => Bounds'
  <2>. SUFFICES ASSUME Bounds, [Next]_vars
                PROVE  Bounds'
      OBVIOUS
  <2>1. /\ \/ UNCHANGED packages
           \/ packages > 0 /\ packages' = packages - 1
        /\ \/ UNCHANGED crashes
           \/ crashes > 0 /\ crashes' = crashes - 1
        /\ UNCHANGED cast
      BY DEF Next, vars, User, StartMigrate, StartPackage, StartTrain, Migrate, WritePackage,
         Train, Crash
  <2>. QED
      BY <2>1, CommandAssumption DEF CommandAssumption
<1>3. BaseInv /\ IInv /\ Bounds => TypeOK
    BY DEF BaseInv, StoreTypes, PackageOK, IInv, TypeOK
<1>. QED
    BY <1>1, <1>2, <1>3, BaseInvariance, Invariance, PTL DEF Spec

LEMMA ImportStep ==
    ASSUME ImportsSettle, StoreInv, [Next]_vars
    PROVE  ImportsHeld'
<1>. USE DEF StoreInv
<1>1. ASSUME NEW p \in Process, StartMigrate(p) \/ Migrate(p)
      PROVE  ImportsHeld'
    BY <1>1, MigrationKeeps, ImportsUntouched DEF BaseInv, packageVars
<1>2. ASSUME NEW p \in Process, StartPackage(p)
      PROVE  ImportsHeld'
    BY <1>2, StartPackageHolds DEF StartPackage
<1>3. ASSUME NEW p \in Process, WritePackage(p)
      PROVE  ImportsHeld'
    BY <1>3, MakeDirectoryHolds, CopyFileHolds, LookingHolds, OpenManifestHolds,
       WriteManifestHolds, CleanUpHolds DEF WritePackage, PackageStep
<1>4. ASSUME NEW p \in Process, Crash(p)
      PROVE  ImportsHeld'
  <2>1. /\ package' = [package EXCEPT ![p] = IdlePackage] /\ ~IdlePackage.import
        /\ UNCHANGED <<tree, dir, imported>>
      BY <1>4 DEF Crash, treeVars, IdlePackage
  <2>2. \A v \in Version : At("logical", v)' = At("logical", v)
      BY <2>1 DEF At
  <2>. QED
      BY <2>1, <2>2, ImportsStayHeld DEF BaseInv
<1>5. CASE (\E p \in Process : StartTrain(p) \/ Train(p)) \/ User \/ UNCHANGED vars
    BY <1>5, OthersKeepBase, ImportsUntouched DEF BaseInv
<1>. QED
    BY <1>1, <1>2, <1>3, <1>4, <1>5 DEF Next

(* A package whose import was reported as a success stays, whole, whatever *)
(* other imports of it lose the race or fail, are killed, or clean up,     *)
(* and whatever any number of migrations rewrite and rename, of any number *)
(* of packages and processes, as long as no import goes to the name the    *)
(* migration renames.                                                      *)
THEOREM ImportsAreKept ==
    ASSUME ImportsSettle
    PROVE  Spec => []ImportedIsKept
<1>1. Init => StoreInv
  <2>1. Init => ImportsHeld
      BY DEF Init, PackageInit, IdlePackage, ImportsHeld, HeldByOne, HeldExists,
         ImportedIsWhole, Holds
  <2>. QED
      BY <2>1, BaseInit DEF StoreInv
<1>2. StoreInv /\ [Next]_vars => StoreInv'
    BY ImportStep, BaseStep DEF StoreInv
<1>3. StoreInv => ImportedIsKept
    BY DEF StoreInv, ImportsHeld, ImportedIsWhole, ImportedIsKept, Name
<1>. QED
    BY <1>1, <1>2, <1>3, PTL DEF Spec

-----------------------------------------------------------------------------
(* Nothing is lost.                                                        *)

(* What one step leaves of what has a name: the directory itself, and what *)
(* is in it.                                                               *)
NamesStay ==
    \A n \in Name, a \in Artifact : At(n, a).exists => \E m \in Name : tree'[m] = tree[n]

ContentStays ==
    \A n \in Name, a \in Artifact : At(n, a).exists => Kept(At(n, a), dir'[tree[n]][a])

NothingLost(n, a) == \E m \in Name : tree'[m] = tree[n] /\ Kept(At(n, a), At(m, a)')

LEMMA StaysKept ==
    ASSUME NamesStay, ContentStays, NEW n \in Name, NEW a \in Artifact, At(n, a).exists
    PROVE  NothingLost(n, a)
<1>1. tree[n] # NoDir
    BY DEF At, Missing
<1>2. PICK m \in Name : tree'[m] = tree[n]
    BY DEF NamesStay
<1>3. At(m, a)' = dir'[tree[n]][a]
    BY <1>1, <1>2 DEF At
<1>. QED
    BY <1>2, <1>3 DEF ContentStays, NothingLost

(* A step that changes nothing of it, one that makes a directory where     *)
(* there was none, and a write that keeps what it writes to.               *)
LEMMA UnchangedStays ==
    /\ UNCHANGED tree => NamesStay
    /\ UNCHANGED dir => ContentStays
<1>1. ASSUME UNCHANGED dir, NEW n \in Name, NEW a \in Artifact, At(n, a).exists
      PROVE  Kept(At(n, a), dir'[tree[n]][a])
    BY <1>1 DEF At, Missing, Kept
<1>. QED
    BY <1>1 DEF NamesStay, ContentStays

LEMMA EnsureStays ==
    ASSUME TreeTypeOK, NEW n \in Name, Ensure(n)
    PROVE  NamesStay
BY EnsureKeeps DEF NamesStay, At, Missing

LEMMA WriteStays ==
    ASSUME TreeTypeOK, NEW d, NEW b, NEW c, With(d, b, c),
           \A n \in Name :
               b \in Artifact /\ tree[n] = d /\ At(n, b).exists => Kept(At(n, b), c)
    PROVE  ContentStays
<1>. SUFFICES ASSUME NEW n \in Name, NEW a \in Artifact, At(n, a).exists
              PROVE  Kept(At(n, a), dir'[tree[n]][a])
    BY DEF ContentStays
<1>1. tree[n] \in Dir /\ At(n, a) = dir[tree[n]][a]
    BY DEF At, Missing, TreeTypeOK
<1>2. dir'[tree[n]][a] = IF tree[n] = d /\ a = b THEN c ELSE dir[tree[n]][a]
    BY <1>1, WithWrites
<1>. QED
    BY <1>1, <1>2 DEF Kept

(* The directory a command asks for, when it has a name already, has the   *)
(* name the command knows.                                                 *)
LEMMA OwnPlace ==
    ASSUME StoreTypes, NEW p \in Process, NEW n \in Name,
           tree[n] = Ensured(package[p].name), At(n, package[p].artifact).exists
    PROVE  At(n, package[p].artifact) = Place(p)
<1>1. package[p].name \in Name /\ TreeTypeOK
    BY PackagePlace DEF StoreTypes
<1>2. tree[package[p].name] = tree[n]
    BY <1>1, EnsuredIsFresh
<1>. QED
    BY <1>2 DEF At, Place

LEMMA PackageLosesNothing ==
    ASSUME StoreTypes, NEW p \in Process, PackageStep(p), ~CleanUp(p)
    PROVE  NamesStay /\ ContentStays
<1>. DEFINE n == package[p].name  b == package[p].artifact
<1>1. TreeTypeOK /\ n \in Name /\ b \in Artifact /\ Place(p) \in ArtifactDirectory
    BY PackagePlace DEF StoreTypes
<1>2. CASE MakeDirectory(p)
  <2>1. NamesStay
      BY <1>1, <1>2, EnsureStays DEF MakeDirectory
  <2>2. CASE dir[Ensured(n)][b].exists
      BY <1>2, <2>1, <2>2, UnchangedStays DEF MakeDirectory
  <2>3. CASE ~dir[Ensured(n)][b].exists
    <3>1. With(Ensured(n), b, EmptyDirectory)
        BY <1>2, <2>3 DEF MakeDirectory
    <3>2. \A m \in Name : ~(tree[m] = Ensured(n) /\ At(m, b).exists)
        BY <2>3 DEF At, Missing
    <3>. QED
        BY <1>1, <2>1, <3>1, <3>2, WriteStays
  <2>. QED
      BY <2>2, <2>3
<1>3. ASSUME NEW f \in File, CopyFile(p, f)
      PROVE  NamesStay /\ ContentStays
  <2>1. NamesStay
      BY <1>1, <1>3, EnsureStays DEF CopyFile
  <2>2. PICK c : /\ With(Ensured(n), b, c)
                 /\ c = [Place(p) EXCEPT !.exists = TRUE,
                             !.files[f] = IF package[p].import THEN source ELSE package[p].content]
      BY <1>3 DEF CopyFile
  <2>3. c.exists /\ c.manifest = Place(p).manifest
      BY <1>1, <2>2 DEF ArtifactDirectory
  <2>. QED
    <3>1. \A m \in Name : tree[m] = Ensured(n) /\ At(m, b).exists => Kept(At(m, b), c)
        BY <2>3, OwnPlace DEF Kept
    <3>. QED
        BY <1>1, <2>1, <2>2, <3>1, WriteStays
<1>4. CASE OpenManifest(p)
  <2>1. NamesStay
      BY <1>1, <1>4, EnsureStays DEF OpenManifest
  <2>2. CASE Place(p).part
      BY <1>4, <2>1, <2>2, UnchangedStays DEF OpenManifest
  <2>3. CASE ~Place(p).part
    <3>1. PICK c : /\ With(Ensured(n), b, c)
                   /\ c = [Place(p) EXCEPT !.exists = TRUE, !.part = TRUE]
        BY <1>4, <2>3 DEF OpenManifest
    <3>2. c.exists /\ c.manifest = Place(p).manifest
        BY <1>1, <3>1 DEF ArtifactDirectory
    <3>3. \A m \in Name : tree[m] = Ensured(n) /\ At(m, b).exists => Kept(At(m, b), c)
        BY <3>2, OwnPlace DEF Kept
    <3>. QED
        BY <1>1, <2>1, <3>1, <3>3, WriteStays
  <2>. QED
      BY <2>2, <2>3
<1>5. CASE WriteManifest(p)
  <2>. DEFINE d == package[p].fd  old == dir[d][b]
  <2>1. NamesStay
      BY <1>5, UnchangedStays DEF WriteManifest
  <2>2. PICK c : /\ With(d, b, c)
                 /\ \/ c = [old EXCEPT !.part = FALSE, !.manifest = Registered(p)]
                    \/ c = [old EXCEPT !.part = FALSE]
      BY <1>5 DEF WriteManifest
  <2>3. ASSUME NEW m \in Name, tree[m] = d, At(m, b).exists
        PROVE  Kept(At(m, b), c)
    <3>1. d \in Dir /\ At(m, b) = old /\ old \in ArtifactDirectory
        BY <1>1, <2>3 DEF At, Missing, TreeTypeOK
    <3>2. Registered(p).model \in Name
        BY <1>1 DEF Registered
    <3>. QED
        BY <2>2, <2>3, <3>1, <3>2 DEF Kept, ArtifactDirectory
  <2>. QED
      BY <1>1, <2>1, <2>2, <2>3, WriteStays
<1>6. CASE CopyFails(p) \/ CheckContent(p) \/ Inspect(p)
    BY <1>6, PackageLooks, UnchangedStays
<1>. QED
    BY <1>2, <1>3, <1>4, <1>5, <1>6 DEF PackageStep

(* A cleanup removes nothing but its own artifact.                         *)
LEMMA CleanUpLoses ==
    ASSUME StoreTypes, NEW p \in Process, CleanUp(p), NEW n \in Name, NEW a \in Artifact,
           At(n, a).exists, ~(package[p].import /\ a = package[p].artifact)
    PROVE  NothingLost(n, a)
<1>1. TreeTypeOK /\ package[p].artifact \in Artifact /\ UNCHANGED tree
    BY PackagePlace, CleanUpWrites DEF StoreTypes
<1>2. tree[n] \in Dir /\ At(n, a) = dir[tree[n]][a]
    BY <1>1 DEF At, Missing, TreeTypeOK
<1>3. dir'[tree[n]][a] = dir[tree[n]][a]
    BY <1>1, <1>2, WithWrites DEF CleanUp
<1>4. At(n, a)' = At(n, a)
    BY <1>1, <1>2, <1>3 DEF At
<1>. QED
    BY <1>1, <1>4 DEF NothingLost, Kept

LEMMA MigrationLosesNothing ==
    ASSUME BaseInv, NEW p \in Process, StartMigrate(p) \/ Migrate(p)
    PROVE  NamesStay /\ ContentStays
<1>. USE DEF BaseInv
<1>1. CASE \/ StartMigration(p) \/ OpenModel(p) \/ Report(p) \/ CloseModel(p)
           \/ ReadManifest(p)
    BY <1>1, MigrationLooks, UnchangedStays
<1>2. CASE OpenRewrite(p) \/ RewriteFails(p) \/ ReplaceManifest(p)
  <2>. DEFINE d == migration[p].fd  b == CurrentArtifact(p)  old == dir[d][b]
  <2>1. NamesStay
      BY <1>2, UnchangedStays DEF OpenRewrite, RewriteFails, ReplaceManifest
  <2>2. CASE UNCHANGED dir
      BY <2>1, <2>2, UnchangedStays
  <2>3. CASE ~UNCHANGED dir
    <3>1. PICK c : /\ With(d, b, c)
                   /\ \/ c = [old EXCEPT !.migrationPart = TRUE]
                      \/ c = [old EXCEPT !.migrationPart = FALSE]
                      \/ c = [old EXCEPT !.migrationPart = FALSE, !.manifest.model = "logical"]
        BY <1>2, <2>3 DEF OpenRewrite, RewriteFails, ReplaceManifest, Current
    <3>2. ASSUME NEW m \in Name, b \in Artifact, tree[m] = d, At(m, b).exists
          PROVE  Kept(At(m, b), c)
      <4>1. At(m, b) = old /\ old \in ArtifactDirectory
          BY <3>2 DEF At, Missing, StoreTypes, TreeTypeOK
      <4>2. c.exists = old.exists
          BY <3>1, <4>1 DEF ArtifactDirectory
      <4>3. c.manifest = old.manifest \/ c.manifest = [old.manifest EXCEPT !.model = "logical"]
          BY <3>1, <4>1 DEF ArtifactDirectory
      <4>4. c.manifest.model \in {old.manifest.model, "logical"}
          BY <4>1, <4>3 DEF ArtifactDirectory, Manifest
      <4>. QED
          BY <3>2, <4>1, <4>2, <4>4 DEF Kept, Name
    <3>. QED
        BY <2>1, <3>1, <3>2, WriteStays DEF StoreTypes
  <2>. QED
      BY <2>2, <2>3
<1>3. CASE RenameModel(p)
  <2>1. ContentStays
      BY <1>3, UnchangedStays DEF RenameModel
  <2>2. CASE ~Renamable(p)
      BY <1>3, <2>1, <2>2, UnchangedStays DEF RenameModel
  <2>3. CASE Renamable(p)
    <3>1. CurrentName(p) = "legacy"
        BY <1>3 DEF RenameModel, MigratesLegacy
    <3>2. tree' = [tree EXCEPT !["logical"] = tree["legacy"], !["legacy"] = NoDir]
        BY <1>3, <2>3, <3>1 DEF RenameModel
    <3>3. tree'["logical"] = tree["legacy"]
        BY <3>2 DEF StoreTypes, TreeTypeOK, Name
    <3>4. \A a \in Artifact : ~At("logical", a).exists
        BY <2>3 DEF Renamable
    <3>. QED
        BY <2>1, <3>3, <3>4 DEF NamesStay, Name
  <2>. QED
      BY <2>2, <2>3
<1>. QED
    BY <1>1, <1>2, <1>3 DEF StartMigrate, Migrate, MigrationStep

(* Beside any number of migrations, conversions, imports and trainings,    *)
(* wherever imports go and whoever is killed: what is in the store keeps a *)
(* name and its registration, unless the import of that very artifact      *)
(* fails and removes it.                                                   *)
THEOREM NothingLostByCommands == Spec => NothingIsLost
<1>. DEFINE Lose ==
              \A n \in Name, a \in Artifact :
                At(n, a).exists =>
                  \/ \E m \in Name : tree'[m] = tree[n] /\ Kept(At(n, a), At(m, a)')
                  \/ \E p \in Process : package[p].import /\ package[p].at = "failed"
                                         /\ package[p].artifact = a
<1>1. NamesStay /\ ContentStays => Lose
    BY StaysKept DEF NothingLost
<1>2. ASSUME BaseInv, [Next]_vars
      PROVE  [Lose]_vars
  <2>1. ASSUME NEW p \in Process, CleanUp(p)
        PROVE  Lose
    <3>. SUFFICES ASSUME NEW n \in Name, NEW a \in Artifact, At(n, a).exists,
                         ~(package[p].import /\ a = package[p].artifact)
                  PROVE  NothingLost(n, a)
        BY <2>1 DEF CleanUp, NothingLost
    <3>. QED
        BY <1>2, <2>1, CleanUpLoses DEF BaseInv
  <2>2. ASSUME NEW p \in Process, WritePackage(p)
        PROVE  Lose
      BY <1>1, <1>2, <2>1, <2>2, PackageLosesNothing DEF BaseInv, WritePackage
  <2>3. ASSUME NEW p \in Process, StartMigrate(p) \/ Migrate(p)
        PROVE  Lose
      BY <1>1, <1>2, <2>3, MigrationLosesNothing
  <2>4. ASSUME NEW p \in Process, StartPackage(p) \/ StartTrain(p) \/ Train(p) \/ Crash(p)
        PROVE  Lose
    <3>1. UNCHANGED <<tree, dir>>
        BY <2>4 DEF StartPackage, StartExport, StartImport, StartTrain, Train, Crash, treeVars
    <3>. QED
        BY <1>1, <3>1, UnchangedStays
  <2>5. CASE User
    <3>1. UNCHANGED <<tree, dir>>
        BY <2>5 DEF User, ChangeSource, treeVars
    <3>. QED
        BY <1>1, <3>1, UnchangedStays
  <2>. QED
      BY <1>2, <2>2, <2>3, <2>4, <2>5 DEF Next
<1>. QED
    BY <1>2, BaseInvariance, PTL DEF Spec, NothingIsLost

-----------------------------------------------------------------------------
(* A migration comes to its end.                                           *)

(* Where a migration is within one artifact.                               *)
Rank(at) ==
    CASE at = "artifact" -> 3
      [] at = "rewrite" -> 2
      [] at = "replace" -> 1
      [] OTHER -> 0

(* From m a migration has come nearer to its end in n: it has ended, it    *)
(* has fewer directories to visit, it has opened the one it visits, it has *)
(* fewer artifacts to look at there, or it is further with one of them.    *)
NearerEnd(m, n) ==
    \/ n = Idle
    \/ n.names \subseteq m.names /\ n.names # m.names
    \/ n.names = m.names /\ m.at = "directory" /\ n.at = "artifact"
    \/ /\ n.names = m.names /\ m.at # "directory" /\ n.at # "directory"
       /\ \/ n.artifacts \subseteq m.artifacts /\ n.artifacts # m.artifacts
          \/ n.artifacts = m.artifacts /\ Rank(n.at) < Rank(m.at)

(* What is rewritten or renamed for was listed.                            *)
WorksOnListed ==
    \A p \in Process :
        migration[p].at \in {"rewrite", "replace", "rename"} => migration[p].artifacts # {}

(* The next artifact, or the next step with this one.                      *)
LEMMA NearerInDirectory ==
    ASSUME BaseInv, WorksOnListed, NEW p \in Process, migration[p].at \in Visited,
           migration[p].artifacts # {},
           \/ migration' = NextOf(p)
           \/ \E l \in {"rewrite", "replace", "rename"} :
                  Move(p, l) /\ Rank(l) < Rank(migration[p].at)
    PROVE  /\ NearerEnd(migration[p], migration'[p])
           /\ \A q \in Process \ {p} : UNCHANGED migration[q]
           /\ WorksOnListed'
<1>. USE DEF BaseInv, StoreTypes
<1>1. migration[p] \in Migration /\ migration[p].at # "directory"
    BY DEF MigrationTypeOK, Visited
<1>2. CASE migration' = NextOf(p)
    <2>1. CurrentArtifact(p) \in migration[p].artifacts
        BY <1>1, FirstIsListed, MigrationAssumption
           DEF MigrationAssumption, CurrentArtifact, Migration
    <2>2. /\ migration'[p].names = migration[p].names /\ migration'[p].at = "artifact"
          /\ migration'[p].artifacts = migration[p].artifacts \ {CurrentArtifact(p)}
          /\ \A q \in Process \ {p} : migration'[q] = migration[q]
        BY <1>1, <1>2 DEF NextOf, MigrationTypeOK, Migration
    <2>. QED
        BY <1>1, <2>1, <2>2 DEF NearerEnd, WorksOnListed
<1>3. ASSUME NEW l \in {"rewrite", "replace", "rename"}, Move(p, l),
             Rank(l) < Rank(migration[p].at)
      PROVE  /\ NearerEnd(migration[p], migration'[p])
             /\ \A q \in Process \ {p} : UNCHANGED migration[q]
             /\ WorksOnListed'
    <2>1. /\ migration'[p].names = migration[p].names /\ migration'[p].at = l
          /\ migration'[p].artifacts = migration[p].artifacts
          /\ \A q \in Process \ {p} : migration'[q] = migration[q]
        BY <1>1, <1>3 DEF Move, MigrationTypeOK, Migration
    <2>. QED
        BY <1>1, <1>3, <2>1 DEF NearerEnd, WorksOnListed
<1>. QED
    BY <1>2, <1>3

LEMMA NearerByAbort ==
    ASSUME BaseInv, WorksOnListed, NEW p \in Process, Abort(p)
    PROVE  /\ NearerEnd(migration[p], migration'[p])
           /\ \A q \in Process \ {p} : UNCHANGED migration[q]
           /\ WorksOnListed'
<1>1. migration'[p] = Idle /\ \A q \in Process \ {p} : migration'[q] = migration[q]
    BY DEF Abort, BaseInv, StoreTypes, MigrationTypeOK
<1>. QED
    BY <1>1 DEF NearerEnd, WorksOnListed, Idle

LEMMA MigrationNearer ==
    ASSUME BaseInv, WorksOnListed, NEW p \in Process, MigrationStep(p) \/ RewriteFails(p)
    PROVE  /\ NearerEnd(migration[p], migration'[p])
           /\ \A q \in Process \ {p} : UNCHANGED migration[q]
           /\ WorksOnListed'
<1>. USE DEF BaseInv, StoreTypes
<1>1. migration[p] \in Migration
    BY DEF MigrationTypeOK
<1>2. CASE Abort(p)
    BY <1>2, NearerByAbort
<1>3. CASE OpenModel(p) /\ ~Abort(p)
    <2>1. /\ migration[p].at = "directory" /\ migration'[p].at = "artifact"
          /\ migration'[p].names = migration[p].names
          /\ \A q \in Process \ {p} : migration'[q] = migration[q]
        BY <1>1, <1>3 DEF OpenModel, MigrationTypeOK, Migration
    <2>. QED
        BY <2>1 DEF NearerEnd, WorksOnListed
<1>4. CASE CloseModel(p)
    <2>1. migration[p].names # {} /\ migration[p].names \in SUBSET Name
        BY <1>1, <1>4 DEF CloseModel, MigratesLegacy, Visited, Migration
    <2>2. CurrentName(p) \in migration[p].names
        BY <2>1, FirstIsListed, MigrationAssumption DEF MigrationAssumption, CurrentName
    <2>3. /\ migration'[p].at = "directory"
          /\ migration'[p].names = migration[p].names \ {CurrentName(p)}
          /\ \A q \in Process \ {p} : migration'[q] = migration[q]
        BY <1>1, <1>4 DEF CloseModel, MigrationTypeOK, Migration
    <2>. QED
        BY <2>2, <2>3 DEF NearerEnd, WorksOnListed
<1>5. CASE ReadManifest(p) /\ ~Abort(p)
    BY <1>5, NearerInDirectory DEF ReadManifest, Visited, Rank
<1>6. CASE OpenRewrite(p) /\ ~Abort(p)
    BY <1>6, NearerInDirectory DEF OpenRewrite, Visited, Rank, WorksOnListed
<1>7. CASE ReplaceManifest(p)
    BY <1>7, NearerInDirectory DEF ReplaceManifest, Visited, Rank, WorksOnListed
<1>8. CASE RenameModel(p) /\ ~Abort(p)
    BY <1>8, NearerInDirectory DEF RenameModel, Visited, WorksOnListed
<1>. QED
    BY <1>2, <1>3, <1>4, <1>5, <1>6, <1>7, <1>8 DEF MigrationStep, Report, RewriteFails

(* Whatever others do to the directories and artifacts it listed, each     *)
(* step brings a migration nearer to its end: it visits what it listed,    *)
(* and a listing is finite.                                                *)
THEOREM MigrationsAreBounded ==
    Spec => [][\A p \in Process : migration[p].at # "idle" =>
                  \/ UNCHANGED migration[p]
                  \/ NearerEnd(migration[p], migration'[p])]_vars
<1>1. Init => WorksOnListed
    BY DEF Init, MigrationInit, WorksOnListed, Idle
<1>2. ASSUME BaseInv, WorksOnListed, [Next]_vars
      PROVE  /\ WorksOnListed'
             /\ \A p \in Process : migration[p].at # "idle" =>
                    \/ UNCHANGED migration[p]
                    \/ NearerEnd(migration[p], migration'[p])
    <2>1. CASE UNCHANGED migration
        BY <1>2, <2>1 DEF WorksOnListed
    <2>2. ASSUME NEW p \in Process, Migrate(p)
          PROVE  /\ WorksOnListed'
                 /\ \A q \in Process : UNCHANGED migration[q]
                                       \/ NearerEnd(migration[q], migration'[q])
        BY <1>2, <2>2, MigrationNearer DEF Migrate
    <2>3. ASSUME NEW p \in Process, StartMigrate(p)
          PROVE  /\ WorksOnListed'
                 /\ \A q \in Process : migration[q].at # "idle" => UNCHANGED migration[q]
        <3>1. /\ migration[p].at = "idle" /\ migration'[p].at = "directory"
              /\ \A q \in Process \ {p} : migration'[q] = migration[q]
            BY <1>2, <2>3
               DEF StartMigrate, StartMigration, BaseInv, StoreTypes, MigrationTypeOK, Idle
        <3>. QED
            BY <1>2, <3>1 DEF WorksOnListed
    <2>4. ASSUME NEW p \in Process, Crash(p)
          PROVE  /\ WorksOnListed'
                 /\ \A q \in Process : UNCHANGED migration[q]
                                       \/ NearerEnd(migration[q], migration'[q])
        <3>1. Abort(p)
            BY <2>4 DEF Crash, Abort
        <3>. QED
            BY <1>2, <3>1, NearerByAbort
    <2>5. ASSUME \/ \E p \in Process :
                       StartPackage(p) \/ StartTrain(p) \/ WritePackage(p) \/ Train(p)
                 \/ User \/ UNCHANGED vars
          PROVE  UNCHANGED migration
        BY <2>5 DEF StartPackage, StartTrain, WritePackage, Train, User, vars, migrationVars
    <2>. QED
        BY <1>2, <2>1, <2>2, <2>3, <2>4, <2>5 DEF Next
<1>. QED
    BY <1>1, <1>2, BaseInvariance, PTL DEF Spec
=============================================================================
