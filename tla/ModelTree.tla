------------------------------ MODULE ModelTree ------------------------------
(***************************************************************************)
(* The model store as its directories: <store>/<model>/<artifact>.  Two    *)
(* names of one model matter, the legacy one made of a repository and the  *)
(* one made of the logical model id.  A model directory keeps its identity *)
(* when it is renamed, as processes hold descriptors of it.                *)
(***************************************************************************)
CONSTANTS Process,        \* processes that run a command
          Dir, NoDir,     \* model directories (inodes)
          Downloaded,     \* artifacts of the mapped repository
          Exported,       \* the artifact id of a converted package
          Version,        \* contents of a package; the id of an imported one
          Xml, Bin,       \* openvino_model.xml and the weights beside it
          NoFile          \* no such file

File == {Xml, Bin}
Name == {"legacy", "logical"}
Artifact == Downloaded \cup {Exported} \cup Version

(* An import's artifact id is a digest of its content, and no artifact of  *)
(* another kind has it; the file system has room for a directory per name. *)
ASSUME TreeAssumption ==
    /\ NoDir \notin Dir /\ NoFile \notin Version /\ Xml # Bin
    /\ Version # {} /\ Version \cap (Downloaded \cup {Exported}) = {}
    /\ \E d, e \in Dir : d # e

VARIABLES tree,  \* name -> model directory
          dir    \* model directory -> artifact -> what is in its directory

NoFiles == [f \in File |-> NoFile]

(* A manifest: whose model id it carries, whether (source, repository) is  *)
(* in the curated mapping, and the digests it records.                     *)
Manifest == [model : {"none", "damaged"} \cup Name, mapped : BOOLEAN,
             recorded : [File -> Version \cup {NoFile}]]

NoManifest == [model |-> "none", mapped |-> FALSE, recorded |-> NoFiles]

ArtifactDirectory ==
    [exists : BOOLEAN, manifest : Manifest,
     part : BOOLEAN,           \* manifest.json.part
     migrationPart : BOOLEAN,  \* manifest.json.migration.part
     files : [File -> Version \cup {NoFile}]]

Missing == [exists |-> FALSE, manifest |-> NoManifest, part |-> FALSE,
            migrationPart |-> FALSE, files |-> NoFiles]

EmptyDirectory == [Missing EXCEPT !.exists = TRUE]

TreeTypeOK ==
    /\ tree \in [Name -> Dir \cup {NoDir}]
    /\ dir \in [Dir -> [Artifact -> ArtifactDirectory]]

(* A legacy store: downloads registered under the repository, some of them *)
(* already renormalised, damaged or of a repository without a mapping.     *)
TreeInit(manifests) ==
    LET d == CHOOSE e \in Dir : TRUE
    IN  /\ tree = [n \in Name |-> IF n = "legacy" THEN d ELSE NoDir]
        /\ dir = [e \in Dir |-> [a \in Artifact |->
                    IF e = d /\ a \in Downloaded
                    THEN [EmptyDirectory EXCEPT !.manifest = manifests[a]] ELSE Missing]]

At(name, a) == IF tree[name] = NoDir THEN Missing ELSE dir[tree[name]][a]

(* mkdir(parents=True): the directory of that name, a new one if there was *)
(* none.                                                                   *)
Ensured(name) ==
    IF tree[name] = NoDir THEN CHOOSE d \in Dir : \A n \in Name : tree[n] # d ELSE tree[name]

Ensure(name) == tree' = [tree EXCEPT ![name] = Ensured(name)]

With(d, a, content) == dir' = [dir EXCEPT ![d][a] = content]

(* inspect_manifest(verify=True) of a package: an import is checked        *)
(* against its content id, an export only against its weights' digest.     *)
Inspected(name, a) ==
    LET content == At(name, a)
    IN  IF content.manifest.model \in {"none", "damaged"} THEN "failed"
        ELSE IF content.files[Xml] = NoFile THEN "not downloaded"
        ELSE IF a \in Version
        THEN IF content.files = [f \in File |-> a] THEN "verified" ELSE "failed"
        ELSE IF content.files[Bin] = NoFile THEN "not downloaded"
        ELSE IF content.files[Bin] = content.manifest.recorded[Bin]
             THEN "downloaded" ELSE "failed"
=============================================================================
