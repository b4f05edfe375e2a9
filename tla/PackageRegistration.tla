------------------------- MODULE PackageRegistration -------------------------
(***************************************************************************)
(* OpenVINO packages written into the store: `convert` copies what         *)
(* optimum-cli exported into the directory of the model, new or not, and   *)
(* `import-openvino` copies a user's directory into one of its own.  Both  *)
(* register a manifest and inspect it before they report success.          *)
(***************************************************************************)
EXTENDS ModelTree

CONSTANTS ImportName,    \* where the imported packages' model ids lead
          ExportContent  \* what the exporter leaves

ASSUME PackageAssumption == ImportName \subseteq Name /\ ExportContent \subseteq Version

VARIABLES package,   \* process -> its conversion or import
          source,    \* what the user's package directory holds
          imported   \* packages whose import was reported as a success

packageVars == <<package, source, imported>>

Package ==
    [at : {"idle", "mkdir", "copy", "check", "open", "write", "inspect", "failed"},
     import : BOOLEAN,
     name : Name,                       \* the model directory's name
     artifact : Artifact,
     content : Version \cup {NoFile},   \* what the exporter left; a source has no fixed content
     todo : SUBSET File,
     fd : Dir \cup {NoDir}]             \* artifact_fd of _write_manifest

IdlePackage == [at |-> "idle", import |-> FALSE, name |-> "legacy", artifact |-> Exported,
                content |-> NoFile, todo |-> {}, fd |-> NoDir]

PackageTypeOK ==
    /\ package \in [Process -> Package]
    /\ source \in Version
    /\ imported \subseteq Version

PackageInit ==
    /\ package = [p \in Process |-> IdlePackage]
    /\ source = CHOOSE v \in Version : TRUE
    /\ imported = {}

Place(p) == At(package[p].name, package[p].artifact)

Goto(p, label) == package' = [package EXCEPT ![p].at = label]
End(p) == package' = [package EXCEPT ![p] = IdlePackage]

(* convert: the arguments were accepted and the exporter left a package    *)
(* with exactly one openvino_model.xml; any other outcome touches nothing. *)
StartExport(p, v) ==
    /\ package[p].at = "idle"
    /\ package' = [package EXCEPT ![p] =
           [IdlePackage EXCEPT !.at = "mkdir", !.content = v, !.todo = File]]
    /\ UNCHANGED <<tree, dir, source, imported>>

(* import_directory: the source is well formed and was hashed; a directory *)
(* that exists in the store is never imported into.                        *)
StartImport(p, name) ==
    /\ package[p].at = "idle"
    /\ ~At(name, source).exists
    /\ package' = [package EXCEPT ![p] =
           [IdlePackage EXCEPT !.at = "mkdir", !.import = TRUE, !.name = name,
                               !.artifact = source, !.todo = File]]
    /\ UNCHANGED <<tree, dir, source, imported>>

(* mutant: a lost race is an error like any other, and is cleaned up.      *)
FailIfTaken(p) == IF Place(p).exists THEN Goto(p, "failed") ELSE Goto(p, "copy")

(* exist_ok for a conversion, exclusive for an import.                     *)
RefuseIfTaken(p) ==
    IF package[p].import /\ Place(p).exists THEN End(p) ELSE Goto(p, "copy")

MakeDirectory(p) ==
    /\ package[p].at = "mkdir"
    /\ Ensure(package[p].name)
    /\ LET d == Ensured(package[p].name)
       IN  IF dir[d][package[p].artifact].exists THEN UNCHANGED dir
           ELSE With(d, package[p].artifact, EmptyDirectory)
    /\ RefuseIfTaken(p)
    /\ UNCHANGED <<source, imported>>

(* copy2, after a mkdir(parents=True) of its directory.                    *)
CopyFile(p, f) ==
    /\ package[p].at = "copy"
    /\ f \in package[p].todo
    /\ Ensure(package[p].name)
    /\ With(Ensured(package[p].name), package[p].artifact,
            [Place(p) EXCEPT
                !.exists = TRUE,
                !.files[f] = IF package[p].import THEN source ELSE package[p].content])
    /\ package' = [package EXCEPT ![p].todo = @ \ {f},
                       ![p].at = IF package[p].todo # {f} THEN "copy"
                                 ELSE IF package[p].import THEN "check" ELSE "open"]
    /\ UNCHANGED <<source, imported>>

CopyFails(p) ==
    /\ package[p].at \in {"copy", "open"}
    /\ Goto(p, "failed")
    /\ UNCHANGED <<tree, dir, source, imported>>

(* _compute_content_id of the copy: it covers every file, and the manifest *)
(* that is being written.                                                  *)
ContentId(content) ==
    IF content.exists /\ content.manifest = NoManifest /\ ~content.part
       /\ content.files[Xml] = content.files[Bin]
    THEN content.files[Xml] ELSE NoFile

CheckContent(p) ==
    /\ package[p].at = "check"
    /\ Goto(p, IF ContentId(Place(p)) = package[p].artifact THEN "open" ELSE "failed")
    /\ UNCHANGED <<tree, dir, source, imported>>

(* save_manifest creates what is missing, then works on a descriptor.      *)
OpenManifest(p) ==
    /\ package[p].at = "open"
    /\ Ensure(package[p].name)
    /\ LET d == Ensured(package[p].name)
       IN  IF Place(p).part
           THEN Goto(p, "failed") /\ UNCHANGED dir
           ELSE /\ With(d, package[p].artifact, [Place(p) EXCEPT !.exists = TRUE, !.part = TRUE])
                /\ package' = [package EXCEPT ![p].at = "write", ![p].fd = d]
    /\ UNCHANGED <<source, imported>>

Registered(p) ==
    [model |-> package[p].name, mapped |-> FALSE,
     recorded |-> [f \in File |-> IF f = Bin
                                  THEN IF package[p].import THEN package[p].artifact
                                       ELSE package[p].content
                                  ELSE NoFile]]

WriteManifest(p) ==
    LET d == package[p].fd  a == package[p].artifact
    IN  /\ package[p].at = "write"
        /\ dir[d][a].part
        /\ \/ /\ With(d, a, [dir[d][a] EXCEPT !.part = FALSE, !.manifest = Registered(p)])
              /\ Goto(p, "inspect")
           \/ /\ With(d, a, [dir[d][a] EXCEPT !.part = FALSE])
              /\ Goto(p, "failed")
        /\ UNCHANGED <<tree, source, imported>>

(* inspect_manifest reads by path; only what it accepts is a success.      *)
Inspect(p) ==
    /\ package[p].at = "inspect"
    /\ IF Inspected(package[p].name, package[p].artifact) \in {"downloaded", "verified"}
       THEN /\ End(p)
            /\ imported' = IF package[p].import THEN imported \cup {package[p].artifact}
                           ELSE imported
       ELSE Goto(p, "failed") /\ UNCHANGED imported
    /\ UNCHANGED <<tree, dir, source>>

(* Only an import removes its directory, and rmtree ignores its errors.    *)
CleanUp(p) ==
    /\ package[p].at = "failed"
    /\ IF package[p].import /\ Place(p).exists
       THEN \E left \in {Missing, [EmptyDirectory EXCEPT !.files[Xml] = Place(p).files[Xml]]} :
                With(tree[package[p].name], package[p].artifact, left)
       ELSE UNCHANGED dir
    /\ End(p)
    /\ UNCHANGED <<tree, source, imported>>

(* The user changes the source directory while it is being imported.       *)
ChangeSource ==
    /\ \E p \in Process : package[p].at \in {"mkdir", "copy"} /\ package[p].import
    /\ \E v \in Version \ {source} : source' = v
    /\ UNCHANGED <<tree, dir, package, imported>>

PackageStep(p) ==
    \/ MakeDirectory(p)
    \/ \E f \in File : CopyFile(p, f)
    \/ CopyFails(p) \/ CheckContent(p) \/ OpenManifest(p) \/ WriteManifest(p)
    \/ Inspect(p) \/ CleanUp(p)
=============================================================================
