-------------------------- MODULE ArtifactDirectory --------------------------
(***************************************************************************)
(* One managed artifact directory <model_id>/<artifact_id> of the store,   *)
(* as the processes that publish into it see it: two names for the bytes   *)
(* (the final file and its `.part`), inodes with contents, and the         *)
(* manifest with its temporary.  The operations are the system calls the   *)
(* code makes through `dir_fd`; each is atomic, as the kernel makes it.    *)
(***************************************************************************)
EXTENDS Naturals, Sequences

CONSTANTS Inode,     \* the inodes files may be given
          NoInode,   \* "this name does not exist"
          NoManifest \* "manifest.json does not exist"

ASSUME NoInodeAssumption == NoInode \notin Inode

VARIABLES entry,        \* name -> inode, for the final file and its .part
          data,         \* inode -> the sequence of blocks written to it
          manifest,     \* what manifest.json records, or NoManifest
          manifestPart  \* manifest.json.part exists

dirVars == <<entry, data, manifest, manifestPart>>

Name == {"final", "part"}

Exists(name) == entry[name] # NoInode

Content(name) == data[entry[name]]

EmptyDirectory ==
    /\ entry = [name \in Name |-> NoInode]
    /\ data = [i \in Inode |-> <<>>]
    /\ manifest = NoManifest
    /\ manifestPart = FALSE

(* An inode with no name and no open descriptor is free: the file system   *)
(* may hand its number out again.                                          *)
Free(opened) == Inode \ (opened \cup {entry[name] : name \in Name})

(* os.open(name, O_CREAT | O_EXCL): a new, empty file.                     *)
Create(name, i) ==
    /\ entry' = [entry EXCEPT ![name] = i]
    /\ data' = [data EXCEPT ![i] = <<>>]

Unlink(name) == entry' = [entry EXCEPT ![name] = NoInode]

(* os.link(part, final): both names now denote the inode .part denoted.    *)
Link == entry' = [entry EXCEPT !["final"] = entry["part"]]

(* ModelStore._write_manifest once manifest.json.part is open: written and *)
(* renamed; or an error, while writing (the temporary is removed), in the  *)
(* rename (it stays), or in the fsync of the directory (it was renamed).   *)
ManifestSaved(record) == manifest' = record /\ manifestPart' = FALSE

ManifestFails(record) ==
    \/ UNCHANGED manifest /\ manifestPart' \in BOOLEAN
    \/ ManifestSaved(record)

(* os.write at the end of the file (O_APPEND) or at the writer's own       *)
(* position, which is never past the end: nobody truncates.                *)
Written(content, appending, position, block) ==
    IF appending \/ position >= Len(content)
    THEN Append(content, block)
    ELSE [content EXCEPT ![position + 1] = block]
=============================================================================
