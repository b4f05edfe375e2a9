-------------------------- MODULE LocalImport_proofs --------------------------
(***************************************************************************)
(* Types, for any number of imports; and for any number of imports that do *)
(* not overlap, that a file with the final name is complete.               *)
(***************************************************************************)
EXTENDS LocalImport, SequenceTheorems, TLAPS

Block == (1 .. Size) \cup {Junk}

(* Who copies has the file it created.                                     *)
HasFile == \A p \in Proc : At(p, "copying") => proc[p].fd \in Inode

Formed == TypeOK /\ HasFile

LEMMA IdleIsImport == Idle \in Import /\ Idle.pc = "idle"
BY SizeAssumption DEF Idle, Import, PC, SizeAssumption

(* A block put into a file.                                                *)
LEMMA WrittenForm ==
    ASSUME NEW s \in Seq(Block), NEW n \in Nat, NEW b \in Block
    PROVE  Written(s, FALSE, n, b) \in Seq(Block)
<1>1. Append(s, b) \in Seq(Block)
    OBVIOUS
<1>2. [s EXCEPT ![n + 1] = b] \in Seq(Block)
  <2>1. s \in [1 .. Len(s) -> Block] /\ Len(s) \in Nat
      BY LenProperties
  <2>2. [s EXCEPT ![n + 1] = b] \in [1 .. Len(s) -> Block]
      BY <2>1
  <2>. QED
      BY <2>1, <2>2, SeqDef
<1>. QED
    BY <1>1, <1>2 DEF Written

LEMMA FaultForm == ASSUME Formed, Fault \/ UNCHANGED faults PROVE faults' \in 0 .. MaxFaults
BY BoundAssumption DEF Formed, TypeOK, Fault, BoundAssumption

(* A call that returns, and one that goes on with nothing but its step.    *)
LEMMA ReturnForm ==
    ASSUME Formed, NEW p \in Proc, NEW r \in {"none", "imported", "reused", "failed"},
           Return(p, r), Fault \/ UNCHANGED faults,
           entry' \in [Name -> Inode \cup {NoInode}], UNCHANGED data,
           manifest' \in {Registered, NoManifest}, manifestPart' \in BOOLEAN
    PROVE  Formed'
<1>1. proc' \in [Proc -> Import] /\ \A q \in Proc : proc'[q] \in {proc[q], Idle}
    BY IdleIsImport DEF Return, Formed, TypeOK
<1>2. outcome' \in [Proc -> {"none", "imported", "reused", "failed"}]
    BY DEF Return, Formed, TypeOK
<1>3. faults' \in 0 .. MaxFaults
    BY FaultForm
<1>4. HasFile'
    BY <1>1, IdleIsImport DEF Formed, HasFile, At
<1>. QED
    BY <1>1, <1>2, <1>3, <1>4 DEF Formed, TypeOK

LEMMA GotoForm ==
    ASSUME Formed, NEW p \in Proc, NEW l \in PC \ {"copying"},
           Goto(p, l), Fault \/ UNCHANGED faults,
           entry' \in [Name -> Inode \cup {NoInode}], UNCHANGED data,
           manifest' \in {Registered, NoManifest}, manifestPart' \in BOOLEAN
    PROVE  Formed'
<1>1. proc' \in [Proc -> Import] /\ proc'[p].pc = l /\ \A q \in Proc \ {p} : proc'[q] = proc[q]
    BY DEF Goto, Formed, TypeOK, Import
<1>2. outcome' \in [Proc -> {"none", "imported", "reused", "failed"}]
    BY DEF Goto, Formed, TypeOK
<1>3. faults' \in 0 .. MaxFaults
    BY FaultForm
<1>4. HasFile'
    BY <1>1 DEF Formed, HasFile, At
<1>. QED
    BY <1>1, <1>2, <1>3, <1>4 DEF Formed, TypeOK

LEMMA UnlinkForm ==
    ASSUME Formed, NEW name \in Name, Unlink(name)
    PROVE  entry' \in [Name -> Inode \cup {NoInode}]
BY DEF Formed, TypeOK, Unlink

LEMMA SameFiles == ASSUME Formed PROVE
    /\ entry \in [Name -> Inode \cup {NoInode}]
    /\ manifest \in {Registered, NoManifest} /\ manifestPart \in BOOLEAN
BY DEF Formed, TypeOK

LEMMA StartForm == ASSUME Formed, NEW p \in Proc, Start(p) PROVE Formed'
<1>1. Return(p, "reused") \/ Goto(p, "seeFinal")
    BY DEF Start
<1>2. UNCHANGED <<entry, data, manifest, manifestPart, faults>> /\ "seeFinal" \in PC \ {"copying"}
    BY DEF Start, dirVars, PC
<1>. QED
    BY <1>1, <1>2, SameFiles, ReturnForm, GotoForm

LEMMA SeeForm ==
    ASSUME Formed, NEW p \in Proc, NEW name \in Name, NEW from \in PC,
           NEW l \in PC \ {"copying"}, NEW m \in PC \ {"copying"}, See(p, name, from, l, m)
    PROVE  Formed'
<1>1. Goto(p, l) \/ Goto(p, m)
    BY DEF See
<1>2. UNCHANGED <<entry, data, manifest, manifestPart, faults>>
    BY DEF See, dirVars
<1>. QED
    BY <1>1, <1>2, SameFiles, GotoForm

LEMMA DropForm ==
    ASSUME Formed, NEW p \in Proc, NEW name \in Name, NEW from \in PC,
           NEW l \in PC \ {"copying"}, Drop(p, name, from, l)
    PROVE  Formed'
<1>1. UNCHANGED <<data, manifest, manifestPart, faults>> /\ "discardPart" \in PC \ {"copying"}
    BY DEF Drop, PC
<1>2. (Unlink(name) /\ Goto(p, l)) \/ (Goto(p, "discardPart") /\ UNCHANGED entry)
    BY DEF Drop, GiveUp
<1>. QED
    BY <1>1, <1>2, SameFiles, UnlinkForm, GotoForm

LEMMA ClearDirectoryForm == ASSUME Formed, NEW p \in Proc, ClearDirectory(p) PROVE Formed'
<1>1. /\ {"seeFinal", "dropFinal", "seePart", "dropPart", "create"} \subseteq PC \ {"copying"}
      /\ {"final", "part"} \subseteq Name
    BY DEF PC, Name
<1>. QED
    BY <1>1, SeeForm, DropForm DEF ClearDirectory

(* A call that goes on with other locals.                                  *)
LEMMA StepForm ==
    ASSUME Formed, NEW p \in Proc, NEW c \in Import,
           proc' = [proc EXCEPT ![p] = c], c.pc = "copying" => c.fd \in Inode,
           UNCHANGED outcome, Fault \/ UNCHANGED faults,
           entry' \in [Name -> Inode \cup {NoInode}], data' \in [Inode -> Seq(Block)],
           UNCHANGED <<manifest, manifestPart>>
    PROVE  Formed'
<1>1. proc' \in [Proc -> Import] /\ proc'[p] = c /\ \A q \in Proc \ {p} : proc'[q] = proc[q]
    BY DEF Formed, TypeOK
<1>2. faults' \in 0 .. MaxFaults
    BY FaultForm
<1>3. HasFile'
    BY <1>1 DEF Formed, HasFile, At
<1>. QED
    BY <1>1, <1>2, <1>3 DEF Formed, TypeOK, Block

LEMMA CreatePartForm == ASSUME Formed, NEW p \in Proc, CreatePart(p) PROVE Formed'
<1>1. CASE Exists("part")
  <2>1. /\ Goto(p, "discardPart") /\ "discardPart" \in PC \ {"copying"}
        /\ UNCHANGED <<entry, data, manifest, manifestPart, faults>>
      BY <1>1 DEF CreatePart, GiveUp, dirVars, PC
  <2>. QED
      BY <2>1, SameFiles, GotoForm
<1>2. CASE ~Exists("part")
  <2>1. PICK i \in Inode :
            /\ Create("part", i)
            /\ proc' = [proc EXCEPT ![p].pc = "copying", ![p].fd = i]
      BY <1>2 DEF CreatePart, Free
  <2>2. /\ UNCHANGED <<manifest, manifestPart, outcome, faults>>
        /\ entry' \in [Name -> Inode \cup {NoInode}]
      BY <1>2, <2>1 DEF CreatePart, Create, Formed, TypeOK
  <2>3. data' \in [Inode -> Seq(Block)]
    <3>1. <<>> \in Seq(Block)
        OBVIOUS
    <3>. QED
        BY <2>1, <3>1 DEF Create, Formed, TypeOK, Block
  <2> DEFINE c == [proc[p] EXCEPT !.pc = "copying", !.fd = i]
  <2>4. c \in Import /\ c.fd = i /\ proc' = [proc EXCEPT ![p] = c]
      BY <2>1 DEF Formed, TypeOK, Import, PC
  <2>. QED
      BY <2>2, <2>3, <2>4, StepForm
<1>. QED
    BY <1>1, <1>2

LEMMA CopyChunkForm == ASSUME Formed, NEW p \in Proc, CopyChunk(p) PROVE Formed'
<1>1. /\ At(p, "copying") /\ proc[p].copied < Size /\ proc[p].copied \in 0 .. Size
      /\ proc[p].fd \in Inode /\ proc[p] \in Import
    BY DEF CopyChunk, Formed, TypeOK, HasFile, Import
<1>2. PICK b \in {proc[p].copied + 1, Junk} :
          /\ Fault \/ UNCHANGED faults
          /\ data' = [data EXCEPT ![proc[p].fd] = Written(@, FALSE, proc[p].copied, b)]
    BY DEF CopyChunk
<1>3. b \in Block /\ proc[p].copied + 1 \in 0 .. Size /\ proc[p].copied \in Nat
    BY <1>1, SizeAssumption DEF Block, SizeAssumption
<1>4. data' \in [Inode -> Seq(Block)]
  <2>1. data[proc[p].fd] \in Seq(Block)
      BY <1>1 DEF Formed, TypeOK, Block
  <2>2. Written(data[proc[p].fd], FALSE, proc[p].copied, b) \in Seq(Block)
      BY <1>3, <2>1, WrittenForm
  <2>. QED
      BY <1>2, <2>2 DEF Formed, TypeOK, Block
<1> DEFINE c == [proc[p] EXCEPT !.copied = proc[p].copied + 1]
<1>5. c \in Import /\ c.fd = proc[p].fd /\ proc' = [proc EXCEPT ![p] = c]
    BY <1>1, <1>3 DEF CopyChunk, Import
<1>. QED
    BY <1>1, <1>2, <1>4, <1>5, SameFiles, StepForm DEF CopyChunk

LEMMA CopyEndForm ==
    ASSUME Formed, NEW p \in Proc, CopyFails(p) \/ CopyDone(p) PROVE Formed'
<1>1. /\ Fault \/ UNCHANGED faults
      /\ UNCHANGED <<entry, data, manifest, manifestPart, outcome>>
    BY DEF CopyFails, CopyDone, dirVars
<1>2. data' \in [Inode -> Seq(Block)] /\ proc[p] \in Import
    BY <1>1 DEF Formed, TypeOK, Block
<1>3. CASE CopyFails(p)
  <2> DEFINE c == [proc[p] EXCEPT !.pc = "discardPart",
                                  !.identity = IF At(p, "linked") THEN @ ELSE NoInode]
  <2>1. c \in Import /\ c.pc # "copying" /\ proc' = [proc EXCEPT ![p] = c]
      BY <1>2, <1>3 DEF CopyFails, Import, PC
  <2>. QED
      BY <1>1, <1>2, <2>1, SameFiles, StepForm
<1>4. CASE CopyDone(p)
  <2> DEFINE c == [proc[p] EXCEPT !.pc = "digest", !.fd = NoInode]
  <2>1. c \in Import /\ c.pc # "copying" /\ proc' = [proc EXCEPT ![p] = c]
      BY <1>2, <1>4 DEF CopyDone, Import, PC
  <2>. QED
      BY <1>1, <1>2, <2>1, SameFiles, StepForm
<1>. QED
    BY <1>3, <1>4

LEMMA DigestForm == ASSUME Formed, NEW p \in Proc, Digest(p) PROVE Formed'
<1>1. /\ Goto(p, "identify") \/ Goto(p, "discardPart")
      /\ UNCHANGED <<entry, data, manifest, manifestPart, faults>>
      /\ {"identify", "discardPart"} \subseteq PC \ {"copying"}
    BY DEF Digest, GiveUp, dirVars, PC
<1>. QED
    BY <1>1, SameFiles, GotoForm

LEMMA IdentifyForm == ASSUME Formed, NEW p \in Proc, Identify(p) PROVE Formed'
<1>1. UNCHANGED <<entry, data, manifest, manifestPart, outcome, faults>>
    BY DEF Identify, GiveUp, Goto, dirVars
<1>2. CASE Exists("part")
  <2> DEFINE c == [proc[p] EXCEPT !.pc = "link", !.identity = entry["part"]]
  <2>1. c \in Import /\ c.pc # "copying" /\ proc' = [proc EXCEPT ![p] = c]
      BY <1>2 DEF Identify, Formed, TypeOK, Import, PC, Name
  <2>2. data' \in [Inode -> Seq(Block)]
      BY <1>1 DEF Formed, TypeOK, Block
  <2>. QED
      BY <1>1, <2>1, <2>2, SameFiles, StepForm
<1>3. CASE ~Exists("part")
    BY <1>1, <1>3, SameFiles, GotoForm DEF Identify, GiveUp, PC
<1>. QED
    BY <1>2, <1>3

LEMMA PublishLinkForm == ASSUME Formed, NEW p \in Proc, PublishLink(p) PROVE Formed'
<1>1. UNCHANGED <<data, manifest, manifestPart, faults>> /\ proc[p] \in Import
    BY DEF PublishLink, Formed, TypeOK
<1>2. CASE Link /\ Goto(p, "linked")
  <2>1. entry' \in [Name -> Inode \cup {NoInode}]
      BY <1>2 DEF Link, Formed, TypeOK, Name
  <2>2. "linked" \in PC \ {"copying"}
      BY DEF PC
  <2>. QED
      BY <1>1, <1>2, <2>1, <2>2, SameFiles, GotoForm
<1>3. CASE UNCHANGED <<entry, outcome>>
           /\ proc' = [proc EXCEPT ![p].pc = "discardPart", ![p].identity = NoInode]
  <2> DEFINE c == [proc[p] EXCEPT !.pc = "discardPart", !.identity = NoInode]
  <2>1. c \in Import /\ c.pc # "copying" /\ proc' = [proc EXCEPT ![p] = c]
      BY <1>1, <1>3 DEF Import, PC
  <2>2. data' \in [Inode -> Seq(Block)]
      BY <1>1 DEF Formed, TypeOK, Block
  <2>. QED
      BY <1>1, <1>3, <2>1, <2>2, SameFiles, StepForm
<1>. QED
    BY <1>2, <1>3 DEF PublishLink

LEMMA PublishUnlinkForm == ASSUME Formed, NEW p \in Proc, PublishUnlink(p) PROVE Formed'
<1>1. /\ UNCHANGED <<data, manifest, manifestPart, faults>>
      /\ (Unlink("part") /\ Goto(p, "published")) \/ (Goto(p, "discardPart") /\ UNCHANGED entry)
    BY DEF PublishUnlink, GiveUp
<1>2. {"published", "discardPart"} \subseteq PC \ {"copying"} /\ "part" \in Name
    BY DEF PC, Name
<1>. QED
    BY <1>1, <1>2, SameFiles, UnlinkForm, GotoForm

LEMMA ManifestForm ==
    ASSUME Formed, NEW p \in Proc, OpenManifest(p) \/ WriteManifest(p) PROVE Formed'
<1>1. /\ Goto(p, "manifest") \/ Goto(p, "match") \/ Return(p, "imported")
      /\ UNCHANGED <<entry, data>> /\ (Fault \/ UNCHANGED faults)
    BY DEF OpenManifest, WriteManifest
<1>2. manifest' \in {Registered, NoManifest} /\ manifestPart' \in BOOLEAN
    BY DEF OpenManifest, WriteManifest, ManifestSaved, ManifestFails, Formed, TypeOK
<1>3. {"manifest", "match"} \subseteq PC \ {"copying"}
    BY DEF PC
<1>. QED
    BY <1>1, <1>2, <1>3, SameFiles, GotoForm, ReturnForm

LEMMA TakeBackForm ==
    ASSUME Formed, NEW p \in Proc,
           \/ DiscardPart(p) \/ MatchPublished(p) \/ RemovePublished(p)
           \/ TakeBackFails(p) \/ Crash(p)
    PROVE  Formed'
<1>1. /\ Goto(p, "match") \/ Goto(p, "remove") \/ Return(p, "failed") \/ Return(p, "none")
      /\ UNCHANGED <<data, manifest, manifestPart>> /\ (Fault \/ UNCHANGED faults)
    BY DEF DiscardPart, MatchPublished, RemovePublished, TakeBackFails, Crash, dirVars
<1>2. {"match", "remove"} \subseteq PC \ {"copying"} /\ Name = {"final", "part"}
    BY DEF PC, Name
<1>3. UNCHANGED entry \/ \E name \in Name : Unlink(name)
    BY <1>2 DEF DiscardPart, MatchPublished, RemovePublished, TakeBackFails, Crash, dirVars
<1>. QED
    BY <1>1, <1>2, <1>3, SameFiles, UnlinkForm, GotoForm, ReturnForm

LEMMA InitiallyFormed == Init => Formed
<1> SUFFICES ASSUME Init PROVE Formed
    OBVIOUS
<1>1. <<>> \in Seq(Block)
    OBVIOUS
<1>2. proc \in [Proc -> Import] /\ \A p \in Proc : proc[p].pc = "idle"
    BY IdleIsImport DEF Init
<1>3. data \in [Inode -> Seq(Block)] /\ entry \in [Name -> Inode \cup {NoInode}]
    BY <1>1 DEF Init, EmptyDirectory
<1>4. outcome \in [Proc -> {"none", "imported", "reused", "failed"}] /\ faults \in 0 .. MaxFaults
    BY BoundAssumption DEF Init, BoundAssumption
<1>. QED
    BY <1>2, <1>3, <1>4 DEF Init, EmptyDirectory, Formed, TypeOK, HasFile, At, Block

LEMMA FormedInductive == Formed /\ [Next]_vars => Formed'
<1> SUFFICES ASSUME Formed, [Next]_vars PROVE Formed'
    OBVIOUS
<1>1. CASE UNCHANGED vars
    BY <1>1 DEF vars, dirVars, Formed, TypeOK, HasFile, At
<1>2. CASE Next
    BY <1>2, StartForm, ClearDirectoryForm, CreatePartForm, CopyChunkForm, CopyEndForm,
       DigestForm, IdentifyForm, PublishLinkForm, PublishUnlinkForm, ManifestForm, TakeBackForm
       DEF Next, Step
<1>. QED
    BY <1>1, <1>2

LEMMA AlwaysFormed == Spec => []Formed
BY InitiallyFormed, FormedInductive, PTL DEF Spec

(* Any number of imports, overlapping ones included, keep the directory,   *)
(* their own state and the count of faults well typed.                     *)
THEOREM TypeCorrect == Spec => []TypeOK
<1>1. Formed => TypeOK
    BY DEF Formed
<1>. QED
    BY <1>1, AlwaysFormed, PTL

-----------------------------------------------------------------------------
(* Imports take turns when at most one is at work: any process may start   *)
(* one, and it may crash and be started again at any point.                *)
TakeTurns == \A p, q \in Proc : ~At(p, "idle") /\ ~At(q, "idle") => p = q

(* From the clearing of the directory to the link there is no final file,  *)
(* and what is about to be linked has been compared with the source.       *)
Cleared == {"seePart", "dropPart", "create", "copying", "digest", "identify", "link"}

Compared == {"identify", "link"}

Whole ==
    /\ PublishedIsComplete
    /\ \A p \in Proc :
         /\ proc[p].pc \in Cleared => ~Exists("final")
         /\ proc[p].pc \in Compared /\ Exists("part") => Content("part") = Source

OnlyMoves(p) == \A q \in Proc \ {p} : proc'[q] = proc[q]

(* A step of one process is a step of no other.                            *)
LEMMA StepIsOnes ==
    ASSUME Formed, NEW p \in Proc,
           Start(p) \/ Step(p) \/ CopyFails(p) \/ TakeBackFails(p) \/ Crash(p)
    PROVE  OnlyMoves(p)
<1>1. proc \in [Proc -> Import] /\ proc[p] \in Import
    BY DEF Formed, TypeOK
<1>2. ASSUME NEW q \in Proc \ {p} PROVE proc'[q] = proc[q]
  <2>1. CASE Start(p) \/ ClearDirectory(p)
      BY <1>1, <2>1 DEF Start, ClearDirectory, See, Drop, GiveUp, Goto, Return
  <2>2. CASE CreatePart(p) \/ CopyChunk(p) \/ CopyDone(p) \/ CopyFails(p)
      BY <1>1, <2>2 DEF CreatePart, CopyChunk, CopyDone, CopyFails, GiveUp, Goto
  <2>3. CASE Digest(p) \/ Identify(p) \/ PublishLink(p) \/ PublishUnlink(p)
      BY <1>1, <2>3 DEF Digest, Identify, PublishLink, PublishUnlink, GiveUp, Goto
  <2>4. CASE OpenManifest(p) \/ WriteManifest(p) \/ DiscardPart(p)
      BY <1>1, <2>4 DEF OpenManifest, WriteManifest, DiscardPart, Goto, Return
  <2>5. CASE MatchPublished(p) \/ RemovePublished(p) \/ TakeBackFails(p) \/ Crash(p)
      BY <1>1, <2>5 DEF MatchPublished, RemovePublished, TakeBackFails, Crash, Goto, Return
  <2>. QED
      BY <2>1, <2>2, <2>3, <2>4, <2>5 DEF Step
<1>. QED
    BY <1>2 DEF OnlyMoves

(* Nothing is asked of the others while one import is at work.             *)
LEMMA OthersIdle ==
    ASSUME TakeTurns, NEW p \in Proc, ~At(p, "idle"), OnlyMoves(p)
    PROVE  \A q \in Proc \ {p} : proc'[q].pc \notin Cleared \cup Compared
BY DEF TakeTurns, OnlyMoves, At, Cleared, Compared

(* A step that writes no byte and publishes nothing.                       *)
LEMMA QuietWhole ==
    ASSUME TakeTurns, Formed, Whole, NEW p \in Proc, UNCHANGED data,
           ~At(p, "idle"), OnlyMoves(p),
           entry'["final"] \in {entry["final"], NoInode},
           entry'["part"] \in {entry["part"], NoInode},
           proc'[p].pc \in Cleared => ~Exists("final")',
           proc'[p].pc \in Compared => proc[p].pc \in Compared
    PROVE  Whole'
<1>1. PublishedIsComplete'
    BY DEF Whole, PublishedIsComplete, Exists, Content
<1>2. proc'[p].pc \in Compared /\ Exists("part")' => Content("part")' = Source
    BY DEF Whole, Exists, Content
<1>. QED
    BY <1>1, <1>2, OthersIdle DEF Whole, Source

(* Where a call goes on.                                                   *)
LEMMA Going ==
    ASSUME Formed, NEW p \in Proc
    PROVE  /\ \A l : Goto(p, l) => proc'[p].pc = l
           /\ \A r : Return(p, r) => proc'[p].pc = "idle"
BY IdleIsImport DEF Goto, Return, Formed, TypeOK, Import

LEMMA Unlinking ==
    ASSUME Formed
    PROVE  /\ Unlink("final") => entry'["final"] = NoInode /\ entry'["part"] = entry["part"]
           /\ Unlink("part") => entry'["part"] = NoInode /\ entry'["final"] = entry["final"]
BY DEF Formed, TypeOK, Unlink, Name

(* Starting touches nothing, and asks nothing yet of the directory.        *)
LEMMA StartWhole ==
    ASSUME Formed, Whole, NEW p \in Proc, Start(p), OnlyMoves(p) PROVE Whole'
<1>1. proc'[p].pc \in {"idle", "seeFinal"} /\ UNCHANGED <<entry, data>>
    BY Going DEF Start, dirVars
<1>2. ASSUME NEW q \in Proc, proc'[q].pc \in Cleared \cup Compared PROVE proc'[q] = proc[q]
    BY <1>1, <1>2 DEF OnlyMoves, Cleared, Compared
<1>. QED
    BY <1>1, <1>2 DEF Whole, PublishedIsComplete, Exists, Content, Source

LEMMA ClearWhole ==
    ASSUME TakeTurns, Formed, Whole, NEW p \in Proc, ClearDirectory(p), OnlyMoves(p)
    PROVE  Whole'
<1>1. ~At(p, "idle")
    BY DEF ClearDirectory, See, Drop, At
<1>2. CASE See(p, "final", "seeFinal", "dropFinal", "seePart")
    BY <1>1, <1>2, Going, QuietWhole DEF See, dirVars, Cleared, Compared, Exists
<1>3. CASE Drop(p, "final", "dropFinal", "seePart")
    BY <1>1, <1>3, Going, Unlinking, QuietWhole DEF Drop, GiveUp, Cleared, Compared, Exists
<1>4. CASE See(p, "part", "seePart", "dropPart", "create")
    BY <1>1, <1>4, Going, QuietWhole DEF See, At, dirVars, Whole, Cleared, Compared, Exists
<1>5. CASE Drop(p, "part", "dropPart", "create")
    BY <1>1, <1>5, Going, Unlinking, QuietWhole
       DEF Drop, At, GiveUp, Whole, Cleared, Compared, Exists
<1>. QED
    BY <1>2, <1>3, <1>4, <1>5 DEF ClearDirectory

(* While an import creates and fills its .part nothing is published.       *)
LEMMA CopyWhole ==
    ASSUME TakeTurns, Formed, Whole, NEW p \in Proc, CreatePart(p) \/ CopyChunk(p), OnlyMoves(p)
    PROVE  Whole'
<1>1. ~Exists("final") /\ entry'["final"] = entry["final"]
    BY DEF CreatePart, CopyChunk, At, Create, dirVars, Whole, Cleared, Formed, TypeOK, Name
<1>2. proc'[p].pc \in {"discardPart", "copying"}
  <2>1. CASE CreatePart(p) /\ Exists("part")
      BY <2>1, Going DEF CreatePart, GiveUp
  <2>2. CASE CreatePart(p) /\ ~Exists("part")
      BY <2>2 DEF CreatePart, Formed, TypeOK, Import
  <2>3. CASE CopyChunk(p)
      BY <2>3 DEF CopyChunk, At, Formed, TypeOK, Import
  <2>. QED
      BY <2>1, <2>2, <2>3
<1>3. ~At(p, "idle")
    BY DEF CreatePart, CopyChunk, At
<1>. QED
    BY <1>1, <1>2, <1>3, OthersIdle DEF Whole, PublishedIsComplete, Exists, Compared

LEMMA CompareWhole ==
    ASSUME TakeTurns, Formed, Whole, NEW p \in Proc,
           CopyFails(p) \/ CopyDone(p) \/ Digest(p) \/ Identify(p), OnlyMoves(p)
    PROVE  Whole'
<1>. ~At(p, "idle")
    BY DEF CopyFails, CopyDone, Digest, Identify, At
<1>1. CASE CopyFails(p)
  <2>1. proc'[p].pc = "discardPart" /\ UNCHANGED <<entry, data>>
      BY <1>1 DEF CopyFails, dirVars, Formed, TypeOK, Import
  <2>. QED
      BY <2>1, QuietWhole DEF Cleared, Compared
<1>2. CASE CopyDone(p)
  <2>1. proc'[p].pc = "digest" /\ UNCHANGED <<entry, data>> /\ ~Exists("final")
      BY <1>2 DEF CopyDone, At, dirVars, Formed, TypeOK, Import, Whole, Cleared
  <2>. QED
      BY <2>1, QuietWhole DEF Cleared, Compared, Exists
<1>3. CASE Digest(p)
  <2>1. UNCHANGED <<entry, data>> /\ ~Exists("final")
      BY <1>3 DEF Digest, At, dirVars, Whole, Cleared
  <2>2. proc'[p].pc \in Compared => Content("part") = Source
      BY <1>3, Going DEF Digest, GiveUp, Compared
  <2>. QED
      BY <2>1, <2>2, OthersIdle DEF Whole, PublishedIsComplete, Exists, Content, Source
<1>4. CASE Identify(p)
  <2>1. UNCHANGED <<entry, data>> /\ ~Exists("final") /\ proc[p].pc \in Compared
      BY <1>4 DEF Identify, At, dirVars, Whole, Cleared, Compared
  <2>. QED
      BY <2>1, QuietWhole DEF Exists
<1>. QED
    BY <1>1, <1>2, <1>3, <1>4

(* What is linked is what was compared.                                    *)
LEMMA PublishWhole ==
    ASSUME TakeTurns, Formed, Whole, NEW p \in Proc, PublishLink(p), OnlyMoves(p)
    PROVE  Whole'
<1>. ~At(p, "idle")
    BY DEF PublishLink, At
<1>1. CASE Exists("part") /\ ~Exists("final")
  <2>1. /\ Link /\ UNCHANGED data /\ proc'[p].pc = "linked" /\ Content("part") = Source
      BY <1>1, Going DEF PublishLink, At, Whole, Compared
  <2>2. entry'["final"] = entry["part"]
      BY <2>1 DEF Link, Formed, TypeOK, Name
  <2>3. PublishedIsComplete'
      BY <2>1, <2>2 DEF PublishedIsComplete, Content, Source
  <2>. QED
      BY <2>1, <2>3, OthersIdle DEF Whole, Cleared, Compared
<1>2. CASE ~(Exists("part") /\ ~Exists("final"))
  <2>1. proc'[p].pc = "discardPart" /\ UNCHANGED <<entry, data>>
      BY <1>2 DEF PublishLink, Formed, TypeOK, Import
  <2>. QED
      BY <2>1, QuietWhole DEF Cleared, Compared
<1>. QED
    BY <1>1, <1>2

LEMMA EndWhole ==
    ASSUME TakeTurns, Formed, Whole, NEW p \in Proc,
           \/ PublishUnlink(p) \/ OpenManifest(p) \/ WriteManifest(p) \/ DiscardPart(p)
           \/ MatchPublished(p) \/ RemovePublished(p) \/ TakeBackFails(p) \/ Crash(p),
           OnlyMoves(p)
    PROVE  Whole'
<1>. ~At(p, "idle")
    BY DEF PublishUnlink, OpenManifest, WriteManifest, DiscardPart,
           MatchPublished, RemovePublished, TakeBackFails, Crash, At
<1>1. proc'[p].pc \in {"published", "discardPart", "manifest", "match", "remove", "idle"}
    BY Going DEF PublishUnlink, GiveUp, OpenManifest, WriteManifest, DiscardPart,
                 MatchPublished, RemovePublished, TakeBackFails, Crash
<1>2. UNCHANGED data /\ (UNCHANGED entry \/ Unlink("part") \/ Unlink("final"))
    BY DEF PublishUnlink, OpenManifest, WriteManifest, DiscardPart,
           MatchPublished, RemovePublished, TakeBackFails, Crash, dirVars
<1>. QED
    BY <1>1, <1>2, Unlinking, QuietWhole DEF Cleared, Compared

LEMMA WholeInductive == TakeTurns /\ Formed /\ Whole /\ [Next]_vars => Whole'
<1> SUFFICES ASSUME TakeTurns, Formed, Whole, [Next]_vars PROVE Whole'
    OBVIOUS
<1>1. CASE UNCHANGED vars
    BY <1>1 DEF vars, dirVars, Whole, PublishedIsComplete, Exists, Content, Source
<1>2. CASE Next
    BY <1>2, StepIsOnes, StartWhole, ClearWhole, CopyWhole, CompareWhole, PublishWhole, EndWhole
       DEF Next, Step
<1>. QED
    BY <1>1, <1>2

(* Whatever fails, crashes or changes the source between hashing and       *)
(* copying: a file with the final name is the whole source, when no two    *)
(* imports overlap.                                                        *)
THEOREM OnlyWholePublished == Spec /\ []TakeTurns => []PublishedIsComplete
<1>1. Init => Whole
    BY IdleIsImport
       DEF Init, EmptyDirectory, Whole, PublishedIsComplete, Exists, Name, Cleared, Compared
<1>2. TakeTurns /\ Formed /\ Whole /\ [Next]_vars => Whole'
    BY WholeInductive
<1>3. Whole => PublishedIsComplete
    BY DEF Whole
<1>. QED
    BY <1>1, <1>2, <1>3, AlwaysFormed, PTL DEF Spec

-----------------------------------------------------------------------------
(* An import comes to its end.                                             *)

(* The most steps an import can still take.                                *)
StepsLeft(c) ==
    CASE c.pc = "idle" -> 0
      [] c.pc = "remove" -> 1
      [] c.pc = "match" -> 2
      [] c.pc \in {"discardPart", "manifest"} -> 3
      [] c.pc = "published" -> 4
      [] c.pc = "linked" -> 5
      [] c.pc = "link" -> 6
      [] c.pc = "identify" -> 7
      [] c.pc = "digest" -> 8
      [] c.pc = "copying" -> 9 + (Size - c.copied)
      [] c.pc = "create" -> Size + 10
      [] c.pc = "dropPart" -> Size + 11
      [] c.pc = "seePart" -> Size + 12
      [] c.pc = "dropFinal" -> Size + 13
      [] OTHER -> Size + 14

LEMMA Bounds ==
    ASSUME Formed, NEW p \in Proc
    PROVE  /\ StepsLeft(proc[p]) \in 0 .. Size + 14
           /\ ~At(p, "idle") => 0 < StepsLeft(proc[p])
<1>1. proc[p].copied \in Nat /\ proc[p].copied <= Size
    BY SizeAssumption DEF Formed, TypeOK, Import, SizeAssumption
<1>2. CASE proc[p].pc = "copying"
  <2>1. StepsLeft(proc[p]) = 9 + (Size - proc[p].copied)
      BY <1>2 DEF StepsLeft
  <2>. QED
      BY <1>1, <2>1, SizeAssumption DEF SizeAssumption
<1>3. CASE proc[p].pc # "copying"
  <2>1. CASE At(p, "idle")
      BY <2>1, SizeAssumption DEF StepsLeft, At, SizeAssumption
  <2>2. CASE ~At(p, "idle")
    <3>1. StepsLeft(proc[p]) \in {1, 2, 3, 4, 5, 6, 7, 8, Size + 10, Size + 11, Size + 12,
                                 Size + 13, Size + 14}
        BY <1>3, <2>2 DEF StepsLeft, At
    <3>. QED
        BY <3>1, SizeAssumption DEF SizeAssumption
  <2>. QED
      BY <2>1, <2>2
<1>. QED
    BY <1>2, <1>3

(* The failures lead to "discardPart" or "match" from anywhere before.     *)
LEMMA Discarding ==
    ASSUME Formed, NEW p \in Proc,
           \/ /\ proc'[p].pc = "discardPart"
              /\ proc[p].pc \notin {"idle", "remove", "match", "discardPart", "manifest"}
           \/ /\ proc'[p].pc = "match"
              /\ proc[p].pc \notin {"idle", "remove", "match"}
    PROVE  StepsLeft(proc'[p]) < StepsLeft(proc[p])
<1>1. proc[p].copied \in Nat /\ proc[p].copied <= Size /\ proc[p].pc \in PC
    BY SizeAssumption DEF Formed, TypeOK, Import, SizeAssumption
<1>. QED
    BY <1>1, SizeAssumption DEF StepsLeft, SizeAssumption, PC

LEMMA ImportAdvances ==
    ASSUME Formed, NEW p \in Proc, ~At(p, "idle"),
           Step(p) \/ CopyFails(p) \/ TakeBackFails(p) \/ Crash(p)
    PROVE  StepsLeft(proc'[p]) < StepsLeft(proc[p])
<1>0. /\ proc \in [Proc -> Import] /\ proc[p] \in Import
      /\ proc[p].copied \in Nat /\ proc[p].copied <= Size
    BY SizeAssumption DEF Formed, TypeOK, Import, SizeAssumption
<1>1. CASE \E r : Return(p, r)
  <2>1. proc'[p] = Idle /\ StepsLeft(Idle) = 0
      BY <1>0, <1>1 DEF Return, StepsLeft, Idle
  <2>. QED
      BY <2>1, Bounds
<1>2. CASE ClearDirectory(p)
  <2>1. \/ proc[p].pc = "seeFinal" /\ proc'[p].pc \in {"dropFinal", "seePart"}
        \/ proc[p].pc = "dropFinal" /\ proc'[p].pc \in {"seePart", "discardPart"}
        \/ proc[p].pc = "seePart" /\ proc'[p].pc \in {"dropPart", "create"}
        \/ proc[p].pc = "dropPart" /\ proc'[p].pc \in {"create", "discardPart"}
      BY <1>2, Going DEF ClearDirectory, See, Drop, At, GiveUp
  <2>. QED
      BY <2>1, SizeAssumption DEF StepsLeft, SizeAssumption
<1>3. CASE CreatePart(p)
  <2>1. proc[p].pc = "create" /\ proc'[p].pc \in {"copying", "discardPart"}
      BY <1>0, <1>3, Going DEF CreatePart, At, GiveUp, Import
  <2>2. proc'[p].copied \in Nat
      BY <1>0, <1>3 DEF CreatePart, GiveUp, Goto, Import
  <2>3. StepsLeft(proc[p]) = Size + 10
      BY <2>1 DEF StepsLeft
  <2>4. StepsLeft(proc'[p]) \in {3, 9 + (Size - proc'[p].copied)}
      BY <2>1 DEF StepsLeft
  <2>. QED
      BY <2>2, <2>3, <2>4, SizeAssumption DEF SizeAssumption
<1>4. CASE CopyChunk(p)
  <2>1. proc[p].pc = "copying" /\ proc'[p].pc = "copying"
      BY <1>0, <1>4 DEF CopyChunk, At, Import
  <2>2. proc'[p].copied = proc[p].copied + 1
      BY <1>0, <1>4 DEF CopyChunk, Import
  <2>3. /\ StepsLeft(proc[p]) = 9 + (Size - proc[p].copied)
        /\ StepsLeft(proc'[p]) = 9 + (Size - proc'[p].copied)
      BY <2>1 DEF StepsLeft
  <2>. QED
      BY <1>0, <2>2, <2>3, SizeAssumption DEF SizeAssumption
<1>5. CASE CopyDone(p) \/ CopyFails(p)
  <2>1. \/ proc[p].pc = "copying" /\ proc'[p].pc = "digest"
        \/ /\ proc'[p].pc = "discardPart"
           /\ proc[p].pc \notin {"idle", "remove", "match", "discardPart", "manifest"}
      BY <1>0, <1>5 DEF CopyDone, CopyFails, At, Import, PC
  <2>. QED
      BY <1>0, <2>1, Discarding, SizeAssumption DEF StepsLeft, SizeAssumption
<1>6. CASE Digest(p) \/ Identify(p) \/ PublishLink(p) \/ PublishUnlink(p)
  <2>1. \/ proc[p].pc = "digest" /\ proc'[p].pc \in {"identify", "discardPart"}
        \/ proc[p].pc = "identify" /\ proc'[p].pc \in {"link", "discardPart"}
        \/ proc[p].pc = "link" /\ proc'[p].pc \in {"linked", "discardPart"}
        \/ proc[p].pc = "linked" /\ proc'[p].pc \in {"published", "discardPart"}
      BY <1>0, <1>6, Going DEF Digest, Identify, PublishLink, PublishUnlink, At, GiveUp, Import
  <2>. QED
      BY <2>1 DEF StepsLeft
<1>7. CASE /\ ~\E r : Return(p, r)
           /\ OpenManifest(p) \/ WriteManifest(p) \/ DiscardPart(p) \/ MatchPublished(p)
  <2>1. \/ proc[p].pc = "published" /\ proc'[p].pc \in {"manifest", "match"}
        \/ proc[p].pc \in {"manifest", "discardPart"} /\ proc'[p].pc = "match"
        \/ proc[p].pc = "match" /\ proc'[p].pc = "remove"
      BY <1>7, Going DEF OpenManifest, WriteManifest, DiscardPart, MatchPublished, At
  <2>. QED
      BY <2>1 DEF StepsLeft
<1>. QED
    BY <1>1, <1>2, <1>3, <1>4, <1>5, <1>6, <1>7
       DEF Step, RemovePublished, TakeBackFails, Crash

(* An import takes at most Size + 14 steps, whatever other imports do to   *)
(* its directory and the user to its source: it copies no more than the    *)
(* size it measured, and each thing it takes back it tries once.  With the *)
(* fairness of its steps, that is why every import ends.                   *)
THEOREM ImportsAreBounded ==
    Spec => /\ [](\A p \in Proc : StepsLeft(proc[p]) \in 0 .. Size + 14)
            /\ [][\A p \in Proc : ~At(p, "idle") =>
                     \/ UNCHANGED proc[p]
                     \/ StepsLeft(proc'[p]) < StepsLeft(proc[p])]_vars
<1>1. Formed => \A p \in Proc : StepsLeft(proc[p]) \in 0 .. Size + 14
    BY Bounds
<1>2. ASSUME Formed, [Next]_vars
      PROVE  \A p \in Proc : ~At(p, "idle") =>
                 \/ UNCHANGED proc[p]
                 \/ StepsLeft(proc'[p]) < StepsLeft(proc[p])
  <2>1. CASE UNCHANGED vars
      BY <2>1 DEF vars
  <2>2. ASSUME NEW p \in Proc,
               Start(p) \/ Step(p) \/ CopyFails(p) \/ TakeBackFails(p) \/ Crash(p)
        PROVE  \A q \in Proc : ~At(q, "idle") =>
                   \/ UNCHANGED proc[q]
                   \/ StepsLeft(proc'[q]) < StepsLeft(proc[q])
    <3>1. \A q \in Proc \ {p} : UNCHANGED proc[q]
        BY <1>2, <2>2, StepIsOnes DEF OnlyMoves
    <3>2. ~At(p, "idle") => StepsLeft(proc'[p]) < StepsLeft(proc[p])
        BY <1>2, <2>2, ImportAdvances DEF Start
    <3>. QED
        BY <3>1, <3>2
  <2>. QED
      BY <1>2, <2>1, <2>2 DEF Next
<1>. QED
    BY <1>1, <1>2, AlwaysFormed, PTL DEF Spec
=============================================================================
