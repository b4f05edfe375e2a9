--------------------------- MODULE Download_proofs ----------------------------
(***************************************************************************)
(* For any number of processes on one artifact directory, and any faults   *)
(* and crashes: types, a published file is never replaced, until something *)
(* is published nobody deletes another's .part, and a call goes forward.   *)
(* For acquisitions that take turns: what has the final name is whole,     *)
(* what is registered is healthy, and the directory implements             *)
(* WriteOnceArtifact.                                                      *)
(***************************************************************************)
EXTENDS Download, SequenceTheorems, TLAPS

Block == (Rev \X (1 .. Size)) \cup {Junk}

(* One call, as TypeOK has it.                                             *)
CallForm == [pc : PC, want : Artifact \cup {NoManifest}, resumed : BOOLEAN,
             created : Inode \cup {NoInode}, fd : Inode \cup {NoInode}, offset : Nat]

Typed ==
    /\ entry \in [Name -> Inode \cup {NoInode}]
    /\ data \in [Inode -> Seq(Block)]
    /\ proc \in [Proc -> CallForm]
    /\ cleanups \in Nat

(* Who has published the final file finds it, until an operator deletes.   *)
Done == {"linked", "published", "manifest"}

PublishedStays ==
    \A p \in Proc : cleanups = 0 /\ proc[p].pc \in Done => Exists("final")

(* The .part is created exclusively.                                       *)
OneCreator ==
    ~Exists("final") /\ cleanups = 0 =>
        \A p, q \in Proc : proc[p].created # NoInode /\ proc[q].created # NoInode => p = q

(* A descriptor is open from the open of the .part to the link.            *)
Receiving == {"request", "reading", "received", "hashed"}

HasFile == \A p \in Proc : proc[p].pc \in Receiving => proc[p].fd \in Inode

(* What is fetched is of the revision that was asked for.                  *)
Wants == \A p \in Proc : proc[p].pc # "idle" => proc[p].want \in Artifact

IInv == Typed /\ HasFile /\ Wants /\ PublishedStays /\ OneCreator /\ OnlyOwnPart

-----------------------------------------------------------------------------
(* A step that leaves the names alone.                                     *)
LEMMA Quiet ==
    ASSUME IInv, NEW p \in Proc,
           proc' \in [Proc -> CallForm], \A q \in Proc \ {p} : proc'[q] = proc[q],
           proc'[p].created \in {proc[p].created, NoInode},
           proc'[p].pc \in Receiving => proc'[p].fd \in Inode,
           proc'[p].pc \in Done => proc[p].pc \in Done,
           proc'[p].pc # "idle" => proc'[p].want \in Artifact,
           UNCHANGED <<entry, cleanups>>, data' \in [Inode -> Seq(Block)]
    PROVE  IInv'
<1>1. Typed' /\ HasFile' /\ Wants'
    BY DEF IInv, Typed, HasFile, Wants
<1>2. PublishedStays'
    BY DEF IInv, PublishedStays, Exists
<1>3. OneCreator'
    BY DEF IInv, OneCreator, Exists
<1>4. OnlyOwnPart'
    BY DEF IInv, OnlyOwnPart, Exists
<1>. QED
    BY <1>1, <1>2, <1>3, <1>4 DEF IInv

LEMMA IdleForm == Idle \in CallForm /\ Idle.pc = "idle" /\ Idle.created = NoInode
BY DEF Idle, CallForm, PC

(* A call that returns.                                                    *)
LEMMA ReturnIsQuiet ==
    ASSUME IInv, NEW p \in Proc, NEW r, Return(p, r), UNCHANGED <<entry, data, cleanups>>
    PROVE  IInv'
<1>1. /\ proc' \in [Proc -> CallForm] /\ proc'[p] = Idle
      /\ \A q \in Proc \ {p} : proc'[q] = proc[q]
    BY IdleForm DEF IInv, Typed, Return
<1>2. data' \in [Inode -> Seq(Block)]
    BY DEF IInv, Typed
<1>. QED
    BY <1>1, <1>2, IdleForm, Quiet DEF Receiving, Done

(* A call that goes on, with nothing changed but its step.                 *)
LEMMA MoveIsQuiet ==
    ASSUME IInv, NEW p \in Proc, NEW l \in PC,
           proc' = [proc EXCEPT ![p].pc = l],
           proc[p].pc # "idle",
           l \in Receiving => proc[p].fd \in Inode,
           l \in Done => proc[p].pc \in Done,
           UNCHANGED <<entry, cleanups>>, data' \in [Inode -> Seq(Block)]
    PROVE  IInv'
<1>1. /\ proc' \in [Proc -> CallForm] /\ \A q \in Proc \ {p} : proc'[q] = proc[q]
      /\ proc'[p].pc = l /\ proc'[p].want = proc[p].want
      /\ proc'[p].created = proc[p].created /\ proc'[p].fd = proc[p].fd
    BY DEF IInv, Typed, CallForm
<1>2. proc[p].want \in Artifact
    BY DEF IInv, Wants
<1>. QED
    BY <1>1, <1>2, Quiet

LEMMA PlanKeeps == ASSUME IInv, NEW p \in Proc, Plan(p) PROVE IInv'
<1>1. PICK a \in Artifact :
          \/ proc' = [proc EXCEPT ![p].pc = "probeFinal", ![p].want = a]
          \/ \E r : Return(p, r)
    BY DEF Plan
<1>2. UNCHANGED <<entry, data, cleanups>> /\ proc[p].pc = "idle"
    BY DEF Plan, At, dirVars, budget, Fault
<1>3. CASE proc' = [proc EXCEPT ![p].pc = "probeFinal", ![p].want = a]
    <2>1. "probeFinal" \in PC
        BY DEF PC
    <2>2. /\ proc' \in [Proc -> CallForm] /\ \A q \in Proc \ {p} : proc'[q] = proc[q]
          /\ proc'[p].pc = "probeFinal" /\ proc'[p].want = a
          /\ proc'[p].created = proc[p].created
        BY <1>3, <2>1 DEF IInv, Typed, CallForm
    <2>3. data' \in [Inode -> Seq(Block)]
        BY <1>2 DEF IInv, Typed
    <2>. QED
        BY <1>2, <2>2, <2>3, Quiet DEF Receiving, Done
<1>. QED
    BY <1>1, <1>2, <1>3, ReturnIsQuiet

LEMMA ProbeFinalKeeps == ASSUME IInv, NEW p \in Proc, ProbeFinal(p) PROVE IInv'
<1>1. UNCHANGED <<entry, data, cleanups>> /\ proc[p].pc = "probeFinal"
    BY DEF ProbeFinal, At, dirVars, budget
<1>2. CASE Return(p, "already_exists")
    BY <1>1, <1>2, ReturnIsQuiet
<1>3. CASE Goto(p, "probePart")
    <2>1. "probePart" \in PC /\ data' \in [Inode -> Seq(Block)]
        BY <1>1 DEF PC, IInv, Typed
    <2>. QED
        BY <1>1, <1>3, <2>1, MoveIsQuiet DEF Goto, Receiving, Done
<1>. QED
    BY <1>2, <1>3 DEF ProbeFinal

LEMMA ProbePartKeeps == ASSUME IInv, NEW p \in Proc, ProbePart(p) PROVE IInv'
<1>1. /\ UNCHANGED <<entry, data, cleanups>> /\ proc[p].pc = "probePart"
      /\ proc' = [proc EXCEPT ![p].pc = "openPart", ![p].resumed = Exists("part")]
    BY DEF ProbePart, At, dirVars, budget
<1>2. "openPart" \in PC /\ Exists("part") \in BOOLEAN
    BY DEF PC, Exists
<1>3. /\ proc' \in [Proc -> CallForm] /\ \A q \in Proc \ {p} : proc'[q] = proc[q]
      /\ proc'[p].pc = "openPart" /\ proc'[p].want = proc[p].want
      /\ proc'[p].created = proc[p].created
    BY <1>1, <1>2 DEF IInv, Typed, CallForm
<1>4. data' \in [Inode -> Seq(Block)] /\ proc[p].want \in Artifact
    BY <1>1 DEF IInv, Typed, Wants
<1>. QED
    BY <1>1, <1>3, <1>4, Quiet DEF Receiving, Done

LEMMA OpenExistingKeeps == ASSUME IInv, NEW p \in Proc, OpenExisting(p) PROVE IInv'
<1>1. UNCHANGED <<entry, data, cleanups>> /\ proc[p].pc = "openPart"
    BY DEF OpenExisting, At, dirVars, budget
<1>2. data' \in [Inode -> Seq(Block)] /\ proc[p].want \in Artifact
    BY <1>1 DEF IInv, Typed, Wants
<1>3. CASE ~Exists("part")
    <2>1. "cleanup" \in PC /\ proc' = [proc EXCEPT ![p].pc = "cleanup"]
        BY <1>3 DEF PC, OpenExisting, Fail
    <2>. QED
        BY <1>1, <1>2, <2>1, MoveIsQuiet DEF Receiving, Done
<1>4. CASE Exists("part")
    <2>1. PICK l \in {"cleanup", "request"} :
              proc' = [proc EXCEPT ![p].pc = l, ![p].fd = entry["part"],
                                   ![p].offset = Len(Content("part"))]
        BY <1>4 DEF OpenExisting
    <2>2. entry["part"] \in Inode /\ l \in PC
        BY <1>4 DEF IInv, Typed, Exists, Name, PC
    <2>3. Len(Content("part")) \in Nat
        BY <2>2, LenProperties DEF IInv, Typed, Content
    <2>4. /\ proc' \in [Proc -> CallForm] /\ \A q \in Proc \ {p} : proc'[q] = proc[q]
          /\ proc'[p].pc = l /\ proc'[p].want = proc[p].want
          /\ proc'[p].created = proc[p].created /\ proc'[p].fd = entry["part"]
        BY <2>1, <2>2, <2>3 DEF IInv, Typed, CallForm
    <2>. QED
        BY <1>1, <1>2, <2>2, <2>4, Quiet DEF Receiving, Done
<1>. QED
    BY <1>3, <1>4

LEMMA OpenNewKeeps == ASSUME IInv, NEW p \in Proc, OpenNew(p) PROVE IInv'
<1>1. UNCHANGED cleanups /\ proc[p].pc = "openPart" /\ proc[p].want \in Artifact
    BY DEF OpenNew, At, budget, IInv, Wants
<1>2. CASE Exists("part")
    <2>1. "cleanup" \in PC /\ proc' = [proc EXCEPT ![p].pc = "cleanup"] /\ UNCHANGED dirVars
        BY <1>2 DEF PC, OpenNew, Fail
    <2>2. UNCHANGED entry /\ data' \in [Inode -> Seq(Block)]
        BY <2>1 DEF IInv, Typed, dirVars
    <2>. QED
        BY <1>1, <2>1, <2>2, MoveIsQuiet DEF Receiving, Done
<1>3. CASE ~Exists("part")
    <2>1. PICK i \in Inode :
              /\ entry' = [entry EXCEPT !["part"] = i] /\ data' = [data EXCEPT ![i] = <<>>]
              /\ proc' = [proc EXCEPT ![p].pc = "request", ![p].fd = i, ![p].created = i]
        BY <1>3 DEF OpenNew, Free, Create
    <2>2. "request" \in PC /\ i # NoInode
        BY NoInodeAssumption DEF PC, NoInodeAssumption
    <2>3. /\ proc' \in [Proc -> CallForm] /\ \A q \in Proc \ {p} : proc'[q] = proc[q]
          /\ proc'[p].pc = "request" /\ proc'[p].want = proc[p].want
          /\ proc'[p].created = i /\ proc'[p].fd = i
        BY <2>1, <2>2 DEF IInv, Typed, CallForm
    <2>4. /\ entry' \in [Name -> Inode \cup {NoInode}]
          /\ entry'["final"] = entry["final"] /\ entry'["part"] = i
        BY <2>1 DEF IInv, Typed, Name
    <2>5. data' \in [Inode -> Seq(Block)]
        <3>1. <<>> \in Seq(Block)
            OBVIOUS
        <3>. QED
            BY <2>1, <3>1 DEF IInv, Typed
    <2>6. Typed' /\ HasFile' /\ Wants' /\ PublishedStays'
        BY <1>1, <2>3, <2>4, <2>5
           DEF IInv, Typed, HasFile, Wants, PublishedStays, Exists, Receiving, Done
    <2>7. ~Exists("final") /\ cleanups = 0 => \A q \in Proc : proc[q].created = NoInode
        BY <1>3 DEF IInv, OnlyOwnPart, Exists
    <2>8. OneCreator' /\ OnlyOwnPart'
        BY <1>1, <2>2, <2>3, <2>4, <2>7 DEF OneCreator, OnlyOwnPart, Exists
    <2>. QED
        BY <2>6, <2>8 DEF IInv
<1>. QED
    BY <1>2, <1>3

LEMMA RequestKeeps == ASSUME IInv, NEW p \in Proc, Request(p) PROVE IInv'
<1>1. /\ UNCHANGED <<entry, data, cleanups>> /\ proc[p].pc = "request"
      /\ \E l \in {"received", "reading", "cleanup"} : proc' = [proc EXCEPT ![p].pc = l]
    BY DEF Request, At, dirVars, budget, Fault, Goto, Fail
<1>2. data' \in [Inode -> Seq(Block)] /\ proc[p].fd \in Inode
    BY <1>1 DEF IInv, Typed, HasFile, Receiving
<1>3. {"received", "reading", "cleanup"} \subseteq PC \ Done
    BY DEF PC, Done
<1>. QED
    BY <1>1, <1>2, <1>3, MoveIsQuiet

(* A block that is put into the file.                                      *)
LEMMA WrittenForm ==
    ASSUME NEW s \in Seq(Block), NEW appending, NEW n \in Nat, NEW b \in Block
    PROVE  Written(s, appending, n, b) \in Seq(Block)
<1>1. Append(s, b) \in Seq(Block)
    OBVIOUS
<1>2. [s EXCEPT ![n + 1] = b] \in Seq(Block)
    <2>1. s \in [1 .. Len(s) -> Block] /\ Len(s) \in Nat
        BY LenProperties
    <2>2. [s EXCEPT ![n + 1] = b] \in [1 .. Len(s) -> Block]
        BY <2>1
    <2>. QED
        BY <2>1, <2>2, SeqDef
<1>. QED
    BY <1>1, <1>2 DEF Written

LEMMA WriteForm ==
    ASSUME IInv, NEW p \in Proc, NEW b \in Block, proc[p].fd \in Inode, WriteBlock(p, b)
    PROVE  data' \in [Inode -> Seq(Block)] /\ UNCHANGED entry
<1>1. Written(data[proc[p].fd], proc[p].resumed, proc[p].offset, b) \in Seq(Block)
    BY WrittenForm DEF IInv, Typed, CallForm
<1>. QED
    BY <1>1 DEF IInv, Typed, WriteBlock

LEMMA NextBlockForm ==
    ASSUME IInv, NEW p \in Proc, proc[p].want \in Artifact
    PROVE  NextBlock(p) \in Block
<1>1. /\ proc[p].want.rev \in Rev
      /\ proc[p].offset < Size => proc[p].offset + 1 \in 1 .. Size
    BY SizeAssumption DEF IInv, Typed, CallForm, Artifact, SizeAssumption
<1>. QED
    BY <1>1 DEF NextBlock, Block

LEMMA ReadChunkKeeps == ASSUME IInv, NEW p \in Proc, ReadChunk(p) PROVE IInv'
<1>1. /\ UNCHANGED cleanups /\ proc[p].pc = "reading"
      /\ proc' = [proc EXCEPT ![p].offset = @ + 1]
      /\ \/ proc[p].offset < Size /\ WriteBlock(p, NextBlock(p))
         \/ WriteBlock(p, Junk)
    BY DEF ReadChunk, At, budget, Fault
<1>2. proc[p].fd \in Inode /\ proc[p].want \in Artifact /\ Junk \in Block
    BY <1>1 DEF IInv, HasFile, Receiving, Wants, Block
<1>3. data' \in [Inode -> Seq(Block)] /\ UNCHANGED entry
    BY <1>1, <1>2, WriteForm, NextBlockForm
<1>4. /\ proc' \in [Proc -> CallForm] /\ \A q \in Proc \ {p} : proc'[q] = proc[q]
      /\ proc'[p].pc = "reading" /\ proc'[p].want = proc[p].want
      /\ proc'[p].created = proc[p].created /\ proc'[p].fd = proc[p].fd
    <2>1. proc[p].offset + 1 \in Nat
        BY DEF IInv, Typed, CallForm
    <2>2. proc' = [proc EXCEPT ![p].offset = proc[p].offset + 1]
        BY <1>1 DEF IInv, Typed
    <2>. QED
        BY <1>1, <2>1, <2>2 DEF IInv, Typed, CallForm
<1>. QED
    BY <1>1, <1>2, <1>3, <1>4, Quiet DEF Done

LEMMA InterruptKeeps == ASSUME IInv, NEW p \in Proc, Interrupt(p) PROVE IInv'
<1>1. /\ UNCHANGED cleanups /\ proc[p].pc = "reading"
      /\ proc' = [proc EXCEPT ![p].pc = "cleanup"]
      /\ UNCHANGED dirVars \/ WriteBlock(p, NextBlock(p))
    BY DEF Interrupt, At, Fault, Fail
<1>2. proc[p].fd \in Inode /\ proc[p].want \in Artifact
    BY <1>1 DEF IInv, HasFile, Receiving, Wants
<1>3. data' \in [Inode -> Seq(Block)] /\ UNCHANGED entry
    <2>1. CASE UNCHANGED dirVars
        BY <2>1 DEF dirVars, IInv, Typed
    <2>2. CASE WriteBlock(p, NextBlock(p))
        BY <1>2, <2>2, WriteForm, NextBlockForm
    <2>. QED
        BY <1>1, <2>1, <2>2
<1>4. "cleanup" \in PC \ (Receiving \cup Done)
    BY DEF PC, Receiving, Done
<1>. QED
    BY <1>1, <1>3, <1>4, MoveIsQuiet

LEMMA EndOfBodyKeeps == ASSUME IInv, NEW p \in Proc, EndOfBody(p) PROVE IInv'
<1>1. /\ UNCHANGED <<entry, data, cleanups>> /\ proc[p].pc = "reading"
      /\ \E l \in {"received", "cleanup"} : proc' = [proc EXCEPT ![p].pc = l]
    BY DEF EndOfBody, At, dirVars, budget, Fault, Goto, Fail
<1>2. data' \in [Inode -> Seq(Block)] /\ proc[p].fd \in Inode
    BY <1>1 DEF IInv, Typed, HasFile, Receiving
<1>3. {"received", "cleanup"} \subseteq PC \ Done
    BY DEF PC, Done
<1>. QED
    BY <1>1, <1>2, <1>3, MoveIsQuiet

LEMMA HashKeeps == ASSUME IInv, NEW p \in Proc, Hash(p) PROVE IInv'
<1>1. /\ UNCHANGED <<entry, data, cleanups>> /\ proc[p].pc = "received"
      /\ \/ proc' = [proc EXCEPT ![p].pc = "hashed"]
         \/ proc' = [proc EXCEPT ![p].pc = "cleanup", ![p].created = NoInode]
    BY DEF Hash, At, dirVars, budget, Goto
<1>2. /\ data' \in [Inode -> Seq(Block)]
      /\ proc[p].fd \in Inode /\ proc[p].want \in Artifact
    BY <1>1 DEF IInv, Typed, HasFile, Receiving, Wants
<1>3. "hashed" \in PC \ Done /\ "cleanup" \in PC \ (Receiving \cup Done)
    BY DEF PC, Receiving, Done
<1>4. CASE proc' = [proc EXCEPT ![p].pc = "hashed"]
    BY <1>1, <1>2, <1>3, <1>4, MoveIsQuiet
<1>5. CASE proc' = [proc EXCEPT ![p].pc = "cleanup", ![p].created = NoInode]
    <2>1. /\ proc' \in [Proc -> CallForm] /\ \A q \in Proc \ {p} : proc'[q] = proc[q]
          /\ proc'[p].pc = "cleanup" /\ proc'[p].want = proc[p].want
          /\ proc'[p].created = NoInode
        BY <1>3, <1>5 DEF IInv, Typed, CallForm
    <2>. QED
        BY <1>1, <1>2, <1>3, <2>1, Quiet
<1>. QED
    BY <1>1, <1>4, <1>5

(* A step that removes the name of the .part.                              *)
LEMMA PartGoes ==
    ASSUME IInv, NEW p \in Proc,
           proc' \in [Proc -> CallForm], \A q \in Proc \ {p} : proc'[q] = proc[q],
           proc'[p].created \in {proc[p].created, NoInode},
           proc'[p].pc \notin Receiving,
           proc'[p].pc \in Done => proc[p].pc \in Done,
           proc'[p].pc # "idle" => proc'[p].want \in Artifact,
           Unlink("part"), UNCHANGED <<data, cleanups>>,
           ~Exists("final") /\ cleanups = 0
               => proc[p].created # NoInode /\ proc'[p].created = NoInode
    PROVE  IInv'
<1>1. /\ entry' \in [Name -> Inode \cup {NoInode}]
      /\ entry'["final"] = entry["final"] /\ entry'["part"] = NoInode
    BY DEF IInv, Typed, Unlink, Name
<1>2. Typed' /\ HasFile' /\ Wants'
    BY <1>1 DEF IInv, Typed, HasFile, Wants
<1>3. PublishedStays'
    BY <1>1 DEF IInv, PublishedStays, Exists
<1>4. ~Exists("final") /\ cleanups = 0 => \A q \in Proc : proc'[q].created = NoInode
    BY DEF IInv, OneCreator
<1>5. OneCreator' /\ OnlyOwnPart'
    BY <1>1, <1>4 DEF OneCreator, OnlyOwnPart, Exists
<1>. QED
    BY <1>2, <1>3, <1>5 DEF IInv

LEMMA PublishLinkKeeps == ASSUME IInv, NEW p \in Proc, PublishLink(p) PROVE IInv'
<1>1. PICK l \in {"cleanup", "linked"} :
          /\ UNCHANGED <<data, cleanups>> /\ proc[p].pc = "hashed"
          /\ proc' = [proc EXCEPT ![p].pc = l, ![p].fd = NoInode]
          /\ \/ l = "cleanup" /\ UNCHANGED entry
             \/ l = "linked" /\ Exists("part") /\ Link
    BY DEF PublishLink, At, AfterLink, dirVars, budget, Fault
<1>2. proc[p].want \in Artifact /\ data' \in [Inode -> Seq(Block)] /\ l \in PC \ Receiving
    BY <1>1 DEF IInv, Wants, Typed, PC, Receiving
<1>3. /\ proc' \in [Proc -> CallForm] /\ \A q \in Proc \ {p} : proc'[q] = proc[q]
      /\ proc'[p].pc = l /\ proc'[p].want = proc[p].want
      /\ proc'[p].created = proc[p].created
    BY <1>1, <1>2 DEF IInv, Typed, CallForm
<1>4. CASE l = "cleanup" /\ UNCHANGED entry
    BY <1>1, <1>2, <1>3, <1>4, Quiet DEF Done
<1>5. CASE Exists("part") /\ Link
    <2>1. entry' \in [Name -> Inode \cup {NoInode}] /\ Exists("final")'
        BY <1>5 DEF IInv, Typed, Link, Name, Exists
    <2>2. Typed' /\ HasFile' /\ Wants'
        BY <1>1, <1>2, <1>3, <2>1 DEF IInv, Typed, HasFile, Wants
    <2>. QED
        BY <2>1, <2>2 DEF IInv, PublishedStays, OneCreator, OnlyOwnPart
<1>. QED
    BY <1>1, <1>4, <1>5

LEMMA PublishUnlinkKeeps == ASSUME IInv, NEW p \in Proc, PublishUnlink(p) PROVE IInv'
<1>1. UNCHANGED <<data, cleanups>> /\ proc[p].pc = "linked" /\ proc[p].want \in Artifact
    BY DEF PublishUnlink, At, budget, IInv, Wants
<1>2. CASE Exists("part")
    <2>1. "published" \in PC \ Receiving /\ Unlink("part")
          /\ proc' = [proc EXCEPT ![p].pc = "published", ![p].created = NoInode]
        BY <1>2 DEF PC, Receiving, PublishUnlink
    <2>2. /\ proc' \in [Proc -> CallForm] /\ \A q \in Proc \ {p} : proc'[q] = proc[q]
          /\ proc'[p].pc = "published" /\ proc'[p].want = proc[p].want
          /\ proc'[p].created = NoInode
        BY <2>1 DEF IInv, Typed, CallForm
    <2>3. cleanups = 0 => Exists("final")
        BY <1>1 DEF IInv, PublishedStays, Done
    <2>. QED
        BY <1>1, <2>1, <2>2, <2>3, PartGoes DEF Done
<1>3. CASE ~Exists("part")
    <2>1. "cleanup" \in PC /\ proc' = [proc EXCEPT ![p].pc = "cleanup"] /\ UNCHANGED entry
        BY <1>3 DEF PC, PublishUnlink, Fail
    <2>2. data' \in [Inode -> Seq(Block)]
        BY <1>1 DEF IInv, Typed
    <2>. QED
        BY <1>1, <2>1, <2>2, MoveIsQuiet DEF Receiving, Done
<1>. QED
    BY <1>2, <1>3

LEMMA DiskErrorKeeps == ASSUME IInv, NEW p \in Proc, DiskError(p) PROVE IInv'
<1>1. /\ UNCHANGED <<data, cleanups>> /\ proc[p].pc # "idle"
      /\ \E c \in {proc[p].created, NoInode} :
             proc' = [proc EXCEPT ![p].pc = "cleanup", ![p].created = c]
      /\ UNCHANGED entry \/ (proc[p].pc = "linked" /\ Unlink("part"))
    BY DEF DiskError, At, Fault
<1>2. "cleanup" \in PC \ (Receiving \cup Done)
    BY DEF PC, Receiving, Done
<1>3. proc[p].want \in Artifact /\ data' \in [Inode -> Seq(Block)]
    BY <1>1 DEF IInv, Wants, Typed
<1>4. /\ proc' \in [Proc -> CallForm] /\ \A q \in Proc \ {p} : proc'[q] = proc[q]
      /\ proc'[p].pc = "cleanup" /\ proc'[p].want = proc[p].want
      /\ proc'[p].created \in {proc[p].created, NoInode}
    <2>1. PICK c \in {proc[p].created, NoInode} :
              proc' = [proc EXCEPT ![p].pc = "cleanup", ![p].created = c]
        BY <1>1
    <2>2. c \in Inode \cup {NoInode}
        BY DEF IInv, Typed, CallForm
    <2>. QED
        BY <1>2, <2>1, <2>2 DEF IInv, Typed, CallForm
<1>5. CASE UNCHANGED entry
    BY <1>1, <1>2, <1>3, <1>4, <1>5, Quiet
<1>6. CASE proc[p].pc = "linked" /\ Unlink("part")
    <2>1. cleanups = 0 => Exists("final")
        BY <1>6 DEF IInv, PublishedStays, Done
    <2>. QED
        BY <1>1, <1>2, <1>3, <1>4, <1>6, <2>1, PartGoes
<1>. QED
    BY <1>1, <1>5, <1>6

LEMMA CleanUpKeeps == ASSUME IInv, NEW p \in Proc, CleanUp(p) PROVE IInv'
<1>1. UNCHANGED <<data, cleanups>> /\ Return(p, outcome[p])
    BY DEF CleanUp, budget
<1>2. CASE proc[p].created = NoInode
    <2>1. UNCHANGED entry
        BY <1>2 DEF CleanUp
    <2>. QED
        BY <1>1, <2>1, ReturnIsQuiet
<1>3. CASE proc[p].created # NoInode
    <2>1. Unlink("part")
        BY <1>3 DEF CleanUp
    <2>2. /\ proc' \in [Proc -> CallForm] /\ proc'[p] = Idle
          /\ \A q \in Proc \ {p} : proc'[q] = proc[q]
        BY <1>1, IdleForm DEF IInv, Typed, Return
    <2>. QED
        BY <1>1, <1>3, <2>1, <2>2, IdleForm, PartGoes DEF Receiving, Done
<1>. QED
    BY <1>2, <1>3

LEMMA ManifestKeeps ==
    ASSUME IInv, NEW p \in Proc, OpenManifest(p) \/ WriteManifest(p)
    PROVE  IInv'
<1>1. UNCHANGED <<entry, data, cleanups>> /\ proc[p].pc \in {"published", "manifest"}
    BY DEF OpenManifest, WriteManifest, At, budget, Fault
<1>2. \/ \E r : Return(p, r)
      \/ proc' = [proc EXCEPT ![p].pc = "manifest"]
    BY DEF OpenManifest, WriteManifest, Goto
<1>3. CASE \E r : Return(p, r)
    BY <1>1, <1>3, ReturnIsQuiet
<1>4. CASE proc' = [proc EXCEPT ![p].pc = "manifest"]
    <2>1. "manifest" \in PC /\ data' \in [Inode -> Seq(Block)]
        BY <1>1 DEF PC, IInv, Typed
    <2>. QED
        BY <1>1, <1>4, <2>1, MoveIsQuiet DEF Receiving, Done
<1>. QED
    BY <1>2, <1>3, <1>4

LEMMA CrashKeeps == ASSUME IInv, NEW p \in Proc, Crash(p) PROVE IInv'
<1>1. Return(p, "none") /\ UNCHANGED <<entry, data, cleanups>>
    BY DEF Crash, dirVars, Fault
<1>. QED
    BY <1>1, ReturnIsQuiet

(* After an operator's deletion nothing is promised any more.              *)
LEMMA CleanupKeeps == ASSUME IInv, NEW name \in Name, Cleanup(name) PROVE IInv'
<1>1. UNCHANGED <<data, proc>> /\ cleanups' = cleanups + 1 /\ Unlink(name)
    BY DEF Cleanup
<1>2. entry' \in [Name -> Inode \cup {NoInode}] /\ cleanups' \in Nat \ {0}
    BY <1>1 DEF IInv, Typed, Unlink
<1>3. Typed' /\ HasFile' /\ Wants'
    BY <1>1, <1>2 DEF IInv, Typed, HasFile, Wants
<1>. QED
    BY <1>2, <1>3 DEF IInv, PublishedStays, OneCreator, OnlyOwnPart

-----------------------------------------------------------------------------
LEMMA Initially == Init => IInv
<1>. SUFFICES ASSUME Init PROVE IInv
    OBVIOUS
<1>1. Typed
    <2>1. <<>> \in Seq(Block)
        OBVIOUS
    <2>. QED
        BY <2>1, IdleForm DEF Init, EmptyDirectory, Typed
<1>2. \A p \in Proc : proc[p] = Idle
    BY DEF Init
<1>. QED
    BY <1>1, <1>2, IdleForm
       DEF IInv, HasFile, Wants, PublishedStays, OneCreator, OnlyOwnPart, Receiving, Done

LEMMA Inductive == IInv /\ [Next]_vars => IInv'
<1>. SUFFICES ASSUME IInv, [Next]_vars PROVE IInv'
    OBVIOUS
<1>1. ASSUME NEW p \in Proc, Plan(p) \/ Interrupt(p) \/ DiskError(p) \/ Crash(p) PROVE IInv'
    BY <1>1, PlanKeeps, InterruptKeeps, DiskErrorKeeps, CrashKeeps
<1>2. ASSUME NEW p \in Proc, ProbeFinal(p) \/ ProbePart(p) \/ OpenExisting(p) \/ OpenNew(p)
      PROVE  IInv'
    BY <1>2, ProbeFinalKeeps, ProbePartKeeps, OpenExistingKeeps, OpenNewKeeps
<1>3. ASSUME NEW p \in Proc, Request(p) \/ ReadChunk(p) \/ EndOfBody(p) \/ Hash(p) PROVE IInv'
    BY <1>3, RequestKeeps, ReadChunkKeeps, EndOfBodyKeeps, HashKeeps
<1>4. ASSUME NEW p \in Proc, PublishLink(p) \/ PublishUnlink(p) \/ CleanUp(p) PROVE IInv'
    BY <1>4, PublishLinkKeeps, PublishUnlinkKeeps, CleanUpKeeps
<1>5. ASSUME NEW p \in Proc, OpenManifest(p) \/ WriteManifest(p) PROVE IInv'
    BY <1>5, ManifestKeeps
<1>6. ASSUME NEW name \in Name, Cleanup(name) PROVE IInv'
    BY <1>6, CleanupKeeps
<1>7. CASE UNCHANGED vars
    BY <1>7 DEF vars, dirVars, budget, IInv, Typed, HasFile, Wants, PublishedStays,
        OneCreator, OnlyOwnPart, Exists
<1>. QED
    BY <1>1, <1>2, <1>3, <1>4, <1>5, <1>6, <1>7 DEF Next, Step

LEMMA Invariance == Spec => []IInv
BY Initially, Inductive, PTL DEF Spec

(* Whatever a process that fails deletes is the .part it has created, for  *)
(* any number of processes, until something is published.                  *)
THEOREM PartIsOwn == Spec => []OnlyOwnPart
<1>1. IInv => OnlyOwnPart
    BY DEF IInv
<1>. QED
    BY <1>1, Invariance, PTL

(* Whoever wins a race to publish, nobody's link replaces what is there.   *)
THEOREM NeverReplaced == Spec => FinalNeverReplaced
<1>1. ASSUME IInv, Next, Exists("final")
      PROVE  entry'["final"] \in {entry["final"], NoInode}
    <2>. USE <1>1 DEF IInv, Typed, Name
    <2>1. ASSUME NEW p \in Proc, Plan(p) \/ ProbeFinal(p) \/ ProbePart(p) \/ OpenExisting(p)
                     \/ Request(p) \/ EndOfBody(p) \/ Hash(p) \/ Crash(p)
          PROVE  UNCHANGED entry
        BY <2>1 DEF Plan, ProbeFinal, ProbePart, OpenExisting, Request, EndOfBody, Hash, Crash,
            dirVars
    <2>2. ASSUME NEW p \in Proc, ReadChunk(p) \/ Interrupt(p) PROVE UNCHANGED entry
        BY <2>2 DEF ReadChunk, Interrupt, WriteBlock, dirVars
    <2>3. ASSUME NEW p \in Proc, OpenManifest(p) \/ WriteManifest(p) PROVE UNCHANGED entry
        BY <2>3 DEF OpenManifest, WriteManifest
    <2>4. ASSUME NEW p \in Proc, OpenNew(p) PROVE entry'["final"] = entry["final"]
        BY <2>4 DEF OpenNew, Create, dirVars
    <2>5. ASSUME NEW p \in Proc, PublishLink(p) PROVE UNCHANGED entry
        BY <2>5 DEF PublishLink, dirVars
    <2>6. ASSUME NEW p \in Proc, PublishUnlink(p) \/ DiskError(p) \/ CleanUp(p)
          PROVE  entry'["final"] = entry["final"]
        BY <2>6 DEF PublishUnlink, DiskError, CleanUp, Unlink, dirVars
    <2>7. ASSUME NEW name \in Name, Cleanup(name)
          PROVE  entry'["final"] \in {entry["final"], NoInode}
        BY <2>7 DEF Cleanup, Unlink
    <2>. QED
        BY <2>1, <2>2, <2>3, <2>4, <2>5, <2>6, <2>7 DEF Next, Step
<1>2. IInv /\ [Next]_vars
        => [Exists("final") => entry'["final"] \in {entry["final"], NoInode}]_entry
    BY <1>1 DEF vars, dirVars
<1>. QED
    BY <1>2, Invariance, PTL DEF Spec, FinalNeverReplaced

-----------------------------------------------------------------------------
(* From here on: acquisitions that take turns, by whichever processes, of  *)
(* artifacts that declare a sha256.                                        *)
TakeTurns == \A p, q \in Proc : ~At(p, "idle") /\ ~At(q, "idle") => p = q

AllDeclared == Checksums \subseteq {TRUE}

(* From the probe of the final name to the link there is none.             *)
Before == {"probePart", "openPart", "request", "reading", "received", "hashed"}

(* What the directory holds while the process that acquires is at l and    *)
(* wants w.                                                                *)
Fits(l, w) ==
    /\ l \in Before => ~Exists("final")
    /\ l = "hashed" /\ Exists("part") => Content("part") = Good(w.rev)
    /\ l \in Done /\ Exists("final") => Content("final") = Good(w.rev)
    /\ l \in {"published", "manifest"} => ~Exists("part")
    /\ l # "idle" /\ cleanups = 0 => ~Registered

RegisteredIsPublished ==
    Registered /\ cleanups = 0 =>
        ~Exists("part") /\ Exists("final") /\ Content("final") = Good(manifest.rev)

Alone ==
    /\ manifest \in Artifact \cup {NoManifest}
    /\ FinalIsWhole
    /\ RegisteredIsPublished
    /\ \A p \in Proc : Fits(proc[p].pc, proc[p].want)

(* What WriteOnceArtifact sees of the directory.                           *)
Abstract ==
    <<PublishedRevision, IF Registered THEN manifest.rev ELSE NoManifest, cleanups > 0>>

LEMMA OneAtWork ==
    ASSUME TakeTurns, NEW p \in Proc, proc[p].pc # "idle", NEW q \in Proc \ {p}
    PROVE  proc[q].pc = "idle"
BY DEF TakeTurns, At

(* A step is one process's.                                                *)
OnlyMoves(p) == \A q \in Proc \ {p} : proc'[q] = proc[q]

LEMMA StepIsOnes ==
    ASSUME IInv, NEW p \in Proc,
           Plan(p) \/ Step(p) \/ Interrupt(p) \/ DiskError(p) \/ Crash(p)
    PROVE  OnlyMoves(p)
<1>1. CASE Plan(p) \/ Crash(p) \/ CleanUp(p) \/ OpenManifest(p) \/ WriteManifest(p)
    BY <1>1 DEF Plan, Crash, CleanUp, OpenManifest, WriteManifest, Return, Goto,
        OnlyMoves, IInv, Typed
<1>2. CASE ProbeFinal(p) \/ ProbePart(p) \/ OpenExisting(p) \/ OpenNew(p) \/ Request(p)
    BY <1>2 DEF ProbeFinal, ProbePart, OpenExisting, OpenNew, Request, Return, Goto, Fail,
        OnlyMoves, IInv, Typed
<1>3. CASE \/ ReadChunk(p) \/ EndOfBody(p) \/ Hash(p) \/ PublishLink(p) \/ PublishUnlink(p)
           \/ Interrupt(p) \/ DiskError(p)
    BY <1>3 DEF ReadChunk, EndOfBody, Hash, PublishLink, PublishUnlink, Interrupt, DiskError,
        AfterLink, Goto, Fail, OnlyMoves, IInv, Typed
<1>. QED
    BY <1>1, <1>2, <1>3 DEF Step

LEMMA GoodIsOnes ==
    ASSUME NEW r \in Rev, NEW s, Good(r) = Good(s)
    PROVE  r = s
<1>1. 1 \in 1 .. Size
    BY SizeAssumption DEF SizeAssumption
<1>2. Good(r)[1] = <<r, 1>> /\ Good(s)[1] = <<s, 1>>
    BY <1>1 DEF Good
<1>. QED
    BY <1>2

LEMMA GoodLength == ASSUME NEW r PROVE Len(Good(r)) = Size
BY SizeAssumption DEF Good, SizeAssumption

LEMMA PublishedIs ==
    ASSUME NEW r \in Rev, Exists("final"), Content("final") = Good(r)
    PROVE  PublishedRevision = r
<1>1. \A s \in Rev : Content("final") = Good(s) => s = r
    BY GoodIsOnes
<1>. QED
    BY <1>1 DEF PublishedRevision

(* What is registered is healthy.                                          *)
LEMMA HealthyWhenPublished ==
    ASSUME AllDeclared, Alone, Registered, cleanups = 0
    PROVE  Healthy
<1>1. manifest \in Artifact
    BY DEF Alone, Registered
<1>2. manifest.sha = TRUE
    BY <1>1 DEF Artifact, AllDeclared
<1>3. /\ ~Exists("part") /\ Exists("final")
      /\ Content("final") = Good(manifest.rev) /\ Len(Content("final")) = Size
    BY GoodLength DEF Alone, RegisteredIsPublished
<1>4. Inspect = "verified"
    BY <1>2, <1>3 DEF Inspect
<1>. QED
    BY <1>4 DEF Healthy

-----------------------------------------------------------------------------
LEMMA IdleFits == ASSUME NEW w PROVE Fits("idle", w)
BY DEF Fits, Before, Done

(* A step that leaves the final file as it is.                             *)
LEMMA FinalKept ==
    ASSUME TakeTurns, Alone, NEW p \in Proc, OnlyMoves(p), UNCHANGED <<manifest, cleanups>>,
           entry'["final"] = entry["final"], Exists("final") => UNCHANGED data,
           proc[p].pc # "idle" \/ UNCHANGED <<entry, data>>,
           Fits(proc[p].pc, proc[p].want)'
    PROVE  Alone' /\ UNCHANGED Abstract
<1>1. UNCHANGED Exists("final") /\ (Exists("final") => UNCHANGED Content("final"))
    BY DEF Exists, Content
<1>2. FinalIsWhole' /\ UNCHANGED PublishedRevision
    BY <1>1 DEF Alone, FinalIsWhole, PublishedRevision, Good
<1>3. RegisteredIsPublished'
    <2>1. CASE proc[p].pc # "idle"
        BY <2>1 DEF Alone, Fits, Registered, RegisteredIsPublished
    <2>2. CASE UNCHANGED <<entry, data>>
        BY <1>1, <2>2 DEF Alone, Registered, RegisteredIsPublished, Exists, Good
    <2>. QED
        BY <2>1, <2>2
<1>4. ASSUME NEW q \in Proc
      PROVE  Fits(proc[q].pc, proc[q].want)'
    <2>1. CASE q # p /\ proc[p].pc # "idle"
        BY <2>1, OneAtWork, IdleFits DEF OnlyMoves, Fits, Before, Done
    <2>2. CASE q # p /\ UNCHANGED <<entry, data>>
        BY <2>2 DEF Alone, OnlyMoves, Fits, Exists, Content, Registered, Good
    <2>. QED
        BY <2>1, <2>2
<1>. QED
    BY <1>2, <1>3, <1>4 DEF Alone, Abstract, Registered

(* A step that changes nothing of the directory, from l to l2 wanting w.   *)
LEMMA DirectoryKept ==
    ASSUME TakeTurns, Alone, NEW p \in Proc, OnlyMoves(p), UNCHANGED <<dirVars, cleanups>>,
           Fits(proc'[p].pc, proc'[p].want)
    PROVE  Alone' /\ UNCHANGED Abstract
<1>1. Fits(proc[p].pc, proc[p].want)'
    BY DEF Fits, dirVars, Exists, Content, Registered, Good
<1>. QED
    BY <1>1, FinalKept DEF dirVars

LEMMA ReturnKeepsAlone ==
    ASSUME TakeTurns, IInv, Alone, NEW p \in Proc, NEW r, Return(p, r),
           UNCHANGED <<dirVars, cleanups>>
    PROVE  Alone' /\ UNCHANGED Abstract
<1>1. proc'[p] = Idle /\ OnlyMoves(p)
    BY DEF IInv, Typed, Return, OnlyMoves
<1>. QED
    BY <1>1, IdleForm, IdleFits, DirectoryKept

LEMMA PlanAlone ==
    ASSUME TakeTurns, AllDeclared, IInv, Alone, NEW p \in Proc, Plan(p)
    PROVE  Alone' /\ UNCHANGED Abstract
<1>0. OnlyMoves(p)
    BY StepIsOnes DEF Step
<1>1. UNCHANGED <<dirVars, cleanups>>
    BY DEF Plan, budget, Fault
<1>2. PICK a \in Artifact :
          \/ PlanStatus(a) = "ready" /\ proc' = [proc EXCEPT ![p].pc = "probeFinal", ![p].want = a]
          \/ \E r : Return(p, r)
    BY DEF Plan
<1>3. CASE PlanStatus(a) = "ready"
           /\ proc' = [proc EXCEPT ![p].pc = "probeFinal", ![p].want = a]
    <2>1. proc'[p].pc = "probeFinal"
        BY <1>3 DEF IInv, Typed, CallForm
    <2>2. ~Healthy
        BY <1>3 DEF PlanStatus
    <2>3. Fits(proc'[p].pc, proc'[p].want)
        BY <2>1, <2>2, HealthyWhenPublished DEF Fits, Before, Done
    <2>. QED
        BY <1>0, <1>1, <2>3, DirectoryKept
<1>. QED
    BY <1>1, <1>2, <1>3, ReturnKeepsAlone

(* On to a step that asks nothing new of the directory.                    *)
LEMMA MoveAlone ==
    ASSUME TakeTurns, IInv, Alone, NEW p \in Proc, OnlyMoves(p), UNCHANGED <<dirVars, cleanups>>,
           proc[p].pc # "idle",
           proc'[p].pc \in (Before \ {"hashed"}) \cup {"cleanup"},
           proc'[p].pc \in Before => ~Exists("final")
    PROVE  Alone' /\ UNCHANGED Abstract
<1>1. Fits(proc'[p].pc, proc'[p].want)
    BY DEF Alone, Fits, Before, Done
<1>. QED
    BY <1>1, DirectoryKept

LEMMA ProbesAlone ==
    ASSUME TakeTurns, IInv, Alone, NEW p \in Proc, ProbeFinal(p) \/ ProbePart(p)
    PROVE  Alone' /\ UNCHANGED Abstract
<1>0. OnlyMoves(p)
    BY StepIsOnes DEF Step
<1>1. UNCHANGED <<dirVars, cleanups>> /\ proc[p].pc \in {"probeFinal", "probePart"}
    BY DEF ProbeFinal, ProbePart, At, budget
<1>2. CASE \E r : Return(p, r)
    BY <1>1, <1>2, ReturnKeepsAlone
<1>3. CASE ProbeFinal(p) /\ Goto(p, "probePart")
    <2>1. ~Exists("final") /\ proc'[p].pc = "probePart"
        BY <1>3, IdleForm DEF ProbeFinal, Goto, Return, IInv, Typed, CallForm
    <2>. QED
        BY <1>0, <1>1, <2>1, MoveAlone DEF Before
<1>4. CASE ProbePart(p)
    <2>1. proc[p].pc = "probePart" /\ proc'[p].pc = "openPart"
        BY <1>4 DEF ProbePart, At, IInv, Typed, CallForm
    <2>. QED
        BY <1>0, <1>1, <2>1, MoveAlone DEF Before, Alone, Fits
<1>. QED
    BY <1>2, <1>3, <1>4 DEF ProbeFinal

LEMMA OpenExistingAlone ==
    ASSUME TakeTurns, IInv, Alone, NEW p \in Proc, OpenExisting(p)
    PROVE  Alone' /\ UNCHANGED Abstract
<1>0. OnlyMoves(p)
    BY StepIsOnes DEF Step
<1>1. UNCHANGED <<dirVars, cleanups>> /\ proc[p].pc = "openPart"
    BY DEF OpenExisting, At, budget
<1>2. proc'[p].pc \in {"cleanup", "request"}
    BY DEF OpenExisting, Fail, IInv, Typed, CallForm
<1>. QED
    BY <1>0, <1>1, <1>2, MoveAlone DEF Before, Alone, Fits

(* A step that writes, or names a file ".part", before anything has the    *)
(* final name.                                                             *)
LEMMA WriteAlone ==
    ASSUME TakeTurns, IInv, Alone, NEW p \in Proc, OnlyMoves(p),
           UNCHANGED <<manifest, cleanups>>,
           entry'["final"] = entry["final"],
           proc[p].pc \in Before, proc'[p].pc \in (Before \ {"hashed"}) \cup {"cleanup"}
    PROVE  Alone' /\ UNCHANGED Abstract
<1>1. ~Exists("final") /\ proc[p].pc # "idle"
    BY DEF Alone, Fits, Before
<1>2. Fits(proc[p].pc, proc[p].want)'
    BY <1>1 DEF Alone, Fits, Before, Done, Exists, Registered
<1>. QED
    BY <1>1, <1>2, FinalKept

LEMMA OpenNewAlone ==
    ASSUME TakeTurns, IInv, Alone, NEW p \in Proc, OpenNew(p)
    PROVE  Alone' /\ UNCHANGED Abstract
<1>0. OnlyMoves(p)
    BY StepIsOnes DEF Step
<1>1. UNCHANGED <<manifest, cleanups>> /\ proc[p].pc = "openPart"
    BY DEF OpenNew, At, budget, dirVars
<1>2. entry'["final"] = entry["final"]
    BY DEF OpenNew, Create, dirVars, IInv, Typed, Name
<1>3. proc'[p].pc \in {"cleanup", "request"}
    BY DEF OpenNew, Fail, IInv, Typed, CallForm
<1>. QED
    BY <1>0, <1>1, <1>2, <1>3, WriteAlone DEF Before

LEMMA ReceiveAlone ==
    ASSUME TakeTurns, IInv, Alone, NEW p \in Proc,
           Request(p) \/ ReadChunk(p) \/ Interrupt(p) \/ EndOfBody(p)
    PROVE  Alone' /\ UNCHANGED Abstract
<1>0. OnlyMoves(p)
    BY StepIsOnes DEF Step
<1>1. UNCHANGED <<entry, manifest, cleanups>> /\ proc[p].pc \in {"request", "reading"}
    BY DEF Request, ReadChunk, Interrupt, EndOfBody, WriteBlock, At, budget, dirVars, Fault
<1>2. proc'[p].pc \in {"reading", "received", "cleanup"}
    BY DEF Request, ReadChunk, Interrupt, EndOfBody, Goto, Fail, At, IInv, Typed, CallForm
<1>. QED
    BY <1>0, <1>1, <1>2, WriteAlone DEF Before

(* Every artifact declares its digest, so the step after the hash has seen *)
(* the right content under the name it is about to link.                   *)
LEMMA HashAlone ==
    ASSUME TakeTurns, AllDeclared, IInv, Alone, NEW p \in Proc, Hash(p)
    PROVE  Alone' /\ UNCHANGED Abstract
<1>0. OnlyMoves(p)
    BY StepIsOnes DEF Step
<1>1. UNCHANGED <<dirVars, cleanups>> /\ proc[p].pc = "received"
    BY DEF Hash, At, budget
<1>2. proc[p].want.sha = TRUE
    BY <1>1 DEF IInv, Wants, Artifact, AllDeclared
<1>3. \/ proc'[p].pc = "cleanup"
      \/ /\ proc'[p].pc = "hashed" /\ proc'[p].want = proc[p].want
         /\ Content("part") = Good(proc[p].want.rev)
    BY <1>2 DEF Hash, Goto, IInv, Typed, CallForm
<1>4. CASE proc'[p].pc = "cleanup"
    BY <1>0, <1>1, <1>4, MoveAlone DEF Before
<1>5. CASE proc'[p].pc = "hashed" /\ proc'[p].want = proc[p].want
           /\ Content("part") = Good(proc[p].want.rev)
    <2>1. Fits(proc'[p].pc, proc'[p].want)
        BY <1>1, <1>5 DEF Alone, Fits, Before, Done
    <2>. QED
        BY <1>0, <1>1, <2>1, DirectoryKept
<1>. QED
    BY <1>3, <1>4, <1>5

(* The link: what was hashed gets the final name.                          *)
LEMMA PublishLinkAlone ==
    ASSUME TakeTurns, IInv, Alone, NEW p \in Proc, PublishLink(p)
    PROVE  Alone' /\ (UNCHANGED Abstract \/ WriteOnce!Next)
<1>0. OnlyMoves(p)
    BY StepIsOnes DEF Step
<1>1. proc[p].pc = "hashed" /\ UNCHANGED cleanups /\ proc[p].want \in Artifact
    BY DEF PublishLink, At, budget, Fault, IInv, Wants
<1>2. CASE UNCHANGED dirVars /\ proc'[p].pc = "cleanup"
    BY <1>0, <1>1, <1>2, MoveAlone DEF Before
<1>3. CASE /\ Exists("part") /\ ~Exists("final") /\ Link
           /\ AfterLink(p, "linked", outcome[p]) /\ UNCHANGED <<data, manifest>>
    <2>1. /\ entry'["final"] = entry["part"] /\ entry'["part"] = entry["part"]
          /\ proc'[p].pc = "linked" /\ proc'[p].want = proc[p].want
        BY <1>3 DEF Link, AfterLink, IInv, Typed, Name, CallForm
    <2>2. proc[p].want.rev \in Rev
        BY <1>1 DEF Artifact
    <2>3. Content("part") = Good(proc[p].want.rev)
        BY <1>1, <1>3 DEF Alone, Fits
    <2>4. Exists("final")' /\ Content("final")' = Good(proc[p].want.rev)
        BY <1>3, <2>1, <2>3 DEF Exists, Content
    <2>5. FinalIsWhole'
        BY <2>2, <2>4 DEF FinalIsWhole, Good
    <2>6. ~(Registered /\ cleanups = 0)
        BY <1>1 DEF Alone, Fits
    <2>7. Fits(proc[p].pc, proc[p].want)'
        BY <1>1, <1>3, <2>1, <2>4, <2>6 DEF Fits, Before, Done, Registered, Good
    <2>8. RegisteredIsPublished'
        BY <1>1, <1>3, <2>6 DEF RegisteredIsPublished, Registered
    <2>9. Alone'
      <3>1. ASSUME NEW q \in Proc \ {p}
            PROVE  Fits(proc[q].pc, proc[q].want)'
          BY <1>0, <1>1, OneAtWork DEF OnlyMoves, Fits, Before, Done
      <3>. QED
          BY <1>3, <2>5, <2>7, <2>8, <3>1 DEF Alone
    <2>10. PublishedRevision = NoManifest
        BY <1>3 DEF PublishedRevision
    <2>11. PublishedRevision' = proc[p].want.rev
        <3>1. \A s \in Rev : Content("final")' = Good(s) => s = proc[p].want.rev
            BY <2>2, <2>4, GoodIsOnes
        <3>. QED
            BY <2>2, <2>4, <3>1 DEF PublishedRevision, Good
    <2>12. WriteOnce!Publish(proc[p].want.rev)
        BY <1>1, <1>3, <2>10, <2>11 DEF WriteOnce!Publish, Registered
    <2>. QED
        BY <2>2, <2>9, <2>12 DEF WriteOnce!Next
<1>4. \/ proc'[p].pc = "cleanup" /\ UNCHANGED dirVars
      \/ /\ Exists("part") /\ ~Exists("final") /\ Link
         /\ AfterLink(p, "linked", outcome[p]) /\ UNCHANGED <<data, manifest>>
    BY DEF PublishLink, AfterLink, IInv, Typed, CallForm, dirVars
<1>. QED
    BY <1>2, <1>3, <1>4

(* The name of the .part goes.                                             *)
LEMMA UnlinkAlone ==
    ASSUME TakeTurns, IInv, Alone, NEW p \in Proc,
           PublishUnlink(p) \/ DiskError(p) \/ CleanUp(p)
    PROVE  Alone' /\ UNCHANGED Abstract
<1>0. OnlyMoves(p)
    BY StepIsOnes DEF Step
<1>1. /\ UNCHANGED <<data, manifest, cleanups>>
      /\ proc[p].pc # "idle"
      /\ entry' \in {entry, [entry EXCEPT !["part"] = NoInode]}
    BY DEF PublishUnlink, DiskError, CleanUp, At, budget, Fault, Unlink
<1>2. entry'["final"] = entry["final"]
    BY <1>1 DEF IInv, Typed, Name
<1>3. \/ proc'[p].pc \in {"idle", "cleanup"}
      \/ /\ proc[p].pc = "linked" /\ proc'[p].pc = "published"
         /\ proc'[p].want = proc[p].want /\ entry'["part"] = NoInode
    BY IdleForm DEF PublishUnlink, DiskError, CleanUp, At, Fail, Return, Unlink,
        IInv, Typed, CallForm, Name
<1>4. Fits(proc[p].pc, proc[p].want)'
    BY <1>1, <1>2, <1>3 DEF Alone, Fits, Before, Done, Exists, Content, Registered, Good
<1>. QED
    BY <1>0, <1>1, <1>2, <1>4, FinalKept

(* The manifest: what it records has the final name.                       *)
LEMMA OpenManifestAlone ==
    ASSUME TakeTurns, IInv, Alone, NEW p \in Proc, OpenManifest(p)
    PROVE  Alone' /\ UNCHANGED Abstract
<1>0. OnlyMoves(p)
    BY StepIsOnes DEF Step
<1>1. UNCHANGED <<entry, data, manifest, cleanups>> /\ proc[p].pc = "published"
    BY DEF OpenManifest, At, budget, Fault
<1>2. \/ proc'[p].pc = "idle"
      \/ proc'[p].pc = "manifest" /\ proc'[p].want = proc[p].want
    BY IdleForm DEF OpenManifest, Goto, Return, IInv, Typed, CallForm
<1>3. Fits(proc[p].pc, proc[p].want)'
    BY <1>1, <1>2 DEF Alone, Fits, Before, Done, Exists, Content, Registered, Good
<1>. QED
    BY <1>0, <1>1, <1>3, FinalKept

LEMMA WriteManifestAlone ==
    ASSUME TakeTurns, IInv, Alone, NEW p \in Proc, WriteManifest(p)
    PROVE  Alone' /\ (UNCHANGED Abstract \/ WriteOnce!Next)
<1>0. OnlyMoves(p)
    BY StepIsOnes DEF Step
<1>1. /\ UNCHANGED <<entry, data, cleanups>> /\ proc[p].pc = "manifest"
      /\ proc[p].want \in Artifact /\ manifest' \in {manifest, proc[p].want}
    BY DEF WriteManifest, At, budget, Fault, ManifestSaved, ManifestFails, IInv, Wants
<1>2. proc'[p].pc = "idle"
    BY IdleForm DEF WriteManifest, Return, IInv, Typed
<1>3. Fits(proc[p].pc, proc[p].want)'
    BY <1>2 DEF Fits, Before, Done
<1>4. CASE manifest' = manifest
    BY <1>0, <1>1, <1>3, <1>4, FinalKept
<1>5. CASE manifest' = proc[p].want
    <2>1. /\ ~Exists("part") /\ (cleanups = 0 => Exists("final"))
          /\ Exists("final") => Content("final") = Good(proc[p].want.rev)
        BY <1>1 DEF Alone, Fits, Done, IInv, PublishedStays
    <2>2. Registered' /\ UNCHANGED PublishedRevision
        BY <1>1, <1>5, ManifestAssumption
           DEF Registered, PublishedRevision, Exists, Content, Good, ManifestAssumption
    <2>3. FinalIsWhole' /\ RegisteredIsPublished'
        BY <1>1, <1>5, <2>1
           DEF Alone, FinalIsWhole, RegisteredIsPublished, Exists, Content, Good
    <2>4. Alone'
      <3>1. ASSUME NEW q \in Proc \ {p}
            PROVE  Fits(proc[q].pc, proc[q].want)'
          BY <1>0, <1>1, OneAtWork DEF OnlyMoves, Fits, Before, Done
      <3>. QED
          BY <1>1, <1>3, <1>5, <2>3, <3>1 DEF Alone
    <2>5. proc[p].want.rev \in Rev
        BY <1>1 DEF Artifact
    <2>6. \/ PublishedRevision = proc[p].want.rev
          \/ cleanups > 0 /\ PublishedRevision = NoManifest
        <3>1. CASE Exists("final")
          <4>1. Content("final") = Good(proc[p].want.rev)
              BY <2>1, <3>1
          <4>. QED
              BY <2>5, <3>1, <4>1, PublishedIs
        <3>2. CASE ~Exists("final")
            BY <2>1, <3>2 DEF PublishedRevision, IInv, Typed
        <3>. QED
            BY <3>1, <3>2
    <2>7. WriteOnce!Record(proc[p].want.rev)
        BY <1>1, <1>5, <2>2, <2>6 DEF WriteOnce!Record
    <2>. QED
        BY <2>4, <2>5, <2>7 DEF WriteOnce!Next
<1>. QED
    BY <1>1, <1>4, <1>5

LEMMA CleanupAlone ==
    ASSUME IInv, Alone, NEW name \in Name, Cleanup(name)
    PROVE  Alone' /\ WriteOnce!Delete
<1>1. /\ UNCHANGED <<data, manifest, proc>> /\ cleanups' = cleanups + 1
      /\ entry' = [entry EXCEPT ![name] = NoInode]
    BY DEF Cleanup, Unlink
<1>2. cleanups' \in Nat \ {0} /\ cleanups' > 0
    BY <1>1 DEF IInv, Typed
<1>3. /\ Exists("final")' => Exists("final") /\ UNCHANGED entry["final"]
      /\ Exists("part")' => Exists("part") /\ UNCHANGED entry["part"]
    BY <1>1 DEF IInv, Typed, Exists, Name
<1>4. FinalIsWhole' /\ RegisteredIsPublished'
    BY <1>1, <1>2, <1>3
       DEF Alone, FinalIsWhole, RegisteredIsPublished, Exists, Content, Good
<1>5. \A p \in Proc : Fits(proc[p].pc, proc[p].want)'
    BY <1>1, <1>2, <1>3 DEF Alone, Fits, Exists, Content, Good
<1>6. Alone'
    BY <1>1, <1>4, <1>5 DEF Alone
<1>7. PublishedRevision' \in {PublishedRevision, NoManifest}
    BY <1>1, <1>3 DEF PublishedRevision, Exists, Content, Good
<1>. QED
    BY <1>1, <1>2, <1>6, <1>7 DEF WriteOnce!Delete, Registered

-----------------------------------------------------------------------------
LEMMA AloneInitially == Init => Alone /\ WriteOnce!Init
BY IdleForm
   DEF Init, EmptyDirectory, Alone, FinalIsWhole, RegisteredIsPublished, Fits, Before, Done,
       Exists, Name, Registered, PublishedRevision, WriteOnce!Init

LEMMA AloneInductive ==
    ASSUME AllDeclared
    PROVE  TakeTurns /\ IInv /\ Alone /\ [Next]_vars
               => Alone' /\ (UNCHANGED Abstract \/ WriteOnce!Next)
<1>. SUFFICES ASSUME TakeTurns, IInv, Alone, [Next]_vars
              PROVE  Alone' /\ (UNCHANGED Abstract \/ WriteOnce!Next)
    OBVIOUS
<1>1. ASSUME NEW p \in Proc, Plan(p) \/ Crash(p) PROVE Alone' /\ UNCHANGED Abstract
    <2>1. CASE Crash(p)
        BY <2>1, ReturnKeepsAlone DEF Crash, Fault
    <2>. QED
        BY <1>1, <2>1, PlanAlone
<1>2. ASSUME NEW p \in Proc, ProbeFinal(p) \/ ProbePart(p) \/ OpenExisting(p) \/ OpenNew(p)
      PROVE  Alone' /\ UNCHANGED Abstract
    BY <1>2, ProbesAlone, OpenExistingAlone, OpenNewAlone
<1>3. ASSUME NEW p \in Proc,
             Request(p) \/ ReadChunk(p) \/ Interrupt(p) \/ EndOfBody(p) \/ Hash(p)
      PROVE  Alone' /\ UNCHANGED Abstract
    BY <1>3, ReceiveAlone, HashAlone
<1>4. ASSUME NEW p \in Proc, PublishUnlink(p) \/ DiskError(p) \/ CleanUp(p) \/ OpenManifest(p)
      PROVE  Alone' /\ UNCHANGED Abstract
    BY <1>4, UnlinkAlone, OpenManifestAlone
<1>5. ASSUME NEW p \in Proc, PublishLink(p) \/ WriteManifest(p)
      PROVE  Alone' /\ (UNCHANGED Abstract \/ WriteOnce!Next)
    BY <1>5, PublishLinkAlone, WriteManifestAlone
<1>6. ASSUME NEW name \in Name, Cleanup(name) PROVE Alone' /\ WriteOnce!Next
    BY <1>6, CleanupAlone DEF WriteOnce!Next
<1>7. CASE UNCHANGED vars
    BY <1>7 DEF vars, dirVars, budget, Alone, FinalIsWhole, RegisteredIsPublished, Fits,
        Exists, Content, Good, Registered, Abstract, PublishedRevision
<1>. QED
    BY <1>1, <1>2, <1>3, <1>4, <1>5, <1>6, <1>7 DEF Next, Step

LEMMA AlwaysAlone == ASSUME AllDeclared PROVE Spec /\ []TakeTurns => []Alone
<1>1. Init => Alone
    BY AloneInitially
<1>2. TakeTurns /\ IInv /\ Alone /\ [Next]_vars => Alone'
    BY AloneInductive
<1>. QED
    BY <1>1, <1>2, Invariance, PTL DEF Spec

(* Whatever is interrupted, resumed, wrong or left behind: what has the    *)
(* final name is the whole file of a revision.                             *)
THEOREM WholeFinal ==
    ASSUME AllDeclared PROVE Spec /\ []TakeTurns => []FinalIsWhole
<1>1. Alone => FinalIsWhole
    BY DEF Alone
<1>. QED
    BY <1>1, AlwaysAlone, PTL

(* A manifest describes the file beside it until an operator deletes.      *)
THEOREM HealthyRegistered ==
    ASSUME AllDeclared PROVE Spec /\ []TakeTurns => []RegisteredIsHealthy
<1>1. Alone => RegisteredIsHealthy
    BY HealthyWhenPublished DEF RegisteredIsHealthy
<1>. QED
    BY <1>1, AlwaysAlone, PTL

(* The directory implements the write-once artifact.                       *)
THEOREM ImplementsWriteOnce ==
    ASSUME AllDeclared PROVE Spec /\ []TakeTurns => WriteOnceSpec
<1>1. Init => WriteOnce!Init
    BY AloneInitially
<1>2. TakeTurns /\ IInv /\ Alone /\ [Next]_vars
        => [WriteOnce!Next]_<<PublishedRevision,
                              IF Registered THEN manifest.rev ELSE NoManifest, cleanups > 0>>
    BY AloneInductive DEF Abstract
<1>. QED
    BY <1>1, <1>2, Invariance, AlwaysAlone, PTL DEF Spec, WriteOnceSpec, WriteOnce!Spec


-----------------------------------------------------------------------------
(* Types: whoever else opens, writes and renames the file meanwhile, what  *)
(* bytes_downloaded counts is in the file that part_fd has open.           *)
Opening == {"idle", "probeFinal", "probePart", "openPart"}

Fetching == {"request", "reading"}

MeasuredCall(p) ==
    /\ proc[p].pc \in Opening => proc[p].offset = 0
    /\ proc[p].pc \in Fetching => proc[p].offset <= Len(data[proc[p].fd])

Measured == \A p \in Proc : MeasuredCall(p)

Counted ==
    /\ manifest \in Artifact \cup {NoManifest}
    /\ manifestPart \in BOOLEAN
    /\ outcome \in [Proc -> Outcome]
    /\ faults \in 0 .. MaxFaults
    /\ cleanups \in 0 .. MaxCleanups

LEMMA MeasuredIsTypeOK == IInv /\ Measured /\ Counted => TypeOK
<1>. SUFFICES ASSUME IInv, Measured, Counted PROVE TypeOK
    OBVIOUS
<1>1. proc \in [Proc -> Call]
    BY DEF IInv, Typed, CallForm, Call
<1>2. \A p \in Proc : proc[p].pc = "reading" =>
          proc[p].fd \in Inode /\ proc[p].offset <= Len(data[proc[p].fd])
    BY DEF IInv, HasFile, Receiving, Measured, MeasuredCall, Fetching
<1>. QED
    BY <1>1, <1>2 DEF IInv, Typed, Counted, TypeOK, Block

(* Nobody shortens a file another call has open.                           *)
OnlyGrows ==
    \A q \in Proc : proc[q].pc \in Fetching =>
        Len(data[proc[q].fd]) <= Len(data'[proc[q].fd])

LEMMA SameGrows == ASSUME IInv, UNCHANGED data PROVE OnlyGrows
<1>1. \A q \in Proc : proc[q].pc \in Fetching => Len(data[proc[q].fd]) \in Nat
    BY LenProperties DEF IInv, Typed, HasFile, Receiving, Fetching
<1>. QED
    BY <1>1 DEF OnlyGrows

LEMMA WriteGrows ==
    ASSUME IInv, NEW p \in Proc, proc[p].pc = "reading", NEW b \in Block, WriteBlock(p, b)
    PROVE  /\ OnlyGrows
           /\ proc[p].offset <= Len(data[proc[p].fd])
                => proc[p].offset + 1 <= Len(data'[proc[p].fd])
<1>1. /\ data \in [Inode -> Seq(Block)] /\ proc[p].fd \in Inode /\ proc[p].offset \in Nat
      /\ \A q \in Proc : proc[q].pc \in Fetching => proc[q].fd \in Inode
    BY DEF IInv, Typed, HasFile, Receiving, Fetching, CallForm
<1>. DEFINE s == data[proc[p].fd]
            n == proc[p].offset
            t == Written(s, proc[p].resumed, n, b)
<1>2. data' = [data EXCEPT ![proc[p].fd] = t]
    BY <1>1 DEF WriteBlock
<1>3. s \in Seq(Block) /\ Len(s) \in Nat
    BY <1>1, LenProperties
<1>4. Len(s) <= Len(t) /\ (n <= Len(s) => n + 1 <= Len(t))
  <2>1. CASE t = Append(s, b)
      BY <1>1, <1>3, <2>1
  <2>2. CASE ~(proc[p].resumed \/ n >= Len(s)) /\ t = [s EXCEPT ![n + 1] = b]
    <3>1. t \in Seq(Block)
        BY <1>1, <1>3, WrittenForm
    <3>2. DOMAIN t = DOMAIN s
        BY <2>2
    <3>3. Len(t) = Len(s)
        BY <1>3, <3>1, <3>2, LenProperties
    <3>. QED
        BY <1>1, <1>3, <2>2, <3>3
  <2>. QED
      BY <2>1, <2>2 DEF Written
<1>5. data'[proc[p].fd] = t /\ \A j \in Inode \ {proc[p].fd} : data'[j] = data[j]
    BY <1>1, <1>2
<1>6. \A j \in Inode : Len(data[j]) \in Nat
    BY <1>1, LenProperties
<1>. QED
    BY <1>1, <1>4, <1>5, <1>6 DEF OnlyGrows

(* A step of one call: the others still count what is there.               *)
LEMMA OthersMeasured ==
    ASSUME IInv, IInv', Measured, NEW p \in Proc, OnlyMoves(p), OnlyGrows, MeasuredCall(p)'
    PROVE  Measured'
<1>1. ASSUME NEW q \in Proc \ {p} PROVE MeasuredCall(q)'
  <2>1. proc'[q] = proc[q] /\ MeasuredCall(q) /\ proc[q].offset \in Nat
      BY DEF OnlyMoves, Measured, IInv, Typed, CallForm
  <2>2. proc[q].pc \in Fetching => Len(data[proc[q].fd]) \in Nat /\ Len(data'[proc[q].fd]) \in Nat
      BY LenProperties DEF IInv, Typed, HasFile, Receiving, Fetching
  <2>. QED
      BY <2>1, <2>2 DEF MeasuredCall, OnlyGrows
<1>. QED
    BY <1>1 DEF Measured

LEMMA MeasuredQuiet ==
    ASSUME IInv, IInv', Measured, NEW p \in Proc,
           \/ Plan(p) \/ ProbeFinal(p) \/ ProbePart(p) \/ Request(p) \/ EndOfBody(p)
           \/ Hash(p) \/ PublishLink(p) \/ PublishUnlink(p) \/ DiskError(p) \/ CleanUp(p)
           \/ OpenManifest(p) \/ WriteManifest(p) \/ Crash(p)
    PROVE  Measured'
<1>0. OnlyMoves(p)
    BY StepIsOnes DEF Step
<1>1. UNCHANGED data
    BY DEF Plan, ProbeFinal, ProbePart, Request, EndOfBody, Hash, PublishLink, PublishUnlink,
        DiskError, CleanUp, OpenManifest, WriteManifest, Crash, dirVars
<1>2. \/ proc'[p] = Idle
      \/ /\ proc'[p].offset = proc[p].offset /\ proc'[p].fd = proc[p].fd
         /\ proc'[p].pc \in Opening => proc[p].pc \in Opening
         /\ proc'[p].pc \in Fetching => proc[p].pc \in Fetching
      \/ proc'[p].pc \notin Opening \cup Fetching
    <2>1. CASE Plan(p) \/ ProbeFinal(p) \/ ProbePart(p) \/ Request(p) \/ EndOfBody(p) \/ Hash(p)
        BY <2>1 DEF Plan, ProbeFinal, ProbePart, Request, EndOfBody, Hash, Return, Goto, Fail,
            At, Opening, Fetching, IInv, Typed, CallForm
    <2>2. CASE PublishLink(p) \/ PublishUnlink(p) \/ DiskError(p)
        BY <2>2 DEF PublishLink, PublishUnlink, DiskError, AfterLink, Fail,
            Opening, Fetching, IInv, Typed, CallForm
    <2>3. CASE CleanUp(p) \/ OpenManifest(p) \/ WriteManifest(p) \/ Crash(p)
        BY <2>3 DEF CleanUp, OpenManifest, WriteManifest, Crash, Return, Goto,
            Opening, Fetching, IInv, Typed, CallForm
    <2>. QED
        BY <2>1, <2>2, <2>3
<1>3. Idle.pc = "idle" /\ Idle.offset = 0
    BY DEF Idle
<1>4. MeasuredCall(p)'
    BY <1>1, <1>2, <1>3 DEF Measured, MeasuredCall, Opening, Fetching
<1>. QED
    BY <1>0, <1>1, <1>4, SameGrows, OthersMeasured

LEMMA MeasuredOpen ==
    ASSUME IInv, IInv', Measured, NEW p \in Proc, OpenExisting(p) \/ OpenNew(p)
    PROVE  Measured'
<1>0. OnlyMoves(p)
    BY StepIsOnes DEF Step
<1>1. proc[p].pc = "openPart" /\ proc[p].offset = 0
    BY DEF OpenExisting, OpenNew, At, Measured, MeasuredCall, Opening
<1>2. CASE (\E r : Fail(p, r)) /\ UNCHANGED data
    <2>1. proc'[p].pc = "cleanup"
        BY <1>2 DEF Fail, IInv, Typed, CallForm
    <2>. QED
        BY <1>0, <1>2, <2>1, SameGrows, OthersMeasured DEF MeasuredCall, Opening, Fetching
<1>3. CASE Exists("part") /\ OpenExisting(p)
    <2>1. UNCHANGED data
        BY <1>3 DEF OpenExisting, dirVars
    <2>2. /\ proc'[p].pc \in {"cleanup", "request"}
          /\ proc'[p].fd = entry["part"] /\ proc'[p].offset = Len(Content("part"))
        BY <1>3 DEF OpenExisting, IInv, Typed, CallForm
    <2>3. proc'[p].offset <= Len(data'[proc'[p].fd])
        BY <1>3, <2>1, <2>2, LenProperties DEF Content, Exists, Name, IInv, Typed
    <2>. QED
        BY <1>0, <2>1, <2>2, <2>3, SameGrows, OthersMeasured
           DEF MeasuredCall, Opening, Fetching
<1>4. CASE ~Exists("part") /\ OpenNew(p)
    <2>1. PICK i \in Free(Opened) :
              /\ data' = [data EXCEPT ![i] = <<>>]
              /\ proc' = [proc EXCEPT ![p].pc = "request", ![p].fd = i, ![p].created = i]
        BY <1>4 DEF OpenNew, Create
    <2>2. i \in Inode /\ \A q \in Proc : proc[q].pc \in Fetching => proc[q].fd # i
        BY NoInodeAssumption
           DEF Free, Opened, IInv, HasFile, Receiving, Fetching, NoInodeAssumption
    <2>3. /\ data'[i] = <<>> /\ \A j \in Inode \ {i} : data'[j] = data[j]
          /\ \A j \in Inode : Len(data[j]) \in Nat
        BY <2>1, <2>2, LenProperties DEF IInv, Typed
    <2>4. OnlyGrows
        BY <2>2, <2>3 DEF OnlyGrows, IInv, HasFile, Receiving, Fetching
    <2>5. proc'[p].pc = "request" /\ proc'[p].fd = i /\ proc'[p].offset = 0
        BY <1>1, <2>1 DEF IInv, Typed, CallForm
    <2>6. Len(<<>>) = 0
        OBVIOUS
    <2>. QED
        BY <1>0, <2>3, <2>4, <2>5, <2>6, OthersMeasured DEF MeasuredCall, Opening, Fetching
<1>5. \/ (\E r : Fail(p, r)) /\ UNCHANGED data
      \/ Exists("part") /\ OpenExisting(p)
      \/ ~Exists("part") /\ OpenNew(p)
    BY DEF OpenExisting, OpenNew, dirVars
<1>. QED
    BY <1>2, <1>3, <1>4, <1>5

LEMMA MeasuredRead ==
    ASSUME IInv, IInv', Measured, NEW p \in Proc, ReadChunk(p) \/ Interrupt(p)
    PROVE  Measured'
<1>0. OnlyMoves(p)
    BY StepIsOnes DEF Step
<1>1. proc[p].pc = "reading" /\ proc[p].want \in Artifact /\ proc[p].offset \in Nat
    BY DEF ReadChunk, Interrupt, At, IInv, Wants, Typed, CallForm
<1>2. Junk \in Block /\ NextBlock(p) \in Block
    BY <1>1, NextBlockForm DEF Block
<1>3. CASE Interrupt(p)
    <2>1. proc'[p].pc = "cleanup"
        BY <1>3 DEF Interrupt, Fail, IInv, Typed, CallForm
    <2>2. UNCHANGED data \/ WriteBlock(p, NextBlock(p))
        BY <1>3 DEF Interrupt, dirVars
    <2>3. OnlyGrows
        BY <1>1, <1>2, <2>2, SameGrows, WriteGrows
    <2>. QED
        BY <1>0, <2>1, <2>3, OthersMeasured DEF MeasuredCall, Opening, Fetching
<1>4. CASE ReadChunk(p)
    <2>1. PICK b \in Block : WriteBlock(p, b)
        BY <1>2, <1>4 DEF ReadChunk
    <2>2. /\ proc'[p].offset = proc[p].offset + 1 /\ proc'[p].pc = "reading"
          /\ proc'[p].fd = proc[p].fd
        BY <1>1, <1>4 DEF ReadChunk, IInv, Typed, CallForm
    <2>3. proc[p].offset <= Len(data[proc[p].fd])
        BY <1>1 DEF Measured, MeasuredCall, Fetching
    <2>4. OnlyGrows /\ proc[p].offset + 1 <= Len(data'[proc[p].fd])
        BY <1>1, <2>1, <2>3, WriteGrows
    <2>. QED
        BY <1>0, <2>2, <2>4, OthersMeasured DEF MeasuredCall, Opening, Fetching
<1>. QED
    BY <1>3, <1>4

LEMMA MeasuredCleanup ==
    ASSUME IInv, Measured, NEW name \in Name, Cleanup(name)
    PROVE  Measured'
BY DEF Cleanup, Measured, MeasuredCall

(* How a call ended, and the bounds, are the same for any step.            *)
LEMMA CountedKept == ASSUME IInv, Counted, Next PROVE Counted'
<1>1. faults' \in 0 .. MaxFaults /\ cleanups' \in 0 .. MaxCleanups
    <2>1. \/ UNCHANGED <<faults, cleanups>>
          \/ faults < MaxFaults /\ faults' = faults + 1 /\ UNCHANGED cleanups
          \/ cleanups < MaxCleanups /\ cleanups' = cleanups + 1 /\ UNCHANGED faults
        <3>1. ASSUME NEW p \in Proc, Plan(p) \/ Interrupt(p) \/ DiskError(p) \/ Crash(p)
              PROVE  UNCHANGED budget \/ Fault
            BY <3>1 DEF Plan, Interrupt, DiskError, Crash
        <3>2. ASSUME NEW p \in Proc,
                     \/ ProbeFinal(p) \/ ProbePart(p) \/ OpenExisting(p) \/ OpenNew(p)
                     \/ Request(p) \/ ReadChunk(p) \/ EndOfBody(p) \/ Hash(p)
              PROVE  UNCHANGED budget \/ Fault
            BY <3>2 DEF ProbeFinal, ProbePart, OpenExisting, OpenNew, Request, ReadChunk,
                EndOfBody, Hash
        <3>3. ASSUME NEW p \in Proc,
                     \/ PublishLink(p) \/ PublishUnlink(p) \/ CleanUp(p)
                     \/ OpenManifest(p) \/ WriteManifest(p)
              PROVE  UNCHANGED budget \/ Fault
            BY <3>3 DEF PublishLink, PublishUnlink, CleanUp, OpenManifest, WriteManifest
        <3>4. ASSUME NEW name \in Name, Cleanup(name)
              PROVE  cleanups < MaxCleanups /\ cleanups' = cleanups + 1 /\ UNCHANGED faults
            BY <3>4 DEF Cleanup
        <3>. QED
            BY <3>1, <3>2, <3>3, <3>4 DEF Next, Step, budget, Fault
    <2>. QED
        BY <2>1, BoundAssumption DEF Counted, BoundAssumption
<1>2. /\ manifest' \in Artifact \cup {NoManifest} /\ manifestPart' \in BOOLEAN
      /\ outcome' \in [Proc -> Outcome]
    <2>1. ASSUME NEW p \in Proc, NEW r \in Outcome, Return(p, r) \/ Fail(p, r)
          PROVE  outcome' \in [Proc -> Outcome]
        BY <2>1 DEF Return, Fail, Counted
    <2>2. ASSUME NEW p \in Proc, NEW l, Goto(p, l) PROVE outcome' \in [Proc -> Outcome]
        BY <2>2 DEF Goto, Counted
    <2>3. ASSUME NEW p \in Proc,
                 \/ Plan(p) \/ ProbeFinal(p) \/ ProbePart(p) \/ OpenExisting(p)
                 \/ OpenNew(p) \/ Request(p)
          PROVE  outcome' \in [Proc -> Outcome] /\ UNCHANGED <<manifest, manifestPart>>
        <3>1. CASE Plan(p)
            <4>1. \A a \in Artifact : PlanStatus(a) \in Outcome
                BY DEF PlanStatus, Outcome
            <4>2. UNCHANGED <<manifest, manifestPart>>
                BY <3>1 DEF Plan, dirVars
            <4>3. \/ outcome' = [outcome EXCEPT ![p] = "none"]
                  \/ \E r \in Outcome : Return(p, r)
                BY <3>1, <4>1 DEF Plan, Outcome
            <4>. QED
                BY <2>1, <4>2, <4>3 DEF Counted, Outcome
        <3>2. CASE ProbeFinal(p) \/ ProbePart(p)
            BY <3>2 DEF ProbeFinal, ProbePart, Return, Goto, dirVars, Counted, Outcome
        <3>3. CASE OpenExisting(p) \/ OpenNew(p)
            BY <3>3 DEF OpenExisting, OpenNew, Fail, dirVars, Counted, Outcome
        <3>4. CASE Request(p)
            <4>1. RequestFailures(p) \subseteq Outcome
                BY DEF RequestFailures, Outcome
            <4>. QED
                BY <2>1, <2>2, <3>4, <4>1 DEF Request, dirVars
        <3>. QED
            BY <2>3, <3>1, <3>2, <3>3, <3>4
    <2>4. ASSUME NEW p \in Proc,
                 ReadChunk(p) \/ Interrupt(p) \/ DiskError(p) \/ EndOfBody(p) \/ Hash(p)
          PROVE  outcome' \in [Proc -> Outcome] /\ UNCHANGED <<manifest, manifestPart>>
        BY <2>4 DEF ReadChunk, Interrupt, DiskError, EndOfBody, Hash, WriteBlock, Fail, Goto,
            dirVars, Counted, Outcome
    <2>5. ASSUME NEW p \in Proc, PublishLink(p) \/ PublishUnlink(p) \/ CleanUp(p) \/ Crash(p)
          PROVE  outcome' \in [Proc -> Outcome] /\ UNCHANGED <<manifest, manifestPart>>
        BY <2>5 DEF PublishLink, PublishUnlink, CleanUp, Crash, AfterLink, Fail, Return,
            dirVars, Counted, Outcome
    <2>6. ASSUME NEW p \in Proc, OpenManifest(p) \/ WriteManifest(p)
          PROVE  /\ manifest' \in Artifact \cup {NoManifest} /\ manifestPart' \in BOOLEAN
                 /\ outcome' \in [Proc -> Outcome]
        BY <2>6 DEF OpenManifest, WriteManifest, ManifestSaved, ManifestFails, Goto, Return,
            At, Counted, Outcome, IInv, Wants
    <2>7. ASSUME NEW name \in Name, Cleanup(name)
          PROVE  UNCHANGED <<manifest, manifestPart, outcome>>
        BY <2>7 DEF Cleanup
    <2>. QED
        BY <2>3, <2>4, <2>5, <2>6, <2>7 DEF Next, Step, Counted
<1>. QED
    BY <1>1, <1>2 DEF Counted

LEMMA MeasuredKept == ASSUME IInv, IInv', Measured, Next PROVE Measured'
BY MeasuredQuiet, MeasuredOpen, MeasuredRead, MeasuredCleanup DEF Next, Step

(* Every state is well typed, for any number of processes, overlapping or  *)
(* not; in particular no call counts bytes that its .part does not hold,   *)
(* although others append to that file, overwrite it and take its name.    *)
THEOREM TypeCorrect == Spec => []TypeOK
<1>1. Init => Measured /\ Counted
    <2>. SUFFICES ASSUME Init PROVE Measured /\ Counted
        OBVIOUS
    <2>1. Measured
        BY DEF Init, Idle, Fetching, Measured, MeasuredCall
    <2>2. "none" \in Outcome
        BY DEF Outcome
    <2>3. outcome \in [Proc -> Outcome]
        BY <2>2 DEF Init
    <2>4. faults \in 0 .. MaxFaults /\ cleanups \in 0 .. MaxCleanups
        BY BoundAssumption DEF Init, BoundAssumption
    <2>. QED
        BY <2>1, <2>3, <2>4 DEF Init, EmptyDirectory, Counted
<1>2. IInv /\ IInv' /\ Measured /\ Counted /\ [Next]_vars => Measured' /\ Counted'
    <2>1. CASE UNCHANGED vars
        BY <2>1 DEF vars, dirVars, budget, Measured, MeasuredCall, Counted
    <2>. QED
        BY <2>1, MeasuredKept, CountedKept
<1>. QED
    BY <1>1, <1>2, MeasuredIsTypeOK, Invariance, PTL DEF Spec

-----------------------------------------------------------------------------
(* A call comes to its end, as far as that is up to it.                    *)

(* The blocks the artifact's size still announces.                         *)
Announced(c) == IF c.offset < Size THEN Size - c.offset ELSE 0

(* The most steps a call can still take, apart from those that only write  *)
(* what a server sends beyond the size.                                    *)
StepsLeft(c) ==
    CASE c.pc = "idle" -> 0
      [] c.pc \in {"cleanup", "manifest"} -> 1
      [] c.pc = "published" -> 2
      [] c.pc = "linked" -> 3
      [] c.pc = "hashed" -> 4
      [] c.pc = "received" -> 5
      [] c.pc = "reading" -> 6 + Announced(c)
      [] c.pc = "request" -> Size + 7
      [] c.pc = "openPart" -> Size + 8
      [] c.pc = "probePart" -> Size + 9
      [] OTHER -> Size + 10

(* The server sends a block more than the size announces.                  *)
Overruns(p) ==
    /\ proc[p].pc = "reading" /\ proc[p].offset >= Size
    /\ proc' = [proc EXCEPT ![p].offset = proc[p].offset + 1]

Advances(p) ==
    proc[p].pc # "idle" => StepsLeft(proc'[p]) < StepsLeft(proc[p]) \/ Overruns(p)

LEMMA StepsLeftBound ==
    ASSUME NEW c \in CallForm
    PROVE  /\ StepsLeft(c) \in 0 .. Size + 10
           /\ c.pc # "idle" => StepsLeft(c) > 0
           /\ c.pc \notin {"idle", "cleanup", "manifest"} => StepsLeft(c) > 1
<1>1. c.offset \in Nat /\ Announced(c) \in 0 .. Size
    BY SizeAssumption DEF CallForm, Announced, SizeAssumption
<1>2. CASE c.pc = "reading"
    BY <1>1, <1>2, SizeAssumption DEF StepsLeft, SizeAssumption
<1>3. CASE c.pc # "reading"
  <2>1. /\ c.pc = "idle" => StepsLeft(c) = 0
        /\ c.pc \in {"cleanup", "manifest"} => StepsLeft(c) = 1
      BY DEF StepsLeft
  <2>2. c.pc \notin {"idle", "cleanup", "manifest"} =>
            StepsLeft(c) \in {2, 3, 4, 5, Size + 7, Size + 8, Size + 9, Size + 10}
      BY <1>3 DEF StepsLeft
  <2>. QED
      BY <2>1, <2>2, SizeAssumption DEF SizeAssumption
<1>. QED
    BY <1>2, <1>3

LEMMA AdvancesToEnd ==
    ASSUME IInv, NEW p \in Proc, NEW r, Return(p, r)
    PROVE  Advances(p)
<1>1. proc'[p] = Idle /\ StepsLeft(Idle) = 0 /\ proc[p] \in CallForm
    BY DEF Return, Idle, IInv, Typed, StepsLeft
<1>2. proc[p].pc # "idle" => StepsLeft(proc[p]) \in 0 .. Size + 10 /\ StepsLeft(proc[p]) > 0
    BY <1>1, StepsLeftBound
<1>. QED
    BY <1>1, <1>2 DEF Advances

(* A step within the call: where it goes on, and with which offset.        *)
LEMMA AdvancesTo ==
    ASSUME IInv, IInv', NEW p \in Proc, NEW l \in PC, proc'[p].pc = l,
           \/ l = "cleanup" /\ proc[p].pc \notin {"idle", "cleanup", "manifest"}
           \/ l = "manifest" /\ proc[p].pc = "published"
           \/ l = "published" /\ proc[p].pc = "linked"
           \/ l = "linked" /\ proc[p].pc = "hashed"
           \/ l = "hashed" /\ proc[p].pc = "received"
           \/ l = "received" /\ proc[p].pc \in {"reading", "request"}
           \/ l = "reading" /\ proc[p].pc = "request"
           \/ /\ l = "reading" /\ proc[p].pc = "reading"
              /\ proc[p].offset < Size /\ proc'[p].offset = proc[p].offset + 1
           \/ l = "request" /\ proc[p].pc = "openPart"
           \/ l = "openPart" /\ proc[p].pc = "probePart"
           \/ l = "probePart" /\ proc[p].pc = "probeFinal"
           \/ l = "probeFinal" /\ proc[p].pc = "idle"
    PROVE  Advances(p)
<1>1. /\ proc[p].pc \in PC /\ proc[p].offset \in Nat /\ proc'[p].offset \in Nat
      /\ proc[p] \in CallForm
    BY DEF IInv, Typed, CallForm
<1>2. Announced(proc[p]) \in 0 .. Size /\ Announced(proc'[p]) \in 0 .. Size
    BY <1>1, SizeAssumption DEF Announced, SizeAssumption
<1>3. CASE l = "cleanup"
  <2>1. StepsLeft(proc'[p]) = 1
      BY <1>3 DEF StepsLeft
  <2>2. StepsLeft(proc[p]) \in 0 .. Size + 10 /\ StepsLeft(proc[p]) > 1
      BY <1>1, <1>3, StepsLeftBound
  <2>. QED
      BY <2>1, <2>2 DEF Advances
<1>4. CASE l = "reading" /\ proc[p].pc = "reading"
  <2>1. Announced(proc'[p]) < Announced(proc[p])
      BY <1>1, <1>4, SizeAssumption DEF Announced, SizeAssumption
  <2>. QED
      BY <1>2, <1>4, <2>1 DEF Advances, StepsLeft
<1>5. CASE l # "cleanup" /\ ~(l = "reading" /\ proc[p].pc = "reading") /\ proc[p].pc # "idle"
    BY <1>1, <1>2, <1>5, SizeAssumption DEF Advances, StepsLeft, SizeAssumption
<1>. QED
    BY <1>3, <1>4, <1>5 DEF Advances

LEMMA CallAdvances ==
    ASSUME IInv, IInv', NEW p \in Proc,
           Plan(p) \/ Step(p) \/ Interrupt(p) \/ DiskError(p) \/ Crash(p)
    PROVE  Advances(p)
<1>. PC = {"idle", "probeFinal", "probePart", "openPart", "request", "reading",
           "received", "hashed", "linked", "published", "manifest", "cleanup"}
    BY DEF PC
<1>0. proc \in [Proc -> CallForm] /\ proc[p] \in CallForm
    BY DEF IInv, Typed
<1>1. CASE \E r : Return(p, r)
    BY <1>1, AdvancesToEnd
<1>2. CASE Plan(p) /\ ~\E r : Return(p, r)
  <2>1. PICK a \in Artifact : proc' = [proc EXCEPT ![p].pc = "probeFinal", ![p].want = a]
      BY <1>2 DEF Plan
  <2>2. proc'[p].pc = "probeFinal" /\ proc[p].pc = "idle"
      BY <1>0, <1>2, <2>1 DEF CallForm, Plan, At
  <2>. QED
      BY <2>2, AdvancesTo
<1>3. CASE (ProbeFinal(p) \/ ProbePart(p)) /\ ~\E r : Return(p, r)
  <2>1. \/ proc[p].pc = "probeFinal" /\ proc'[p].pc = "probePart"
        \/ proc[p].pc = "probePart" /\ proc'[p].pc = "openPart"
      BY <1>0, <1>3 DEF ProbeFinal, ProbePart, At, Goto, CallForm
  <2>. QED
      BY <2>1, AdvancesTo
<1>4. CASE OpenExisting(p) \/ OpenNew(p)
  <2>1. proc[p].pc = "openPart"
      BY <1>4 DEF OpenExisting, OpenNew, At
  <2>2. CASE \E r : Fail(p, r)
      BY <1>0, <2>1, <2>2, AdvancesTo DEF Fail, CallForm
  <2>3. CASE OpenExisting(p) /\ ~\E r : Fail(p, r)
    <3>1. PICK l \in {"cleanup", "request"} : \E i, n :
              proc' = [proc EXCEPT ![p].pc = l, ![p].fd = i, ![p].offset = n]
        BY <2>3 DEF OpenExisting
    <3>. QED
        BY <1>0, <2>1, <3>1, AdvancesTo DEF CallForm
  <2>4. CASE OpenNew(p) /\ ~\E r : Fail(p, r)
    <3>1. PICK i : proc' = [proc EXCEPT ![p].pc = "request", ![p].fd = i, ![p].created = i]
        BY <2>4 DEF OpenNew
    <3>. QED
        BY <1>0, <2>1, <3>1, AdvancesTo DEF CallForm
  <2>. QED
      BY <1>4, <2>2, <2>3, <2>4
<1>6. CASE Request(p) \/ EndOfBody(p) \/ Interrupt(p)
  <2>1. \/ proc[p].pc = "request" /\ proc'[p].pc \in {"received", "reading", "cleanup"}
        \/ proc[p].pc = "reading" /\ proc'[p].pc \in {"received", "cleanup"}
      BY <1>0, <1>6 DEF Request, EndOfBody, Interrupt, At, Goto, Fail, CallForm
  <2>. QED
      BY <2>1, AdvancesTo
<1>7. CASE ReadChunk(p)
  <2>1. /\ proc[p].pc = "reading" /\ proc[p].offset \in Nat
        /\ proc' = [proc EXCEPT ![p].offset = proc[p].offset + 1]
      BY <1>0, <1>7 DEF ReadChunk, At, CallForm
  <2>2. proc'[p].pc = "reading" /\ proc'[p].offset = proc[p].offset + 1
      BY <1>0, <2>1 DEF CallForm
  <2>3. CASE proc[p].offset < Size
      BY <2>1, <2>2, <2>3, AdvancesTo
  <2>4. CASE proc[p].offset >= Size
      BY <2>1, <2>4 DEF Advances, Overruns
  <2>. QED
      BY <2>1, <2>3, <2>4, SizeAssumption DEF SizeAssumption
<1>8. CASE Hash(p) \/ PublishLink(p) \/ PublishUnlink(p) \/ DiskError(p)
  <2>1. \/ proc[p].pc = "received" /\ proc'[p].pc = "hashed"
        \/ proc[p].pc = "hashed" /\ proc'[p].pc = "linked"
        \/ proc[p].pc = "linked" /\ proc'[p].pc = "published"
        \/ proc[p].pc \notin {"idle", "cleanup", "manifest"} /\ proc'[p].pc = "cleanup"
      BY <1>0, <1>8 DEF Hash, PublishLink, PublishUnlink, DiskError, AfterLink, At, Goto, Fail,
                        CallForm
  <2>. QED
      BY <2>1, AdvancesTo
<1>9. CASE OpenManifest(p) /\ ~\E r : Return(p, r)
  <2>1. proc[p].pc = "published" /\ proc'[p].pc = "manifest"
      BY <1>0, <1>9 DEF OpenManifest, At, Goto, CallForm
  <2>. QED
      BY <2>1, AdvancesTo
<1>. QED
    BY <1>1, <1>2, <1>3, <1>4, <1>6, <1>7, <1>8, <1>9
       DEF Step, CleanUp, WriteManifest, Crash

(* Whatever the server answers, what other processes and operators do to   *)
(* its files meanwhile, and where it is stopped, every step of a call      *)
(* brings it nearer to its end, which is at most Size + 10 such steps away *)
(* since nothing is asked for twice.  The one exception is a server that   *)
(* sends more than the size: what it sends is written, and the call is     *)
(* where it was; only the server can end that.                             *)
THEOREM CallsAreBounded ==
    Spec => /\ [](\A p \in Proc : StepsLeft(proc[p]) \in 0 .. Size + 10)
            /\ [][\A p \in Proc : proc[p].pc # "idle" =>
                     \/ UNCHANGED proc[p]
                     \/ StepsLeft(proc'[p]) < StepsLeft(proc[p])
                     \/ Overruns(p)]_vars
<1>1. ASSUME IInv, IInv', [Next]_vars
      PROVE  \A p \in Proc : UNCHANGED proc[p] \/ Advances(p)
  <2>1. CASE UNCHANGED proc
      BY <2>1
  <2>2. ASSUME NEW p \in Proc,
               Plan(p) \/ Step(p) \/ Interrupt(p) \/ DiskError(p) \/ Crash(p)
        PROVE  \A q \in Proc : UNCHANGED proc[q] \/ Advances(q)
      BY <1>1, <2>2, CallAdvances, StepIsOnes DEF OnlyMoves
  <2>3. \/ UNCHANGED proc
        \/ \E p \in Proc : Plan(p) \/ Step(p) \/ Interrupt(p) \/ DiskError(p) \/ Crash(p)
      BY <1>1 DEF Next, Cleanup, vars
  <2>. QED
      BY <2>1, <2>2, <2>3
<1>2. IInv => \A p \in Proc : StepsLeft(proc[p]) \in 0 .. Size + 10
    BY StepsLeftBound DEF IInv, Typed
<1>3. (\A p \in Proc : UNCHANGED proc[p] \/ Advances(p))
        => \A p \in Proc : proc[p].pc # "idle" =>
               \/ UNCHANGED proc[p]
               \/ StepsLeft(proc'[p]) < StepsLeft(proc[p])
               \/ Overruns(p)
    BY DEF Advances
<1>. QED
    BY <1>1, <1>2, <1>3, Invariance, PTL DEF Spec
=============================================================================
