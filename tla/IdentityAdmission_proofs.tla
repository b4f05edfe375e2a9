---------------------- MODULE IdentityAdmission_proofs -----------------------
(***************************************************************************)
(* What every text of the registry satisfies, for any number of writers,   *)
(* locators and identities and any interleaving, crash and failed write.   *)
(***************************************************************************)
EXTENDS IdentityAdmission, FiniteSetTheorems, TLAPS

(* The length of a text is a number between 1 and that of a full registry. *)
LEMMA LengthBounded ==
    ASSUME NEW b \in Binding
    PROVE  Length(b) \in 0..(Cardinality(Locator) + 1)
<1> DEFINE S == {l \in Locator : b[l] # Unbound}
<1>1. IsFiniteSet(Locator)
    BY LocatorAssumption DEF LocatorAssumption
<1>2. S \subseteq Locator
    OBVIOUS
<1>3. IsFiniteSet(S) /\ Cardinality(S) <= Cardinality(Locator)
    BY <1>1, <1>2, FS_Subset
<1>4. Cardinality(S) \in Nat /\ Cardinality(Locator) \in Nat
    BY <1>1, <1>3, FS_CardinalityType
<1>. QED
    BY <1>3, <1>4 DEF Length

(* Overwriting a content leaves the new text or garbage, within bounds.    *)
LEMMA OverwrittenIsContent ==
    ASSUME NEW c \in Content, NEW b \in Binding
    PROVE  /\ Overwritten(c, b) \in Content
           /\ Overwritten(c, b).text \in {b, Garbage}
BY LengthBounded DEF Overwritten, Content

(* A call that returns leaves the other calls alone and is idle.           *)
LEMMA ReturnIdles ==
    ASSUME call \in [Proc -> Call], NEW p \in Proc, NEW r \in Result,
           Return(p, r)
    PROVE  /\ call' \in [Proc -> Call]
           /\ call'[p].pc = "idle" /\ call'[p].proposal = Nobody
           /\ \A q \in Proc \ {p} : call'[q] = call[q]
<1> DEFINE c == [call[p] EXCEPT !.pc = "idle", !.proposal = Nobody,
                               !.fd = NoInode, !.result = r]
<1>1. Nobody \in Binding
    BY DEF Nobody, Binding
<1>2. call[p] \in Call
    OBVIOUS
<1>3. c \in Call /\ c.pc = "idle" /\ c.proposal = Nobody
    BY <1>1, <1>2 DEF Call, PC
<1>4. call' = [call EXCEPT ![p] = c]
    BY DEF Return
<1> HIDE DEF c
<1>. QED
    BY <1>3, <1>4

THEOREM TypeCorrect == Spec => []TypeOK
<1>1. Init => TypeOK
  <2> SUFFICES ASSUME Init PROVE TypeOK
      OBVIOUS
  <2>1. Cardinality(Locator) \in Nat
      BY LocatorAssumption, FS_CardinalityType DEF LocatorAssumption
  <2>2. Truncated \in Content
      BY <2>1 DEF Truncated, Content
  <2>3. call \in [Proc -> Call] /\ \A p \in Proc : call[p].pc = "idle"
      BY DEF Init
  <2>4. file \in [Inode -> Content]
      BY <2>2 DEF Init
  <2>5. faults \in 0..MaxFaults
      BY BoundAssumption DEF Init, BoundAssumption
  <2>. QED
      BY <2>3, <2>4, <2>5 DEF Init, TypeOK
<1>2. TypeOK /\ [Next]_vars => TypeOK'
  <2> SUFFICES ASSUME TypeOK, [Next]_vars PROVE TypeOK'
      OBVIOUS
  <2> USE DEF TypeOK
  <2>0. Truncated \in Content /\ Nobody \in Binding
      BY LocatorAssumption, FS_CardinalityType
      DEF Truncated, Content, Nobody, Binding, LocatorAssumption
  <2>1. CASE UNCHANGED vars
      BY <2>1 DEF vars
  <2>2. ASSUME NEW p \in Proc, NEW l \in Locator, NEW m \in ModelId,
               Register(p, l, m)
        PROVE TypeOK'
    <3>1. Answer(Load, l, m) \in Result
        BY DEF Answer, Result
    <3>2. Answer(Load, l, m) = "none" => Load \in Binding
        BY <2>0 DEF Answer, Load, Content
    <3>3. Answer(Load, l, m) = "none" => [Load EXCEPT ![l] = m] \in Binding
        BY <3>2 DEF Binding
    <3>4. call' \in [Proc -> Call]
        BY <2>0, <2>2, <3>1, <3>3 DEF Register, Call, PC
    <3>. QED
        BY <2>2, <3>4 DEF Register
  <2>3. ASSUME NEW p \in Proc, OpenTemporary(p) PROVE TypeOK'
    <3>1. PICK i \in Inode :
             /\ temporary' = i
             /\ file' = [file EXCEPT ![i] = Truncated]
             /\ call' = [call EXCEPT ![p].pc = "write", ![p].fd = i]
        BY <2>3 DEF OpenTemporary
    <3>2. file' \in [Inode -> Content]
        BY <2>0, <3>1
    <3>3. call' \in [Proc -> Call]
      <4>1. [call[p] EXCEPT !.pc = "write", !.fd = i] \in Call
          BY DEF Call, PC
      <4>2. call' = [call EXCEPT ![p] = [@ EXCEPT !.pc = "write", !.fd = i]]
          BY <3>1
      <4>. QED
          BY <4>1, <4>2
    <3>4. \A q \in Proc : call'[q].pc = "write" => call'[q].fd \in Inode
        BY <3>1 DEF Call
    <3>. QED
        BY <2>3, <3>1, <3>2, <3>3, <3>4 DEF OpenTemporary
  <2>4. ASSUME NEW p \in Proc, WriteTemporary(p) PROVE TypeOK'
    <3>1. call[p].fd \in Inode /\ call[p].proposal \in Binding
        BY <2>4 DEF WriteTemporary, Call
    <3>2. Overwritten(file[call[p].fd], call[p].proposal) \in Content
        BY <3>1, OverwrittenIsContent
    <3>3. [call[p] EXCEPT !.pc = "replace", !.fd = NoInode] \in Call
        BY DEF Call, PC
    <3>4. call' = [call EXCEPT ![p] = [@ EXCEPT !.pc = "replace", !.fd = NoInode]]
        BY <2>4 DEF WriteTemporary
    <3>5. call' \in [Proc -> Call] /\ call'[p].pc = "replace"
        BY <3>3, <3>4 DEF Call
    <3>6. \A q \in Proc \ {p} : call'[q] = call[q]
        BY <3>4
    <3>7. file' \in [Inode -> Content]
        BY <2>4, <3>1, <3>2 DEF WriteTemporary
    <3>. QED
        BY <2>4, <3>5, <3>6, <3>7 DEF WriteTemporary
  <2>5. ASSUME NEW p \in Proc, WriteFails(p) PROVE TypeOK'
    <3>1. faults' \in 0..MaxFaults
        BY <2>5, BoundAssumption DEF WriteFails, Fault, BoundAssumption
    <3>2. file' \in [Inode -> Content]
        BY <2>5 DEF WriteFails, Content
    <3>. QED
        BY <2>5, <3>1, <3>2, ReturnIdles DEF WriteFails, Result
  <2>6. ASSUME NEW p \in Proc, Replace(p) PROVE TypeOK'
      BY <2>6, ReturnIdles DEF Replace, Result
  <2>7. ASSUME NEW p \in Proc, Crash(p) PROVE TypeOK'
    <3>1. faults' \in 0..MaxFaults
        BY <2>7, BoundAssumption DEF Crash, Fault, BoundAssumption
    <3>. QED
        BY <2>7, <3>1, ReturnIdles DEF Crash, Result
  <2>8. ASSUME NEW p \in Proc, SystemCallFails(p) PROVE TypeOK'
    <3>1. faults' \in 0..MaxFaults
        BY <2>8, BoundAssumption DEF SystemCallFails, Fault, BoundAssumption
    <3>. QED
        BY <2>8, <3>1, ReturnIdles DEF SystemCallFails, Result
  <2>. QED
      BY <2>1, <2>2, <2>3, <2>4, <2>5, <2>6, <2>7, <2>8 DEF Next
<1>. QED
    BY <1>1, <1>2, PTL DEF Spec

-----------------------------------------------------------------------------
(* The file under the registry's name may have been written by any writer  *)
(* that had the .tmp open, so the invariant is about every text there is:  *)
(* in the inodes and in the proposals on their way to one.                 *)
Sound(text) == text = Garbage \/ (Unshared(text) /\ RespectsCurated(text))

EveryTextSound ==
    /\ \A i \in Inode : Sound(file[i].text)
    /\ \A p \in Proc : Unshared(call[p].proposal) /\ RespectsCurated(call[p].proposal)

LEMMA NobodySound == Unshared(Nobody) /\ RespectsCurated(Nobody)
BY DEF Unshared, RespectsCurated, Nobody

(* A proposal that register lets through shares no identity and            *)
(* contradicts no curated one.                                             *)
LEMMA ProposalSound ==
    ASSUME NEW known \in Binding, NEW l \in Locator, NEW m \in ModelId,
           Unshared(known), RespectsCurated(known), ~Contradicts(known, l, m)
    PROVE  /\ Unshared([known EXCEPT ![l] = m])
           /\ RespectsCurated([known EXCEPT ![l] = m])
BY UnboundAssumption
DEF Binding, Unshared, RespectsCurated, Contradicts, UnboundAssumption

LEMMA EveryTextSoundInductive ==
    TypeOK /\ EveryTextSound /\ [Next]_vars => EveryTextSound'
<1> SUFFICES ASSUME TypeOK, EveryTextSound, [Next]_vars PROVE EveryTextSound'
    OBVIOUS
<1> USE DEF EveryTextSound
<1>1. CASE UNCHANGED vars
    BY <1>1 DEF vars
<1>2. ASSUME NEW p \in Proc, NEW l \in Locator, NEW m \in ModelId,
             Register(p, l, m)
      PROVE EveryTextSound'
  <2>1. CASE Answer(Load, l, m) = "none"
    <3>1. Load \in Binding /\ Load # Garbage
        BY <2>1 DEF Answer, Load, TypeOK, Content, Nobody, Binding
    <3>2. Unshared(Load) /\ RespectsCurated(Load)
        BY <3>1, NobodySound DEF Load, Sound, TypeOK
    <3>3. ~Contradicts(Load, l, m)
        BY <2>1, <3>1 DEF Answer
    <3>4. /\ Unshared([Load EXCEPT ![l] = m])
          /\ RespectsCurated([Load EXCEPT ![l] = m])
        BY <3>1, <3>2, <3>3, ProposalSound
    <3>5. call'[p].proposal = [Load EXCEPT ![l] = m]
        BY <1>2, <2>1 DEF Register, TypeOK
    <3>6. \A q \in Proc \ {p} : call'[q] = call[q]
        BY <1>2 DEF Register, TypeOK
    <3>. QED
        BY <1>2, <3>4, <3>5, <3>6 DEF Register
  <2>2. CASE Answer(Load, l, m) # "none"
    <3>1. call'[p].proposal = Nobody
        BY <1>2, <2>2 DEF Register, TypeOK
    <3>2. \A q \in Proc \ {p} : call'[q] = call[q]
        BY <1>2 DEF Register, TypeOK
    <3>. QED
        BY <1>2, <3>1, <3>2, NobodySound DEF Register
  <2>. QED
      BY <2>1, <2>2
<1>3. ASSUME NEW p \in Proc, OpenTemporary(p) PROVE EveryTextSound'
    BY <1>3 DEF OpenTemporary, TypeOK, Call, Sound, Truncated
<1>4. ASSUME NEW p \in Proc, WriteTemporary(p) PROVE EveryTextSound'
  <2> DEFINE i == call[p].fd
  <2>1. i \in Inode /\ call[p].proposal \in Binding
      BY <1>4 DEF WriteTemporary, TypeOK, Call
  <2>2. Overwritten(file[i], call[p].proposal).text
            \in {call[p].proposal, Garbage}
      BY <2>1, OverwrittenIsContent DEF TypeOK
  <2>3. file' = [file EXCEPT ![i] = Overwritten(file[i], call[p].proposal)]
      BY <1>4 DEF WriteTemporary
  <2>4. \A j \in Inode : Sound(file'[j].text)
      BY <2>1, <2>2, <2>3 DEF TypeOK, Sound
  <2>5. \A q \in Proc : call'[q].proposal = call[q].proposal
      BY <1>4 DEF WriteTemporary, TypeOK, Call
  <2>. QED
      BY <2>4, <2>5
<1>5. ASSUME NEW p \in Proc, Return(p, "ok") \/ Return(p, "failed") \/ Return(p, "none"),
             \A i \in Inode : file'[i].text \in {file[i].text, Garbage}
      PROVE EveryTextSound'
  <2>1. \A q \in Proc : call'[q].proposal \in {call[q].proposal, Nobody}
      BY <1>5, ReturnIdles DEF TypeOK, Result
  <2>2. \A i \in Inode : Sound(file'[i].text)
      BY <1>5 DEF Sound
  <2>. QED
      BY <2>1, <2>2, NobodySound
<1>6. ASSUME NEW p \in Proc, \/ WriteFails(p) \/ Replace(p)
                             \/ SystemCallFails(p) \/ Crash(p)
      PROVE EveryTextSound'
  <2>1. CASE WriteFails(p)
    <3>1. \A i \in Inode : file'[i].text \in {file[i].text, Garbage}
        BY <2>1 DEF WriteFails, TypeOK, Content
    <3>. QED
        BY <1>5, <2>1, <3>1 DEF WriteFails
  <2>2. CASE Replace(p) \/ SystemCallFails(p) \/ Crash(p)
    <3>1. \A i \in Inode : file'[i].text \in {file[i].text, Garbage}
        BY <2>2 DEF Replace, SystemCallFails, Crash
    <3>. QED
        BY <1>5, <2>2, <3>1 DEF Replace, SystemCallFails, Crash
  <2>. QED
      BY <1>6, <2>1, <2>2
<1>. QED
    BY <1>1, <1>2, <1>3, <1>4, <1>6 DEF Next

(* Two repositories never collapse onto one logical model, whoever wrote   *)
(* the file being read.                                                    *)
THEOREM IdentitiesUnique == Spec => []UniqueIdentity
<1>1. Init => EveryTextSound
    BY NobodySound DEF Init, EveryTextSound, Sound, Truncated
<1>2. TypeOK /\ EveryTextSound => UniqueIdentity
    BY DEF TypeOK, EveryTextSound, Sound, UniqueIdentity
<1>. QED
    BY <1>1, <1>2, TypeCorrect, EveryTextSoundInductive, PTL DEF Spec

(* A locator the curated table knows is never bound to another identity    *)
(* than its curated one.  That another locator is not bound to it either   *)
(* is what CuratedAuthority says and the code does not keep.               *)
THEOREM CuratedLocatorsKept ==
    Spec => [](registry # NoInode /\ file[registry].text # Garbage
                 => RespectsCurated(file[registry].text))
<1>1. Init => EveryTextSound
    BY NobodySound DEF Init, EveryTextSound, Sound, Truncated
<1>2. TypeOK /\ EveryTextSound =>
          (registry # NoInode /\ file[registry].text # Garbage
             => RespectsCurated(file[registry].text))
    BY DEF TypeOK, EveryTextSound, Sound
<1>. QED
    BY <1>1, <1>2, TypeCorrect, EveryTextSoundInductive, PTL DEF Spec

-----------------------------------------------------------------------------
(* While registrations do not overlap: one call is on its way at most, the *)
(* temporary file is its own, and its proposal adds one binding to what    *)
(* the registry still holds.                                               *)
Ongoing(p) == call[p].pc # "idle"

Proposed(p) == [Load EXCEPT ![call[p].locator] = call[p].model]

OneAtATime ==
    /\ Load # Garbage
    /\ registry = temporary => registry = NoInode
    /\ \A p, q \in Proc : Ongoing(p) /\ Ongoing(q) => p = q
    /\ \A p \in Proc : Ongoing(p) =>
         /\ Answer(Load, call[p].locator, call[p].model) = "none"
         /\ call[p].proposal = Proposed(p)
         /\ call[p].result = "none"
    /\ \A p \in Proc : call[p].pc = "write" =>
         temporary = call[p].fd /\ file[temporary] = Truncated
    /\ \A p \in Proc : call[p].pc = "replace" =>
         temporary \in Inode /\ file[temporary].text = call[p].proposal
    /\ \A p \in Proc : call[p].result = "ok" => Load[call[p].locator] = call[p].model

Serial == ~overlapped => OneAtATime

LEMMA LoadIsContent == ASSUME TypeOK PROVE Load \in Binding \cup {Garbage}
BY DEF TypeOK, Load, Content, Nobody, Binding

LEMMA CallsAre ==
    ASSUME TypeOK, NEW p \in Proc
    PROVE  /\ call[p].locator \in Locator /\ call[p].model \in ModelId
           /\ call[p].proposal \in Binding
BY DEF TypeOK, Call

(* A proposal that was let through binds a locator that was not bound.     *)
LEMMA ProposalAdmits ==
    ASSUME TypeOK, OneAtATime, NEW p \in Proc, Ongoing(p)
    PROVE  LET l == call[p].locator
               m == call[p].model IN
           /\ Load \in Binding
           /\ Load[l] = Unbound
           /\ \A o \in Locator : Load[o] # m
           /\ Curated[l] \in {Unbound, m}
           /\ Proposed(p) \in Binding
<1>1. /\ Load \in Binding
      /\ Answer(Load, call[p].locator, call[p].model) = "none"
    BY LoadIsContent DEF OneAtATime
<1>2. Load # Garbage
    BY DEF OneAtATime
<1>3. /\ Load[call[p].locator] # call[p].model
      /\ ~Contradicts(Load, call[p].locator, call[p].model)
    BY <1>1, <1>2 DEF Answer
<1>. QED
    BY <1>1, <1>3, CallsAre DEF Contradicts, Proposed, Binding

LEMMA ReturnAnswers ==
    ASSUME TypeOK, NEW p \in Proc, NEW r \in Result, Return(p, r)
    PROVE  /\ call'[p].pc = "idle" /\ call'[p].result = r
           /\ call'[p].locator = call[p].locator /\ call'[p].model = call[p].model
           /\ \A q \in Proc \ {p} : call'[q] = call[q]
<1>1. call'[p] = [call[p] EXCEPT !.pc = "idle", !.proposal = Nobody,
                                 !.fd = NoInode, !.result = r]
    BY DEF TypeOK, Return
<1>. QED
    BY <1>1 DEF TypeOK, Call, Return

(* The end of the one call, with its binding in the registry or without.   *)
LEMMA EndKeepsSerial ==
    ASSUME TypeOK, OneAtATime, NEW p \in Proc, Ongoing(p),
           NEW r \in {"ok", "failed", "none"}, Return(p, r),
           Load' \in {Load, Proposed(p)}, r = "ok" => Load' = Proposed(p),
           registry' = temporary' => registry' = NoInode
    PROVE  OneAtATime'
<1>1. /\ call'[p].pc = "idle" /\ call'[p].result = r
      /\ call'[p].locator = call[p].locator /\ call'[p].model = call[p].model
      /\ \A q \in Proc \ {p} : call'[q] = call[q]
    BY ReturnAnswers DEF Result
<1>2. \A q \in Proc : call'[q].pc = "idle"
    BY <1>1 DEF OneAtATime, Ongoing
<1>3. /\ Load \in Binding /\ Load[call[p].locator] = Unbound /\ Proposed(p) \in Binding
    BY ProposalAdmits
<1>4. Load' # Garbage
    BY <1>3, GarbageAssumption DEF GarbageAssumption
<1>5. ASSUME NEW q \in Proc, call'[q].result = "ok"
      PROVE  Load'[call'[q].locator] = call'[q].model
    <2>1. CASE q = p
        BY <1>1, <1>3, <1>5, <2>1, CallsAre DEF Proposed, Binding
    <2>2. CASE q # p
      <3>1. call'[q] = call[q] /\ Load[call[q].locator] = call[q].model
          BY <1>1, <1>5, <2>2 DEF OneAtATime
      <3>2. call[q].locator # call[p].locator
          BY <1>3, <3>1, CallsAre, UnboundAssumption DEF UnboundAssumption
      <3>. QED
          BY <1>3, <3>1, <3>2, CallsAre DEF Proposed, Binding
    <2>. QED
        BY <2>1, <2>2
<1>. QED
    BY <1>2, <1>4, <1>5 DEF OneAtATime, Ongoing

(* Every step keeps it, and changes the registry as the abstract map may   *)
(* change.                                                                 *)
Maps == Admitted!Next \/ UNCHANGED Load

LEMMA RegisterSerial ==
    ASSUME TypeOK, Serial, NEW p \in Proc, NEW l \in Locator, NEW m \in ModelId,
           Register(p, l, m), ~overlapped'
    PROVE  OneAtATime' /\ Maps
<1>1. OneAtATime /\ \A q \in Proc : ~Ongoing(q)
    BY DEF Serial, Register, Ongoing
<1>2. /\ Load' = Load /\ UNCHANGED <<registry, temporary, file>>
      /\ \A q \in Proc \ {p} : call'[q] = call[q]
    BY DEF Register, Load, TypeOK
<1>3. LET answer == Answer(Load, l, m) IN
      /\ call'[p].pc = IF answer = "none" THEN "open" ELSE "idle"
      /\ call'[p].locator = l /\ call'[p].model = m /\ call'[p].result = answer
      /\ answer = "none" => call'[p].proposal = [Load EXCEPT ![l] = m]
    BY DEF Register, TypeOK
<1>4. Answer(Load, l, m) = "ok" => Load[l] = m
    BY DEF Answer
<1>. QED
    BY <1>1, <1>2, <1>3, <1>4 DEF OneAtATime, Ongoing, Proposed, Maps

LEMMA OpenSerial ==
    ASSUME TypeOK, OneAtATime, NEW p \in Proc, OpenTemporary(p)
    PROVE  OneAtATime' /\ Maps
<1>1. PICK i \in Inode :
          /\ i = temporary \/ i \in Free
          /\ temporary' = i
          /\ file' = [file EXCEPT ![i] = Truncated]
          /\ call' = [call EXCEPT ![p].pc = "write", ![p].fd = i]
    BY DEF OpenTemporary
<1>2. i # registry /\ UNCHANGED registry /\ Ongoing(p) /\ call[p].pc = "open"
    BY <1>1, NoInodeAssumption
       DEF OpenTemporary, OneAtATime, Free, NoInodeAssumption, Ongoing
<1>3. Load' = Load
    BY <1>1, <1>2 DEF Load, TypeOK
<1>4. /\ call'[p].pc = "write" /\ call'[p].fd = i
      /\ call'[p].locator = call[p].locator /\ call'[p].model = call[p].model
      /\ call'[p].result = call[p].result /\ call'[p].proposal = call[p].proposal
      /\ \A q \in Proc \ {p} : call'[q] = call[q]
    BY <1>1 DEF TypeOK, Call
<1>5. \A q \in Proc \ {p} : ~Ongoing(q)
    BY <1>2 DEF OneAtATime
<1>6. file'[i] = Truncated
    BY <1>1 DEF TypeOK
<1>7. /\ Answer(Load, call[p].locator, call[p].model) = "none"
      /\ call[p].proposal = Proposed(p) /\ call[p].result = "none"
    BY <1>2 DEF OneAtATime
<1>8. \A q \in Proc : Ongoing(q)' =>
          /\ q = p
          /\ Answer(Load, call[q].locator, call[q].model)' = "none"
          /\ (call[q].proposal = Proposed(q))' /\ call'[q].result = "none"
  <2>1. Answer(Load', call'[p].locator, call'[p].model) = "none"
      BY <1>3, <1>4, <1>7
  <2>2. call'[p].proposal = Proposed(p)' /\ call'[p].result = "none"
      BY <1>3, <1>4, <1>7 DEF Proposed
  <2>3. ASSUME NEW q \in Proc, Ongoing(q)' PROVE q = p
      BY <1>4, <1>5, <2>3 DEF Ongoing
  <2>. QED
      BY <2>1, <2>2, <2>3
<1>9. \A q \in Proc : call'[q].result = "ok" => Load'[call'[q].locator] = call'[q].model
    BY <1>3, <1>4 DEF OneAtATime
<1>10. \A q \in Proc : q # p => call'[q].pc = "idle"
    BY <1>4, <1>5 DEF Ongoing
<1>. QED
    BY <1>1, <1>2, <1>3, <1>4, <1>6, <1>8, <1>9, <1>10 DEF OneAtATime, Maps

LEMMA WriteSerial ==
    ASSUME TypeOK, OneAtATime, NEW p \in Proc, WriteTemporary(p)
    PROVE  OneAtATime' /\ Maps
<1>1. /\ call[p].pc = "write" /\ UNCHANGED <<registry, temporary>>
      /\ temporary = call[p].fd /\ temporary \in Inode /\ file[temporary] = Truncated
      /\ Ongoing(p)
    BY DEF WriteTemporary, OneAtATime, TypeOK, Ongoing
<1>2. temporary # registry
    BY <1>1, NoInodeAssumption DEF OneAtATime, NoInodeAssumption
<1>3. file' = [file EXCEPT ![temporary] = Overwritten(Truncated, call[p].proposal)]
    BY <1>1 DEF WriteTemporary
<1>4. Overwritten(Truncated, call[p].proposal).text = call[p].proposal
    BY LengthBounded, CallsAre DEF Overwritten, Truncated
<1>5. file'[temporary].text = call[p].proposal /\ Load' = Load
    BY <1>1, <1>2, <1>3, <1>4 DEF Load, TypeOK
<1>6. /\ call'[p].pc = "replace"
      /\ call'[p].locator = call[p].locator /\ call'[p].model = call[p].model
      /\ call'[p].result = call[p].result /\ call'[p].proposal = call[p].proposal
      /\ \A q \in Proc \ {p} : call'[q] = call[q]
    BY DEF WriteTemporary, TypeOK, Call
<1>7. \A q \in Proc \ {p} : ~Ongoing(q)
    BY <1>1 DEF OneAtATime
<1>. QED
    BY <1>1, <1>5, <1>6, <1>7 DEF OneAtATime, Ongoing, Proposed, Maps

(* The proposal under the registry's name is one step of the map.          *)
LEMMA AdmitsProposal ==
    ASSUME TypeOK, OneAtATime, NEW p \in Proc, Ongoing(p), Load' = Proposed(p)
    PROVE  Admitted!Next
<1>1. Admitted!Admit(call[p].locator, call[p].model)
    BY ProposalAdmits, CallsAre DEF Proposed, Admitted!Admit
<1>. QED
    BY <1>1, CallsAre DEF Admitted!Next

LEMMA ReplacedIsProposed ==
    ASSUME TypeOK, OneAtATime, NEW p \in Proc, call[p].pc = "replace",
           registry' = temporary, UNCHANGED file
    PROVE  Load' = Proposed(p)
<1>1. temporary \in Inode /\ file[temporary].text = Proposed(p)
    BY DEF OneAtATime, Ongoing
<1>. QED
    BY <1>1, NoInodeAssumption DEF Load, NoInodeAssumption

LEMMA EndSerial ==
    ASSUME TypeOK, OneAtATime, NEW p \in Proc,
           WriteFails(p) \/ Replace(p) \/ SystemCallFails(p) \/ Crash(p)
    PROVE  OneAtATime' /\ Maps
<1>1. Ongoing(p)
    BY DEF WriteFails, Replace, SystemCallFails, Crash, Ongoing
<1>2. CASE WriteFails(p)
  <2>1. /\ call[p].fd = temporary /\ temporary \in Inode
        /\ UNCHANGED registry /\ temporary' = NoInode /\ Return(p, "failed")
      BY <1>2 DEF WriteFails, OneAtATime, TypeOK
  <2>2. temporary # registry
      BY <2>1, NoInodeAssumption DEF OneAtATime, NoInodeAssumption
  <2>3. Load' = Load
      BY <1>2, <2>1, <2>2 DEF WriteFails, Load, TypeOK
  <2>. QED
      BY <1>1, <2>1, <2>3, EndKeepsSerial DEF Maps
<1>3. CASE Replace(p)
  <2>1. temporary # NoInode /\ call[p].pc = "replace"
      BY <1>3, NoInodeAssumption DEF Replace, OneAtATime, NoInodeAssumption
  <2>2. /\ Return(p, "ok") /\ registry' = temporary /\ temporary' = NoInode
        /\ UNCHANGED file
      BY <1>3, <2>1 DEF Replace
  <2>3. Load' = Proposed(p)
      BY <2>1, <2>2, ReplacedIsProposed
  <2>. QED
      BY <1>1, <2>1, <2>2, <2>3, EndKeepsSerial, AdmitsProposal DEF Maps
<1>4. CASE SystemCallFails(p)
  <2>1. Return(p, "failed") /\ UNCHANGED file
      BY <1>4 DEF SystemCallFails
  <2>2. CASE UNCHANGED <<registry, temporary>>
    <3>1. Load' = Load
        BY <2>1, <2>2 DEF Load
    <3>. QED
        BY <1>1, <2>1, <2>2, <3>1, EndKeepsSerial DEF Maps, OneAtATime
  <2>3. CASE /\ call[p].pc = "replace" /\ temporary # NoInode
             /\ registry' = temporary /\ temporary' = NoInode
    <3>1. Load' = Proposed(p)
        BY <2>1, <2>3, ReplacedIsProposed
    <3>. QED
        BY <1>1, <2>1, <2>3, <3>1, EndKeepsSerial, AdmitsProposal DEF Maps
  <2>. QED
      BY <1>4, <2>2, <2>3 DEF SystemCallFails
<1>5. CASE Crash(p)
  <2>1. Return(p, "none") /\ UNCHANGED <<registry, temporary, file>>
      BY <1>5 DEF Crash
  <2>2. Load' = Load
      BY <2>1 DEF Load
  <2>. QED
      BY <1>1, <2>1, <2>2, EndKeepsSerial DEF Maps, OneAtATime
<1>. QED
    BY <1>2, <1>3, <1>4, <1>5

LEMMA SerialStep ==
    ASSUME TypeOK, Serial, [Next]_vars
    PROVE  Serial' /\ (overlapped' \/ Maps)
<1>1. CASE UNCHANGED vars
    BY <1>1 DEF vars, Serial, OneAtATime, Ongoing, Proposed, Load, Maps
<1>2. ASSUME Next, ~overlapped' PROVE OneAtATime' /\ Maps
  <2>1. PICK p \in Proc :
            \/ \E l \in Locator, m \in ModelId : Register(p, l, m)
            \/ OpenTemporary(p) \/ WriteTemporary(p) \/ WriteFails(p)
            \/ Replace(p) \/ SystemCallFails(p) \/ Crash(p)
      BY <1>2 DEF Next
  <2>2. ~overlapped
      BY <1>2, <2>1 DEF Register, OpenTemporary, WriteTemporary, WriteFails, Replace,
                        SystemCallFails, Crash
  <2>3. OneAtATime
      BY <2>2 DEF Serial
  <2>. QED
      BY <1>2, <2>1, <2>3, RegisterSerial, OpenSerial, WriteSerial, EndSerial
<1>. QED
    BY <1>1, <1>2 DEF Serial

LEMMA InitiallySerial == Init => OneAtATime /\ Admitted!Init
<1> SUFFICES ASSUME Init PROVE OneAtATime /\ Admitted!Init
    OBVIOUS
<1>1. \A p \in Proc : call[p].pc = "idle" /\ call[p].result = "none"
    BY DEF Init
<1>2. Load = Nobody /\ Nobody \in Binding
    BY DEF Init, Load, Nobody, Binding
<1>3. Load # Garbage
    BY <1>2, GarbageAssumption DEF GarbageAssumption
<1>4. OneAtATime
    BY <1>1, <1>3 DEF Init, OneAtATime, Ongoing
<1>. QED
    BY <1>2, <1>4 DEF Admitted!Init, Nobody

LEMMA AlwaysSerial == Spec => [](TypeOK /\ Serial)
<1>1. Init => Serial
    BY InitiallySerial DEF Serial
<1>. QED
    BY <1>1, TypeCorrect, SerialStep, PTL DEF Spec

(* A registration that returned while no two overlapped is in the          *)
(* registry, and stays, whatever failed or crashed since.                  *)
THEOREM AcknowledgedBound == Spec => []AcknowledgedIsBound
<1>1. Serial => AcknowledgedIsBound
    BY DEF Serial, OneAtATime, AcknowledgedIsBound
<1>. QED
    BY <1>1, AlwaysSerial, PTL

(* Any number of writers that take turns implement the map that only       *)
(* grows, by unshared and uncontradicted identities, at the moment of the  *)
(* rename.                                                                 *)
THEOREM ImplementsAdmitted == Spec => SerialAdmitted
<1>1. Init => Admitted!Init
    BY InitiallySerial
<1>2. TypeOK /\ Serial /\ [Next]_vars => [overlapped' \/ Admitted!Next \/ UNCHANGED Load]_vars
    BY SerialStep DEF Maps
<1>. QED
    BY <1>1, <1>2, AlwaysSerial, PTL DEF Spec, SerialAdmitted
=============================================================================
