------------------------- MODULE IdentityAdmission --------------------------
(***************************************************************************)
(* identity_admission: the file identity-admission.json that binds an      *)
(* external locator to a logical model identity, and the processes that    *)
(* register bindings in it.  A writer reads the whole file, checks its     *)
(* proposal, writes the whole new text to `<file>.tmp` (one fixed name,    *)
(* opened with O_TRUNC) and renames it over the file.  There is no lock.   *)
(***************************************************************************)
EXTENDS Naturals, FiniteSets

CONSTANTS Proc,
          Locator,   \* (source, repository) pairs
          ModelId,   \* logical model identities
          Unbound,   \* "no identity": None
          Garbage,   \* a text that is not a valid registry
          Curated,   \* the curated identity of a locator, or Unbound
          Inode, NoInode,
          MaxFaults  \* write failures and crashes in a behaviour

ASSUME LocatorAssumption == IsFiniteSet(Locator)
ASSUME UnboundAssumption == Unbound \notin ModelId
ASSUME BoundAssumption == MaxFaults \in Nat
ASSUME CuratedAssumption ==
    /\ Curated \in [Locator -> ModelId \cup {Unbound}]
    /\ \A a, b \in Locator :
         Curated[a] = Curated[b] => a = b \/ Curated[a] = Unbound
ASSUME NoInodeAssumption == NoInode \notin Inode

VARIABLES registry,  \* the inode identity-admission.json names, or NoInode
          temporary, \* the inode identity-admission.json.tmp names
          file,      \* inode -> its content
          call,      \* the register call each process is in, or was last in
          overlapped, \* history: two calls have been in progress at once
          faults

vars == <<registry, temporary, file, call, overlapped, faults>>

Binding == [Locator -> ModelId \cup {Unbound}]

ASSUME GarbageAssumption == Garbage \notin Binding

(* A content is the registry it parses to and its length.  Identities and  *)
(* locators are taken to be of equal length, so the length of a text is    *)
(* the number of its bindings, and one for the braces.                     *)
Content == [text : Binding \cup {Garbage}, length : 0..(Cardinality(Locator) + 1)]

Nobody == [l \in Locator |-> Unbound]

Length(binding) == 1 + Cardinality({l \in Locator : binding[l] # Unbound})

Truncated == [text |-> Garbage, length |-> 0]

OverwrittenAppending(content, binding) ==  \* mutant: O_APPEND for O_TRUNC
    IF content.length > 0
    THEN [text |-> Garbage, length |-> content.length + Length(binding)]
    ELSE [text |-> binding, length |-> Length(binding)]

(* The text of a binding written from offset 0 over a content: when the    *)
(* content is longer, its tail remains.                                    *)
Overwritten(content, binding) ==
    IF content.length > Length(binding)
    THEN [content EXCEPT !.text = Garbage]
    ELSE [text |-> binding, length |-> Length(binding)]

PC == {"idle", "open", "write", "replace"}

Result == {"none", "ok", "rejected", "corrupt", "failed"}

Call == [pc : PC, locator : Locator, model : ModelId,
         proposal : Binding, fd : Inode \cup {NoInode}, result : Result]

TypeOK ==
    /\ registry \in Inode \cup {NoInode}
    /\ temporary \in Inode \cup {NoInode}
    /\ file \in [Inode -> Content]
    /\ call \in [Proc -> Call]
    /\ \A p \in Proc : call[p].pc = "write" => call[p].fd \in Inode
    /\ overlapped \in BOOLEAN
    /\ faults \in 0..MaxFaults

Init ==
    /\ registry = NoInode
    /\ temporary = NoInode
    /\ file = [i \in Inode |-> Truncated]
    /\ call \in [Proc -> {c \in Call : c.pc = "idle" /\ c.result = "none"
                                       /\ c.proposal = Nobody /\ c.fd = NoInode}]
    /\ overlapped = FALSE
    /\ faults = 0

(* _load: an absent file is an empty registry; one that does not parse is  *)
(* an error, never an empty registry.                                      *)
Load == IF registry = NoInode THEN Nobody ELSE file[registry].text

Fault == faults < MaxFaults /\ faults' = faults + 1

Return(p, result) ==
    call' = [call EXCEPT ![p] = [@ EXCEPT !.pc = "idle", !.proposal = Nobody,
                                          !.fd = NoInode, !.result = result]]

-----------------------------------------------------------------------------
(* register up to _write: load, then the three refusals.                   *)
ContradictsNotShared(known, l, m) ==  \* mutant: no forward scan
    \/ known[l] \notin {Unbound, m}
    \/ Curated[l] \notin {Unbound, m}

Contradicts(known, l, m) ==
    \/ known[l] \notin {Unbound, m}
    \/ \E o \in Locator \ {l} : known[o] = m
    \/ Curated[l] \notin {Unbound, m}

Answer(known, l, m) ==
    IF known = Garbage THEN "corrupt"
    ELSE IF known[l] = m THEN "ok"
    ELSE IF Contradicts(known, l, m) THEN "rejected" ELSE "none"

Register(p, l, m) ==
    /\ call[p].pc = "idle"
    /\ LET answer == Answer(Load, l, m) IN
         call' = [call EXCEPT ![p] =
           [pc |-> IF answer = "none" THEN "open" ELSE "idle",
            locator |-> l, model |-> m, fd |-> NoInode, result |-> answer,
            proposal |-> IF answer = "none" THEN [Load EXCEPT ![l] = m]
                                            ELSE Nobody]]
    /\ overlapped' = (overlapped \/ \E q \in Proc \ {p} : call[q].pc # "idle")
    /\ UNCHANGED <<registry, temporary, file, faults>>

Opened == {call[q].fd : q \in Proc}

Free == Inode \ (Opened \cup {registry, temporary})

(* os.open(temporary, O_WRONLY | O_CREAT | O_TRUNC): takes over the .tmp   *)
(* of another writer, or of one that crashed.                              *)
OpenTemporary(p) ==
    /\ call[p].pc = "open"
    /\ \E i \in Inode :
         /\ i = temporary \/ (temporary = NoInode /\ i \in Free)
         /\ temporary' = i
         /\ file' = [file EXCEPT ![i] = Truncated]
         /\ call' = [call EXCEPT ![p].pc = "write", ![p].fd = i]
    /\ UNCHANGED <<registry, overlapped, faults>>

(* handle.write, flush, fsync, close.                                      *)
WriteTemporary(p) ==
    /\ call[p].pc = "write"
    /\ file' = [file EXCEPT ![call[p].fd] = Overwritten(@, call[p].proposal)]
    /\ call' = [call EXCEPT ![p].pc = "replace", ![p].fd = NoInode]
    /\ UNCHANGED <<registry, temporary, overlapped, faults>>

WriteFailsQuietly(p) ==  \* mutant: the error is not raised again
    /\ call[p].pc = "write"
    /\ Fault
    /\ temporary' = NoInode
    /\ Return(p, "ok")
    /\ UNCHANGED <<registry, file, overlapped>>

(* A write or fsync error, with part of the text written or none: the .tmp *)
(* is unlinked by name and nothing else.                                   *)
WriteFails(p) ==
    /\ call[p].pc = "write"
    /\ Fault
    /\ \/ UNCHANGED file
       \/ file' = [file EXCEPT ![call[p].fd] = [@ EXCEPT !.text = Garbage]]
    /\ temporary' = NoInode
    /\ Return(p, "failed")
    /\ UNCHANGED <<registry, overlapped>>

ReplaceOnError(p) ==  \* mutant: a failed write is renamed into place too
    /\ temporary # NoInode
    /\ registry' = temporary /\ temporary' = NoInode
    /\ \/ call[p].pc = "replace" /\ Return(p, "ok") /\ UNCHANGED faults
       \/ call[p].pc = "write" /\ Fault /\ Return(p, "failed")
    /\ UNCHANGED <<file, overlapped>>

(* os.replace(temporary, path); FileNotFoundError when the name is gone.   *)
Replace(p) ==
    /\ call[p].pc = "replace"
    /\ IF temporary = NoInode
       THEN Return(p, "failed") /\ UNCHANGED registry
       ELSE Return(p, "ok") /\ registry' = temporary
    /\ temporary' = NoInode
    /\ UNCHANGED <<file, overlapped, faults>>

(* An error that leaves the .tmp where it is (mkdir, open, rename), or the *)
(* fsync of the directory when the binding already has its name.           *)
SystemCallFails(p) ==
    /\ call[p].pc \in {"open", "replace"}
    /\ Fault
    /\ Return(p, "failed")
    /\ \/ UNCHANGED <<registry, temporary>>
       \/ /\ call[p].pc = "replace" /\ temporary # NoInode
          /\ registry' = temporary
          /\ temporary' = NoInode
    /\ UNCHANGED <<file, overlapped>>

Crash(p) ==
    /\ call[p].pc # "idle"
    /\ Fault
    /\ Return(p, "none")
    /\ UNCHANGED <<registry, temporary, file, overlapped>>

Next ==
    \E p \in Proc :
      \/ \E l \in Locator, m \in ModelId : Register(p, l, m)
      \/ OpenTemporary(p) \/ WriteTemporary(p) \/ WriteFails(p)
      \/ Replace(p) \/ SystemCallFails(p) \/ Crash(p)

Spec == Init /\ [][Next]_vars

-----------------------------------------------------------------------------
Unshared(binding) ==
    \A a, b \in Locator : binding[a] = binding[b] /\ binding[a] # Unbound => a = b

(* A locator the curated table knows is bound to its curated identity.     *)
RespectsCurated(binding) ==
    \A l \in Locator : binding[l] # Unbound => Curated[l] \in {Unbound, binding[l]}

(* Two repositories never collapse onto one logical model, in whatever     *)
(* text concurrent writers, crashes and takeovers leave under the name.    *)
UniqueIdentity ==
    registry # NoInode /\ file[registry].text # Garbage
        => Unshared(file[registry].text)

(* What register's docstring promises: an identity that curated authority  *)
(* gives to one locator is never admitted for another.  The code asks the  *)
(* table for the locator being registered only, so it does not hold.       *)
CuratedAuthority ==
    registry # NoInode /\ file[registry].text # Garbage =>
        \A l, owner \in Locator :
            file[registry].text[l] = Curated[owner] /\ Curated[owner] # Unbound => l = owner

(* While registrations do not overlap, one that returned is in the         *)
(* registry, whatever failed, crashed or was left in the .tmp since.       *)
AcknowledgedIsBound ==
    ~overlapped =>
        /\ Load # Garbage
        /\ \A p \in Proc : call[p].result = "ok"
             => Load[call[p].locator] = call[p].model

(* While they do not overlap, the registry implements the map that only    *)
(* grows, one unshared and uncontradicted identity at a time.              *)
Admitted == INSTANCE AdmittedIdentities WITH bound <- Load

SerialAdmitted ==
    Admitted!Init /\ [][overlapped' \/ Admitted!Next \/ UNCHANGED Load]_vars
=============================================================================
