-------------------------- MODULE Acquisition_proofs --------------------------
(***************************************************************************)
(* For any number of processes, repositories, revisions and files: types,  *)
(* that a registration is never refused, and that a download leaves the    *)
(* revision it answers for.                                                *)
(***************************************************************************)
EXTENDS Acquisition, TLAPS

(* A model is bound to none or to a repository of its own identity, in a   *)
(* registry that parses.                                                   *)
OwnBindings(bound) ==
    bound # Torn => \A m \in Model : bound[m] # NoLocator => ModelOf[bound[m]] = m

(* A digest is declared for exactly the hashed files, of the revision.     *)
SpecSound(spec) ==
    /\ spec \in ArtifactSpec
    /\ spec.sha # None <=> spec.file \in Hashed
    /\ spec.rev # None /\ spec.sha # None => spec.sha = spec.rev

(* What a command knows at each of its steps.                              *)
Formed(c) ==
    /\ c.pc # "idle" => c.result = "none"
    /\ c.pc \in {"bind", "write"} => c.op # "admit"
    /\ c.pc \in {"identify", "register", "metadata", "tree"} => c.locator \in Locator
    /\ c.pc = "tree" => c.sha \in DOMAIN Tree[c.locator] \cup {None}
    /\ c.pc \in {"plan", "transfer", "save"} => SpecSound(c.spec)
    /\ c.pc \notin {"register", "write"} => c.texts = {}
    /\ c.pc = "register" => c.texts \subseteq {Torn} \cup Admissions
    /\ c.pc = "write" => /\ c.texts \subseteq {Torn} \cup Bindings
                         /\ \A t \in c.texts : OwnBindings(t)

CommandsFormed ==
    /\ proc \in [Process -> Command]
    /\ \A p \in Process : Formed(proc[p])

(* A manifest declares what a specification declared.                      *)
ManifestsSound ==
    \A a \in Artifact : manifest[a].saved =>
        /\ manifest[a].sha # None <=> a[2] \in Hashed
        /\ manifest[a].rev # None /\ manifest[a].sha # None
             => manifest[a].sha = manifest[a].rev

(* What is about to be registered is what was verified.                    *)
SavesVerified ==
    \A p \in Process : At(p, "save") /\ proc[p].spec.sha # None
        => final[Directory(proc[p].spec)] = proc[p].spec.sha

(* A mixture is written, and installed, only by writes that overlap.       *)
TextsExplained == \A p \in Process : Torn \in proc[p].texts => overlapped

RegistriesExplained == identities = Torn \/ bindings = Torn => overlapped

IInv == /\ TypeOK
        /\ CommandsFormed
        /\ OwnBindings(bindings)
        /\ ManifestsSound
        /\ SavesVerified
        /\ TextsExplained
        /\ RegistriesExplained

-----------------------------------------------------------------------------
LEMMA UnboundSound == Unbound \in Bindings /\ OwnBindings(Unbound) /\ Unbound # Torn
BY TornAssumption DEF TornAssumption, Unbound, Bindings, OwnBindings

LEMMA NobodySound == Nobody \in Admissions /\ Nobody # Torn
BY TornAssumption DEF TornAssumption, Nobody, Admissions

(* A command that has ended.                                               *)
LEMMA EndedFormed ==
    ASSUME NEW r \in Result
    PROVE  Ended(r) \in Command /\ Formed(Ended(r)) /\ Ended(r).pc = "idle"
<1>1. (CHOOSE m \in Model : TRUE) \in Model /\ (CHOOSE q \in Request : TRUE) \in Request
    BY RequestAssumption DEF RequestAssumption
<1>2. Ended(r) \in Command
    BY <1>1 DEF Ended, Idle, Command, PC, Op
<1>3. Formed(Ended(r)) /\ Ended(r).pc = "idle"
    BY DEF Ended, Idle, Formed
<1>. QED
    BY <1>2, <1>3

LEMMA IdleFormed == Idle \in Command /\ Formed(Idle) /\ Idle.pc = "idle"
<1>1. Ended("none") = Idle
    BY DEF Ended, Idle
<1>2. "none" \in Result
    BY DEF Result
<1>. QED
    BY <1>1, <1>2, EndedFormed DEF Idle

(* A step of one command, which changes no file, leaves the invariants of  *)
(* the commands if its own next state is formed.                           *)
LEMMA Going ==
    ASSUME CommandsFormed, NEW p \in Process, NEW c \in Command, Formed(c), Go(p, c)
    PROVE  /\ CommandsFormed'
           /\ SavesVerified /\ c.pc # "save" /\ final' = final => SavesVerified'
           /\ TextsExplained /\ Torn \notin c.texts /\ overlapped' = overlapped
                => TextsExplained'
<1>1. proc' \in [Process -> Command] /\ proc'[p] = c
      /\ \A q \in Process \ {p} : proc'[q] = proc[q]
    BY DEF CommandsFormed, Go
<1>2. CommandsFormed'
    <2>. SUFFICES ASSUME NEW q \in Process PROVE Formed(proc'[q])
        BY <1>1 DEF CommandsFormed, Formed, SpecSound, OwnBindings
    <2>1. CASE q = p
        BY <1>1, <2>1
    <2>2. CASE q # p
        BY <1>1, <2>2 DEF CommandsFormed
    <2>. QED
        BY <2>1, <2>2
<1>3. ASSUME SavesVerified, c.pc # "save", final' = final PROVE SavesVerified'
    BY <1>1, <1>3 DEF SavesVerified, At, Directory
<1>4. ASSUME TextsExplained, Torn \notin c.texts, overlapped' = overlapped PROVE TextsExplained'
    BY <1>1, <1>4 DEF TextsExplained
<1>. QED
    BY <1>2, <1>3, <1>4

LEMMA Stopping ==
    ASSUME CommandsFormed, NEW p \in Process, NEW r \in Result, Stop(p, r)
    PROVE  /\ CommandsFormed'
           /\ SavesVerified /\ final' = final => SavesVerified'
           /\ TextsExplained /\ overlapped' = overlapped => TextsExplained'
<1>1. Go(p, Ended(r)) /\ Ended(r).pc # "save"
    BY EndedFormed DEF Stop
<1>2. Torn \notin Ended(r).texts
    BY EndedFormed DEF Formed
<1>. QED
    BY <1>1, <1>2, EndedFormed, Going

-----------------------------------------------------------------------------
(* A step that touches no file.                                            *)
LEMMA FilesKept ==
    ASSUME IInv, CommandsFormed', SavesVerified', TextsExplained',
           overlapped' \in BOOLEAN, overlapped => overlapped',
           UNCHANGED <<identities, bindings, head, store>>
    PROVE  IInv'
<1>1. TypeOK'
    BY DEF IInv, TypeOK, CommandsFormed, store
<1>2. OwnBindings(bindings)' /\ RegistriesExplained'
    BY DEF IInv, OwnBindings, RegistriesExplained
<1>3. ManifestsSound'
    BY DEF IInv, ManifestsSound, store
<1>. QED
    BY <1>1, <1>2, <1>3 DEF IInv

(* Where a command holds no text, and has nothing to register.             *)
Elsewhere(c) == c.pc \notin {"save", "register", "write"}

LEMMA OtherCommand ==
    ASSUME IInv, NEW p \in Process, NEW c \in Command, Formed(c), Elsewhere(c), Go(p, c),
           UNCHANGED <<registries, head, store>>
    PROVE  IInv'
<1>1. Torn \notin c.texts
    BY DEF Formed, Elsewhere
<1>. QED
    BY <1>1, Going, FilesKept DEF IInv, TypeOK, Elsewhere, registries, store

LEMMA Ending ==
    ASSUME IInv, NEW p \in Process, NEW r \in Result, Stop(p, r),
           UNCHANGED <<registries, head, store>>
    PROVE  IInv'
BY Stopping, FilesKept DEF IInv, TypeOK, registries, store

(* Opening a temporary: those who write the same registry are formed still,*)
(* and if there are any the writes overlap.                                *)
LEMMA Opening ==
    ASSUME IInv, NEW p \in Process, NEW label \in {"register", "write"}, NEW text,
           label = "register" => text \in Admissions,
           label = "write" => text \in Bindings /\ OwnBindings(text),
           proc[p].pc \in {"identify", "bind"}, label = "write" => proc[p].op # "admit",
           label = "register" => proc[p].pc = "identify",
           Opens(p, label, text), UNCHANGED <<identities, bindings, head, store>>
    PROVE  IInv'
<1>. DEFINE others == {q \in Process \ {p} : At(q, label)}
            held == {text} \cup UNION {proc[o].texts \cup {Torn} : o \in others}
            after(q) == IF q = p THEN [proc[p] EXCEPT !.pc = label, !.texts = held]
                        ELSE IF q \in others
                        THEN [proc[q] EXCEPT !.texts = @ \cup {text, Torn}]
                        ELSE proc[q]
<1>1. /\ proc' = [q \in Process |-> after(q)]
      /\ overlapped' = (overlapped \/ others # {})
      /\ overlapped \in BOOLEAN
    BY DEF Opens, IInv, TypeOK
<1>2. proc \in [Process -> Command] /\ \A q \in Process : proc[q] \in Command /\ Formed(proc[q])
    BY DEF IInv, CommandsFormed
<1>3. text # Torn
    BY TornAssumption DEF TornAssumption
<1>4. \A q \in others : proc[q].pc = label
    BY DEF At
<1>5. /\ label = "register" => held \subseteq {Torn} \cup Admissions
      /\ label = "write" => held \subseteq {Torn} \cup Bindings /\ \A t \in held : OwnBindings(t)
    BY <1>2, <1>4 DEF Formed, OwnBindings
<1>6. ASSUME NEW q \in Process PROVE after(q) \in Command /\ Formed(after(q))
    <2>1. CASE q = p
        <3>1. held \subseteq Text
            BY <1>5 DEF Text
        <3>2. after(q) = [proc[p] EXCEPT !.pc = label, !.texts = held]
            BY <2>1
        <3>. HIDE DEF held
        <3>3. after(q) \in Command
            <4>1. proc[p] \in Command /\ label \in PC
                BY <1>2 DEF PC
            <4>. QED
                BY <3>1, <3>2, <4>1 DEF Command
        <3>4. Formed(after(q))
            BY <1>2, <1>5, <3>2 DEF Formed, Command
        <3>. QED
            BY <3>3, <3>4
    <2>2. CASE q # p /\ q \in others
        <3>1. after(q) = [proc[q] EXCEPT !.texts = @ \cup {text, Torn}]
            BY <2>2
        <3>2. proc[q].pc = label /\ proc[q].texts \cup {text, Torn} \subseteq Text
            BY <1>2, <1>4, <2>2 DEF Command, Text
        <3>3. after(q) \in Command
            BY <1>2, <3>1, <3>2 DEF Command
        <3>4. Formed(after(q))
            BY <1>2, <3>1, <3>2 DEF Formed, Command, OwnBindings
        <3>. QED
            BY <3>3, <3>4
    <2>3. CASE q # p /\ q \notin others
        BY <1>2, <2>3
    <2>. QED
        BY <2>1, <2>2, <2>3
<1>7. CommandsFormed'
    BY <1>1, <1>6 DEF CommandsFormed, Formed, SpecSound, OwnBindings
<1>8. SavesVerified'
    <2>. SUFFICES ASSUME NEW q \in Process, proc'[q].pc = "save", proc'[q].spec.sha # None
                  PROVE  final'[Directory(proc'[q].spec)] = proc'[q].spec.sha
        BY DEF SavesVerified, At, Directory
    <2>1. proc'[q].pc = after(q).pc /\ proc'[q] = after(q)
        BY <1>1
    <2>2. q # p /\ q \notin others
        BY <1>2, <1>4, <2>1 DEF Command
    <2>3. proc'[q] = proc[q]
        BY <2>1, <2>2
    <2>. QED
        BY <2>3 DEF IInv, SavesVerified, At, Directory, store
<1>9. TextsExplained'
    <2>. SUFFICES ASSUME NEW q \in Process, Torn \in proc'[q].texts, ~overlapped' PROVE FALSE
        BY DEF TextsExplained
    <2>1. others = {} /\ ~overlapped
        BY <1>1
    <2>2. CASE q = p
        BY <1>1, <1>2, <1>3, <2>1, <2>2 DEF Command
    <2>3. CASE q # p
        BY <1>1, <2>1, <2>3 DEF IInv, TextsExplained
    <2>. QED
        BY <2>2, <2>3
<1>. QED
    BY <1>1, <1>7, <1>8, <1>9, FilesKept

LEMMA StartKeeps == ASSUME IInv, NEW p \in Process, Start(p) PROVE IInv'
<1>1. UNCHANGED <<registries, head, store>>
    BY DEF Start
<1>2. ModelOf \in [Locator -> Model]
    BY IdentityAssumption DEF IdentityAssumption
<1>3. ASSUME NEW l \in Locator, NEW r \in Request,
             Go(p, [Idle EXCEPT !.pc = "identify", !.model = ModelOf[l],
                                !.locator = l, !.want = r])
      PROVE  IInv'
    <2> DEFINE c == [Idle EXCEPT !.pc = "identify", !.model = ModelOf[l],
                                 !.locator = l, !.want = r]
    <2>1. c \in Command /\ Formed(c) /\ Elsewhere(c)
        BY <1>2, IdleFormed DEF Idle, Command, Formed, Elsewhere, PC
    <2>. QED
        BY <1>1, <1>3, <2>1, OtherCommand
<1>4. ASSUME NEW m \in Model, NEW r \in Request,
             Go(p, [Idle EXCEPT !.pc = "resolve", !.model = m, !.want = r])
      PROVE  IInv'
    <2> DEFINE c == [Idle EXCEPT !.pc = "resolve", !.model = m, !.want = r]
    <2>1. c \in Command /\ Formed(c) /\ Elsewhere(c)
        BY IdleFormed DEF Idle, Command, Formed, Elsewhere, PC
    <2>. QED
        BY <1>1, <1>4, <2>1, OtherCommand
<1>5. ASSUME NEW l \in Locator,
             Go(p, [Idle EXCEPT !.pc = "identify", !.op = "admit",
                                !.model = ModelOf[l], !.locator = l])
      PROVE  IInv'
    <2> DEFINE c == [Idle EXCEPT !.pc = "identify", !.op = "admit",
                                 !.model = ModelOf[l], !.locator = l]
    <2>1. c \in Command /\ Formed(c) /\ Elsewhere(c)
        BY <1>2, IdleFormed DEF Idle, Command, Formed, Elsewhere, PC, Op
    <2>. QED
        BY <1>1, <1>5, <2>1, OtherCommand
<1>6. ASSUME NEW op \in {"bind", "update"}, NEW m \in Model, NEW l \in Locator,
             Go(p, [Idle EXCEPT !.pc = "bind", !.op = op, !.model = m, !.locator = l])
      PROVE  IInv'
    <2> DEFINE c == [Idle EXCEPT !.pc = "bind", !.op = op, !.model = m, !.locator = l]
    <2>1. c \in Command /\ Formed(c) /\ Elsewhere(c)
        BY IdleFormed DEF Idle, Command, Formed, Elsewhere, PC, Op
    <2>. QED
        BY <1>1, <1>6, <2>1, OtherCommand
<1>7. ASSUME NEW m \in Model, Go(p, [Idle EXCEPT !.pc = "bind", !.op = "delete", !.model = m])
      PROVE  IInv'
    <2> DEFINE c == [Idle EXCEPT !.pc = "bind", !.op = "delete", !.model = m]
    <2>1. c \in Command /\ Formed(c) /\ Elsewhere(c)
        BY IdleFormed DEF Idle, Command, Formed, Elsewhere, PC, Op
    <2>. QED
        BY <1>1, <1>7, <2>1, OtherCommand
<1>. QED
    BY <1>3, <1>4, <1>5, <1>6, <1>7 DEF Start

LEMMA IdentifyKeeps == ASSUME IInv, NEW p \in Process, Identify(p) PROVE IInv'
<1>. DEFINE c == proc[p]
            text == [identities EXCEPT ![c.locator] = TRUE]
<1>1. c \in Command /\ Formed(c) /\ c.pc = "identify" /\ c.locator \in Locator
      /\ UNCHANGED <<identities, bindings, head, store>>
    BY DEF IInv, TypeOK, CommandsFormed, Formed, Identify, At
<1>2. ASSUME Stop(p, "rejected") \/ Stop(p, "ok"), UNCHANGED overlapped PROVE IInv'
    BY <1>1, <1>2, Ending DEF Result, registries
<1>3. ASSUME AnswerRegister(identities, c.locator) = "write", Opens(p, "register", text)
      PROVE  IInv'
    <2>1. text \in Admissions
        BY <1>1, <1>3 DEF IInv, TypeOK, AnswerRegister, Admissions
    <2>. QED
        BY <1>1, <1>3, <2>1, Opening
<1>4. ASSUME c.op # "admit", Go(p, [c EXCEPT !.pc = "bind"]), UNCHANGED overlapped PROVE IInv'
    <2> DEFINE d == [c EXCEPT !.pc = "bind"]
    <2>1. d \in Command /\ Elsewhere(d)
        BY <1>1 DEF Command, PC, Elsewhere
    <2>2. Formed(d)
        BY <1>1, <1>4 DEF Formed, Command
    <2>. QED
        BY <1>1, <1>4, <2>1, <2>2, OtherCommand DEF registries
<1>. QED
    BY <1>2, <1>3, <1>4 DEF Identify

(* A write of a registry leaves the invariants of the commands, whether    *)
(* the command goes on or stays at the write.                              *)
LEMMA Replacing ==
    ASSUME IInv, NEW p \in Process, NEW c \in Command, Formed(c), Elsewhere(c),
           Replaces(p, c), UNCHANGED <<overlapped, final>>
    PROVE  CommandsFormed' /\ SavesVerified' /\ TextsExplained'
<1>1. CASE Go(p, c)
    <2>1. Torn \notin c.texts /\ c.pc # "save"
        BY DEF Formed, Elsewhere
    <2>. QED
        BY <1>1, <2>1, Going DEF IInv
<1>2. CASE UNCHANGED proc
    BY <1>2 DEF IInv, CommandsFormed, Formed, SpecSound, OwnBindings, SavesVerified, At,
                Directory, TextsExplained
<1>. QED
    BY <1>1, <1>2 DEF Replaces

LEMMA WriteIdentitiesKeeps == ASSUME IInv, NEW p \in Process, WriteIdentities(p) PROVE IInv'
<1>. DEFINE c == proc[p]
            d == [c EXCEPT !.pc = "bind", !.texts = {}]
            after == IF c.op = "admit" THEN Ended("ok") ELSE d
<1>1. c \in Command /\ Formed(c) /\ c.pc = "register" /\ identities' \in c.texts
      /\ Replaces(p, after) /\ UNCHANGED <<bindings, overlapped, head, store>>
    BY DEF IInv, CommandsFormed, WriteIdentities, At
<1>2. after \in Command /\ Formed(after) /\ Elsewhere(after)
    <2>1. "ok" \in Result
        BY DEF Result
    <2>2. CASE c.op = "admit"
        BY <2>1, <2>2, EndedFormed DEF Elsewhere
    <2>3. CASE c.op # "admit"
        <3>1. d \in Command
            BY <1>1 DEF Command, PC
        <3>2. Formed(d) /\ Elsewhere(d)
            BY <1>1, <2>3 DEF Formed, Command, Elsewhere
        <3>. QED
            BY <2>3, <3>1, <3>2
    <2>. QED
        BY <2>2, <2>3
<1>3. CommandsFormed' /\ SavesVerified' /\ TextsExplained'
    BY <1>1, <1>2, Replacing DEF store
<1>4. identities' \in {Torn} \cup Admissions /\ (identities' = Torn => overlapped)
    BY <1>1 DEF Formed, IInv, TextsExplained
<1>5. TypeOK'
    BY <1>1, <1>3, <1>4 DEF IInv, TypeOK, CommandsFormed, store
<1>6. OwnBindings(bindings)' /\ ManifestsSound' /\ RegistriesExplained'
    BY <1>1, <1>4 DEF IInv, OwnBindings, ManifestsSound, RegistriesExplained, store
<1>. QED
    BY <1>3, <1>5, <1>6 DEF IInv

(* After the registration.                                                 *)
LEMMA RegisteredFormed ==
    ASSUME NEW c \in Command
    PROVE  Registered(c) \in Command /\ Formed(Registered(c)) /\ Elsewhere(Registered(c))
<1>1. CASE c.op = "download"
    <2>. DEFINE d == [Idle EXCEPT !.pc = "resolve", !.model = c.model, !.want = c.want]
    <2>1. d \in Command
        BY IdleFormed DEF Command, PC
    <2>2. Formed(d) /\ Elsewhere(d)
        BY DEF Formed, Idle, Elsewhere
    <2>. QED
        BY <1>1, <2>1, <2>2 DEF Registered
<1>2. CASE c.op # "download"
    <2>1. "ok" \in Result
        BY DEF Result
    <2>. QED
        BY <1>2, <2>1, EndedFormed DEF Registered, Elsewhere
<1>. QED
    BY <1>1, <1>2

LEMMA BindKeeps == ASSUME IInv, NEW p \in Process, Bind(p) PROVE IInv'
<1>. DEFINE c == proc[p]
            bound == IF c.op = "delete" THEN NoLocator ELSE c.locator
            text == [bindings EXCEPT ![c.model] = bound]
<1>1. c \in Command /\ Formed(c) /\ c.pc = "bind"
      /\ UNCHANGED <<identities, bindings, head, store>>
    BY DEF IInv, CommandsFormed, Bind, At
<1>2. ASSUME UNCHANGED overlapped, Go(p, Registered(c)) PROVE IInv'
    BY <1>1, <1>2, RegisteredFormed, OtherCommand DEF registries
<1>3. ASSUME UNCHANGED overlapped, Go(p, Ended("rejected")) PROVE IInv'
    BY <1>1, <1>3, Ending DEF Result, Stop, registries
<1>4. ASSUME Answer(c) = "write", Opens(p, "write", text) PROVE IInv'
    <2>1. /\ c.model \in Model /\ bound \in Locator \cup {NoLocator}
          /\ c.op \in {"download", "bind", "update", "delete"}
        BY <1>1 DEF Command, Formed, Op
    <2>2. bindings # Torn
      <3>1. CASE c.op = "delete"
        BY <1>4, <3>1 DEF Answer, AnswerDelete
      <3>2. CASE c.op = "update"
        BY <1>4, <3>2 DEF Answer, AnswerUpdate
      <3>3. CASE c.op \in {"download", "bind"}
        BY <1>4, <3>3 DEF Answer, AnswerBind
      <3>. QED
        BY <2>1, <3>1, <3>2, <3>3
    <2>3. bindings \in Bindings /\ OwnBindings(bindings)
        BY <2>2 DEF IInv, TypeOK
    <2>4. bound # NoLocator => ModelOf[bound] = c.model
      <3>1. CASE c.op = "delete"
        BY <3>1
      <3>2. CASE c.op = "update"
        BY <1>4, <3>2 DEF Answer, AnswerUpdate, Registrable
      <3>3. CASE c.op \in {"download", "bind"}
        BY <1>4, <3>3 DEF Answer, AnswerBind, Registrable
      <3>. QED
        BY <2>1, <3>1, <3>2, <3>3
    <2>5. text \in Bindings
        BY <2>1, <2>3 DEF Bindings
    <2>6. OwnBindings(text)
        BY <2>1, <2>2, <2>3, <2>4 DEF OwnBindings, Bindings
    <2>. QED
        BY <1>1, <1>4, <2>5, <2>6, Opening DEF Formed
<1>. QED
    BY <1>2, <1>3, <1>4 DEF Bind

LEMMA WriteBindingsKeeps == ASSUME IInv, NEW p \in Process, WriteBindings(p) PROVE IInv'
<1>1. /\ proc[p] \in Command /\ Formed(proc[p]) /\ proc[p].pc = "write"
      /\ bindings' \in proc[p].texts /\ Replaces(p, Registered(proc[p]))
      /\ UNCHANGED <<identities, overlapped, head, store>>
    BY DEF IInv, CommandsFormed, WriteBindings, At
<1>2. CommandsFormed' /\ SavesVerified' /\ TextsExplained'
    BY <1>1, RegisteredFormed, Replacing DEF store
<1>3. bindings' \in {Torn} \cup Bindings /\ OwnBindings(bindings')
      /\ (bindings' = Torn => overlapped)
    BY <1>1 DEF Formed, IInv, TextsExplained
<1>4. TypeOK'
    BY <1>1, <1>2, <1>3 DEF IInv, TypeOK, CommandsFormed, store
<1>5. OwnBindings(bindings)' /\ ManifestsSound' /\ RegistriesExplained'
    BY <1>1, <1>3 DEF IInv, OwnBindings, ManifestsSound, RegistriesExplained, store
<1>. QED
    BY <1>2, <1>4, <1>5 DEF IInv

LEMMA ResolveKeeps == ASSUME IInv, NEW p \in Process, Resolve(p) PROVE IInv'
<1>. DEFINE c == proc[p]
            l == ResolveAcquisitionLocator(bindings, c.model)
<1>1. c \in Command /\ Formed(c) /\ UNCHANGED <<registries, head, store>>
    BY DEF IInv, CommandsFormed, Resolve
<1>2. l \in Locator \cup {NoLocator, Torn}
    BY LocatorAssumption DEF LocatorAssumption, ResolveAcquisitionLocator
<1>3. ASSUME Stop(p, "not resolvable") \/ Stop(p, "failed") PROVE IInv'
    BY <1>1, <1>3, Ending DEF Result
<1>4. ASSUME l \notin {NoLocator, Torn}, Go(p, [c EXCEPT !.pc = "metadata", !.locator = l])
      PROVE  IInv'
    <2> DEFINE d == [c EXCEPT !.pc = "metadata", !.locator = l]
    <2>1. c.pc = "resolve"
        BY DEF Resolve, At
    <2>2. d \in Command /\ Elsewhere(d)
        BY <1>1, <1>2, <1>4 DEF Command, PC, Elsewhere
    <2>3. Formed(d)
        BY <1>1, <1>2, <1>4, <2>1 DEF Formed, Command
    <2>. QED
        BY <1>1, <1>4, <2>2, <2>3, OtherCommand
<1>. QED
    BY <1>3, <1>4 DEF Resolve

LEMMA RevisionsOfTree ==
    \A l \in Locator : Tree[l] \in Seq(SUBSET File) /\ DOMAIN Tree[l] \subseteq Revision
BY TreeAssumption DEF TreeAssumption, Revision

LEMMA NoneIsNoRevision == None \notin Revision
BY TreeAssumption DEF TreeAssumption, Revision

LEMMA ReadMetadataKeeps == ASSUME IInv, NEW p \in Process, ReadMetadata(p) PROVE IInv'
<1>. DEFINE c == proc[p]
<1>1. /\ c \in Command /\ Formed(c) /\ UNCHANGED <<registries, head, store>>
      /\ c.pc = "metadata"
    BY DEF IInv, CommandsFormed, ReadMetadata, At
<1>2. c.locator \in Locator
    BY <1>1 DEF Formed
<1>3. PICK sha \in {head[c.locator], None} : Go(p, [c EXCEPT !.pc = "tree", !.sha = sha])
    BY DEF ReadMetadata
<1>4. sha \in DOMAIN Tree[c.locator] \cup {None}
    BY <1>2 DEF IInv, TypeOK
<1>. DEFINE d == [c EXCEPT !.pc = "tree", !.sha = sha]
<1>5. d \in Command /\ Elsewhere(d)
    BY <1>1, <1>2, <1>4, RevisionsOfTree DEF Command, PC, Elsewhere
<1>6. Formed(d)
    BY <1>1, <1>2, <1>4 DEF Formed, Command
<1>. QED
    BY <1>1, <1>3, <1>5, <1>6, OtherCommand

LEMMA ReadTreeKeeps == ASSUME IInv, NEW p \in Process, ReadTree(p) PROVE IInv'
<1>. DEFINE c == proc[p]
            at == IF c.sha = None THEN head[c.locator] ELSE c.sha
            files == Tree[c.locator][at]
            found == Matching(files, c.want, c.sha)
            spec(f) == [locator |-> c.locator, file |-> f, rev |-> c.sha,
                        sha |-> IF f \in Hashed THEN at ELSE None]
            d(f) == [Idle EXCEPT !.pc = "plan", !.spec = spec(f)]
<1>1. /\ c \in Command /\ Formed(c) /\ c.pc = "tree" /\ UNCHANGED <<registries, head, store>>
    BY DEF IInv, CommandsFormed, ReadTree, At
<1>2. c.locator \in Locator /\ c.sha \in DOMAIN Tree[c.locator] \cup {None}
    BY <1>1 DEF Formed
<1>3. at \in DOMAIN Tree[c.locator] /\ at \in Revision /\ at # None
    BY <1>2, RevisionsOfTree, NoneIsNoRevision DEF IInv, TypeOK
<1>4. files \subseteq File
    BY <1>2, <1>3, RevisionsOfTree
<1>5. ASSUME NEW r \in Result, Stop(p, r) PROVE IInv'
    BY <1>1, <1>5, Ending
<1>6. ASSUME NEW f \in found, Go(p, d(f)) PROVE IInv'
    <2>1. f \in File
        BY <1>4 DEF Matching
    <2>2. spec(f) \in ArtifactSpec
        BY <1>2, <1>3, <2>1, RevisionsOfTree DEF ArtifactSpec
    <2>3. SpecSound(spec(f))
        BY <1>3, <2>2 DEF SpecSound
    <2>4. d(f) \in Command /\ Elsewhere(d(f))
        BY <2>2, IdleFormed DEF Command, PC, Elsewhere
    <2>5. Formed(d(f))
        BY <2>3, IdleFormed DEF Formed, Idle
    <2>. QED
        BY <1>1, <1>6, <2>4, <2>5, OtherCommand
<1>7. \/ Stop(p, "discovery failed") \/ Stop(p, "selection failed")
      \/ Stop(p, "identity unresolved") \/ \E f \in found : Go(p, d(f))
    BY DEF ReadTree
<1>8. {"discovery failed", "selection failed", "identity unresolved"} \subseteq Result
    BY DEF Result
<1>. QED
    BY <1>5, <1>6, <1>7, <1>8

LEMMA PlanKeeps == ASSUME IInv, NEW p \in Process, Plan(p) PROVE IInv'
<1>. DEFINE c == proc[p]
            d == [c EXCEPT !.pc = "transfer"]
<1>1. /\ c \in Command /\ Formed(c) /\ c.pc = "plan" /\ UNCHANGED <<registries, head, store>>
    BY DEF IInv, CommandsFormed, Plan, At
<1>2. ASSUME Go(p, d) PROVE IInv'
    <2>1. d \in Command /\ Elsewhere(d)
        BY <1>1 DEF Command, PC, Elsewhere
    <2>2. Formed(d)
        BY <1>1 DEF Formed, Command
    <2>. QED
        BY <1>1, <1>2, <2>1, <2>2, OtherCommand
<1>3. PlanStatus(c.spec) \in {"already downloaded", "blocked", "planning failed", "ready"}
    BY DEF PlanStatus
<1>4. \A r \in {"already downloaded", "blocked", "planning failed", "ready"} : r \in Result
    BY DEF Result
<1>5. ASSUME NEW r \in Result, Stop(p, r) PROVE IInv'
    BY <1>1, <1>5, Ending
<1>6. Go(p, d) \/ Stop(p, "blocked") \/ Stop(p, PlanStatus(c.spec))
    BY DEF Plan
<1>. QED
    BY <1>2, <1>3, <1>4, <1>5, <1>6

LEMMA TransferKeeps == ASSUME IInv, NEW p \in Process, Transfer(p) PROVE IInv'
<1>. DEFINE c == proc[p]
            a == Directory(c.spec)
            served == IF c.spec.rev = None THEN head[c.spec.locator] ELSE c.spec.rev
            d == [c EXCEPT !.pc = "save"]
<1>1. /\ c \in Command /\ Formed(c) /\ c.pc = "transfer" /\ UNCHANGED <<registries, head, manifest>>
    BY DEF IInv, CommandsFormed, Transfer, At
<1>2. SpecSound(c.spec) /\ c.spec \in ArtifactSpec /\ a \in Artifact
    BY <1>1 DEF Formed, SpecSound, ArtifactSpec, Directory, Artifact
<1>3. served \in Revision
    BY <1>2, RevisionsOfTree DEF IInv, TypeOK, ArtifactSpec
<1>4. ASSUME Stop(p, "transfer failed"), final' = final PROVE IInv'
    BY <1>1, <1>4, Ending DEF Result, store
<1>5. ASSUME NEW bytes \in {served, Torn}, final[a] = None, c.spec.sha \in {None, bytes},
             final' = [final EXCEPT ![a] = bytes], Go(p, d)
      PROVE  IInv'
    <2>1. d \in Command /\ d.pc = "save" /\ d.spec = c.spec
        BY <1>1 DEF Command, PC
    <2>2. Formed(d)
        BY <1>1, <1>2 DEF Formed, Command
    <2>3. CommandsFormed' /\ TextsExplained'
        <3>1. Torn \notin d.texts
            BY <2>1, <2>2 DEF Formed
        <3>. QED
            BY <1>1, <1>5, <2>1, <2>2, <3>1, Going DEF IInv, registries
    <2>4. TypeOK'
        <3>1. final' \in [Artifact -> Revision \cup {None, Torn}]
            BY <1>2, <1>3, <1>5 DEF IInv, TypeOK
        <3>. QED
            BY <1>1, <2>3, <3>1 DEF IInv, TypeOK, CommandsFormed, registries
    <2>5. OwnBindings(bindings)' /\ ManifestsSound' /\ RegistriesExplained'
        BY <1>1 DEF IInv, OwnBindings, ManifestsSound, RegistriesExplained, registries
    <2>6. ASSUME NEW q \in Process, proc'[q].pc = "save", proc'[q].spec.sha # None
          PROVE  final'[Directory(proc'[q].spec)] = proc'[q].spec.sha
        <3>1. CASE q = p
            <4>1. proc'[q].spec = c.spec
                BY <1>5, <2>1, <3>1 DEF Go, IInv, TypeOK
            <4>. QED
                BY <1>2, <1>5, <2>6, <4>1 DEF IInv, TypeOK
        <3>2. CASE q # p
            <4>1. proc'[q] = proc[q]
                BY <1>5, <3>2 DEF Go, IInv, TypeOK
            <4>2. SpecSound(proc[q].spec)
                BY <2>6, <4>1 DEF IInv, CommandsFormed, Formed
            <4>3. final[Directory(proc[q].spec)] = proc[q].spec.sha
                BY <2>6, <4>1 DEF IInv, SavesVerified, At
            <4>4. Directory(proc[q].spec) # a
                BY <1>5, <2>6, <4>1, <4>3
            <4>5. Directory(proc[q].spec) \in Artifact
                BY <4>2 DEF SpecSound, ArtifactSpec, Directory, Artifact
            <4>. QED
                BY <1>2, <1>5, <4>1, <4>3, <4>4, <4>5 DEF IInv, TypeOK
        <3>. QED
            BY <3>1, <3>2
    <2>7. SavesVerified'
        BY <2>6 DEF SavesVerified, At, Directory
    <2>. QED
        BY <2>3, <2>4, <2>5, <2>7 DEF IInv
<1>. QED
    BY <1>4, <1>5 DEF Transfer

LEMMA SaveManifestKeeps == ASSUME IInv, NEW p \in Process, SaveManifest(p) PROVE IInv'
<1>. DEFINE c == proc[p]
            a == Directory(c.spec)
            saved == [rev |-> c.spec.rev, sha |-> c.spec.sha, saved |-> TRUE]
<1>1. /\ c \in Command /\ Formed(c) /\ c.pc = "save" /\ UNCHANGED <<registries, head, final>>
      /\ manifest' = [manifest EXCEPT ![a] = saved] /\ Stop(p, "ready")
    BY DEF IInv, CommandsFormed, SaveManifest, At
<1>2. /\ SpecSound(c.spec) /\ c.spec \in ArtifactSpec
      /\ a \in Artifact /\ a[2] = c.spec.file /\ saved \in Manifest
    BY <1>1 DEF Formed, SpecSound, ArtifactSpec, Directory, Artifact, Manifest
<1>3. CommandsFormed' /\ SavesVerified' /\ TextsExplained'
    BY <1>1, Stopping DEF Result, IInv, registries
<1>4. TypeOK'
    <2>1. manifest' \in [Artifact -> Manifest \cup {NoManifest}]
        BY <1>1, <1>2 DEF IInv, TypeOK
    <2>. QED
        BY <1>1, <1>3, <2>1 DEF IInv, TypeOK, CommandsFormed, registries
<1>5. OwnBindings(bindings)' /\ RegistriesExplained'
    BY <1>1 DEF IInv, OwnBindings, RegistriesExplained, registries
<1>6. ManifestsSound'
    BY <1>1, <1>2 DEF IInv, TypeOK, ManifestsSound, SpecSound
<1>. QED
    BY <1>3, <1>4, <1>5, <1>6 DEF IInv

LEMMA FailsKeeps == ASSUME IInv, NEW p \in Process, Fails(p) PROVE IInv'
BY Ending DEF Fails, Result

LEMMA HeadMovesKeeps == ASSUME IInv, NEW l \in Locator, HeadMoves(l) PROVE IInv'
<1>1. /\ head[l] < Len(Tree[l]) /\ head' = [head EXCEPT ![l] = @ + 1]
      /\ UNCHANGED <<registries, store, proc>>
    BY DEF HeadMoves
<1>2. \A k \in Locator : head'[k] \in DOMAIN Tree[k]
    <2>. SUFFICES ASSUME NEW k \in Locator PROVE head'[k] \in DOMAIN Tree[k]
        OBVIOUS
    <2>1. /\ Tree[k] \in Seq(SUBSET File) /\ head[k] \in DOMAIN Tree[k]
          /\ head \in [Locator -> Nat]
        BY RevisionsOfTree DEF IInv, TypeOK
    <2>. QED
        BY <1>1, <2>1
<1>3. TypeOK'
    <2>1. head' \in [Locator -> Nat]
        BY <1>1 DEF IInv, TypeOK
    <2>. QED
        BY <1>1, <1>2, <2>1 DEF IInv, TypeOK, registries, store
<1>4. CommandsFormed' /\ SavesVerified' /\ TextsExplained'
    BY <1>1 DEF IInv, CommandsFormed, Formed, SpecSound, OwnBindings, SavesVerified, At,
                Directory, TextsExplained, registries, store
<1>5. OwnBindings(bindings)' /\ ManifestsSound' /\ RegistriesExplained'
    BY <1>1 DEF IInv, OwnBindings, ManifestsSound, RegistriesExplained, registries, store
<1>. QED
    BY <1>3, <1>4, <1>5 DEF IInv

LEMMA DeleteFinalKeeps == ASSUME IInv, NEW a \in Artifact, DeleteFinal(a) PROVE IInv'
<1>1. /\ \A p \in Process : At(p, "save") => Directory(proc[p].spec) # a
      /\ final' = [final EXCEPT ![a] = None] /\ UNCHANGED <<registries, head, manifest, proc>>
    BY DEF DeleteFinal
<1>2. TypeOK'
    BY <1>1 DEF IInv, TypeOK, registries
<1>3. CommandsFormed'
    BY <1>1 DEF IInv, CommandsFormed, Formed, SpecSound, OwnBindings
<1>4. OwnBindings(bindings)' /\ ManifestsSound' /\ TextsExplained' /\ RegistriesExplained'
    BY <1>1 DEF IInv, OwnBindings, ManifestsSound, TextsExplained, RegistriesExplained,
                registries
<1>5. SavesVerified'
    <2>. SUFFICES ASSUME NEW q \in Process, proc[q].pc = "save", proc[q].spec.sha # None
                  PROVE  final'[Directory(proc[q].spec)] = proc[q].spec.sha
        BY <1>1 DEF SavesVerified, At, Directory
    <2>1. Directory(proc[q].spec) \in Artifact /\ Directory(proc[q].spec) # a
        BY <1>1 DEF IInv, CommandsFormed, Formed, SpecSound, ArtifactSpec, Directory,
                    Artifact, At
    <2>. QED
        BY <1>1, <2>1 DEF IInv, TypeOK, SavesVerified, At
<1>. QED
    BY <1>2, <1>3, <1>4, <1>5 DEF IInv

-----------------------------------------------------------------------------
LEMMA Initially == Init => IInv
<1>. SUFFICES ASSUME Init PROVE IInv
    OBVIOUS
<1>1. \A p \in Process : proc[p] = Idle
    BY DEF Init
<1>2. CommandsFormed
    BY <1>1, IdleFormed DEF Init, CommandsFormed
<1>3. TypeOK
    <2>1. head \in [Locator -> Nat] /\ \A l \in Locator : head[l] \in DOMAIN Tree[l]
        BY TreeAssumption DEF Init, TreeAssumption
    <2>2. final \in [Artifact -> Revision \cup {None, Torn}]
        BY DEF Init
    <2>3. manifest \in [Artifact -> Manifest \cup {NoManifest}]
        BY DEF Init
    <2>4. identities \in Admissions /\ bindings \in Bindings /\ overlapped \in BOOLEAN
        BY UnboundSound, NobodySound DEF Init
    <2>. QED
        BY <1>2, <2>1, <2>2, <2>3, <2>4 DEF TypeOK, CommandsFormed
<1>4. OwnBindings(bindings)
    BY UnboundSound DEF Init
<1>5. ManifestsSound
    BY DEF Init, ManifestsSound, NoManifest
<1>6. SavesVerified
    BY <1>1, IdleFormed DEF SavesVerified, At
<1>7. TextsExplained /\ RegistriesExplained
    BY <1>1, UnboundSound, NobodySound DEF Init, TextsExplained, RegistriesExplained, Idle
<1>. QED
    BY <1>2, <1>3, <1>4, <1>5, <1>6, <1>7 DEF IInv

LEMMA Inductive == IInv /\ [Next]_vars => IInv'
<1>. SUFFICES ASSUME IInv, [Next]_vars PROVE IInv'
    OBVIOUS
<1>1. ASSUME NEW p \in Process, Step(p) PROVE IInv'
    BY <1>1, StartKeeps, IdentifyKeeps, WriteIdentitiesKeeps, BindKeeps, WriteBindingsKeeps,
       ResolveKeeps, ReadMetadataKeeps, ReadTreeKeeps, PlanKeeps, TransferKeeps,
       SaveManifestKeeps, FailsKeeps DEF Step
<1>2. CASE UNCHANGED vars
    BY <1>2 DEF vars, IInv, TypeOK, CommandsFormed, Formed, SpecSound, OwnBindings,
                ManifestsSound, SavesVerified, At, Directory, TextsExplained,
                RegistriesExplained
<1>. QED
    BY <1>1, <1>2, HeadMovesKeeps, DeleteFinalKeeps DEF Next

LEMMA Invariance == Spec => []IInv
BY Initially, Inductive, PTL DEF Spec

(* The registries, the store and what every command knows are well typed.  *)
THEOREM TypeCorrect == Spec => []TypeOK
<1>1. IInv => TypeOK
    BY DEF IInv
<1>. QED
    BY <1>1, Invariance, PTL

(* The identities of repositories end in a digest of the repository's own  *)
(* name, or are curated for one.                                           *)
DistinctIdentities == \A l, k \in Locator : ModelOf[l] = ModelOf[k] => l = k

(* The registrations of `download owner/name` can be repeated in every     *)
(* state in which both registries parse, when identities are distinct; and *)
(* a registry parses until two writes of it overlap.                       *)
THEOREM RepeatedDownload == ASSUME DistinctIdentities PROVE Spec => []EnsureNeverRefused
<1>1. ASSUME IInv PROVE EnsureNeverRefused
    <2>. SUFFICES ASSUME NEW l \in Supported
                  PROVE  /\ AnswerRegister(identities, l) = "rejected"
                                => identities = Torn /\ overlapped
                         /\ AnswerBind(bindings, ModelOf[l], l) = "rejected"
                                => bindings = Torn /\ overlapped
        BY DEF EnsureNeverRefused
    <2>1. l \in Locator /\ Curated \subseteq Locator /\ ModelOf[l] \in Model
        BY LocatorAssumption, IdentityAssumption DEF LocatorAssumption, IdentityAssumption
    <2>2. identities # Torn => AnswerRegister(identities, l) # "rejected"
        BY <2>1 DEF AnswerRegister, DistinctIdentities
    <2>3. Registrable(ModelOf[l], l)
        BY <2>1 DEF Registrable, CuratedLocators, DistinctIdentities
    <2>4. bindings # Torn => bindings[ModelOf[l]] \in {NoLocator, l}
        <3>. SUFFICES ASSUME bindings # Torn PROVE bindings[ModelOf[l]] \in {NoLocator, l}
            OBVIOUS
        <3>1. bindings[ModelOf[l]] \in Locator \cup {NoLocator}
            BY <1>1, <2>1 DEF IInv, TypeOK, Bindings
        <3>2. bindings[ModelOf[l]] # NoLocator => ModelOf[bindings[ModelOf[l]]] = ModelOf[l]
            BY <1>1, <2>1 DEF IInv, OwnBindings
        <3>. QED
            BY <2>1, <3>1, <3>2 DEF DistinctIdentities
    <2>5. bindings # Torn => AnswerBind(bindings, ModelOf[l], l) # "rejected"
        BY <2>3, <2>4 DEF AnswerBind
    <2>. QED
        BY <1>1, <2>2, <2>5 DEF IInv, RegistriesExplained
<1>. QED
    BY <1>1, Invariance, PTL

(* A command that answers for an artifact does so in one of its last steps.*)
LEMMA WhoAnswers ==
    ASSUME IInv, Next, NEW p \in Process, ~At(p, "idle"),
           proc'[p].result \in {"ready", "already downloaded"}
    PROVE  \/ SaveManifest(p)
           \/ Plan(p) /\ PlanStatus(proc[p].spec) = "already downloaded"
<1>1. /\ proc[p].result = "none" /\ proc[p] \in Command /\ proc \in [Process -> Command]
      /\ proc[p].pc # "idle"
    BY DEF IInv, CommandsFormed, Formed, At
<1>2. proc'[p].result # "none"
    OBVIOUS
<1>3. ASSUME NEW q \in Process, q # p PROVE ~Step(q)
    <2>1. ~Start(q)
        BY <1>1, <1>2, <1>3 DEF Start, Go
    <2>2. \A c : ~Go(q, c) /\ ~Replaces(q, c)
        BY <1>1, <1>2, <1>3 DEF Go, Replaces
    <2>3. \A label, text : ~Opens(q, label, text)
        BY <1>1, <1>2, <1>3 DEF Opens, Command
    <2>4. ~Identify(q) /\ ~WriteIdentities(q)
        BY <2>2, <2>3 DEF Identify, WriteIdentities, Stop
    <2>5. ~Bind(q) /\ ~WriteBindings(q)
        BY <2>2, <2>3 DEF Bind, WriteBindings
    <2>6. ~Resolve(q) /\ ~ReadMetadata(q)
        BY <1>1, <1>2, <1>3 DEF Resolve, ReadMetadata, Go, Stop
    <2>7. ~ReadTree(q)
        BY <1>1, <1>2, <1>3 DEF ReadTree, Go, Stop
    <2>8. ~Plan(q) /\ ~Fails(q)
        BY <1>1, <1>2, <1>3 DEF Plan, Fails, Go, Stop
    <2>9. ~Transfer(q) /\ ~SaveManifest(q)
        BY <1>1, <1>2, <1>3 DEF Transfer, SaveManifest, Go, Stop
    <2>. QED
        BY <2>1, <2>2, <2>4, <2>5, <2>6, <2>7, <2>8, <2>9 DEF Step
<1>4. Step(p)
    BY <1>1, <1>2, <1>3 DEF Next, HeadMoves, DeleteFinal
<1>5. \A r : r \notin {"ready", "already downloaded"} => ~Go(p, Ended(r))
    BY <1>1 DEF Go, Ended, Idle, Command
<1>6. ~Start(p)
    BY DEF Start, At
<1>7. ~Go(p, Registered(proc[p])) /\ ~UNCHANGED proc
    BY <1>1, <1>5 DEF Registered, Go, Idle
<1>8. \A label, text : ~Opens(p, label, text)
    BY <1>1 DEF Opens, Command
<1>9. ~Identify(p) /\ ~WriteIdentities(p)
    <2>1. ~Go(p, [proc[p] EXCEPT !.pc = "bind"])
          /\ ~Go(p, [proc[p] EXCEPT !.pc = "bind", !.texts = {}])
        BY <1>1 DEF Go, Command
    <2>. QED
        BY <1>5, <1>7, <1>8, <2>1 DEF Identify, WriteIdentities, Replaces, Stop
<1>10. ~Bind(p) /\ ~WriteBindings(p)
    BY <1>5, <1>7, <1>8 DEF Bind, WriteBindings, Replaces
<1>11. ~Resolve(p) /\ ~ReadMetadata(p)
    BY <1>1 DEF Resolve, ReadMetadata, Go, Stop, Ended, Idle, Command
<1>13. ~ReadTree(p)
    <2>1. ~Stop(p, "discovery failed") /\ ~Stop(p, "selection failed")
          /\ ~Stop(p, "identity unresolved")
        BY <1>1 DEF Stop, Go, Ended, Idle
    <2>2. \A d : ~Go(p, [Idle EXCEPT !.pc = "plan", !.spec = d])
        BY <1>1 DEF Go, Idle
    <2>. QED
        BY <2>1, <2>2 DEF ReadTree
<1>14. ~Transfer(p) /\ ~Fails(p)
    <2>1. ~Stop(p, "transfer failed") /\ ~Stop(p, "failed")
        BY <1>1 DEF Stop, Go, Ended, Idle
    <2>2. ~Go(p, [proc[p] EXCEPT !.pc = "save"])
        BY <1>1 DEF Go, Command
    <2>. QED
        BY <2>1, <2>2 DEF Transfer, Fails
<1>12. ASSUME Plan(p) PROVE PlanStatus(proc[p].spec) = "already downloaded"
    BY <1>1, <1>12 DEF Plan, Go, Stop, Ended, Idle, Command
<1>. QED
    BY <1>4, <1>6, <1>9, <1>10, <1>11, <1>12, <1>13, <1>14 DEF Step

(* What is registered, or found installed, is of the revision the command  *)
(* answers for: it was verified against the digest of that revision before *)
(* it was published, and nothing else is recorded beside it.               *)
LEMMA AnswersForRevision ==
    ASSUME IInv, Next, NEW p \in Process, ~At(p, "idle"),
           proc'[p].result \in {"ready", "already downloaded"},
           proc[p].spec.rev # None, proc[p].spec.sha # None
    PROVE  /\ final'[Directory(proc[p].spec)] = proc[p].spec.rev
           /\ manifest'[Directory(proc[p].spec)].rev = proc[p].spec.rev
<1>. DEFINE spec == proc[p].spec
            a == Directory(spec)
<1>1. ASSUME proc[p].pc \in {"plan", "save"}
      PROVE  /\ a \in Artifact /\ a[2] = spec.file /\ spec.file \in Hashed
             /\ spec.sha = spec.rev
    BY <1>1 DEF IInv, CommandsFormed, Formed, SpecSound, ArtifactSpec, Directory, Artifact
<1>2. CASE SaveManifest(p)
    <2>1. final' = final /\ proc[p].pc = "save"
        BY <1>2 DEF SaveManifest, At
    <2>2. final[a] = spec.sha
        BY <2>1 DEF IInv, SavesVerified, At
    <2>3. manifest' = [manifest EXCEPT ![a] =
                          [rev |-> spec.rev, sha |-> spec.sha, saved |-> TRUE]]
        BY <1>2 DEF SaveManifest
    <2>4. manifest'[a].rev = spec.rev
        BY <1>1, <2>1, <2>3 DEF IInv, TypeOK
    <2>5. final'[a] = spec.rev
        BY <1>1, <2>1, <2>2
    <2>. QED
        BY <2>4, <2>5
<1>3. CASE Plan(p) /\ PlanStatus(spec) = "already downloaded"
    <2>1. final' = final /\ manifest' = manifest /\ proc[p].pc = "plan"
        BY <1>3 DEF Plan, At, store
    <2>2. manifest[a].saved /\ State(a) = "downloaded" /\ manifest[a].rev = spec.rev
        BY <1>3 DEF PlanStatus
    <2>3. manifest[a].sha \in {None, final[a]}
        BY <2>2 DEF State
    <2>4. manifest[a].sha # None /\ manifest[a].sha = manifest[a].rev
        BY <1>1, <2>1, <2>2 DEF IInv, ManifestsSound
    <2>. QED
        BY <2>1, <2>2, <2>3, <2>4
<1>. QED
    BY <1>2, <1>3, WhoAnswers

(* A download that answers for a known revision and digest leaves that     *)
(* revision, and no other, installed and recorded.                         *)
THEOREM DownloadsRevision == Spec => AcquiredRevision
<1>1. IInv /\ [Next]_vars =>
        [\A p \in Process :
           LET spec == proc[p].spec IN
           /\ ~At(p, "idle")
           /\ proc'[p].result \in {"ready", "already downloaded"}
           /\ spec.rev # None /\ spec.sha # None
           => /\ final'[Directory(spec)] = spec.rev
              /\ manifest'[Directory(spec)].rev = spec.rev]_vars
    BY AnswersForRevision
<1>. QED
    BY <1>1, Invariance, PTL DEF Spec, AcquiredRevision
=============================================================================
