------------------------- MODULE AcquisitionBindings -------------------------
(***************************************************************************)
(* The two registries a repository passes through before it is acquired:   *)
(* identity-admission.json and acquisition-bindings.json.  Each operator   *)
(* is the check a command makes of the file it has read; `Answer` says     *)
(* "write" when the command goes on to replace the whole file.  A file     *)
(* that does not parse is refused by _load, never taken for an empty one.  *)
(***************************************************************************)
CONSTANTS Locator,    \* (source, repository) pairs
          Supported,  \* those of a source downloads are supported from
          Curated,    \* those with a curated identity
          Model,      \* logical model identities
          ModelOf,    \* resolve_admitted_model_id: curated, or derived
          NoLocator,
          Torn        \* what does not parse, or is of no single revision

ASSUME LocatorAssumption ==
    /\ Supported \subseteq Locator /\ Curated \subseteq Locator
    /\ NoLocator \notin Locator /\ Torn \notin Locator \cup {NoLocator}
ASSUME IdentityAssumption == ModelOf \in [Locator -> Model]

Bindings == [Model -> Locator \cup {NoLocator}]

Admissions == [Locator -> BOOLEAN]

Nobody == [l \in Locator |-> FALSE]

ASSUME TornAssumption == Torn \notin Bindings \cup Admissions

Unbound == [m \in Model |-> NoLocator]

CuratedLocators(m) == {l \in Curated : ModelOf[l] = m}

(* identity_admission.register of the identity a locator resolves to.      *)
AnswerRegister(known, l) ==
    IF known = Torn THEN "rejected"
    ELSE IF known[l] THEN "ok"
    ELSE IF \E o \in Locator : known[o] /\ ModelOf[o] = ModelOf[l] THEN "rejected"
    ELSE "write"

(* mutant: no forward identity check.                                      *)
RegistrableAnywhere(m, l) ==
    /\ l \in Supported
    /\ CuratedLocators(m) # {} => l \in CuratedLocators(m)

Registrable(m, l) ==
    /\ l \in Supported
    /\ ModelOf[l] = m
    /\ CuratedLocators(m) # {} => l \in CuratedLocators(m)

(* bind never overwrites.                                                  *)
AnswerBind(bound, m, l) ==
    IF ~Registrable(m, l) \/ bound = Torn \/ bound[m] \notin {NoLocator, l} THEN "rejected"
    ELSE IF bound[m] = l THEN "ok" ELSE "write"

AnswerUpdate(bound, m, l) ==
    IF ~Registrable(m, l) \/ bound = Torn \/ bound[m] = NoLocator THEN "rejected"
    ELSE IF bound[m] = l THEN "ok" ELSE "write"

AnswerDelete(bound, m) == IF bound = Torn \/ bound[m] = NoLocator THEN "rejected" ELSE "write"

(* A unique curated locator of a supported source; else the binding, or    *)
(* the error of a file that does not parse.                                *)
ResolveAcquisitionLocator(bound, m) ==
    IF \E l \in Supported : CuratedLocators(m) = {l}
    THEN CHOOSE l \in Supported : CuratedLocators(m) = {l}
    ELSE IF bound = Torn THEN Torn
    ELSE IF bound[m] \in Supported THEN bound[m] ELSE NoLocator
=============================================================================
