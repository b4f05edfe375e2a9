--------------------------- MODULE MCStoreCommands ---------------------------
EXTENDS StoreCommands

CONSTANTS hf1, hf2, p1, p2

Places == [n \in Name |-> IF n = "legacy" THEN 1 ELSE 2]

ArtifactPlaces ==
    [a \in Artifact |-> CASE a = Exported -> 1 [] a = hf1 -> 2 [] a = hf2 -> 3
                         [] a = CHOOSE v \in Version : TRUE -> 4 [] OTHER -> 5]

Damaged == [NoManifest EXCEPT !.model = "damaged"]
Unmapped == [NoManifest EXCEPT !.model = "legacy"]
Mapped == [Unmapped EXCEPT !.mapped = TRUE]
Rewritten == [Mapped EXCEPT !.model = "logical"]

Start(m1, m2, c1, c2) ==
    [manifests |-> [a \in {hf1, hf2} |-> IF a = hf1 THEN m1 ELSE m2],
     cast |-> [p \in {p1, p2} |-> IF p = p1 THEN c1 ELSE c2]]

(* Two migrations at once, a migration and a second import beside an       *)
(* import, a migration beside conversions, two trainings.                  *)
Scenes ==
    {Start(Mapped, Mapped, {"migrate"}, {"migrate"}),
     Start(Unmapped, Mapped, {"migrate"}, {"migrate"}),
     Start(Rewritten, Damaged, {"migrate"}, {"migrate"}),
     Start(Mapped, Unmapped, {"migrate", "import"}, {"import"}),
     Start(Mapped, Mapped, {"migrate"}, {"convert"}),
     Start(Unmapped, Damaged, {"train"}, {"train"})}

SoundRequest == [steps |-> 10, rank |-> 8, alpha |-> 16,
                 base |-> {"directory", "config.json", "weights"},
                 dataset |-> {"file", "jsonl"}, rows |-> 1,
                 destination |-> {"parent"}, verdict |-> "none"]

(* Requests at and beyond the bounds, and each kind of error.              *)
Requests ==
    {SoundRequest,
     [SoundRequest EXCEPT !.steps = 1001],
     [SoundRequest EXCEPT !.base = @ \cup {"gguf"}],
     [SoundRequest EXCEPT !.rows = 0],
     [SoundRequest EXCEPT !.destination = {}],
     [SoundRequest EXCEPT !.verdict = "unknown"]}
=============================================================================
