---------------------------- MODULE MCEstimateRun -----------------------------
EXTENDS EstimateRun, TLC

CONSTANTS r1, r2, t1, t2, cabinetry, tile

MCSymmetry == Permutations(Requests)

Says(scope, priced, says, carded) ==
  [scope |-> scope, priced |-> priced, says |-> says, carded |-> carded]

Item(scope, rated, counts) == [scope |-> scope, rated |-> rated, counts |-> counts]

Answer(summary, items, total, gaps) ==
  [summary |-> summary, items |-> items, total |-> total, gaps |-> gaps]

\* A company price without a total; one under a word the model made up; a
\* price of the model's own; itemized lines on and off the card; one whose
\* quantity rounds to no cent.
MCAnswers ==
  {Answer({Says(cabinetry, TRUE, "HIGH", TRUE)}, {}, {}, {}),
   Answer({Says(cabinetry, TRUE, "certain", TRUE)}, {}, {1}, {tile}),
   Answer({Says(cabinetry, TRUE, "HIGH", TRUE), Says(tile, TRUE, "HIGH", FALSE)}, {}, {1}, {}),
   Answer({Says(tile, TRUE, "LOW", TRUE)}, {Item(cabinetry, TRUE, TRUE), Item(tile, FALSE, FALSE)}, {}, {}),
   Answer({}, {Item(tile, TRUE, FALSE)}, {}, {})}

MCBands ==
  {[s \in Scopes |-> "HIGH"],
   [s \in Scopes |-> IF s = cabinetry THEN "LOW" ELSE "none"],
   [s \in Scopes |-> IF s = cabinetry THEN "unasked" ELSE "HIGH"]}

MCFallback == [t \in Texts |-> IF t = t2 THEN {tile} ELSE {}]
=============================================================================
