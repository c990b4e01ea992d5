--------------------------- MODULE MCEstimateDraft ---------------------------
(* The lines an edit or an approval can open the fences for: a suggested   *)
(* one at a rate-card price, and an unpriced allowance for which the model *)
(* named a rate standard.                                                  *)
EXTENDS EstimateDraft, TLC

CONSTANTS line1, row1

MCLine(source, cents, ref, suggested) ==
    [id |-> line1, source |-> source, born |-> source, cents |-> cents,
     ref |-> ref, suggested |-> suggested, added |-> FALSE,
     removed |-> FALSE, approved |-> FALSE]

MCAssemblies ==
    { <<MCLine("model", 1, "card", TRUE)>>,
      <<MCLine("allowance", None, "standard", FALSE)>> }

CallerSymmetry == Permutations(Requests)
=============================================================================
