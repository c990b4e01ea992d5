------------------------------ MODULE MCOfficeLog ------------------------------
EXTENDS OfficeLog, TLC

CONSTANTS f1, f2, s1, s2, p1, p2, e1, q1, q2

MCProject == q1 :> p1 @@ q2 :> p1
MCSignals == {{}, {"behind", "scope"}, {"money"}, {"scope", "blocked"}, {"blocked"}, {"task"}}
MCSymmetry == Permutations(FieldReqs) \cup Permutations(SaleReqs)
=============================================================================
