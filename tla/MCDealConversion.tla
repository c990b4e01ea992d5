-------------------------- MODULE MCDealConversion --------------------------
EXTENDS DealConversion, TLC

CallerSymmetry == Permutations(Requests)
=============================================================================
