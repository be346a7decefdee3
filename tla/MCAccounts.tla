----------------------------- MODULE MCAccounts -----------------------------
EXTENDS AccountProperties, TLC

Slots == Permutations(Calls)
=============================================================================
