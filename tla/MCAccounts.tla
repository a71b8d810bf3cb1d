----------------------------- MODULE MCAccounts -----------------------------
EXTENDS Accounts, TLC

Symmetric == Permutations(Emails) \cup Permutations(GroupIds) \cup Permutations(Requests)
=============================================================================
