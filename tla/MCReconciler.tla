------------------------------ MODULE MCReconciler ------------------------------
EXTENDS Reconciler, TLC
Symmetric == Permutations(Hosts) \union Permutations(Slots) \union Permutations(Controls)
================================================================================
