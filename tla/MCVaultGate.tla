---------------------------- MODULE MCVaultGate ----------------------------
(* VaultGate on a small instance.                                          *)
EXTENDS VaultGate, TLC

Symmetry == Permutations(Workers) \cup Permutations(Principals)
============================================================================
