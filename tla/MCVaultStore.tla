---------------------------- MODULE MCVaultStore ----------------------------
(* VaultStore on a small instance.                                         *)
EXTENDS VaultStore, TLC

\* Keys, salts, principals and ids are interchangeable.
Symmetry == Permutations(Keys) \cup Permutations(Salts)
            \cup Permutations(Principals) \cup Permutations(Ids)
============================================================================
