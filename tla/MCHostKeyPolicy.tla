-------------------------- MODULE MCHostKeyPolicy --------------------------
(* HostKeyPolicy on a small instance.                                      *)
EXTENDS HostKeyPolicy, TLC

\* Open calls, principals and keys are interchangeable.
Symmetry == Permutations(Opens) \cup Permutations(Principals) \cup Permutations(Keys)
============================================================================
