--------------------------- MODULE MCCloudCustody ---------------------------
(* CloudCustody on a small instance.                                       *)
EXTENDS CloudCustody, TLC

\* Requests, keys and principals are interchangeable.
Symmetry == Permutations(Requests) \cup Permutations(Keys) \cup Permutations(Principals)
============================================================================
