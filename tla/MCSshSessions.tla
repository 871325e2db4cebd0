--------------------------- MODULE MCSshSessions ---------------------------
(* SshSessions on a small instance.                                        *)
EXTENDS SshSessions, TLC

Symmetry == Permutations(Openers) \cup Permutations(Callers) \cup Permutations(Principals)
============================================================================
