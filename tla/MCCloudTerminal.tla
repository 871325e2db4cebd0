-------------------------- MODULE MCCloudTerminal --------------------------
(* CloudTerminal on a small instance.                                      *)
EXTENDS CloudTerminal
============================================================================
