--------------------------- MODULE MCSshTransport ---------------------------
(* SshTransport on a small instance.                                       *)
EXTENDS SshTransport
============================================================================
