--------------------------- MODULE MCCloudSession ---------------------------
\* Two requests and two logins: one request takes the session down while the other
\* is at any of its steps, under the same session or the next one.
EXTENDS CloudSession
============================================================================
