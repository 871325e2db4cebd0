--------------------------- MODULE SessionBarrier ---------------------------
(***************************************************************************)
(* What the registry's "lifecycle generation barrier" promises (the doc    *)
(* comments of ssh_registry.rs): an open call is admitted with one key; a  *)
(* revocation, of everything or of one key, ends at once every registered  *)
(* session and every admitted open it concerns; only an open that is still *)
(* admitted becomes a session.                                             *)
(***************************************************************************)
CONSTANTS Opens, Keys

VARIABLES admitted,   \* <<open, key>> pairs that may still become sessions
          registered  \* <<open, key>> pairs that are sessions

vars == <<admitted, registered>>

Init == admitted = {} /\ registered = {}

Admit(o, k) ==
    /\ \A x \in admitted \cup registered : x[1] # o
    /\ admitted' = admitted \cup {<<o, k>>}
    /\ UNCHANGED registered

Register(x) ==
    /\ x \in admitted
    /\ admitted' = admitted \ {x}
    /\ registered' = registered \cup {x}

\* A failed open, a close, the end of a transport.
Drop(x) ==
    /\ admitted' = admitted \ {x}
    /\ registered' = registered \ {x}

RevokeAll == admitted' = {} /\ registered' = {}

RevokeKey(k) ==
    /\ admitted' = {x \in admitted : x[2] # k}
    /\ registered' = {x \in registered : x[2] # k}

Next ==
    \/ \E o \in Opens, k \in Keys : Admit(o, k) \/ Register(<<o, k>>) \/ Drop(<<o, k>>)
    \/ RevokeAll
    \/ \E k \in Keys : RevokeKey(k)

Spec == Init /\ [][Next]_vars
============================================================================
