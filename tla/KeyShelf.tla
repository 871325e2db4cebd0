------------------------------ MODULE KeyShelf ------------------------------
(***************************************************************************)
(* What the vault promises to those that import, delete and lease keys: a  *)
(* change it acknowledged is what every later lease finds, after locks,    *)
(* crashes and restarts too, until the vault is wiped; a change it         *)
(* reported as failed may or may not have happened, and may come undone;   *)
(* a closed vault leases nothing.                                          *)
(***************************************************************************)
CONSTANTS Principals, Ids, Keys, None

Slots == Principals \X Ids

VARIABLES
    openFor, \* principal the vault is open for, or None
    offered, \* key a lease of each slot gets, or None
    may      \* what each slot may hold: one value once a change is acknowledged

shelfVars == <<openFor, offered, may>>

Nothing == [s \in Slots |-> None]

ShelfInit ==
    /\ openFor = None
    /\ offered = Nothing
    /\ may = [s \in Slots |-> {None}]

Open(p) ==
    /\ openFor = None
    /\ openFor' = p
    /\ offered' \in [Slots -> Keys \cup {None}]
    /\ \A s \in Slots : offered'[s] \in may[s]
    /\ UNCHANGED may

\* A lock, a seal, a crash.
Close ==
    /\ openFor' = None
    /\ offered' = Nothing
    /\ UNCHANGED may

\* The import of key v, or with v = None a deletion, was acknowledged ...
Settle(s, v) ==
    /\ openFor = s[1]
    /\ offered' = [offered EXCEPT ![s] = v]
    /\ may' = [may EXCEPT ![s] = {v}]
    /\ UNCHANGED openFor

\* ... or failed.
Attempt(s, v) ==
    /\ openFor = s[1]
    /\ may' = [may EXCEPT ![s] = @ \cup {v}]
    /\ \E k \in may'[s] : offered' = [offered EXCEPT ![s] = k]
    /\ UNCHANGED openFor

\* A reset deleted the snapshot.
Wipe ==
    /\ openFor = None
    /\ may' = [s \in Slots |-> {None}]
    /\ UNCHANGED <<openFor, offered>>

ShelfNext ==
    \/ \E p \in Principals : Open(p)
    \/ Close
    \/ \E s \in Slots, v \in Keys \cup {None} : Settle(s, v) \/ Attempt(s, v)
    \/ Wipe

ShelfSpec == ShelfInit /\ [][ShelfNext]_shelfVars
============================================================================
