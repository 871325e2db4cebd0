---------------------------- MODULE SealProtocol ----------------------------
(***************************************************************************)
(* What the lifecycle gate of the vault promises (the doc comments of      *)
(* LifecycleGate, claim_operating, claim_sealing and lock_with_reason):    *)
(* operations and seals exclude one another, a published seal intent       *)
(* admits no new operation, the vault opens only inside an operation and   *)
(* closes only inside a seal.                                              *)
(***************************************************************************)
CONSTANTS Clients, Principals, None

VARIABLES operators,  \* clients inside an operation
          sealers,    \* clients inside a seal
          intents,    \* clients that published a seal intent and have not ended it
          open        \* principal of the open vault, or None

vars == <<operators, sealers, intents, open>>

Free == operators = {} /\ sealers = {}

Init ==
    /\ operators = {}
    /\ sealers = {}
    /\ intents = {}
    /\ open = None

RequestSeal(c) ==
    /\ c \notin intents
    /\ intents' = intents \cup {c}
    /\ UNCHANGED <<operators, sealers, open>>

BeginSeal(c) ==
    /\ Free
    /\ intents' = intents \cup {c}
    /\ sealers' = {c}
    /\ UNCHANGED <<operators, open>>

BeginOpportunisticSeal(c) ==
    /\ Free
    /\ intents = {}
    /\ sealers' = {c}
    /\ UNCHANGED <<operators, intents, open>>

Seal(c) ==
    /\ c \in sealers
    /\ open' = None
    /\ UNCHANGED <<operators, sealers, intents>>

EndSeal(c) ==
    /\ c \in sealers
    /\ sealers' = {}
    /\ intents' = intents \ {c}
    /\ UNCHANGED <<operators, open>>

BeginOp(c) ==
    /\ Free
    /\ intents = {}
    /\ operators' = {c}
    /\ UNCHANGED <<sealers, intents, open>>

OpenVault(c) ==
    /\ c \in operators
    /\ open = None
    /\ open' \in Principals
    /\ UNCHANGED <<operators, sealers, intents>>

EndOp(c) ==
    /\ c \in operators
    /\ operators' = {}
    /\ UNCHANGED <<sealers, intents, open>>

Next ==
    \E c \in Clients :
        \/ RequestSeal(c) \/ BeginSeal(c) \/ BeginOpportunisticSeal(c) \/ Seal(c)
        \/ EndSeal(c) \/ BeginOp(c) \/ OpenVault(c) \/ EndOp(c)

Spec == Init /\ [][Next]_vars
============================================================================
