----------------------------- MODULE AddressPool -----------------------------
(***************************************************************************)
(* What address management promises: an owner acquires addresses on        *)
(* networks and keeps each of them unchanged until it leaves; what a       *)
(* leaving owner has goes back as a whole; no address of a network has two *)
(* owners.                                                                 *)
(***************************************************************************)
CONSTANT Owners

VARIABLES
    held,       \* held[o]: the addresses of owner o, a function on its networks
    leaving     \* owners that are gone and whose addresses are still held

poolVars == <<held, leaving>>

Nothing == [n \in {} |-> n]

PoolInit == held = [o \in Owners |-> Nothing] /\ leaving = {}

\* Owner o keeps what it has; what is new is not held by anyone.
Acquire(o) ==
    /\ o \notin leaving
    /\ held' = [held EXCEPT ![o] = held'[o]]
    /\ DOMAIN held[o] \subseteq DOMAIN held'[o]
    /\ \A n \in DOMAIN held[o] : held'[o][n] = held[o][n]
    /\ \A n \in DOMAIN held'[o] \ DOMAIN held[o] : \A p \in Owners :
           n \in DOMAIN held[p] => held[p][n] # held'[o][n]
    /\ UNCHANGED leaving

Leave(o) == leaving' = leaving \cup {o} /\ UNCHANGED held

Release(o) ==
    /\ o \in leaving
    /\ held' = [held EXCEPT ![o] = Nothing]
    /\ leaving' = leaving \ {o}

PoolNext == \E o \in Owners : Acquire(o) \/ Leave(o) \/ Release(o)

PoolSpec == PoolInit /\ [][PoolNext]_poolVars
=============================================================================
