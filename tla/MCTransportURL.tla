--------------------------- MODULE MCTransportURL ---------------------------
(***************************************************************************)
(* Two TransportURLs that begin with credential A: one is moved to B or to *)
(* the default user, the other comes later.                                *)
(***************************************************************************)
EXTENDS TransportURL

CONSTANTS t1, t2, A, B

DistinctUsers == [c \in Creds |-> IF c = A THEN "u1" ELSE "u2"]
DistinctVhosts == [c \in Creds |-> IF c = A THEN "v1" ELSE "v2"]
WantedHandover == [t \in TransportURLs |-> IF t = t1 THEN {B, Admin} ELSE {A}]
WantedAny == [t \in TransportURLs |-> Creds \cup {Admin}]
BothOnA == [t \in TransportURLs |-> A]
=============================================================================
