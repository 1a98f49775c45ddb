---------------------------- MODULE NetworkProofs -----------------------------
(***************************************************************************)
(* Addresses, for any number of IPSets, any NetConfigs and any requests:   *)
(* as long as the controller lists Reservations as they are (FreshCache),  *)
(* no address is given out twice, and the Reservations implement the       *)
(* address pool of module AddressPool.                                     *)
(*                                                                         *)
(* Both rest on one fact about EnsureReservation: it extends the           *)
(* Reservation of one IPSet by addresses that no listed Reservation has.   *)
(* Admission, the queue and the order of the reconciles play no part.      *)
(*                                                                         *)
(* With a stale list too, a Ready IPSet has an address of the right subnet *)
(* for every network it asked for.  This one rests on admission: the       *)
(* invariant ReadyInv ties each Reservation to the request it was made for *)
(* and to the CIDRs that the webhook of NetConfig keeps.                   *)
(*                                                                         *)
(* Routes, for any planes, pods, nodes and number of events and failures:  *)
(* a BGPConfiguration that is gone left no routes.                         *)
(***************************************************************************)
EXTENDS IPAM, BGPRoutes, FiniteSetTheorems, TLAPS

---------------------------------------------------------------------------
(* IPAM: addresses and Reservations                                        *)

\* One Reservation per IPSet, with its entries in S.
Record(S) == [st : {"absent", "live"}, fin : BOOLEAN, orphan : BOOLEAN, spec : S]
Typed(S) == reservations \in [IPSets -> Record(S)]

\* The Reservations are records with these fields.
Shape == \E S : Typed(S)

\* What has lost its owner was there.
OrphansLive == \A i \in IPSets : reservations[i].orphan => reservations[i].st = "live"

\* AssignIP never answers with an address that is reserved, be it the first
\* one available or a fixed one.
LEMMA AssignedNotReserved ==
    ASSUME NEW s, NEW fixed, NEW reserved, NEW a \in AssignIP(s, fixed, reserved)
    PROVE  a \notin reserved
<1>1. CASE fixed = Unset
    <2>1. a \in FirstAvailable(s, reserved)
        BY <1>1 DEF AssignIP
    <2>2. PICK p \in Available(s, reserved) : a = p[2]
        BY <2>1, Zenon DEF FirstAvailable
    <2>3. PICK k \in DOMAIN s.ranges : \E b \in s.ranges[k][1]..s.ranges[k][2] :
              b \notin reserved /\ p = <<k, b>>
        BY <2>2, Zenon DEF Available
    <2> QED
        BY <2>2, <2>3
<1>2. CASE fixed # Unset
    BY <1>2 DEF AssignIP
<1> QED
    BY <1>1, <1>2

\* What ensureReservation patches into a Reservation: everything it had, and
\* new entries only with addresses that no listed Reservation has on the network.
LEMMA ExtendedKeepsAndAddsFree ==
    ASSUME NEW req, NEW spec, NEW list
    PROVE  LET new == Extended(req, spec, AddressesFor(req, spec, list)) IN
           /\ DOMAIN spec \subseteq DOMAIN new
           /\ \A n \in DOMAIN spec : new[n] = spec[n]
           /\ \A n \in DOMAIN new \ DOMAIN spec : new[n] \notin Reserved(list, n)
<1> DEFINE found == AddressesFor(req, spec, list)
           new == Extended(req, spec, found)
           answers(n) == UNION {found[k] : k \in {j \in Served(found) : req[j].name = n}}
<1>1. /\ DOMAIN new = DOMAIN spec \cup {req[k].name : k \in Served(found)}
      /\ \A n \in DOMAIN spec : new[n] = spec[n]
      /\ \A n \in DOMAIN new \ DOMAIN spec : new[n] = CHOOSE a \in answers(n) : TRUE
    BY Zenon DEF Extended
<1>2. ASSUME NEW n \in DOMAIN new \ DOMAIN spec
      PROVE  new[n] \notin Reserved(list, n)
    <2>1. PICK k \in Served(found) : req[k].name = n
        BY <1>1
    <2>2. found[k] # {}
        BY <2>1 DEF Served
    <2>3. answers(n) # {}
        BY <2>1, <2>2, Zenon
    <2>4. new[n] \in answers(n)
        BY <1>1, <1>2, <2>3
    <2>5. PICK j \in Served(found) : req[j].name = n /\ new[n] \in found[j]
        BY <2>4, Zenon
    <2>6. j \in DOMAIN req
        BY <2>5 DEF Served, AddressesFor
    <2>7. PICK s \in Subnets(netcfg, req[j]) :
              new[n] \in AssignIP(s, req[j].fixed, Reserved(list, req[j].name))
        <3>1. found[j] = UNION {IF req[j].name \in DOMAIN spec THEN {spec[req[j].name]}
                                ELSE AssignIP(s, req[j].fixed, Reserved(list, req[j].name))
                                  : s \in Subnets(netcfg, req[j])}
            BY <2>6, Zenon DEF AddressesFor
        <3>2. req[j].name \notin DOMAIN spec
            BY <1>2, <2>5
        <3> HIDE DEF found, new
        <3> QED
            BY <2>5, <3>1, <3>2, Zenon
    <2> QED
        BY <2>5, <2>7, AssignedNotReserved
<1> HIDE DEF found
<1>3. /\ DOMAIN spec \subseteq DOMAIN new
      /\ \A n \in DOMAIN spec : new[n] = spec[n]
      /\ \A n \in DOMAIN new \ DOMAIN spec : new[n] \notin Reserved(list, n)
    BY <1>1, <1>2
<1> QED
    BY <1>3 DEF found

-----------------------------------------------------------------------------
(* The steps that change a Reservation *)

\* Every step leaves the Reservations alone, extends the one of an IPSet whose
\* object is there (EnsureReservation), marks it (ReleaseReservation,
\* IPRemoveFinalizer) or deletes one whose owner is gone (CollectReservation).
LEMMA StepsOfReservations ==
    ASSUME Shape, FreshCache, [IPAMNext]_ipamVars
    PROVE  \/ UNCHANGED reservations
           \/ \E i \in IPSets : \E new :
                 /\ ~reservations[i].orphan
                 /\ reservations' = [reservations EXCEPT ![i] =
                                        [st |-> "live", fin |-> TRUE, orphan |-> FALSE, spec |-> new]]
                 /\ DOMAIN reservations[i].spec \subseteq DOMAIN new
                 /\ \A n \in DOMAIN reservations[i].spec : new[n] = reservations[i].spec[n]
                 /\ \A n \in DOMAIN new \ DOMAIN reservations[i].spec : new[n] \notin Reserved(reservations, n)
           \/ \E i \in IPSets : reservations' = [reservations EXCEPT ![i].fin = FALSE]
           \/ reservations' = [reservations EXCEPT ![ipRec.i].orphan = (reservations[ipRec.i].st = "live")]
           \/ \E i \in IPSets : /\ reservations[i].orphan
                                /\ reservations' = [reservations EXCEPT ![i] = NoReservation]
<1>1. ASSUME NEW i \in IPSets, EnsureReservation(i)
      PROVE  \E new :
                 /\ ~reservations[i].orphan
                 /\ reservations' = [reservations EXCEPT ![i] =
                                        [st |-> "live", fin |-> TRUE, orphan |-> FALSE, spec |-> new]]
                 /\ DOMAIN reservations[i].spec \subseteq DOMAIN new
                 /\ \A n \in DOMAIN reservations[i].spec : new[n] = reservations[i].spec[n]
                 /\ \A n \in DOMAIN new \ DOMAIN reservations[i].spec : new[n] \notin Reserved(reservations, n)
    <2> DEFINE new == Extended(ipsets[i].spec, reservations[i].spec,
                               AddressesFor(ipsets[i].spec, reservations[i].spec, reservations))
    <2>1. /\ ~reservations[i].orphan
          /\ resCache = reservations
          /\ reservations' = [reservations EXCEPT ![i] =
                                 [st |-> "live", fin |-> TRUE, orphan |-> FALSE, spec |-> new]]
        BY <1>1, Zenon DEF EnsureReservation
    <2>2. /\ DOMAIN reservations[i].spec \subseteq DOMAIN new
          /\ \A n \in DOMAIN reservations[i].spec : new[n] = reservations[i].spec[n]
          /\ \A n \in DOMAIN new \ DOMAIN reservations[i].spec : new[n] \notin Reserved(reservations, n)
        BY ExtendedKeepsAndAddsFree, Zenon
    <2> HIDE DEF new
    <2> QED
        BY <2>1, <2>2, Zenon
<1>2. ASSUME NEW i \in IPSets, ReleaseReservation(i)
      PROVE  reservations' = [reservations EXCEPT ![i].fin = FALSE]
    BY <1>2, Zenon DEF ReleaseReservation
<1>3. CASE IPRemoveFinalizer
    BY <1>3, Zenon DEF IPRemoveFinalizer
<1>4. ASSUME NEW i \in IPSets, CollectReservation(i)
      PROVE  reservations[i].orphan /\ reservations' = [reservations EXCEPT ![i] = NoReservation]
    BY <1>4, Zenon DEF CollectReservation
<1>5. CASE \/ \E i \in IPSets : IPRegister(i) \/ ReservationFails(i) \/ DeleteIPSet(i)
           \/ IPPatchStatus \/ SyncReservations \/ IPAbort \/ DeleteNetConfig
           \/ \E nc \in NetConfigs : EditNetConfig(nc)
           \/ \E i \in IPSets, req \in Requests :
                  UpdateIPSet(i, req) \/ \E im \in BOOLEAN : CreateIPSet(i, req, im)
           \/ UNCHANGED ipamVars
    <2>1. UNCHANGED reservations
        BY <1>5, Zenon DEF IPRegister, ReservationFails, DeleteIPSet, IPPatchStatus, SyncReservations,
           IPAbort, DeleteNetConfig, EditNetConfig, UpdateIPSet, CreateIPSet, ipamVars
    <2> QED
        BY <2>1
<1> QED
    BY <1>1, <1>2, <1>3, <1>4, <1>5, Zenon DEF IPAMNext, IPSetStep

\* The record that stands for no Reservation has no entries.
LEMMA NoReservationRecord ==
    ASSUME NEW S, NoReservation.spec \in S
    PROVE  NoReservation \in Record(S)
<1> DEFINE nothing == [n \in {} |-> n]
<1>1. NoReservation = [st |-> "absent", fin |-> FALSE, orphan |-> FALSE, spec |-> nothing]
    BY DEF NoReservation
<1> HIDE DEF nothing
<1>2. nothing \in S
    BY <1>1
<1> QED
    BY <1>1, <1>2 DEF Record

\* A Reservation is replaced by a whole record.
LEMMA RecordAdded ==
    ASSUME NEW S, NEW T, S \subseteq T, Typed(S), NEW i \in IPSets, NEW r \in Record(T),
           reservations' = [reservations EXCEPT ![i] = r]
    PROVE  Typed(T)'
<1>1. Record(S) \subseteq Record(T)
    BY DEF Record
<1>2. reservations \in [IPSets -> Record(T)]
    BY <1>1 DEF Typed
<1> QED
    BY <1>2 DEF Typed

\* The shape of the Reservations is kept.
LEMMA ShapeKept ==
    ASSUME Shape, FreshCache, [IPAMNext]_ipamVars
    PROVE  Shape'
<1>0. PICK S : Typed(S)
    BY DEF Shape
<1>1. CASE UNCHANGED reservations
    <2>1. Typed(S)'
        BY <1>0, <1>1 DEF Typed, Record
    <2> QED
        BY <2>1, Zenon DEF Shape
<1>2. ASSUME NEW i \in IPSets, NEW new,
             reservations' = [reservations EXCEPT ![i] =
                                 [st |-> "live", fin |-> TRUE, orphan |-> FALSE, spec |-> new]]
      PROVE  Shape'
    <2> DEFINE T == S \cup {new}
               r == [st |-> "live", fin |-> TRUE, orphan |-> FALSE, spec |-> new]
    <2>1. new \in T /\ S \subseteq T
        OBVIOUS
    <2> HIDE DEF T
    <2>2. r \in Record(T)
        BY <2>1 DEF Record
    <2> HIDE DEF r
    <2>3. reservations' = [reservations EXCEPT ![i] = r]
        BY <1>2 DEF r
    <2>4. Typed(T)'
        BY <1>0, <2>1, <2>2, <2>3, RecordAdded, Zenon
    <2> QED
        BY <2>4, Zenon DEF Shape
<1>3. ASSUME NEW i \in IPSets, reservations' = [reservations EXCEPT ![i].fin = FALSE]
      PROVE  Shape'
    <2>1. Typed(S)'
        BY <1>0, <1>3, Zenon DEF Typed, Record
    <2> QED
        BY <2>1, Zenon DEF Shape
<1>4. ASSUME reservations' = [reservations EXCEPT ![ipRec.i].orphan = (reservations[ipRec.i].st = "live")]
      PROVE  Shape'
    <2>1. Typed(S)'
        BY <1>0, <1>4, ZenonT(40) DEF Typed, Record
    <2> QED
        BY <2>1, Zenon DEF Shape
<1>5. ASSUME NEW i \in IPSets, reservations' = [reservations EXCEPT ![i] = NoReservation]
      PROVE  Shape'
    <2> DEFINE T == S \cup {NoReservation.spec}
    <2>1. NoReservation.spec \in T /\ S \subseteq T
        OBVIOUS
    <2> HIDE DEF T
    <2>2. NoReservation \in Record(T)
        BY <2>1, NoReservationRecord
    <2>3. Typed(T)'
        BY <1>0, <1>5, <2>1, <2>2, RecordAdded, Zenon
    <2> QED
        BY <2>3, Zenon DEF Shape
<1> QED
    BY StepsOfReservations, <1>1, <1>2, <1>3, <1>4, <1>5, Zenon

-----------------------------------------------------------------------------
(* Theorems *)

\* The initial state has the shape, and nothing is reserved.
LEMMA InitialReservations ==
    ASSUME IPAMInit
    PROVE  /\ Shape /\ OrphansLive
           /\ reservations = [i \in IPSets |-> NoReservation]
<1>1. reservations = [i \in IPSets |-> NoReservation]
    BY DEF IPAMInit
<1>2. Typed({NoReservation.spec})
    <2>1. NoReservation \in Record({NoReservation.spec})
        BY NoReservationRecord
    <2> QED
        BY <1>1, <2>1 DEF Typed
<1>3. OrphansLive
    BY <1>1 DEF OrphansLive, NoReservation
<1> QED
    BY <1>1, <1>2, <1>3, Zenon DEF Shape


\* Only IPRemoveFinalizer makes an orphan, of a Reservation that is there.
LEMMA OrphansLiveKept ==
    ASSUME Shape, OrphansLive, FreshCache, [IPAMNext]_ipamVars
    PROVE  OrphansLive'
<1>0. PICK S : Typed(S)
    BY DEF Shape
<1>1. CASE UNCHANGED reservations
    BY <1>1 DEF OrphansLive
<1>2. ASSUME NEW i \in IPSets, NEW new,
             reservations' = [reservations EXCEPT ![i] =
                                 [st |-> "live", fin |-> TRUE, orphan |-> FALSE, spec |-> new]]
      PROVE  OrphansLive'
    BY <1>0, <1>2 DEF OrphansLive, Typed
<1>3. ASSUME NEW i \in IPSets, reservations' = [reservations EXCEPT ![i].fin = FALSE]
      PROVE  OrphansLive'
    BY <1>0, <1>3 DEF OrphansLive, Typed, Record
<1>4. CASE reservations' = [reservations EXCEPT ![ipRec.i].orphan = (reservations[ipRec.i].st = "live")]
    BY <1>0, <1>4 DEF OrphansLive, Typed, Record
<1>5. ASSUME NEW i \in IPSets, reservations' = [reservations EXCEPT ![i] = NoReservation]
      PROVE  OrphansLive'
    BY <1>0, <1>5 DEF OrphansLive, Typed, NoReservation
<1> QED
    BY StepsOfReservations, <1>1, <1>2, <1>3, <1>4, <1>5, Zenon

\* What each kind of step does to the entries and to the orphans.
LEMMA StepsOfEntries ==
    ASSUME Shape, OrphansLive, FreshCache, [IPAMNext]_ipamVars
    PROVE  \/ /\ \A j \in IPSets : reservations'[j].spec = reservations[j].spec
              /\ \/ \A j \in IPSets : reservations'[j].orphan = reservations[j].orphan
                 \/ \E i \in IPSets : /\ reservations'[i].orphan
                                      /\ \A j \in IPSets \ {i} : reservations'[j].orphan = reservations[j].orphan
           \/ \E i \in IPSets :
                 /\ ~reservations[i].orphan /\ ~reservations'[i].orphan
                 /\ \A j \in IPSets \ {i} : reservations'[j] = reservations[j]
                 /\ DOMAIN reservations[i].spec \subseteq DOMAIN reservations'[i].spec
                 /\ \A n \in DOMAIN reservations[i].spec : reservations'[i].spec[n] = reservations[i].spec[n]
                 /\ \A n \in DOMAIN reservations'[i].spec \ DOMAIN reservations[i].spec :
                        reservations'[i].spec[n] \notin Reserved(reservations, n)
           \/ \E i \in IPSets :
                 /\ reservations[i].orphan /\ ~reservations'[i].orphan
                 /\ \A j \in IPSets \ {i} : reservations'[j] = reservations[j]
                 /\ reservations'[i].spec = Pool!Nothing
<1>0. PICK S : Typed(S)
    BY DEF Shape
<1>1. CASE UNCHANGED reservations
    BY <1>1
<1>2. ASSUME NEW i \in IPSets, NEW new,
             ~reservations[i].orphan,
             reservations' = [reservations EXCEPT ![i] =
                                 [st |-> "live", fin |-> TRUE, orphan |-> FALSE, spec |-> new]],
             DOMAIN reservations[i].spec \subseteq DOMAIN new,
             \A n \in DOMAIN reservations[i].spec : new[n] = reservations[i].spec[n],
             \A n \in DOMAIN new \ DOMAIN reservations[i].spec : new[n] \notin Reserved(reservations, n)
      PROVE  /\ ~reservations[i].orphan /\ ~reservations'[i].orphan
             /\ \A j \in IPSets \ {i} : reservations'[j] = reservations[j]
             /\ DOMAIN reservations[i].spec \subseteq DOMAIN reservations'[i].spec
             /\ \A n \in DOMAIN reservations[i].spec : reservations'[i].spec[n] = reservations[i].spec[n]
             /\ \A n \in DOMAIN reservations'[i].spec \ DOMAIN reservations[i].spec :
                    reservations'[i].spec[n] \notin Reserved(reservations, n)
    <2>1. reservations'[i].spec = new /\ ~reservations'[i].orphan
        BY <1>0, <1>2 DEF Typed
    <2>2. \A j \in IPSets \ {i} : reservations'[j] = reservations[j]
        BY <1>0, <1>2 DEF Typed
    <2> QED
        BY <1>2, <2>1, <2>2, Zenon
<1>3. ASSUME NEW i \in IPSets, reservations' = [reservations EXCEPT ![i].fin = FALSE]
      PROVE  \A j \in IPSets : /\ reservations'[j].spec = reservations[j].spec
                               /\ reservations'[j].orphan = reservations[j].orphan
    BY <1>0, <1>3 DEF Typed, Record
<1>4. CASE reservations' = [reservations EXCEPT ![ipRec.i].orphan = (reservations[ipRec.i].st = "live")]
    <2>1. \A j \in IPSets : reservations'[j].spec = reservations[j].spec
        BY <1>0, <1>4 DEF Typed, Record
    <2>2. \A j \in IPSets \ {ipRec.i} : reservations'[j].orphan = reservations[j].orphan
        BY <1>0, <1>4 DEF Typed, Record
    <2>3. CASE ipRec.i \notin IPSets
        BY <2>1, <2>2, <2>3, Zenon
    <2>4. CASE ipRec.i \in IPSets /\ reservations[ipRec.i].st = "live"
        <3>1. reservations'[ipRec.i].orphan
            BY <1>0, <1>4, <2>4, ZenonT(40) DEF Typed, Record
        <3> QED
            BY <2>1, <2>2, <2>4, <3>1, Zenon
    <2>5. CASE ipRec.i \in IPSets /\ reservations[ipRec.i].st # "live"
        <3>1. reservations'[ipRec.i].orphan = FALSE
            BY <1>0, <1>4, <2>5, Zenon DEF Typed, Record
        <3>2. reservations[ipRec.i].orphan = FALSE
            BY <1>0, <2>5 DEF Typed, Record, OrphansLive
        <3>3. \A j \in IPSets : reservations'[j].orphan = reservations[j].orphan
            BY <2>2, <3>1, <3>2, Zenon
        <3> QED
            BY <2>1, <3>3, Zenon
    <2> QED
        BY <2>3, <2>4, <2>5, Zenon
<1>5. ASSUME NEW i \in IPSets, reservations[i].orphan,
             reservations' = [reservations EXCEPT ![i] = NoReservation]
      PROVE  /\ reservations[i].orphan /\ ~reservations'[i].orphan
             /\ \A j \in IPSets \ {i} : reservations'[j] = reservations[j]
             /\ reservations'[i].spec = Pool!Nothing
    <2>1. reservations'[i] = NoReservation
        BY <1>0, <1>5 DEF Typed
    <2>2. \A j \in IPSets \ {i} : reservations'[j] = reservations[j]
        BY <1>0, <1>5 DEF Typed
    <2> QED
        BY <1>5, <2>1, <2>2 DEF NoReservation, Pool!Nothing
<1> QED
    BY StepsOfReservations, <1>1, <1>2, <1>3, <1>4, <1>5, ZenonT(40)

\* The addresses stay exclusive: only EnsureReservation adds any, and those are
\* free.
LEMMA UniqueKept ==
    ASSUME Shape, OrphansLive, UniqueAddresses, FreshCache, [IPAMNext]_ipamVars
    PROVE  UniqueAddresses'
<1>1. CASE \A j \in IPSets : reservations'[j].spec = reservations[j].spec
    BY <1>1 DEF UniqueAddresses
<1>2. ASSUME NEW i \in IPSets,
             \A j \in IPSets \ {i} : reservations'[j] = reservations[j],
             \A n \in DOMAIN reservations[i].spec : reservations'[i].spec[n] = reservations[i].spec[n],
             \A n \in DOMAIN reservations'[i].spec \ DOMAIN reservations[i].spec :
                 reservations'[i].spec[n] \notin Reserved(reservations, n)
      PROVE  UniqueAddresses'
    <2>1. ASSUME NEW j \in IPSets \ {i},
                 NEW n \in DOMAIN reservations'[i].spec \cap DOMAIN reservations[j].spec
          PROVE  reservations'[i].spec[n] # reservations[j].spec[n]
        <3>1. CASE n \in DOMAIN reservations[i].spec
            <4>1. reservations[i].spec[n] # reservations[j].spec[n]
                BY <2>1, <3>1 DEF UniqueAddresses
            <4> QED
                BY <1>2, <3>1, <4>1
        <3>2. CASE n \notin DOMAIN reservations[i].spec
            <4>1. reservations[j].spec[n] \in Reserved(reservations, n)
                BY <2>1 DEF Reserved
            <4> QED
                BY <1>2, <2>1, <3>2, <4>1, Zenon
        <3> QED
            BY <3>1, <3>2, Zenon
    <2> QED
        <3>1. \A j \in IPSets \ {i} : reservations'[j].spec = reservations[j].spec
            BY <1>2
        <3> QED
            BY <2>1, <3>1 DEF UniqueAddresses
<1>3. ASSUME NEW i \in IPSets,
             \A j \in IPSets \ {i} : reservations'[j] = reservations[j],
             reservations'[i].spec = Pool!Nothing
      PROVE  UniqueAddresses'
    <2>1. DOMAIN reservations'[i].spec = {}
        BY <1>3 DEF Pool!Nothing
    <2> QED
        BY <1>3, <2>1 DEF UniqueAddresses
<1> QED
    BY StepsOfEntries, <1>1, <1>2, <1>3, Zenon

\* No address of a network is reserved twice, for any number of IPSets, networks
\* and requests, when Reservations are listed as they are.
THEOREM AddressesUnique ==
    ASSUME FreshCache
    PROVE  IPAMSpec => []UniqueAddresses
<1> DEFINE Inv == Shape /\ OrphansLive /\ UniqueAddresses
<1>1. IPAMInit => Inv
    <2>1. SUFFICES ASSUME IPAMInit PROVE UniqueAddresses
        BY InitialReservations
    <2> QED
        BY <2>1, InitialReservations DEF UniqueAddresses, NoReservation
<1>2. Inv /\ [IPAMNext]_ipamVars => Inv'
    BY ShapeKept, OrphansLiveKept, UniqueKept, Zenon
<1> QED
    BY <1>1, <1>2, PTL DEF IPAMSpec

\* One step of address management is a step of the pool, or leaves it alone.
LEMMA PoolStep ==
    ASSUME Shape, OrphansLive, FreshCache, [IPAMNext]_ipamVars
    PROVE  [Pool!PoolNext]_(Pool!poolVars)
<1> DEFINE held == [i \in IPSets |-> reservations[i].spec]
           leaving == {i \in IPSets : reservations[i].orphan}
<1>1. ASSUME \A j \in IPSets : reservations'[j].spec = reservations[j].spec
      PROVE  held' = held
    BY <1>1
<1>2. ASSUME \A j \in IPSets : reservations'[j].orphan = reservations[j].orphan
      PROVE  leaving' = leaving
    BY <1>2
<1>3. ASSUME NEW i \in IPSets, reservations'[i].orphan,
             \A j \in IPSets \ {i} : reservations'[j].orphan = reservations[j].orphan
      PROVE  leaving' = leaving \cup {i}
    BY <1>3
<1>4. ASSUME NEW i \in IPSets, ~reservations'[i].orphan,
             \A j \in IPSets \ {i} : reservations'[j] = reservations[j]
      PROVE  leaving' = leaving \ {i} /\ held' = [held EXCEPT ![i] = held'[i]]
    <2>1. \A j \in IPSets \ {i} : /\ reservations'[j].spec = reservations[j].spec
                                  /\ reservations'[j].orphan = reservations[j].orphan
        BY <1>4
    <2>2. leaving' = leaving \ {i}
        BY <1>4, <2>1
    <2>3. held' = [held EXCEPT ![i] = held'[i]]
        BY <2>1, Zenon
    <2> QED
        BY <2>2, <2>3
<1>5. ASSUME NEW i \in IPSets,
             ~reservations[i].orphan /\ ~reservations'[i].orphan,
             \A j \in IPSets \ {i} : reservations'[j] = reservations[j],
             DOMAIN reservations[i].spec \subseteq DOMAIN reservations'[i].spec,
             \A n \in DOMAIN reservations[i].spec : reservations'[i].spec[n] = reservations[i].spec[n],
             \A n \in DOMAIN reservations'[i].spec \ DOMAIN reservations[i].spec :
                 reservations'[i].spec[n] \notin Reserved(reservations, n)
      PROVE  Pool!Acquire(i)
    <2>1. i \notin leaving /\ leaving' = leaving /\ held' = [held EXCEPT ![i] = held'[i]]
        BY <1>4, <1>5
    <2>2. held[i] = reservations[i].spec /\ held'[i] = reservations'[i].spec
        BY <1>5
    <2>3. ASSUME NEW n \in DOMAIN held'[i] \ DOMAIN held[i], NEW p \in IPSets, n \in DOMAIN held[p]
          PROVE  held[p][n] # held'[i][n]
        <3>1. held[p] = reservations[p].spec
            BY Zenon
        <3>2. held[p][n] \in Reserved(reservations, n)
            BY <2>3, <3>1 DEF Reserved
        <3> HIDE DEF held
        <3> QED
            BY <1>5, <2>2, <2>3, <3>2, Zenon
    <2>4. /\ DOMAIN held[i] \subseteq DOMAIN held'[i]
          /\ \A n \in DOMAIN held[i] : held'[i][n] = held[i][n]
        BY <1>5, <2>2, Zenon
    <2> QED
        BY <2>1, <2>3, <2>4, Zenon DEF Pool!Acquire
<1>6. ASSUME NEW i \in IPSets,
             reservations[i].orphan /\ ~reservations'[i].orphan,
             \A j \in IPSets \ {i} : reservations'[j] = reservations[j],
             reservations'[i].spec = Pool!Nothing
      PROVE  Pool!Release(i)
    <2>1. i \in leaving /\ leaving' = leaving \ {i} /\ held' = [held EXCEPT ![i] = held'[i]]
        BY <1>4, <1>6
    <2>2. held'[i] = Pool!Nothing
        BY <1>6
    <2> QED
        BY <2>1, <2>2, Zenon DEF Pool!Release
<1>7. ASSUME \A j \in IPSets : reservations'[j].spec = reservations[j].spec,
             \A j \in IPSets : reservations'[j].orphan = reservations[j].orphan
      PROVE  UNCHANGED Pool!poolVars
    BY <1>1, <1>2, <1>7, Zenon DEF Pool!poolVars
<1>8. ASSUME \A j \in IPSets : reservations'[j].spec = reservations[j].spec,
             NEW i \in IPSets, reservations'[i].orphan,
             \A j \in IPSets \ {i} : reservations'[j].orphan = reservations[j].orphan
      PROVE  Pool!Leave(i)
    BY <1>1, <1>3, <1>8, Zenon DEF Pool!Leave
<1> QED
    BY StepsOfEntries, <1>5, <1>6, <1>7, <1>8, Zenon DEF Pool!PoolNext

\* The Reservations implement the address pool, for any number of IPSets,
\* networks and requests, when Reservations are listed as they are.
THEOREM PoolRefinement ==
    ASSUME FreshCache
    PROVE  IPAMSpec => PoolImplemented
<1>1. IPAMInit => Shape /\ OrphansLive /\ Pool!PoolInit
    <2>1. ASSUME IPAMInit
          PROVE  Pool!PoolInit
        BY <2>1, InitialReservations DEF Pool!PoolInit, Pool!Nothing, NoReservation
    <2> QED
        BY <2>1, InitialReservations
<1>2. Shape /\ OrphansLive /\ [IPAMNext]_ipamVars =>
          (Shape /\ OrphansLive)' /\ [Pool!PoolNext]_(Pool!poolVars)
    BY ShapeKept, OrphansLiveKept, PoolStep, Zenon
<1> QED
    BY <1>1, <1>2, PTL DEF IPAMSpec, PoolImplemented, Pool!PoolSpec

-----------------------------------------------------------------------------
(* What the webhooks admit *)

\* A list whose entries have different names and a subnet each, which a fixed
\* address is in.
Placed(req, nc) ==
    /\ Len(req) \in Nat /\ DOMAIN req = 1..Len(req)
    /\ UniqElements([k \in DOMAIN req |-> req[k].name])
    /\ \A k \in DOMAIN req : \E s \in Subnets(nc, req[k]) :
           req[k].fixed # Unset => InCidr(req[k].fixed, s.cidr)

\* Addresses only for networks that are asked for, and of their subnet.
Fits(spec, req, nc) ==
    \A n \in DOMAIN spec : \E k \in DOMAIN req :
        req[k].name = n /\ \A s \in Subnets(nc, req[k]) : InCidr(spec[n], s.cidr)

\* A status that tells for every network of a request what is reserved.
Shown(req, status, spec) ==
    \A k \in DOMAIN req :
        /\ req[k].name \in DOMAIN spec
        /\ \E e \in status : e[1] = req[k].name /\ e[2] = {spec[req[k].name]}

Admitted(nc) == nc \in NetConfigs /\ ValidNetworks(nc)

\* Lookup in an admitted NetConfig finds one subnet at most, and a valid one.
LEMMA SubnetFacts ==
    ASSUME NEW nc, Admitted(nc), NEW r
    PROVE  /\ \A s, t \in Subnets(nc, r) : s = t
           /\ \A s \in Subnets(nc, r) :
                 ValidSubnet(s) /\ s.cidr \in Int \X Int /\ s.ranges \in Seq(Int \X Int)
<1>1. ASSUME NEW s \in Subnets(nc, r)
      PROVE  \E k \in DOMAIN nc : \E j \in DOMAIN nc[k].subnets :
                 nc[k].name = r.name /\ nc[k].subnets[j].name = r.subnet /\ s = nc[k].subnets[j]
    BY <1>1, Zenon DEF Subnets
<1>2. ASSUME NEW k \in DOMAIN nc, NEW l \in DOMAIN nc, nc[k].name = nc[l].name
      PROVE  k = l
    BY <1>2 DEF Admitted, ValidNetworks, UniqElements
<1>3. ASSUME NEW k \in DOMAIN nc, NEW i \in DOMAIN nc[k].subnets, NEW j \in DOMAIN nc[k].subnets,
             nc[k].subnets[i].name = nc[k].subnets[j].name
      PROVE  i = j
    <2>1. UniqElements([l \in DOMAIN nc[k].subnets |-> nc[k].subnets[l].name])
        BY DEF Admitted, ValidNetworks
    <2> QED
        BY <1>3, <2>1, Zenon DEF UniqElements
<1>4. ASSUME NEW s \in Subnets(nc, r), NEW t \in Subnets(nc, r)
      PROVE  s = t
    <2>1. PICK k \in DOMAIN nc : \E j \in DOMAIN nc[k].subnets :
                 nc[k].name = r.name /\ nc[k].subnets[j].name = r.subnet /\ s = nc[k].subnets[j]
        BY <1>1
    <2>2. PICK l \in DOMAIN nc : \E j \in DOMAIN nc[l].subnets :
                 nc[l].name = r.name /\ nc[l].subnets[j].name = r.subnet /\ t = nc[l].subnets[j]
        BY <1>1
    <2>3. k = l
        BY <1>2, <2>1, <2>2
    <2> QED
        BY <1>3, <2>1, <2>2, <2>3, Zenon
<1>5. ASSUME NEW s \in Subnets(nc, r)
      PROVE  ValidSubnet(s) /\ s.cidr \in Int \X Int /\ s.ranges \in Seq(Int \X Int)
    <2>1. PICK k \in DOMAIN nc : \E j \in DOMAIN nc[k].subnets : s = nc[k].subnets[j]
        BY <1>1, Zenon
    <2>2. PICK j \in DOMAIN nc[k].subnets : s = nc[k].subnets[j]
        BY <2>1
    <2>3. ValidSubnet(nc[k].subnets[j])
        BY Zenon DEF Admitted, ValidNetworks
    <2>4. nc[k].subnets[j].cidr \in Int \X Int /\ nc[k].subnets[j].ranges \in Seq(Int \X Int)
        BY IPAMAssumption, Zenon DEF Admitted
    <2> QED
        BY <2>2, <2>3, <2>4, Zenon
<1> QED
    BY <1>4, <1>5

\* What is assigned is one address, of the subnet: the first available one is
\* in a range, and the webhook has looked at a fixed one.
LEMMA AssignIPFacts ==
    ASSUME NEW s, ValidSubnet(s), s.cidr \in Int \X Int, s.ranges \in Seq(Int \X Int), NEW reserved, NEW fixed,
           fixed # Unset => InCidr(fixed, s.cidr)
    PROVE  /\ \A a, b \in AssignIP(s, fixed, reserved) : a = b
           /\ \A a \in AssignIP(s, fixed, reserved) : InCidr(a, s.cidr)
<1>1. CASE fixed # Unset
    BY <1>1 DEF AssignIP
<1>2. CASE fixed = Unset
    <2> DEFINE Av == Available(s, reserved)
    <2>1. ASSUME NEW p \in Av
          PROVE  /\ p[1] \in Int /\ p[2] \in Int /\ InCidr(p[2], s.cidr)
        <3>1. PICK k \in DOMAIN s.ranges : \E a \in s.ranges[k][1]..s.ranges[k][2] : p = <<k, a>>
            BY <2>1, Zenon DEF Available
        <3>2. s.ranges[k] \in Int \X Int /\ k \in Int
            BY <3>1
        <3>3. ValidAllocationRange(s.ranges[k], s.cidr)
            BY <3>1 DEF ValidSubnet
        <3> QED
            BY <3>1, <3>2, <3>3 DEF ValidAllocationRange, InCidr
    <2>2. ASSUME NEW a \in AssignIP(s, fixed, reserved)
          PROVE  \E p \in Av : a = p[2] /\ \A o \in Av : p[1] < o[1] \/ (p[1] = o[1] /\ p[2] <= o[2])
        BY <1>2, <2>2, Zenon DEF AssignIP, FirstAvailable
    <2> HIDE DEF Av
    <2>3. ASSUME NEW a \in AssignIP(s, fixed, reserved), NEW b \in AssignIP(s, fixed, reserved)
          PROVE  a = b
        <3>1. PICK p \in Av : a = p[2] /\ \A o \in Av : p[1] < o[1] \/ (p[1] = o[1] /\ p[2] <= o[2])
            BY <2>2
        <3>2. PICK q \in Av : b = q[2] /\ \A o \in Av : q[1] < o[1] \/ (q[1] = o[1] /\ q[2] <= o[2])
            BY <2>2, Zenon
        <3>3. /\ p[1] < q[1] \/ (p[1] = q[1] /\ p[2] <= q[2])
              /\ q[1] < p[1] \/ (q[1] = p[1] /\ q[2] <= p[2])
            BY <3>1, <3>2
        <3>4. p[1] \in Int /\ p[2] \in Int /\ q[1] \in Int /\ q[2] \in Int
            BY <2>1
        <3> QED
            BY <3>1, <3>2, <3>3, <3>4
    <2>4. ASSUME NEW a \in AssignIP(s, fixed, reserved)
          PROVE  InCidr(a, s.cidr)
        BY <2>1, <2>2
    <2> QED
        BY <2>3, <2>4, Zenon
<1> QED
    BY <1>1, <1>2

\* What is found for one entry of a request: the address it has, or one of its
\* subnet, or nothing.
LEMMA FoundFacts ==
    ASSUME Admitted(netcfg), NEW req, Placed(req, netcfg), NEW spec, NEW list, NEW k \in DOMAIN req
    PROVE  LET found == AddressesFor(req, spec, list) IN
           /\ req[k].name \in DOMAIN spec => found[k] = {spec[req[k].name]}
           /\ \A a, b \in found[k] : a = b
           /\ req[k].name \notin DOMAIN spec =>
                 \A a \in found[k] : \A s \in Subnets(netcfg, req[k]) : InCidr(a, s.cidr)
<1> DEFINE found == AddressesFor(req, spec, list)
           r == req[k]
           answer(s) == IF r.name \in DOMAIN spec THEN {spec[r.name]}
                        ELSE AssignIP(s, r.fixed, Reserved(list, r.name))
<1>1. found[k] = UNION {answer(s) : s \in Subnets(netcfg, r)}
    BY Zenon DEF AddressesFor
<1>2. PICK t \in Subnets(netcfg, r) : r.fixed # Unset => InCidr(r.fixed, t.cidr)
    BY DEF Placed
<1>3. \A s \in Subnets(netcfg, r) : s = t
    BY <1>2, SubnetFacts
<1>4. found[k] = answer(t)
    <2> HIDE DEF found, answer, r
    <2>1. {answer(s) : s \in Subnets(netcfg, r)} = {answer(t)}
        BY <1>2, <1>3, Zenon
    <2> QED
        BY <1>1, <2>1
<1>5. ValidSubnet(t) /\ t.cidr \in Int \X Int /\ t.ranges \in Seq(Int \X Int)
    BY <1>2, SubnetFacts, Zenon
<1>6. /\ \A a, b \in AssignIP(t, r.fixed, Reserved(list, r.name)) : a = b
      /\ \A a \in AssignIP(t, r.fixed, Reserved(list, r.name)) : InCidr(a, t.cidr)
    <2> HIDE DEF r
    <2> QED
        BY <1>2, <1>5, AssignIPFacts, Zenon
<1> HIDE DEF found
<1>7. /\ r.name \in DOMAIN spec => found[k] = {spec[r.name]}
      /\ r.name \notin DOMAIN spec => found[k] = AssignIP(t, r.fixed, Reserved(list, r.name))
    BY <1>4
<1>8. \A a, b \in found[k] : a = b
    <2>1. CASE r.name \in DOMAIN spec
        BY <1>7, <2>1
    <2>2. CASE r.name \notin DOMAIN spec
        <3> HIDE DEF r
        <3> QED
            BY <1>6, <1>7, <2>2, Zenon
    <2> QED
        BY <2>1, <2>2, Zenon
<1>9. r.name \notin DOMAIN spec => \A a \in found[k] : \A s \in Subnets(netcfg, r) : InCidr(a, s.cidr)
    <2> HIDE DEF r
    <2> QED
        BY <1>3, <1>6, <1>7, Zenon
<1> QED
    BY <1>7, <1>8, <1>9, Zenon DEF found

\* ensureReservation: the Reservation still fits the request, and when it has as
\* many entries as there are networks, every network was served.  An entry that
\* fails leaves its own name out, so the number tells.
LEMMA EnsureFacts ==
    ASSUME Admitted(netcfg), NEW req, Placed(req, netcfg), NEW spec, NEW list, Fits(spec, req, netcfg)
    PROVE  LET found == AddressesFor(req, spec, list)
               new == Extended(req, spec, found)
           IN  /\ Fits(new, req, netcfg)
               /\ AllReserved(req, new) => Shown(req, StatusOf(req, found), new)
<1> DEFINE found == AddressesFor(req, spec, list)
           new == Extended(req, spec, found)
           answers(n) == UNION {found[k] : k \in {j \in Served(found) : req[j].name = n}}
           names == {req[k].name : k \in DOMAIN req}
<1>1. /\ DOMAIN new = DOMAIN spec \cup {req[k].name : k \in Served(found)}
      /\ \A n \in DOMAIN spec : new[n] = spec[n]
      /\ \A n \in DOMAIN new \ DOMAIN spec : new[n] = CHOOSE a \in answers(n) : TRUE
    BY Zenon DEF Extended
<1>2. /\ DOMAIN found = DOMAIN req /\ Served(found) \subseteq DOMAIN req
      /\ \A k \in Served(found) : found[k] # {}
    BY DEF AddressesFor, Served
<1>3. \A j, k \in DOMAIN req : req[j].name = req[k].name => j = k
    BY DEF Placed, UniqElements
<1>4. \A k \in DOMAIN req : /\ req[k].name \in DOMAIN spec => found[k] = {spec[req[k].name]}
                            /\ \A a, b \in found[k] : a = b
                            /\ req[k].name \notin DOMAIN spec =>
                                  \A a \in found[k] : \A s \in Subnets(netcfg, req[k]) : InCidr(a, s.cidr)
    BY FoundFacts, Zenon
<1>a. found = AddressesFor(req, spec, list) /\ new = Extended(req, spec, found)
    BY Zenon
<1> HIDE DEF found, new
<1>5. ASSUME NEW k \in Served(found)
      PROVE  req[k].name \in DOMAIN new /\ found[k] = {new[req[k].name]}
    <2>1. CASE req[k].name \in DOMAIN spec
        BY <1>1, <1>2, <1>4, <2>1, Zenon
    <2>2. CASE req[k].name \notin DOMAIN spec
        <3>1. {j \in Served(found) : req[j].name = req[k].name} = {k}
            BY <1>2, <1>3, Zenon
        <3>2. answers(req[k].name) = found[k]
            BY <3>1, Zenon
        <3>3. req[k].name \in DOMAIN new /\ new[req[k].name] = CHOOSE a \in found[k] : TRUE
            <4>1. req[k].name \in DOMAIN new
                BY <1>1
            <4>2. new[req[k].name] = CHOOSE a \in answers(req[k].name) : TRUE
                BY <1>1, <2>2, <4>1, Zenon
            <4> HIDE DEF answers
            <4> QED
                BY <3>2, <4>1, <4>2, Zenon
        <3>4. new[req[k].name] \in found[k]
            BY <1>2, <3>3, Zenon
        <3> QED
            BY <1>2, <1>4, <3>3, <3>4
    <2> QED
        BY <2>1, <2>2, Zenon
<1>6. Fits(new, req, netcfg)
    <2> SUFFICES ASSUME NEW n \in DOMAIN new
                 PROVE  \E k \in DOMAIN req :
                            req[k].name = n /\ \A s \in Subnets(netcfg, req[k]) : InCidr(new[n], s.cidr)
        BY DEF Fits
    <2>1. CASE n \in DOMAIN spec
        <3>1. PICK k \in DOMAIN req :
                  req[k].name = n /\ \A s \in Subnets(netcfg, req[k]) : InCidr(spec[n], s.cidr)
            BY <2>1, Zenon DEF Fits
        <3>2. new[n] = spec[n]
            BY <1>1, <2>1, Zenon
        <3> QED
            BY <3>1, <3>2, Zenon
    <2>2. CASE n \notin DOMAIN spec
        <3>1. PICK k \in Served(found) : req[k].name = n
            BY <1>1, <2>2, Zenon
        <3>2. k \in DOMAIN req /\ new[n] \in found[k]
            BY <1>2, <1>5, <3>1, Zenon
        <3>3. \A a \in found[k] : \A s \in Subnets(netcfg, req[k]) : InCidr(a, s.cidr)
            BY <1>4, <2>2, <3>1, <3>2, Zenon
        <3> QED
            BY <3>1, <3>2, <3>3, Zenon
    <2> QED
        BY <2>1, <2>2, Zenon
<1>7. ASSUME AllReserved(req, new), NEW k \in DOMAIN req
      PROVE  req[k].name \in DOMAIN new
    <2> SUFFICES ASSUME req[k].name \notin DOMAIN new
                 PROVE  FALSE
        BY Zenon
    <2>1. Len(req) \in Nat /\ DOMAIN req = 1..Len(req)
        BY DEF Placed
    <2>2. IsFiniteSet(1..Len(req)) /\ Cardinality(1..Len(req)) = Len(req)
        <3>1. IsFiniteSet(1..Len(req)) /\ Cardinality(1..Len(req)) = IF 1 > Len(req) THEN 0 ELSE Len(req) - 1 + 1
            BY <2>1, FS_Interval
        <3> QED
            BY <2>1, <3>1
    <2>3. IsFiniteSet(names) /\ Cardinality(names) <= Len(req)
        <3>1. names = {req[j].name : j \in 1..Len(req)}
            BY <2>1
        <3> DEFINE f == [j \in 1..Len(req) |-> req[j].name]
        <3>2. f \in Surjection(1..Len(req), names)
            BY <3>1, Zenon DEF Surjection
        <3> HIDE DEF f, names
        <3> QED
            BY <2>2, <3>2, FS_Surjection
    <2>4. DOMAIN new \subseteq names
        BY <1>6 DEF Fits
    <2>5. DOMAIN new \subseteq names /\ DOMAIN new # names /\ req[k].name \in names
        BY <2>4
    <2> HIDE DEF names
    <2>6. IsFiniteSet(DOMAIN new) /\ Cardinality(DOMAIN new) < Cardinality(names)
        <3>1. DOMAIN new \in SUBSET names
            BY <2>5
        <3>2. /\ IsFiniteSet(DOMAIN new) /\ Cardinality(DOMAIN new) <= Cardinality(names)
              /\ Cardinality(names) = Cardinality(DOMAIN new) => names = DOMAIN new
            BY <2>3, <3>1, FS_Subset, Zenon
        <3>3. Cardinality(DOMAIN new) \in Nat /\ Cardinality(names) \in Nat
            BY <2>3, <3>2, FS_CardinalityType, Zenon
        <3> QED
            BY <2>5, <3>2, <3>3
    <2>7. Cardinality(DOMAIN new) \in Nat /\ Cardinality(names) \in Nat
        BY <2>3, <2>6, FS_CardinalityType
    <2> QED
        BY <1>7, <2>1, <2>3, <2>6, <2>7 DEF AllReserved
<1>8. ASSUME AllReserved(req, new), NEW k \in DOMAIN req
      PROVE  found[k] # {}
    <2>1. CASE req[k].name \in DOMAIN spec
        BY <1>4, <2>1
    <2>2. CASE req[k].name \notin DOMAIN spec
        <3>1. PICK j \in Served(found) : req[j].name = req[k].name
            BY <1>1, <1>7, <1>8, <2>2
        <3>2. j = k
            BY <1>2, <1>3, <3>1, Zenon
        <3> QED
            BY <1>2, <3>1, <3>2, Zenon
    <2> QED
        BY <2>1, <2>2, Zenon
<1>9. ASSUME AllReserved(req, new), NEW k \in DOMAIN req
      PROVE  k \in Served(found)
    <2>1. DOMAIN req = 1..Len(req) /\ Len(req) \in Nat
        BY DEF Placed
    <2>2. \A j \in 1..k - 1 : j \in DOMAIN req
        BY <2>1
    <2> QED
        BY <1>2, <1>8, <1>9, <2>2 DEF Served
<1>10. ASSUME AllReserved(req, new)
       PROVE  Shown(req, StatusOf(req, found), new)
    <2> SUFFICES ASSUME NEW k \in DOMAIN req
                 PROVE  /\ req[k].name \in DOMAIN new
                        /\ \E e \in StatusOf(req, found) : e[1] = req[k].name /\ e[2] = {new[req[k].name]}
        BY Zenon DEF Shown
    <2>1. k \in Served(found) /\ req[k].name \in DOMAIN new /\ found[k] = {new[req[k].name]}
        BY <1>5, <1>9, <1>10
    <2> DEFINE e == <<req[k].name, found[k], req[k].route /\ \E s \in Subnets(netcfg, req[k]) : s.gateway # Unset>>
    <2>2. e \in StatusOf(req, found)
        BY <2>1, Zenon DEF StatusOf
    <2>3. e[1] = req[k].name /\ e[2] = found[k]
        OBVIOUS
    <2> HIDE DEF e
    <2> QED
        BY <2>1, <2>2, <2>3, Zenon
<1> QED
    BY <1>a, <1>6, <1>10, Zenon
-----------------------------------------------------------------------------
(* The inductive invariant of ReadyMeansReserved *)

IPRecord(s) ==
    s = [st |-> s.st, spec |-> s.spec, immutable |-> s.immutable, fin |-> s.fin,
         ready |-> s.ready, observed |-> s.observed, status |-> s.status]
ResRecord(r) == r = [st |-> r.st, fin |-> r.fin, orphan |-> r.orphan, spec |-> r.spec]

\* An IPSet and its Reservation under a NetConfig.  A Reservation left over from
\* an earlier IPSet of the name is an orphan until it is collected, and what an
\* IPSet without the finalizer finds is an orphan or empty.
IPSetOK(s, r, nc) ==
    /\ s.st # "absent" => nc # Unset /\ Placed(s.spec, nc)
    /\ s.st # "absent" /\ ~r.orphan => Fits(r.spec, s.spec, nc)
    /\ s.st = "absent" \/ ~s.fin => r.orphan \/ DOMAIN r.spec = {}
    /\ r.st # "live" => DOMAIN r.spec = {}
    /\ s.ready => s.st # "absent" /\ ~r.orphan /\ Shown(s.observed, s.status, r.spec)

\* A reconcile c that will store the status of the IPSet: the finalizer keeps the
\* IPSet there, and what the status says is reserved.
RecOK(c, s, r) ==
    c.pc = "status" => /\ s.st # "absent" /\ s.fin
                       /\ c.ready => ~r.orphan /\ Shown(c.spec, c.status, r.spec)

ReadyInv ==
    /\ netcfg # Unset => Admitted(netcfg)
    /\ ipsets = [i \in IPSets |-> ipsets[i]]
    /\ reservations = [i \in IPSets |-> reservations[i]]
    /\ \A i \in IPSets : /\ IPRecord(ipsets[i]) /\ ResRecord(reservations[i])
                         /\ IPSetOK(ipsets[i], reservations[i], netcfg)
    /\ ipRec.pc # "idle" => ipRec.i \in IPSets /\ RecOK(ipRec, ipsets[ipRec.i], reservations[ipRec.i])

\* A step that concerns one IPSet and its Reservation.
LEMMA OneIPSet ==
    ASSUME ReadyInv, UNCHANGED netcfg, NEW i \in IPSets, NEW s, NEW r,
           ipsets' = [ipsets EXCEPT ![i] = s], reservations' = [reservations EXCEPT ![i] = r],
           IPRecord(s), ResRecord(r), IPSetOK(s, r, netcfg),
           ipRec'.pc # "idle" => \/ ipRec'.i = i /\ RecOK(ipRec', s, r)
                                 \/ ipRec'.i # i /\ ipRec' = ipRec
    PROVE  ReadyInv'
<1>1. /\ ipsets' = [j \in IPSets |-> ipsets'[j]] /\ ipsets'[i] = s
      /\ \A j \in IPSets \ {i} : ipsets'[j] = ipsets[j]
    BY DEF ReadyInv
<1>2. /\ reservations' = [j \in IPSets |-> reservations'[j]] /\ reservations'[i] = r
      /\ \A j \in IPSets \ {i} : reservations'[j] = reservations[j]
    BY DEF ReadyInv
<1>3. ASSUME NEW j \in IPSets
      PROVE  /\ IPRecord(ipsets'[j]) /\ ResRecord(reservations'[j])
             /\ IPSetOK(ipsets'[j], reservations'[j], netcfg)
    BY <1>1, <1>2, Zenon DEF ReadyInv
<1>4. ipRec'.pc # "idle" =>
          ipRec'.i \in IPSets /\ RecOK(ipRec', ipsets'[ipRec'.i], reservations'[ipRec'.i])
    BY <1>1, <1>2, Zenon DEF ReadyInv
<1>5. (netcfg # Unset => Admitted(netcfg))'
    BY Zenon DEF ReadyInv, Admitted
<1>6. \A j \in IPSets : /\ IPRecord(ipsets'[j]) /\ ResRecord(reservations'[j])
                        /\ IPSetOK(ipsets'[j], reservations'[j], netcfg')
    BY <1>3, Zenon
<1> QED
    BY <1>1, <1>2, <1>4, <1>5, <1>6, Zenon DEF ReadyInv, IPRecord, ResRecord, IPSetOK, RecOK

\* A step that concerns one IPSet only, or its Reservation only.
LEMMA Alone ==
    ASSUME ReadyInv, NEW i \in IPSets
    PROVE  /\ ipsets = [ipsets EXCEPT ![i] = ipsets[i]]
           /\ reservations = [reservations EXCEPT ![i] = reservations[i]]
           /\ IPRecord(ipsets[i]) /\ ResRecord(reservations[i])
           /\ IPSetOK(ipsets[i], reservations[i], netcfg)
           /\ ipRec.pc # "idle" /\ ipRec.i = i => RecOK(ipRec, ipsets[i], reservations[i])
<1>1. ipsets = [j \in IPSets |-> ipsets[j]] /\ reservations = [j \in IPSets |-> reservations[j]]
    BY Zenon DEF ReadyInv
<1>2. ipsets = [ipsets EXCEPT ![i] = ipsets[i]]
    BY <1>1
<1>3. reservations = [reservations EXCEPT ![i] = reservations[i]]
    BY <1>1
<1> QED
    BY <1>2, <1>3, Zenon DEF ReadyInv

\* Nothing is asked for or reserved at first.
LEMMA ReadyInit == IPAMInit => ReadyInv
<1> SUFFICES ASSUME IPAMInit PROVE ReadyInv
    OBVIOUS
<1>1. /\ ipsets = [i \in IPSets |-> NoIPSet] /\ reservations = [i \in IPSets |-> NoReservation]
      /\ netcfg = Unset /\ ipRec = NoRec
    BY Zenon DEF IPAMInit
<1>2. /\ IPRecord(NoIPSet) /\ ResRecord(NoReservation) /\ IPSetOK(NoIPSet, NoReservation, netcfg)
      /\ NoRec.pc = "idle"
    BY DEF IPRecord, ResRecord, IPSetOK, NoIPSet, NoReservation, NoRec
<1> QED
    BY <1>1, <1>2 DEF ReadyInv

-----------------------------------------------------------------------------
(* Users *)

\* What a lookup finds.
LEMMA Lookup ==
    ASSUME NEW nc, NEW r, NEW s
    PROVE  s \in Subnets(nc, r) <=>
               \E k \in DOMAIN nc : \E j \in DOMAIN nc[k].subnets :
                   nc[k].name = r.name /\ nc[k].subnets[j].name = r.subnet /\ s = nc[k].subnets[j]
<1>1. ASSUME s \in Subnets(nc, r)
      PROVE  \E k \in DOMAIN nc : \E j \in DOMAIN nc[k].subnets :
                 nc[k].name = r.name /\ nc[k].subnets[j].name = r.subnet /\ s = nc[k].subnets[j]
    BY <1>1, Zenon DEF Subnets
<1>2. ASSUME NEW k \in DOMAIN nc, NEW j \in DOMAIN nc[k].subnets,
             nc[k].name = r.name, nc[k].subnets[j].name = r.subnet, s = nc[k].subnets[j]
      PROVE  s \in Subnets(nc, r)
    <2> DEFINE of(l) == {nc[l].subnets[m] : m \in {p \in DOMAIN nc[l].subnets : nc[l].subnets[p].name = r.subnet}}
    <2>1. s \in of(k)
        BY <1>2
    <2>2. k \in {l \in DOMAIN nc : nc[l].name = r.name}
        BY <1>2
    <2>3. Subnets(nc, r) = UNION {of(l) : l \in {l \in DOMAIN nc : nc[l].name = r.name}}
        BY DEF Subnets
    <2> HIDE DEF of
    <2> QED
        BY <2>1, <2>2, <2>3, Zenon
<1> QED
    BY <1>1, <1>2, Zenon

\* What valiateNetworksChanged keeps: every subnet that can be looked up is found
\* again with the same CIDR.
LEMMA SubnetsKept ==
    ASSUME NEW nc, NEW old, NetworksKept(nc, old), NEW r, NEW s \in Subnets(old, r)
    PROVE  \E t \in Subnets(nc, r) : t.cidr = s.cidr
<1>1. PICK k \in DOMAIN old : \E j \in DOMAIN old[k].subnets :
          old[k].name = r.name /\ old[k].subnets[j].name = r.subnet /\ s = old[k].subnets[j]
    BY Lookup
<1>2. PICK j \in DOMAIN old[k].subnets :
          old[k].name = r.name /\ old[k].subnets[j].name = r.subnet /\ s = old[k].subnets[j]
    BY <1>1
<1> DEFINE q == [name |-> r.name, subnet |-> r.subnet]
<1>3. PICK t \in Subnets(nc, q) : t.cidr = s.cidr
    BY <1>2, Zenon DEF NetworksKept
<1>4. q.name = r.name /\ q.subnet = r.subnet
    OBVIOUS
<1> HIDE DEF q
<1>5. t \in Subnets(nc, r)
    <2>1. \E l \in DOMAIN nc : \E m \in DOMAIN nc[l].subnets :
              nc[l].name = q.name /\ nc[l].subnets[m].name = q.subnet /\ t = nc[l].subnets[m]
        BY <1>3, Lookup
    <2>2. \E l \in DOMAIN nc : \E m \in DOMAIN nc[l].subnets :
              nc[l].name = r.name /\ nc[l].subnets[m].name = r.subnet /\ t = nc[l].subnets[m]
        BY <1>4, <2>1, Zenon
    <2> QED
        BY <2>2, Lookup
<1> QED
    BY <1>3, <1>5, Zenon

\* The webhook of NetConfig keeps the addresses of every IPSet in their subnets.
LEMMA EditReady ==
    ASSUME ReadyInv, NEW nc \in NetConfigs, EditNetConfig(nc)
    PROVE  ReadyInv'
<1>1. /\ ValidNetworks(nc) /\ netcfg' = nc /\ UNCHANGED <<ipsets, reservations, ipRec>>
      /\ (netcfg # Unset /\ InUse # {}) => NetworksKept(nc, netcfg)
    BY DEF EditNetConfig
<1>2. Admitted(nc) /\ nc # Unset
    BY <1>1, IPAMAssumption DEF Admitted
<1>3. ASSUME NEW i \in IPSets
      PROVE  IPSetOK(ipsets[i], reservations[i], nc)
    <2>1. IPSetOK(ipsets[i], reservations[i], netcfg)
        BY DEF ReadyInv
    <2>2. CASE ipsets[i].st = "absent"
        BY <2>1, <2>2, Zenon DEF IPSetOK
    <2>3. CASE ipsets[i].st # "absent"
        <3> DEFINE req == ipsets[i].spec
        <3>1. netcfg # Unset /\ InUse # {} /\ Placed(req, netcfg)
            BY <2>1, <2>3 DEF IPSetOK, InUse
        <3>2. NetworksKept(nc, netcfg)
            BY <1>1, <3>1
        <3> HIDE DEF req
        <3>3. ASSUME NEW k \in DOMAIN req
              PROVE  \E s \in Subnets(netcfg, req[k]), t \in Subnets(nc, req[k]) :
                         /\ req[k].fixed # Unset => InCidr(req[k].fixed, s.cidr)
                         /\ s.cidr = t.cidr /\ \A u \in Subnets(nc, req[k]) : u = t
            <4>1. PICK s \in Subnets(netcfg, req[k]) : req[k].fixed # Unset => InCidr(req[k].fixed, s.cidr)
                BY <3>1 DEF Placed
            <4>2. PICK t \in Subnets(nc, req[k]) : t.cidr = s.cidr
                BY <3>2, <4>1, SubnetsKept
            <4>3. \A u \in Subnets(nc, req[k]) : u = t
                BY <1>2, <4>2, SubnetFacts
            <4> QED
                BY <4>1, <4>2, <4>3
        <3>4. Placed(req, nc)
            <4>1. ASSUME NEW k \in DOMAIN req
                  PROVE  \E s \in Subnets(nc, req[k]) : req[k].fixed # Unset => InCidr(req[k].fixed, s.cidr)
                BY <3>3, Zenon
            <4> QED
                BY <3>1, <4>1, Zenon DEF Placed
        <3>5. ASSUME NEW spec, Fits(spec, req, netcfg)
              PROVE  Fits(spec, req, nc)
            <4> SUFFICES ASSUME NEW n \in DOMAIN spec
                         PROVE  \E k \in DOMAIN req :
                                    req[k].name = n /\ \A s \in Subnets(nc, req[k]) : InCidr(spec[n], s.cidr)
                BY DEF Fits
            <4>1. PICK k \in DOMAIN req :
                      req[k].name = n /\ \A s \in Subnets(netcfg, req[k]) : InCidr(spec[n], s.cidr)
                BY <3>5 DEF Fits
            <4>2. \A u \in Subnets(nc, req[k]) : InCidr(spec[n], u.cidr)
                BY <3>3, <4>1
            <4> QED
                BY <4>1, <4>2, Zenon
        <3> QED
            BY <1>2, <2>1, <2>3, <3>4, <3>5, Zenon DEF IPSetOK, req
    <2> QED
        BY <2>2, <2>3
<1>4. ReadyInv /\ netcfg' = nc /\ Admitted(nc) /\ UNCHANGED <<ipsets, reservations, ipRec>>
    BY <1>1, <1>2
<1> QED
    BY <1>3, <1>4, Zenon DEF ReadyInv, Admitted, IPRecord, ResRecord, IPSetOK, RecOK

\* The NetConfig goes only when there is no IPSet.
LEMMA DeleteNetConfigReady ==
    ASSUME ReadyInv, DeleteNetConfig
    PROVE  ReadyInv'
<1>1. InUse = {} /\ netcfg' = Unset /\ UNCHANGED <<ipsets, reservations, ipRec>>
    BY DEF DeleteNetConfig
<1>2. ASSUME NEW i \in IPSets
      PROVE  IPSetOK(ipsets[i], reservations[i], Unset)
    <2>1. ipsets[i].st = "absent"
        BY <1>1 DEF InUse
    <2>2. IPSetOK(ipsets[i], reservations[i], netcfg)
        BY DEF ReadyInv
    <2> QED
        BY <2>1, <2>2, Zenon DEF IPSetOK
<1> QED
    BY <1>1, <1>2, Zenon DEF ReadyInv, Admitted, IPRecord, ResRecord, IPSetOK, RecOK

\* The webhook of IPSet admits what has a subnet for each entry.
LEMMA AdmittedRequest ==
    ASSUME NEW req \in Requests, NEW nc, ValidRequest(req, nc)
    PROVE  Placed(req, nc)
<1>1. Len(req) \in Nat /\ DOMAIN req = 1..Len(req)
    BY IPAMAssumption
<1> QED
    BY <1>1, Zenon DEF ValidRequest, Placed

LEMMA CreateReady ==
    ASSUME ReadyInv, NEW i \in IPSets, NEW req \in Requests, NEW im, CreateIPSet(i, req, im)
    PROVE  ReadyInv'
<1> DEFINE s == [NoIPSet EXCEPT !.st = "live", !.spec = req, !.immutable = im]
           r == reservations[i]
<1>1. /\ ipsets[i].st = "absent" /\ netcfg # Unset /\ ValidRequest(req, netcfg)
      /\ ipsets' = [ipsets EXCEPT ![i] = s] /\ UNCHANGED <<netcfg, reservations, ipRec>>
    BY DEF CreateIPSet
<1>2. Placed(req, netcfg)
    BY <1>1, AdmittedRequest, Zenon
<1>3. /\ s.st = "live" /\ s.spec = req /\ ~s.fin /\ ~s.ready /\ IPRecord(s)
    <2> DEFINE e == <<>>
               x == {}
               f == FALSE
    <2>1. NoIPSet = [st |-> "absent", spec |-> e, immutable |-> f, fin |-> f,
                     ready |-> f, observed |-> e, status |-> x]
        BY DEF NoIPSet
    <2>2. ~f
        OBVIOUS
    <2> HIDE DEF e, x, f
    <2>3. s = [st |-> "live", spec |-> req, immutable |-> im, fin |-> f,
               ready |-> f, observed |-> e, status |-> x]
        <3> DEFINE a == [NoIPSet EXCEPT !.st = "live"]
                   b == [a EXCEPT !.spec = req]
        <3>1. a = [st |-> "live", spec |-> e, immutable |-> f, fin |-> f,
                   ready |-> f, observed |-> e, status |-> x]
            BY <2>1
        <3>2. b = [st |-> "live", spec |-> req, immutable |-> f, fin |-> f,
                   ready |-> f, observed |-> e, status |-> x]
            <4> HIDE DEF a
            <4> QED
                BY <3>1
        <3>3. s = [b EXCEPT !.immutable = im]
            OBVIOUS
        <3> HIDE DEF b, s
        <3> QED
            BY <3>2, <3>3
    <2> HIDE DEF s
    <2> QED
        BY <2>2, <2>3, Zenon DEF IPRecord
<1> HIDE DEF s
<1>4. IPSetOK(s, r, netcfg)
    <2>1. r.orphan \/ DOMAIN r.spec = {}
        BY <1>1, Alone, Zenon DEF IPSetOK
    <2>2. r.st # "live" => DOMAIN r.spec = {}
        BY Alone, Zenon DEF IPSetOK
    <2>3. ~r.orphan => Fits(r.spec, req, netcfg)
        BY <2>1 DEF Fits
    <2> HIDE DEF r
    <2> QED
        BY <1>1, <1>2, <1>3, <2>1, <2>2, <2>3, Zenon DEF IPSetOK
<1>5. ipRec'.pc # "idle" => \/ ipRec'.i = i /\ RecOK(ipRec', s, r)
                            \/ ipRec'.i # i /\ ipRec' = ipRec
    <2>1. ipRec.pc # "idle" /\ ipRec.i = i => ipRec.pc # "status"
        BY <1>1, Alone DEF RecOK
    <2> QED
        BY <1>1, <2>1, Zenon DEF RecOK
<1>6. reservations' = [reservations EXCEPT ![i] = r] /\ ResRecord(r)
    BY <1>1, Alone, Zenon
<1> QED
    <2> HIDE DEF r
    <2> QED
        BY <1>1, <1>3, <1>4, <1>5, <1>6, OneIPSet, Zenon

\* What was asked for is still asked for, so the Reservation still fits.
LEMMA UpdateReady ==
    ASSUME ReadyInv, NEW i \in IPSets, NEW req \in Requests, UpdateIPSet(i, req)
    PROVE  ReadyInv'
<1> DEFINE o == ipsets[i]
           s == [o EXCEPT !.spec = req]
           r == reservations[i]
<1>1. /\ o.st = "live" /\ netcfg # Unset /\ ValidRequest(req, netcfg) /\ RequestKept(req, o.spec)
      /\ ipsets' = [ipsets EXCEPT ![i] = s] /\ UNCHANGED <<netcfg, reservations, ipRec>>
    BY DEF UpdateIPSet
<1>2. Placed(req, netcfg)
    BY <1>1, AdmittedRequest
<1>3. /\ IPRecord(o) /\ ResRecord(r) /\ IPSetOK(o, r, netcfg)
      /\ ipRec.pc # "idle" /\ ipRec.i = i => RecOK(ipRec, o, r)
      /\ reservations' = [reservations EXCEPT ![i] = r]
    BY <1>1, Alone, Zenon
<1> HIDE DEF o, r
<1>4. /\ s.st = o.st /\ s.spec = req /\ s.fin = o.fin /\ s.ready = o.ready
      /\ s.observed = o.observed /\ s.status = o.status /\ IPRecord(s)
    BY <1>3 DEF IPRecord
<1> HIDE DEF s
<1>5. IPSetOK(s, r, netcfg)
    <2>1. ~r.orphan => Fits(r.spec, o.spec, netcfg)
        BY <1>1, <1>3, Zenon DEF IPSetOK
    <2>2. ASSUME Fits(r.spec, o.spec, netcfg), NEW n \in DOMAIN r.spec
          PROVE  \E j \in DOMAIN req :
                     req[j].name = n /\ \A t \in Subnets(netcfg, req[j]) : InCidr(r.spec[n], t.cidr)
        <3>1. PICK k \in DOMAIN o.spec :
                  o.spec[k].name = n /\ \A t \in Subnets(netcfg, o.spec[k]) : InCidr(r.spec[n], t.cidr)
            BY <2>2, Zenon DEF Fits
        <3>2. PICK j \in DOMAIN req : req[j] = o.spec[k]
            BY <1>1, Zenon DEF RequestKept
        <3> QED
            BY <3>1, <3>2, Zenon
    <2>3. ~r.orphan => Fits(r.spec, req, netcfg)
        BY <2>1, <2>2 DEF Fits
    <2> QED
        BY <1>1, <1>2, <1>3, <1>4, <2>3, Zenon DEF IPSetOK
<1>6. ipRec'.pc # "idle" => \/ ipRec'.i = i /\ RecOK(ipRec', s, r)
                            \/ ipRec'.i # i /\ ipRec' = ipRec
    BY <1>1, <1>3, <1>4, Zenon DEF RecOK
<1> QED
    BY <1>1, <1>3, <1>4, <1>5, <1>6, OneIPSet, Zenon

\* An IPSet with the finalizer stays until the finalizer is removed.
LEMMA DeleteReady ==
    ASSUME ReadyInv, NEW i \in IPSets, DeleteIPSet(i)
    PROVE  ReadyInv'
<1> DEFINE o == ipsets[i]
           s == IF o.fin THEN [o EXCEPT !.st = "deleting"] ELSE NoIPSet
           r == reservations[i]
<1>1. /\ o.st = "live"
      /\ ipsets' = [ipsets EXCEPT ![i] = s] /\ UNCHANGED <<netcfg, reservations, ipRec>>
    BY DEF DeleteIPSet
<1>3. /\ IPRecord(o) /\ ResRecord(r) /\ IPSetOK(o, r, netcfg)
      /\ ipRec.pc # "idle" /\ ipRec.i = i => RecOK(ipRec, o, r)
      /\ reservations' = [reservations EXCEPT ![i] = r]
    BY <1>1, Alone, Zenon
<1> HIDE DEF o, r
<1>4. CASE o.fin
    <2>0. s = [o EXCEPT !.st = "deleting"]
        BY <1>4
    <2>1. /\ s.st = "deleting" /\ s.spec = o.spec /\ s.fin = o.fin /\ s.ready = o.ready
          /\ s.observed = o.observed /\ s.status = o.status /\ IPRecord(s)
        <3> HIDE DEF s
        <3> QED
            BY <1>3, <2>0 DEF IPRecord
    <2> HIDE DEF s
    <2>2. IPSetOK(s, r, netcfg)
        BY <1>1, <1>3, <2>1, Zenon DEF IPSetOK
    <2>3. ipRec'.pc # "idle" => \/ ipRec'.i = i /\ RecOK(ipRec', s, r)
                                \/ ipRec'.i # i /\ ipRec' = ipRec
        BY <1>1, <1>3, <2>1, Zenon DEF RecOK
    <2> QED
        BY <1>1, <1>3, <2>1, <2>2, <2>3, OneIPSet, Zenon
<1>5. CASE ~o.fin
    <2>1. s.st = "absent" /\ ~s.ready /\ IPRecord(s)
        BY <1>5 DEF IPRecord, NoIPSet
    <2> HIDE DEF s
    <2>2. IPSetOK(s, r, netcfg)
        BY <1>1, <1>3, <1>5, <2>1, Zenon DEF IPSetOK
    <2>3. ipRec'.pc # "idle" => \/ ipRec'.i = i /\ RecOK(ipRec', s, r)
                                \/ ipRec'.i # i /\ ipRec' = ipRec
        BY <1>1, <1>3, <1>5, Zenon DEF RecOK
    <2> QED
        BY <1>1, <1>3, <2>1, <2>2, <2>3, OneIPSet, Zenon
<1> QED
    BY <1>4, <1>5
-----------------------------------------------------------------------------
(* The controller and the garbage collector *)

LEMMA RegisterReady ==
    ASSUME ReadyInv, NEW i \in IPSets, IPRegister(i)
    PROVE  ReadyInv'
<1> DEFINE o == ipsets[i]
           yes == TRUE
           s == [o EXCEPT !.fin = yes]
           r == reservations[i]
<1>1. ipRec = NoRec /\ ipsets' = [ipsets EXCEPT ![i] = s] /\ UNCHANGED <<netcfg, reservations, ipRec>>
    BY DEF IPRegister
<1>2. /\ IPRecord(o) /\ ResRecord(r) /\ IPSetOK(o, r, netcfg)
      /\ reservations' = [reservations EXCEPT ![i] = r]
    BY <1>1, Alone, Zenon
<1>a. yes
    OBVIOUS
<1> HIDE DEF o, r, yes
<1>3. /\ s.st = o.st /\ s.spec = o.spec /\ s.fin = yes /\ s.ready = o.ready
      /\ s.observed = o.observed /\ s.status = o.status /\ IPRecord(s)
    BY <1>2 DEF IPRecord
<1> HIDE DEF s
<1>4. IPSetOK(s, r, netcfg)
    BY <1>a, <1>2, <1>3, Zenon DEF IPSetOK
<1>5. ipRec'.pc = "idle"
    BY <1>1 DEF NoRec
<1> QED
    BY <1>1, <1>2, <1>3, <1>4, <1>5, OneIPSet, Zenon

\* ensureReservation on an IPSet whose Reservation is its own.
LEMMA EnsureReady ==
    ASSUME ReadyInv, NEW i \in IPSets, EnsureReservation(i)
    PROVE  ReadyInv'
<1> DEFINE s == ipsets[i]
           o == reservations[i]
           found == AddressesFor(s.spec, o.spec, resCache)
           new == Extended(s.spec, o.spec, found)
           status == StatusOf(s.spec, found)
           ready == AllReserved(s.spec, new)
           r == [st |-> "live", fin |-> TRUE, orphan |-> FALSE, spec |-> new]
           c == [pc |-> "status", i |-> i, ready |-> ready, spec |-> s.spec, status |-> status]
<1>1. /\ s.st = "live" /\ s.fin /\ netcfg # Unset /\ ~o.orphan
      /\ reservations' = [reservations EXCEPT ![i] = r] /\ ipRec' = c
      /\ UNCHANGED <<netcfg, ipsets>>
    BY Zenon DEF EnsureReservation
<1>2. /\ IPRecord(s) /\ IPSetOK(s, o, netcfg) /\ ipsets' = [ipsets EXCEPT ![i] = s]
    BY <1>1, Alone, Zenon
<1>3. Admitted(netcfg) /\ Placed(s.spec, netcfg) /\ Fits(o.spec, s.spec, netcfg)
    BY <1>1, <1>2, Zenon DEF ReadyInv, IPSetOK
<1>4. Fits(new, s.spec, netcfg) /\ (ready => Shown(s.spec, status, new))
    <2> HIDE DEF s, o
    <2> QED
        BY <1>3, EnsureFacts, Zenon
<1>5. DOMAIN o.spec \subseteq DOMAIN new /\ \A n \in DOMAIN o.spec : new[n] = o.spec[n]
    <2> HIDE DEF s, o
    <2>1. /\ DOMAIN o.spec \subseteq DOMAIN new /\ \A n \in DOMAIN o.spec : new[n] = o.spec[n]
          /\ \A n \in DOMAIN new \ DOMAIN o.spec : new[n] \notin Reserved(resCache, n)
        BY ExtendedKeepsAndAddsFree
    <2> QED
        BY <2>1, Zenon
<1> HIDE DEF s, o, new, status, ready
<1>6. /\ r.st = "live" /\ r.orphan = FALSE /\ r.spec = new /\ ResRecord(r)
      /\ c.pc = "status" /\ c.i = i /\ c.ready = ready /\ c.spec = s.spec /\ c.status = status
    BY DEF ResRecord
<1> HIDE DEF r, c
<1>7. s.ready => Shown(s.observed, s.status, new)
    <2>1. s.ready => Shown(s.observed, s.status, o.spec)
        BY <1>2, Zenon DEF IPSetOK
    <2> QED
        BY <1>5, <2>1, Zenon DEF Shown
<1>8. IPSetOK(s, r, netcfg)
    BY <1>1, <1>3, <1>4, <1>6, <1>7, Zenon DEF IPSetOK
<1>9. RecOK(c, s, r)
    BY <1>1, <1>4, <1>6, Zenon DEF RecOK
<1> QED
    BY <1>1, <1>2, <1>6, <1>8, <1>9, OneIPSet, Zenon

\* The status that is stored is that of the reconcile, if the IPSet is there.
LEMMA PatchReady ==
    ASSUME ReadyInv, IPPatchStatus
    PROVE  ReadyInv'
<1> DEFINE i == ipRec.i
           o == ipsets[i]
           s == [o EXCEPT !.ready = ipRec.ready, !.observed = ipRec.spec, !.status = ipRec.status]
           r == reservations[i]
<1>1. /\ ipRec.pc = "status" /\ ipRec' = NoRec /\ UNCHANGED <<netcfg, reservations>>
      /\ ipsets' = [ipsets EXCEPT ![i] = IF o.st = "absent" THEN o ELSE s]
    BY Zenon DEF IPPatchStatus
<1>2. i \in IPSets /\ RecOK(ipRec, o, r)
    BY <1>1 DEF ReadyInv
<1>3. /\ IPRecord(o) /\ ResRecord(r) /\ IPSetOK(o, r, netcfg)
      /\ reservations' = [reservations EXCEPT ![i] = r]
    <2> HIDE DEF i
    <2> QED
        BY <1>1, <1>2, Alone, Zenon
<1>4. ipRec'.pc = "idle"
    BY <1>1 DEF NoRec
<1>5. o.st # "absent" /\ (ipRec.ready => ~r.orphan /\ Shown(ipRec.spec, ipRec.status, r.spec))
    BY <1>1, <1>2, Zenon DEF RecOK
<1>6. ipsets' = [ipsets EXCEPT ![i] = s]
    <2> HIDE DEF s, o
    <2> QED
        BY <1>1, <1>5, Zenon
<1> HIDE DEF o, r, i
<1>7. /\ s.st = o.st /\ s.spec = o.spec /\ s.fin = o.fin /\ s.ready = ipRec.ready
      /\ s.observed = ipRec.spec /\ s.status = ipRec.status /\ IPRecord(s)
    <2> DEFINE a == [o EXCEPT !.ready = ipRec.ready]
               b == [a EXCEPT !.observed = ipRec.spec]
    <2>1. a = [st |-> o.st, spec |-> o.spec, immutable |-> o.immutable, fin |-> o.fin,
               ready |-> ipRec.ready, observed |-> o.observed, status |-> o.status]
        BY <1>3 DEF IPRecord
    <2>2. b = [st |-> o.st, spec |-> o.spec, immutable |-> o.immutable, fin |-> o.fin,
               ready |-> ipRec.ready, observed |-> ipRec.spec, status |-> o.status]
        <3> HIDE DEF a
        <3> QED
            BY <2>1
    <2>3. s = [b EXCEPT !.status = ipRec.status]
        OBVIOUS
    <2> HIDE DEF b, s
    <2>4. s = [st |-> o.st, spec |-> o.spec, immutable |-> o.immutable, fin |-> o.fin,
               ready |-> ipRec.ready, observed |-> ipRec.spec, status |-> ipRec.status]
        BY <2>2, <2>3
    <2> QED
        BY <2>4 DEF IPRecord
<1> HIDE DEF s
<1>8. IPSetOK(s, r, netcfg)
    BY <1>3, <1>5, <1>7, Zenon DEF IPSetOK
<1> QED
    BY <1>1, <1>2, <1>3, <1>4, <1>6, <1>7, <1>8, OneIPSet, Zenon

LEMMA ReleaseReady ==
    ASSUME ReadyInv, NEW i \in IPSets, ReleaseReservation(i)
    PROVE  ReadyInv'
<1> DEFINE s == ipsets[i]
           o == reservations[i]
           no == FALSE
           r == [o EXCEPT !.fin = no]
<1>1. /\ reservations' = [reservations EXCEPT ![i] = r] /\ UNCHANGED <<netcfg, ipsets>>
      /\ ipRec' = [NoRec EXCEPT !.pc = "delete", !.i = i]
    BY DEF ReleaseReservation
<1>2. /\ IPRecord(s) /\ ResRecord(o) /\ IPSetOK(s, o, netcfg)
      /\ ipsets' = [ipsets EXCEPT ![i] = s]
    BY <1>1, Alone, Zenon
<1>3. ipRec'.pc = "delete" /\ ipRec'.i = i
    BY <1>1 DEF NoRec
<1> HIDE DEF s, o, no
<1>4. r.st = o.st /\ r.orphan = o.orphan /\ r.spec = o.spec /\ ResRecord(r)
    BY <1>2 DEF ResRecord
<1> HIDE DEF r
<1>5. IPSetOK(s, r, netcfg)
    BY <1>2, <1>4, Zenon DEF IPSetOK
<1>6. RecOK(ipRec', s, r)
    BY <1>3 DEF RecOK
<1> QED
    BY <1>1, <1>2, <1>3, <1>4, <1>5, <1>6, OneIPSet, Zenon

\* The IPSet goes and its Reservation, if there is one, has lost its owner.
LEMMA RemoveReady ==
    ASSUME ReadyInv, IPRemoveFinalizer
    PROVE  ReadyInv'
<1> DEFINE i == ipRec.i
           o == reservations[i]
           live == o.st = "live"
           r == [o EXCEPT !.orphan = live]
<1>1. /\ ipRec.pc = "delete" /\ ipRec' = NoRec /\ UNCHANGED netcfg
      /\ ipsets' = [ipsets EXCEPT ![i] = NoIPSet]
      /\ reservations' = [reservations EXCEPT ![i] = r]
    BY Zenon DEF IPRemoveFinalizer
<1>2. i \in IPSets
    BY <1>1 DEF ReadyInv
<1>3. ResRecord(o) /\ (o.st # "live" => DOMAIN o.spec = {})
    <2> HIDE DEF i
    <2> QED
        BY <1>2, Alone, Zenon DEF IPSetOK
<1>4. ipRec'.pc = "idle"
    BY <1>1 DEF NoRec
<1>5. live <=> o.st = "live"
    OBVIOUS
<1> HIDE DEF o, i, live
<1>6. r.st = o.st /\ r.orphan = live /\ r.spec = o.spec /\ ResRecord(r)
    BY <1>3 DEF ResRecord
<1> HIDE DEF r
<1>7. NoIPSet.st = "absent" /\ ~NoIPSet.ready /\ IPRecord(NoIPSet)
    BY DEF NoIPSet, IPRecord
<1>8. IPSetOK(NoIPSet, r, netcfg)
    BY <1>3, <1>5, <1>6, <1>7, Zenon DEF IPSetOK
<1> QED
    BY <1>1, <1>2, <1>4, <1>6, <1>7, <1>8, OneIPSet, Zenon

\* Only what has no owner is collected, and no status rests on that.
LEMMA CollectReady ==
    ASSUME ReadyInv, NEW i \in IPSets, CollectReservation(i)
    PROVE  ReadyInv'
<1> DEFINE s == ipsets[i]
           o == reservations[i]
           r == NoReservation
<1>1. /\ o.orphan /\ reservations' = [reservations EXCEPT ![i] = r]
      /\ UNCHANGED <<netcfg, ipsets, ipRec>>
    BY DEF CollectReservation
<1>2. /\ IPRecord(s) /\ IPSetOK(s, o, netcfg) /\ ipsets' = [ipsets EXCEPT ![i] = s]
      /\ ipRec.pc # "idle" /\ ipRec.i = i => RecOK(ipRec, s, o)
    BY <1>1, Alone, Zenon
<1> HIDE DEF s, o
<1>3. DOMAIN r.spec = {} /\ ResRecord(r)
    BY DEF ResRecord, NoReservation
<1> HIDE DEF r
<1>4. Fits(r.spec, s.spec, netcfg)
    BY <1>3 DEF Fits
<1>5. ~s.ready
    BY <1>1, <1>2, Zenon DEF IPSetOK
<1>6. IPSetOK(s, r, netcfg)
    BY <1>2, <1>3, <1>4, <1>5, Zenon DEF IPSetOK
<1>7. ipRec'.pc # "idle" => \/ ipRec'.i = i /\ RecOK(ipRec', s, r)
                            \/ ipRec'.i # i /\ ipRec' = ipRec
    BY <1>1, <1>2, Zenon DEF RecOK
<1> QED
    BY <1>1, <1>2, <1>3, <1>6, <1>7, OneIPSet, Zenon

LEMMA FailReady ==
    ASSUME ReadyInv, NEW i \in IPSets, ReservationFails(i)
    PROVE  ReadyInv'
<1> DEFINE c == [pc |-> "status", i |-> i, ready |-> FALSE, spec |-> ipsets[i].spec, status |-> {}]
<1>1. /\ ipsets[i].st = "live" /\ ipsets[i].fin /\ ipRec' = c
      /\ UNCHANGED <<netcfg, ipsets, reservations>>
    BY DEF ReservationFails
<1>2. c.pc = "status" /\ c.i = i /\ ~c.ready
    OBVIOUS
<1> HIDE DEF c
<1>3. RecOK(c, ipsets[i], reservations[i])
    BY <1>1, <1>2, Zenon DEF RecOK
<1>4. /\ ipsets' = [ipsets EXCEPT ![i] = ipsets[i]]
      /\ reservations' = [reservations EXCEPT ![i] = reservations[i]]
      /\ IPRecord(ipsets[i]) /\ ResRecord(reservations[i])
      /\ IPSetOK(ipsets[i], reservations[i], netcfg)
    BY <1>1, Alone, Zenon
<1> QED
    BY <1>1, <1>2, <1>3, <1>4, OneIPSet, Zenon

\* Steps that change none of this, but may end a reconcile.
LEMMA OthersReady ==
    ASSUME ReadyInv, SyncReservations \/ IPAbort \/ UNCHANGED ipamVars
    PROVE  ReadyInv'
<1>1. UNCHANGED <<netcfg, ipsets, reservations>> /\ (ipRec' = ipRec \/ ipRec' = NoRec)
    BY Zenon DEF SyncReservations, IPAbort, ipamVars
<1>2. NoRec.pc = "idle"
    BY DEF NoRec
<1>3. netcfg' = netcfg /\ ipsets' = ipsets /\ reservations' = reservations
    BY <1>1
<1>4. ipRec'.pc # "idle" => ipRec' = ipRec
    BY <1>1, <1>2, Zenon
<1> QED
    BY <1>3, <1>4, Zenon DEF ReadyInv, Admitted, IPRecord, ResRecord, IPSetOK, RecOK

\* ReadyInv is inductive.
LEMMA ReadyStep ==
    ASSUME ReadyInv, [IPAMNext]_ipamVars
    PROVE  ReadyInv'
    BY RegisterReady, EnsureReady, PatchReady, ReleaseReady, RemoveReady, CollectReady, FailReady,
       OthersReady, EditReady, DeleteNetConfigReady, CreateReady, UpdateReady, DeleteReady, Zenon
       DEF IPAMNext, IPSetStep

\* A Ready IPSet has an address of the right subnet for every network it asked
\* for, and its status shows it, for any number of IPSets, NetConfigs and
\* requests, and whatever the controller's list of Reservations has missed.
THEOREM ReadyIsReserved == IPAMSpec => []ReadyMeansReserved
<1>1. ReadyInv => ReadyMeansReserved
    <2> SUFFICES ASSUME ReadyInv, NEW i \in IPSets,
                        ipsets[i].st = "live" /\ ipsets[i].ready /\ ipsets[i].observed = ipsets[i].spec,
                        NEW k \in DOMAIN ipsets[i].spec
                 PROVE  LET r == ipsets[i].spec[k] IN
                        /\ r.name \in DOMAIN reservations[i].spec
                        /\ \E e \in ipsets[i].status :
                               e[1] = r.name /\ e[2] = {reservations[i].spec[r.name]}
                        /\ \A s \in Subnets(netcfg, r) : InCidr(reservations[i].spec[r.name], s.cidr)
        BY Zenon DEF ReadyMeansReserved
    <2> DEFINE req == ipsets[i].spec
               spec == reservations[i].spec
    <2>1. IPSetOK(ipsets[i], reservations[i], netcfg)
        BY DEF ReadyInv
    <2>2. Placed(req, netcfg) /\ Fits(spec, req, netcfg) /\ Shown(req, ipsets[i].status, spec)
        BY <2>1 DEF IPSetOK
    <2>3. k \in DOMAIN req
        BY Zenon
    <2> HIDE DEF req, spec
    <2>4. /\ req[k].name \in DOMAIN spec
          /\ \E e \in ipsets[i].status : e[1] = req[k].name /\ e[2] = {spec[req[k].name]}
        BY <2>2, <2>3, Zenon DEF Shown
    <2>5. PICK j \in DOMAIN req : /\ req[j].name = req[k].name
                                  /\ \A s \in Subnets(netcfg, req[j]) : InCidr(spec[req[k].name], s.cidr)
        BY <2>2, <2>4, Zenon DEF Fits
    <2>6. j = k
        BY <2>2, <2>3, <2>5 DEF Placed, UniqElements
    <2> QED
        BY <2>4, <2>5, <2>6, Zenon DEF req, spec
<1> QED
    BY <1>1, ReadyInit, ReadyStep, PTL DEF IPAMSpec

---------------------------------------------------------------------------
(* BGPRoutes: nothing is orphaned                                          *)

BGPType ==
    /\ bgp \in [Planes -> [st : {"absent", "live", "deleting"}, fin : BOOLEAN, ns : FRRNamespaces]]
    /\ frr = [ns \in FRRNamespaces |-> frr[ns]]
    /\ nodeCfg = [ns \in FRRNamespaces |-> nodeCfg[ns]]
    /\ migrated \in BOOLEAN
    /\ bgpRec = [pc |-> bgpRec.pc, plane |-> bgpRec.plane, ns |-> bgpRec.ns, spec |-> bgpRec.spec,
                 details |-> bgpRec.details, todo |-> bgpRec.todo, list |-> bgpRec.list]

\* The finalizer is there before the first route is written and until the last
\* one is removed.
RoutesHaveFinalizer ==
    \A p \in Planes, ns \in FRRNamespaces : RoutesOf(p, ns) # {} => bgp[p].fin /\ bgp[p].st # "absent"

\* reconcileDelete looks at three namespaces at most; there are no routes in the
\* others: none in the new one before frr-k8s has moved there,
NewNamespaceUnused == ~migrated => frr["migration"] = {} /\ nodeCfg["migration"] = {}

\* none in one that frr-k8s never used, except those of a BGPConfiguration that
\* names it.
CustomNamespaceNamed == \A p \in Planes : RoutesOf(p, "custom") # {} => bgp[p].ns = "custom"

\* A reconcile writes the routes of its own plane, which still has its finalizer,
\* into a namespace that keeps the above.
WritesAreOwned ==
    bgpRec.todo # {} =>
       /\ bgpRec.plane \in Planes /\ bgpRec.ns \in FRRNamespaces
       /\ bgp[bgpRec.plane].fin /\ bgp[bgpRec.plane].st # "absent"
       /\ \A d \in bgpRec.todo : d.plane = bgpRec.plane
       /\ bgpRec.ns = "migration" => migrated
       /\ bgpRec.ns = "custom" => bgp[bgpRec.plane].ns = "custom"

\* The finalizer is removed when there are no routes.
FinalizedIsClean ==
    bgpRec.pc = "finalize" =>
       /\ bgpRec.plane \in Planes /\ bgpRec.todo = {}
       /\ bgp[bgpRec.plane].st = "deleting"
       /\ \A ns \in FRRNamespaces : RoutesOf(bgpRec.plane, ns) = {}

BGPInv ==
    /\ BGPType
    /\ RoutesHaveFinalizer /\ NewNamespaceUnused /\ CustomNamespaceNamed
    /\ WritesAreOwned /\ FinalizedIsClean

LEMMA BGPInvInit == BGPInit => BGPInv
<1> SUFFICES ASSUME BGPInit PROVE BGPInv
    OBVIOUS
<1>1. BGPType
    BY DEF BGPInit, BGPType, NoBGP, FRRNamespaces, BGPIdle
<1>2. RoutesHaveFinalizer /\ CustomNamespaceNamed
    BY DEF BGPInit, RoutesHaveFinalizer, CustomNamespaceNamed, RoutesOf, FRRNamespaces
<1>3. NewNamespaceUnused
    BY DEF BGPInit, NewNamespaceUnused, FRRNamespaces
<1>4. WritesAreOwned /\ FinalizedIsClean
    BY Zenon DEF BGPInit, WritesAreOwned, FinalizedIsClean, BGPIdle
<1> QED
    BY <1>1, <1>2, <1>3, <1>4, Zenon DEF BGPInv

\* Steps of users: routes and reconciles stay as they are, and what they rely on.
LEMMA UsersKeep ==
    ASSUME BGPInv, UNCHANGED <<frr, nodeCfg, migrated, bgpRec>>, NEW p \in Planes,
           \/ \E ns \in FRRNamespaces : CreateBGP(p, ns) \/ EditBGP(p, ns)
           \/ DeleteBGP(p) \/ BGPRegister(p)
    PROVE  BGPInv'
<1> USE DEF BGPInv, BGPType
<1>1. \A q \in Planes, ns \in FRRNamespaces : RoutesOf(q, ns)' = RoutesOf(q, ns)
    BY DEF RoutesOf
<1>2. "migration" \in FRRNamespaces /\ "custom" \in FRRNamespaces
    BY Zenon DEF FRRNamespaces
<1>3. /\ BGPType'
      /\ \A q \in Planes \ {p} : bgp'[q] = bgp[q]
      /\ bgp[p].st = "absent" \/ ~bgp[p].fin
         \/ (bgp'[p].st # "absent" /\ bgp'[p].fin /\ (bgp[p].ns = "custom" => bgp'[p].ns = "custom"))
      /\ bgp[p].st = "deleting" => bgp'[p].st = "deleting"
    <2>1. CASE \E ns \in FRRNamespaces : CreateBGP(p, ns)
        BY <2>1 DEF CreateBGP
    <2>2. CASE \E ns \in FRRNamespaces : EditBGP(p, ns)
        BY <2>2 DEF EditBGP
    <2>3. CASE DeleteBGP(p)
        <3>1. \/ bgp[p].fin /\ bgp' = [bgp EXCEPT ![p] = [bgp[p] EXCEPT !.st = "deleting"]]
              \/ ~bgp[p].fin /\ bgp' = [bgp EXCEPT ![p] = NoBGP]
            BY <2>3, Zenon DEF DeleteBGP
        <3>2. bgp[p].st = "live"
            BY <2>3 DEF DeleteBGP
        <3>3. CASE bgp[p].fin /\ bgp' = [bgp EXCEPT ![p] = [bgp[p] EXCEPT !.st = "deleting"]]
            BY <1>2, <3>2, <3>3, Zenon
        <3>4. CASE ~bgp[p].fin /\ bgp' = [bgp EXCEPT ![p] = NoBGP]
            BY <1>2, <3>2, <3>4 DEF NoBGP
        <3> QED
            BY <3>1, <3>3, <3>4
    <2>4. CASE BGPRegister(p)
        BY <2>4, ZenonT(40) DEF BGPRegister
    <2> QED
        BY <2>1, <2>2, <2>3, <2>4, Zenon
<1>4. RoutesHaveFinalizer'
    <2> SUFFICES ASSUME NEW q \in Planes, NEW ns \in FRRNamespaces, RoutesOf(q, ns) # {}
                 PROVE  bgp'[q].fin /\ bgp'[q].st # "absent"
        BY <1>1 DEF RoutesHaveFinalizer
    <2>1. bgp[q].fin /\ bgp[q].st # "absent"
        BY DEF RoutesHaveFinalizer
    <2> QED
        BY <1>3, <2>1
<1>5. NewNamespaceUnused'
    BY ZenonT(40) DEF NewNamespaceUnused
<1>6. CustomNamespaceNamed'
    BY <1>1, <1>2, <1>3 DEF CustomNamespaceNamed, RoutesHaveFinalizer
<1>7. WritesAreOwned'
    BY <1>3 DEF WritesAreOwned
<1>8. FinalizedIsClean'
    BY <1>1, <1>3 DEF FinalizedIsClean
<1> QED
    BY <1>3, <1>4, <1>5, <1>6, <1>7, <1>8, Zenon

\* Steps that write no route and begin no reconcile that does.
LEMMA ShrinkingKeeps ==
    ASSUME BGPInv, UNCHANGED <<bgp, nodeCfg, migrated>>,
           BGPType',
           \A ns \in FRRNamespaces : frr'[ns] \subseteq frr[ns],
           \/ bgpRec'.todo = {}
           \/ bgpRec'.todo \subseteq bgpRec.todo /\ bgpRec'.plane = bgpRec.plane /\ bgpRec'.ns = bgpRec.ns,
           bgpRec'.pc # "finalize"
    PROVE  BGPInv'
<1> USE DEF BGPInv
<1>1. \A q \in Planes, ns \in FRRNamespaces : RoutesOf(q, ns)' \subseteq RoutesOf(q, ns)
    BY DEF RoutesOf
<1>2. "migration" \in FRRNamespaces /\ "custom" \in FRRNamespaces
    BY DEF FRRNamespaces
<1>3. RoutesHaveFinalizer'
    BY <1>1 DEF RoutesHaveFinalizer
<1>4. NewNamespaceUnused'
    BY <1>2 DEF NewNamespaceUnused
<1>5. CustomNamespaceNamed'
    BY <1>1, <1>2, Zenon DEF CustomNamespaceNamed
<1>6. WritesAreOwned' /\ FinalizedIsClean'
    BY DEF WritesAreOwned, FinalizedIsClean
<1> QED
    BY <1>3, <1>4, <1>5, <1>6, ZenonT(40)

LEMMA WithoutRoutesShrinks ==
    ASSUME BGPType, NEW p, NEW nss, frr' = WithoutRoutes(p, nss)
    PROVE  /\ frr' = [ns \in FRRNamespaces |-> frr'[ns]]
           /\ \A ns \in FRRNamespaces : frr'[ns] \subseteq frr[ns]
           /\ \A ns \in FRRNamespaces : ns \in nss => RoutesOf(p, ns)' = {}
<1>1. \A ns \in FRRNamespaces : frr'[ns] = IF ns \in nss THEN frr[ns] \ RoutesOf(p, ns) ELSE frr[ns]
    BY DEF WithoutRoutes
<1>2. frr' = [ns \in FRRNamespaces |-> frr'[ns]]
    BY Zenon DEF WithoutRoutes
<1> QED
    BY <1>1, <1>2 DEF RoutesOf

\* A reconcile begins: what it is to write it may write.  It has no pod to announce
\* in a namespace that frr-k8s has not moved to, since no node is configured there.
LEMMA GatherKeeps ==
    ASSUME BGPInv, NEW p \in Planes, BGPGather(p)
    PROVE  BGPInv'
<1> USE DEF BGPInv, BGPType
<1> DEFINE here == FRRConfigurationNamespace(p)
<1>1. /\ UNCHANGED <<bgp, nodeCfg, migrated, frr>>
      /\ bgp[p].st = "live" /\ bgp[p].fin
      /\ bgpRec'.pc = "write" /\ bgpRec'.plane = p /\ bgpRec'.ns = here
      /\ bgpRec'.todo = PodDetails(p)
    BY Zenon DEF BGPGather, bgpCluster
<1>2. BGPType'
    BY <1>1 DEF BGPGather
<1>3. here \in FRRNamespaces /\ (here = "custom" => bgp[p].ns = "custom")
    BY Zenon DEF FRRConfigurationNamespace, FRRNamespaces
<1>4. here = "migration" /\ ~migrated => PodDetails(p) = {}
    <2> SUFFICES ASSUME here = "migration", ~migrated PROVE Announced(p) = {}
        BY DEF PodDetails
    <2>1. nodeCfg[here] = {}
        BY DEF NewNamespaceUnused
    <2> QED
        BY <2>1, Zenon DEF BGPGather
<1>5. \A d \in PodDetails(p) : d.plane = p
    BY DEF PodDetails
<1>6. WritesAreOwned'
    BY <1>1, <1>3, <1>4, <1>5 DEF WritesAreOwned
<1>7. FinalizedIsClean'
    BY <1>1 DEF FinalizedIsClean
<1>8. RoutesHaveFinalizer' /\ NewNamespaceUnused' /\ CustomNamespaceNamed'
    BY <1>1, Zenon DEF RoutesHaveFinalizer, NewNamespaceUnused, CustomNamespaceNamed, RoutesOf
<1> QED
    BY <1>2, <1>6, <1>7, <1>8, Zenon

LEMMA WriteKeeps ==
    ASSUME BGPInv, WriteFRRConfiguration
    PROVE  BGPInv'
<1> USE DEF BGPInv, BGPType
<1>1. UNCHANGED <<bgp, nodeCfg, migrated>> /\ bgpRec.pc = "write"
    BY DEF WriteFRRConfiguration, bgpCluster
<1>2. PICK d \in bgpRec.todo :
         /\ frr' = [frr EXCEPT ![bgpRec.ns] =
                      {r \in frr[bgpRec.ns] : <<r.plane, r.pod>> # <<d.plane, d.pod>>} \cup {d}]
         /\ bgpRec' = [bgpRec EXCEPT !.todo = @ \ {d}]
    BY Zenon DEF WriteFRRConfiguration, WriteRoutes
<1>3. /\ bgpRec.plane \in Planes /\ bgpRec.ns \in FRRNamespaces
      /\ bgp[bgpRec.plane].fin /\ bgp[bgpRec.plane].st # "absent"
      /\ d.plane = bgpRec.plane
      /\ bgpRec.ns = "migration" => migrated
      /\ bgpRec.ns = "custom" => bgp[bgpRec.plane].ns = "custom"
    BY DEF WritesAreOwned
<1>4. /\ bgpRec'.pc = "write" /\ bgpRec'.plane = bgpRec.plane /\ bgpRec'.ns = bgpRec.ns
      /\ bgpRec'.todo \subseteq bgpRec.todo
    BY <1>1, <1>2
<1>5. /\ frr' = [ns \in FRRNamespaces |-> frr'[ns]]
      /\ \A ns \in FRRNamespaces : \A r \in frr'[ns] :
            r \in frr[ns] \/ (ns = bgpRec.ns /\ r = d)
    BY <1>2, <1>3, Zenon
<1>6. BGPType'
    BY <1>1, <1>2, <1>5, ZenonT(40)
<1>7. \A p \in Planes, ns \in FRRNamespaces : RoutesOf(p, ns)' # {} =>
         RoutesOf(p, ns) # {} \/ (ns = bgpRec.ns /\ p = bgpRec.plane)
    BY <1>3, <1>5 DEF RoutesOf
<1>8. "migration" \in FRRNamespaces /\ "custom" \in FRRNamespaces
    BY Zenon DEF FRRNamespaces
<1>9. RoutesHaveFinalizer' /\ CustomNamespaceNamed'
    BY <1>1, <1>3, <1>7, <1>8 DEF RoutesHaveFinalizer, CustomNamespaceNamed
<1>10. NewNamespaceUnused'
    BY <1>1, <1>3, <1>5, <1>8 DEF NewNamespaceUnused
<1>11. WritesAreOwned' /\ FinalizedIsClean'
    BY <1>1, <1>4 DEF WritesAreOwned, FinalizedIsClean
<1> QED
    BY <1>6, <1>9, <1>10, <1>11

LEMMA CleaningKeeps ==
    ASSUME BGPInv, DeleteStaleFRRConfigurations \/ CleanupOldNamespaces \/ BGPAbort
    PROVE  BGPInv'
<1> USE DEF BGPType
<1>0. BGPType
    BY DEF BGPInv
<1>1. CASE DeleteStaleFRRConfigurations
    <2>1. UNCHANGED <<bgp, nodeCfg, migrated>> /\ bgpRec.todo = {}
        BY <1>1 DEF DeleteStaleFRRConfigurations, bgpCluster
    <2>2. CASE Stale = {}
        <3>1. bgpRec' = [bgpRec EXCEPT !.pc = "clean"] /\ UNCHANGED frr
            BY <1>1, <2>2, Zenon DEF DeleteStaleFRRConfigurations
        <3> QED
            BY <1>0, <2>1, <3>1, ShrinkingKeeps, Zenon
    <2>3. CASE Stale # {}
        <3>1. PICK c \in Stale :
                 /\ bgpRec' = [bgpRec EXCEPT !.list = @ \ {c}]
                 /\ frr' = [frr EXCEPT ![bgpRec.ns] = {r \in @ : <<r.plane, r.pod>> # <<c.plane, c.pod>>}]
            BY <1>1, <2>3 DEF DeleteStaleFRRConfigurations, WriteRoutes
        <3>2. /\ frr' = [ns \in FRRNamespaces |-> frr'[ns]]
              /\ \A ns \in FRRNamespaces : frr'[ns] \subseteq frr[ns]
            BY <1>0, <3>1, Zenon
        <3>3. BGPType' /\ bgpRec'.todo = {} /\ bgpRec'.pc = bgpRec.pc /\ bgpRec.pc = "write"
            BY <1>0, <1>1, <2>1, <3>1, <3>2, Zenon DEF DeleteStaleFRRConfigurations
        <3> QED
            BY <2>1, <3>2, <3>3, ShrinkingKeeps, Zenon
    <2> QED
        BY <2>2, <2>3
<1>2. CASE CleanupOldNamespaces
    <2>1. UNCHANGED <<bgp, nodeCfg, migrated>> /\ bgpRec' = BGPIdle
        BY <1>2, Zenon DEF CleanupOldNamespaces, bgpCluster
    <2>2. PICK done : frr' = WithoutRoutes(bgpRec.plane, done)
        BY <1>2, Zenon DEF CleanupOldNamespaces, WriteRoutes
    <2>3. /\ frr' = [ns \in FRRNamespaces |-> frr'[ns]]
          /\ \A ns \in FRRNamespaces : frr'[ns] \subseteq frr[ns]
        BY <1>0, <2>2, WithoutRoutesShrinks, Zenon
    <2>4. BGPType' /\ bgpRec'.todo = {} /\ bgpRec'.pc = "idle"
        BY <1>0, <2>1, <2>3, Zenon DEF BGPIdle
    <2> QED
        BY <2>1, <2>3, <2>4, ShrinkingKeeps, Zenon
<1>3. CASE BGPAbort
    <2>1. UNCHANGED <<bgp, nodeCfg, migrated, frr>> /\ bgpRec' = BGPIdle
        BY <1>3, Zenon DEF BGPAbort, bgpCluster
    <2>2. BGPType' /\ bgpRec'.todo = {} /\ bgpRec'.pc = "idle"
        BY <1>0, <2>1 DEF BGPIdle
    <2> QED
        BY <2>1, <2>2, ShrinkingKeeps
<1> QED
    BY <1>1, <1>2, <1>3, Zenon

\* reconcileDelete: whatever happened before, the three namespaces are all there are.
LEMMA DeleteRoutesKeeps ==
    ASSUME BGPInv, NEW p \in Planes, DeleteRoutes(p)
    PROVE  BGPInv'
<1>0. BGPType
    BY DEF BGPInv
<1>1. UNCHANGED <<bgp, nodeCfg, migrated>> /\ bgpRec = BGPIdle /\ bgp[p].st = "deleting"
    BY DEF DeleteRoutes, bgpCluster
<1>2. CASE UNCHANGED bgpRec /\ \E done : WriteRoutes(WithoutRoutes(p, done))
    <2>1. PICK done : frr' = WithoutRoutes(p, done)
        BY <1>2 DEF WriteRoutes
    <2>2. /\ frr' = [ns \in FRRNamespaces |-> frr'[ns]]
          /\ \A ns \in FRRNamespaces : frr'[ns] \subseteq frr[ns]
        BY <1>0, <2>1, WithoutRoutesShrinks, Zenon
    <2>3. BGPType' /\ bgpRec'.todo = {} /\ bgpRec'.pc = "idle"
        BY <1>0, <1>1, <1>2, <2>2 DEF BGPIdle, BGPType
    <2> QED
        BY <1>1, <2>2, <2>3, ShrinkingKeeps, Zenon
<1>3. CASE /\ frr' = WithoutRoutes(p, {FRRConfigurationNamespace(p), bgp[p].ns, "legacy"})
           /\ bgpRec' = [BGPIdle EXCEPT !.pc = "finalize", !.plane = p]
    <2> DEFINE nss == {FRRConfigurationNamespace(p), bgp[p].ns, "legacy"}
    <2>1. /\ frr' = [ns \in FRRNamespaces |-> frr'[ns]]
          /\ \A ns \in FRRNamespaces : frr'[ns] \subseteq frr[ns]
          /\ \A ns \in FRRNamespaces : ns \in nss => RoutesOf(p, ns)' = {}
        BY <1>0, <1>3, WithoutRoutesShrinks, Zenon
    <2>2. \A q \in Planes, ns \in FRRNamespaces : RoutesOf(q, ns)' \subseteq RoutesOf(q, ns)
        BY <2>1 DEF RoutesOf
    <2>3. \A ns \in FRRNamespaces : RoutesOf(p, ns)' = {}
        <3>1. RoutesOf(p, "legacy")' = {}
            BY <2>1 DEF FRRNamespaces
        <3>2. RoutesOf(p, "migration")' = {}
            <4>1. CASE migrated
                BY <2>1, <4>1 DEF FRRConfigurationNamespace, FRRNamespaces
            <4>2. CASE ~migrated
                BY <2>2, <4>2 DEF BGPInv, NewNamespaceUnused, RoutesOf, FRRNamespaces
            <4> QED
                BY <4>1, <4>2 DEF BGPInv, BGPType
        <3>3. RoutesOf(p, "custom")' = {}
            BY <2>1, <2>2 DEF BGPInv, CustomNamespaceNamed, FRRNamespaces
        <3> QED
            BY <3>1, <3>2, <3>3 DEF FRRNamespaces
    <2>4. bgpRec'.pc = "finalize" /\ bgpRec'.plane = p /\ bgpRec'.todo = {}
        BY <1>3 DEF BGPIdle
    <2>5. BGPType'
        BY <1>0, <1>1, <1>3, <2>1, Zenon DEF BGPType, BGPIdle
    <2>6. WritesAreOwned' /\ FinalizedIsClean'
        BY <1>1, <2>3, <2>4, Zenon DEF WritesAreOwned, FinalizedIsClean
    <2>7. RoutesHaveFinalizer' /\ CustomNamespaceNamed' /\ NewNamespaceUnused'
        BY <1>1, <2>1, <2>2, Zenon DEF BGPInv, RoutesHaveFinalizer, CustomNamespaceNamed, NewNamespaceUnused, FRRNamespaces
    <2> QED
        BY <2>5, <2>6, <2>7 DEF BGPInv
<1> QED
    BY <1>2, <1>3, ZenonT(40) DEF DeleteRoutes, WriteRoutes

LEMMA RemoveFinalizerKeeps ==
    ASSUME BGPInv, RemoveBGPFinalizer
    PROVE  BGPInv'
<1> USE DEF BGPInv, BGPType
<1>1. /\ UNCHANGED <<nodeCfg, migrated, frr>> /\ bgpRec' = BGPIdle
      /\ bgp' = [bgp EXCEPT ![bgpRec.plane] = NoBGP]
      /\ bgpRec.pc = "finalize"
    BY Zenon DEF RemoveBGPFinalizer, bgpCluster
<1>2. bgpRec.plane \in Planes /\ \A ns \in FRRNamespaces : RoutesOf(bgpRec.plane, ns) = {}
    BY <1>1 DEF FinalizedIsClean
<1>3. BGPType'
    BY <1>1, ZenonT(40) DEF NoBGP, BGPIdle, FRRNamespaces
<1>4. \A q \in Planes, ns \in FRRNamespaces : RoutesOf(q, ns)' = RoutesOf(q, ns)
    BY <1>1, Zenon DEF RoutesOf
<1>5. \A q \in Planes : q # bgpRec.plane => bgp'[q] = bgp[q]
    BY <1>1, Zenon
<1>6. RoutesHaveFinalizer' /\ CustomNamespaceNamed'
    BY <1>2, <1>4, <1>5 DEF RoutesHaveFinalizer, CustomNamespaceNamed, FRRNamespaces
<1>7. NewNamespaceUnused'
    BY <1>1, Zenon DEF NewNamespaceUnused
<1>8. WritesAreOwned' /\ FinalizedIsClean'
    BY <1>1, Zenon DEF WritesAreOwned, FinalizedIsClean, BGPIdle
<1> QED
    BY <1>3, <1>6, <1>7, <1>8, Zenon

LEMMA ClusterKeeps ==
    ASSUME BGPInv, MigrateFRR \/ \E ns \in FRRNamespaces : NodeConfigured(ns)
    PROVE  BGPInv'
<1> USE DEF BGPInv, BGPType
<1>1. /\ UNCHANGED <<bgp, frr, bgpRec>>
      /\ BGPType' /\ (migrated => migrated')
    BY ZenonT(40) DEF MigrateFRR, NodeConfigured
<1>2. NewNamespaceUnused'
    <2>1. CASE MigrateFRR
        BY <2>1, Zenon DEF NewNamespaceUnused, MigrateFRR
    <2>2. ASSUME NEW ns \in FRRNamespaces, NodeConfigured(ns)
          PROVE  migrated' = migrated /\ (~migrated => nodeCfg'["migration"] = nodeCfg["migration"])
        BY <2>2 DEF NodeConfigured, FRRNamespaces
    <2>3. CASE \E ns \in FRRNamespaces : NodeConfigured(ns)
        BY <1>1, <2>2, <2>3, Zenon DEF NewNamespaceUnused
    <2> QED
        BY <2>1, <2>3
<1>3. RoutesHaveFinalizer' /\ CustomNamespaceNamed'
    BY <1>1, ZenonT(40) DEF RoutesHaveFinalizer, CustomNamespaceNamed, RoutesOf
<1>4. WritesAreOwned' /\ FinalizedIsClean'
    BY <1>1 DEF WritesAreOwned, FinalizedIsClean, RoutesOf
<1> QED
    BY <1>1, <1>2, <1>3, <1>4

LEMMA BGPInvNext == BGPInv /\ [BGPNext]_bgpVars => BGPInv'
<1> SUFFICES ASSUME BGPInv, [BGPNext]_bgpVars PROVE BGPInv'
    OBVIOUS
<1>1. CASE UNCHANGED <<bgp, frr, nodeCfg, migrated, bgpRec>>
    BY <1>1, ZenonT(40) DEF BGPInv, BGPType, RoutesHaveFinalizer, NewNamespaceUnused, CustomNamespaceNamed,
                WritesAreOwned, FinalizedIsClean, RoutesOf
<1>2. CASE BGPStep
    <2>1. ASSUME NEW p \in Planes, BGPRegister(p) PROVE BGPInv'
        <3>1. UNCHANGED <<frr, nodeCfg, migrated, bgpRec>>
            BY <2>1 DEF BGPRegister, bgpCluster
        <3> QED
            BY <2>1, <3>1, UsersKeep
    <2> QED
        BY <1>2, <2>1, GatherKeeps, DeleteRoutesKeeps, WriteKeeps, CleaningKeeps, RemoveFinalizerKeeps
           DEF BGPStep
<1>3. CASE BGPAbort \/ MigrateFRR \/ \E ns \in FRRNamespaces : NodeConfigured(ns)
    BY <1>3, CleaningKeeps, ClusterKeeps
<1>4. ASSUME NEW p \in Planes,
             DeleteBGP(p) \/ \E ns \in FRRNamespaces : CreateBGP(p, ns) \/ EditBGP(p, ns)
      PROVE  BGPInv'
    <2>1. UNCHANGED <<frr, nodeCfg, migrated, bgpRec>>
        BY <1>4 DEF DeleteBGP, CreateBGP, EditBGP
    <2> QED
        BY <1>4, <2>1, UsersKeep
<1>5. ASSUME NEW p \in Planes, NEW n \in PodNames,
             \/ BGPPodStops(p, n) \/ BGPPodGone(p, n)
             \/ \E shape \in PodShapes : \/ BGPPodAttached(p, n, shape)
                                         \/ \E node \in BGPNodes : BGPPodStarts(p, n, node, shape)
      PROVE  UNCHANGED <<bgp, frr, nodeCfg, migrated, bgpRec>>
    BY <1>5, Zenon DEF BGPPodStops, BGPPodGone, BGPPodAttached, BGPPodStarts, PodEvent
<1>6. CASE UNCHANGED bgpVars
    BY <1>1, <1>6 DEF bgpVars
<1> QED
    BY <1>1, <1>2, <1>3, <1>4, <1>5, <1>6, Zenon DEF BGPNext

\* A BGPConfiguration that is gone has left no FRRConfiguration in any namespace,
\* however often frr-k8s moved, its namespace was edited or reconcileDelete and
\* the clean-up failed half-way.
THEOREM DeletedLeavesNoRoutes == BGPSpec => []NoOrphanedRoutes
<1>1. BGPInv => NoOrphanedRoutes
    BY DEF BGPInv, RoutesHaveFinalizer, NoOrphanedRoutes
<1> QED
    BY BGPInvInit, BGPInvNext, <1>1, PTL DEF BGPSpec
===============================================================================
