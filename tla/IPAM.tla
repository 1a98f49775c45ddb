-------------------------------- MODULE IPAM --------------------------------
(***************************************************************************)
(* Addresses of the dataplane: the NetConfig with its networks and         *)
(* subnets, IPSets that ask for an address on some of them, the IPSet      *)
(* controller that keeps one Reservation per IPSet, the address assignment *)
(* of package ipam, and the admission webhooks of NetConfig and IPSet.     *)
(*                                                                         *)
(* Addresses are numbers and a CIDR is an interval of them; Octet is the   *)
(* weight whose multiples end with 0.  Names are compared as if lowercased *)
(* (GetNet ignores case, so do the candidates).  A webhook answers and the *)
(* object is stored in one step.                                           *)
(***************************************************************************)
EXTENDS Integers, Sequences, FiniteSets

CONSTANTS
    IPSets,
    NetConfigs,      \* the network lists a user may submit, valid or not
    Requests,        \* the network lists an IPSet may ask for, valid or not
    Octet,
    FreshCache,      \* the controller lists Reservations as they are
    MaxIPEdits,      \* changes by users
    MaxIPFaults,     \* failed calls and crashes
    Unset

\* Requests are lists, a CIDR and the ranges of a subnet are intervals of numbers.
ASSUME IPAMAssumption ==
    /\ Unset \notin NetConfigs
    /\ \A nc \in NetConfigs : \A k \in DOMAIN nc : \A j \in DOMAIN nc[k].subnets :
           /\ nc[k].subnets[j].cidr \in Int \X Int
           /\ nc[k].subnets[j].ranges \in Seq(Int \X Int)
    /\ \A req \in Requests : Len(req) \in Nat /\ DOMAIN req = 1..Len(req)

VARIABLES
    netcfg,          \* the NetConfig, a sequence of networks; Unset if there is none
    ipsets,
    reservations,
    resCache,        \* the Reservations as the controller lists them
    ipRec,           \* the reconcile in progress
    ipQueue,         \* IPSets waiting for a reconcile
    ipEdits,
    ipFaults

ipamVars == <<netcfg, ipsets, reservations, resCache, ipRec, ipQueue, ipEdits, ipFaults>>

NoIPSet == [st |-> "absent", spec |-> <<>>, immutable |-> FALSE, fin |-> FALSE,
            ready |-> FALSE, observed |-> <<>>, status |-> {}]
NoReservation == [st |-> "absent", fin |-> FALSE, orphan |-> FALSE, spec |-> [n \in {} |-> n]]
NoRec == [pc |-> "idle", i |-> Unset, ready |-> FALSE, spec |-> <<>>, status |-> {}]

IPAMInit ==
    /\ netcfg = Unset
    /\ ipsets = [i \in IPSets |-> NoIPSet]
    /\ reservations = [i \in IPSets |-> NoReservation]
    /\ resCache = reservations
    /\ ipRec = NoRec
    /\ ipQueue = {}
    /\ ipEdits = 0 /\ ipFaults = 0

-----------------------------------------------------------------------------
(* Lookup and admission *)

InCidr(a, cidr) == cidr[1] <= a /\ a <= cidr[2]

\* GetNetAndSubnet: the subnet of that name in the network of that name, if any.
Subnets(nc, r) ==
    UNION {{nc[k].subnets[j] : j \in {l \in DOMAIN nc[k].subnets : nc[k].subnets[l].name = r.subnet}}
             : k \in {l \in DOMAIN nc : nc[l].name = r.name}}

UniqElements(list) == \A j, k \in DOMAIN list : list[j] = list[k] => j = k

ValidAllocationRange(range, cidr) ==
    InCidr(range[1], cidr) /\ InCidr(range[2], cidr) /\ range[1] < range[2]

ValidSubnet(s) ==
    /\ s.gateway # Unset => InCidr(s.gateway, s.cidr)
    /\ \A k \in DOMAIN s.ranges : ValidAllocationRange(s.ranges[k], s.cidr)
    /\ \A a \in s.excluded : InCidr(a, s.cidr)

ValidNetworks(nc) ==
    /\ UniqElements([k \in DOMAIN nc |-> nc[k].name])
    /\ \A k \in DOMAIN nc :
           /\ UniqElements([j \in DOMAIN nc[k].subnets |-> nc[k].subnets[j].name])
           /\ \A j \in DOMAIN nc[k].subnets : ValidSubnet(nc[k].subnets[j])
    /\ \A k, l \in DOMAIN nc : \A i \in DOMAIN nc[k].subnets, j \in DOMAIN nc[l].subnets :
           nc[k].subnets[i].cidr = nc[l].subnets[j].cidr => <<k, i>> = <<l, j>>

\* A plausible slip: only the names are compared with the old object.
NetworksChangedNames(nc, old) ==
    \A k \in DOMAIN old : \E j \in DOMAIN nc : nc[j].name = old[k].name

\* valiateNetworksChanged finds nothing: networks and subnets stay, with their
\* CIDR and VLAN.
NetworksKept(nc, old) ==
    \A k \in DOMAIN old : \A j \in DOMAIN old[k].subnets :
        \E s \in Subnets(nc, [name |-> old[k].name, subnet |-> old[k].subnets[j].name]) :
            s.cidr = old[k].subnets[j].cidr /\ s.vlan = old[k].subnets[j].vlan

\* validateIPSetNetwork finds nothing.  The subnets of the model are of one
\* address family.
ValidRequest(req, nc) ==
    /\ UniqElements([k \in DOMAIN req |-> req[k].name])
    /\ \A k \in DOMAIN req : \E s \in Subnets(nc, req[k]) :
           /\ req[k].fixed # Unset => InCidr(req[k].fixed, s.cidr)
           /\ req[k].route => s.gateway # Unset
    /\ Cardinality({k \in DOMAIN req : req[k].route}) <= 1

\* validateIPSetChanged finds nothing: what was asked for is still asked for.
RequestKept(req, old) == \A k \in DOMAIN old : \E j \in DOMAIN req : req[j] = old[k]

InUse == {i \in IPSets : ipsets[i].st # "absent"}

-----------------------------------------------------------------------------
(* Users: every change of an object puts the IPSets it concerns on the queue *)

EditNetConfig(nc) ==
    /\ ipEdits < MaxIPEdits
    /\ nc # netcfg
    /\ ValidNetworks(nc)
    /\ (netcfg # Unset /\ InUse # {}) => NetworksKept(nc, netcfg)
    /\ netcfg' = nc
    /\ ipQueue' = InUse
    /\ ipEdits' = ipEdits + 1
    /\ UNCHANGED <<ipsets, reservations, resCache, ipRec, ipFaults>>

DeleteNetConfig ==
    /\ ipEdits < MaxIPEdits
    /\ netcfg # Unset /\ InUse = {}
    /\ netcfg' = Unset
    /\ ipEdits' = ipEdits + 1
    /\ UNCHANGED <<ipsets, reservations, resCache, ipRec, ipQueue, ipFaults>>

CreateIPSet(i, req, immutable) ==
    /\ ipEdits < MaxIPEdits
    /\ ipsets[i].st = "absent"
    /\ netcfg # Unset
    /\ ValidRequest(req, netcfg)
    /\ ipsets' = [ipsets EXCEPT ![i] = [NoIPSet EXCEPT !.st = "live", !.spec = req,
                                                        !.immutable = immutable]]
    /\ ipQueue' = ipQueue \cup {i}
    /\ ipEdits' = ipEdits + 1
    /\ UNCHANGED <<netcfg, reservations, resCache, ipRec, ipFaults>>

UpdateIPSet(i, req) ==
    /\ ipEdits < MaxIPEdits
    /\ ipsets[i].st = "live" /\ ~ipsets[i].immutable
    /\ req # ipsets[i].spec
    /\ netcfg # Unset
    /\ ValidRequest(req, netcfg)
    /\ RequestKept(req, ipsets[i].spec)
    /\ ipsets' = [ipsets EXCEPT ![i].spec = req]
    /\ ipQueue' = ipQueue \cup {i}
    /\ ipEdits' = ipEdits + 1
    /\ UNCHANGED <<netcfg, reservations, resCache, ipRec, ipFaults>>

DeleteIPSet(i) ==
    /\ ipEdits < MaxIPEdits
    /\ ipsets[i].st = "live"
    /\ ipsets' = [ipsets EXCEPT ![i] = IF @.fin THEN [@ EXCEPT !.st = "deleting"] ELSE NoIPSet]
    /\ ipQueue' = IF ipsets[i].fin THEN ipQueue \cup {i} ELSE ipQueue \ {i}
    /\ ipEdits' = ipEdits + 1
    /\ UNCHANGED <<netcfg, reservations, resCache, ipRec, ipFaults>>

-----------------------------------------------------------------------------
(* AssignIP *)

Reserved(list, n) == {list[j].spec[n] : j \in {p \in IPSets : n \in DOMAIN list[p].spec}}

\* What is left of the ranges of a subnet, with the position of the range.
Available(s, reserved) ==
    UNION {{<<k, a>> : a \in {b \in s.ranges[k][1]..s.ranges[k][2] :
                                  b % Octet # 0 /\ b \notin s.excluded /\ b \notin reserved}}
             : k \in DOMAIN s.ranges}

\* iterateForAssignment: the first address of the first range that has one.
FirstAvailable(s, reserved) ==
    {p[2] : p \in {q \in Available(s, reserved) : \A o \in Available(s, reserved) :
                      q[1] < o[1] \/ (q[1] = o[1] /\ q[2] <= o[2])}}

\* A plausible slip: a fixed address is not looked up among the reserved ones.
AssignIPUnchecked(s, fixed, reserved) ==
    IF fixed = Unset THEN FirstAvailable(s, reserved) ELSE {fixed} \ s.excluded

\* The empty set stands for an error.  A fixed address need not be in a range.
AssignIP(s, fixed, reserved) ==
    IF fixed = Unset THEN FirstAvailable(s, reserved) ELSE {fixed} \ (s.excluded \cup reserved)

-----------------------------------------------------------------------------
(* The IPSet controller *)

\* A plausible slip: nothing follows the reconcile that adds the finalizer.
IPRegisterDequeued(i) ==
    /\ ipRec = NoRec
    /\ i \in ipQueue
    /\ ipsets[i].st = "live" /\ ~ipsets[i].fin
    /\ ipsets' = [ipsets EXCEPT ![i].fin = TRUE]
    /\ ipQueue' = ipQueue \ {i}
    /\ UNCHANGED <<netcfg, reservations, resCache, ipRec, ipEdits, ipFaults>>

IPRegister(i) ==
    /\ ipRec = NoRec
    /\ i \in ipQueue
    /\ ipsets[i].st = "live" /\ ~ipsets[i].fin
    /\ ipsets' = [ipsets EXCEPT ![i].fin = TRUE]
    /\ UNCHANGED <<netcfg, reservations, resCache, ipRec, ipQueue, ipEdits, ipFaults>>

\* The address for each entry of a request: the one it has, or a new one; the
\* empty set if there is none.
AddressesFor(req, spec, list) ==
    [k \in DOMAIN req |->
        UNION {IF req[k].name \in DOMAIN spec THEN {spec[req[k].name]}
               ELSE AssignIP(s, req[k].fixed, Reserved(list, req[k].name))
                 : s \in Subnets(netcfg, req[k])}]

\* ensureReservation stops at the first entry that fails.
Served(found) == {k \in DOMAIN found : found[k] # {} /\ \A j \in 1..k - 1 : found[j] # {}}

\* A plausible slip: the new entries replace those the Reservation has.
ExtendedAnew(req, spec, found) ==
    [n \in {req[k].name : k \in Served(found)} |->
        CHOOSE a \in UNION {found[k] : k \in {j \in Served(found) : req[j].name = n}} : TRUE]

\* What is patched into the Reservation: what it had and the entries served.
Extended(req, spec, found) ==
    [n \in DOMAIN spec \cup {req[k].name : k \in Served(found)} |->
        IF n \in DOMAIN spec THEN spec[n]
        ELSE CHOOSE a \in UNION {found[k] : k \in {j \in Served(found) : req[j].name = n}} : TRUE]

\* Entries of Status.Reservation: network, address and default route.
StatusOf(req, found) ==
    {<<req[k].name, found[k], req[k].route /\ \E s \in Subnets(netcfg, req[k]) : s.gateway # Unset>> :
         k \in Served(found)}

AllReserved(req, spec) == Cardinality(DOMAIN spec) = Len(req)

\* The error of an entry that fails is overwritten by the result of the deferred
\* patch: the reconcile returns no error and nothing puts the IPSet back on the
\* queue.
EnsureReservation(i) ==
    /\ ipRec = NoRec
    /\ i \in ipQueue
    /\ ipsets[i].st = "live" /\ ipsets[i].fin
    /\ netcfg # Unset
    /\ ~reservations[i].orphan
    /\ FreshCache => resCache = reservations
    /\ \E found \in {AddressesFor(ipsets[i].spec, reservations[i].spec, resCache)} :
       \E new \in {Extended(ipsets[i].spec, reservations[i].spec, found)} :
          /\ reservations' = [reservations EXCEPT ![i] =
                                 [st |-> "live", fin |-> TRUE, orphan |-> FALSE, spec |-> new]]
          /\ ipRec' = [pc |-> "status", i |-> i, ready |-> AllReserved(ipsets[i].spec, new),
                       spec |-> ipsets[i].spec, status |-> StatusOf(ipsets[i].spec, found)]
    /\ ipQueue' = ipQueue \ {i}
    /\ UNCHANGED <<netcfg, ipsets, resCache, ipEdits, ipFaults>>

IPPatchStatus ==
    /\ ipRec.pc = "status"
    /\ ipsets' = [ipsets EXCEPT ![ipRec.i] =
                     IF @.st = "absent" THEN @
                     ELSE [@ EXCEPT !.ready = ipRec.ready, !.observed = ipRec.spec,
                                    !.status = ipRec.status]]
    /\ ipRec' = NoRec
    /\ UNCHANGED <<netcfg, reservations, resCache, ipQueue, ipEdits, ipFaults>>

ReleaseReservation(i) ==
    /\ ipRec = NoRec
    /\ i \in ipQueue
    /\ ipsets[i].st = "deleting"
    /\ reservations' = [reservations EXCEPT ![i].fin = FALSE]
    /\ ipRec' = [NoRec EXCEPT !.pc = "delete", !.i = i]
    /\ UNCHANGED <<netcfg, ipsets, resCache, ipQueue, ipEdits, ipFaults>>

IPRemoveFinalizer ==
    /\ ipRec.pc = "delete"
    /\ ipsets' = [ipsets EXCEPT ![ipRec.i] = NoIPSet]
    /\ reservations' = [reservations EXCEPT ![ipRec.i].orphan = (reservations[ipRec.i].st = "live")]
    /\ ipQueue' = ipQueue \ {ipRec.i}
    /\ ipRec' = NoRec
    /\ UNCHANGED <<netcfg, resCache, ipEdits, ipFaults>>

\* The owner of a Reservation is gone and so is its finalizer.
CollectReservation(i) ==
    /\ reservations[i].orphan
    /\ ~reservations[i].fin
    /\ reservations' = [reservations EXCEPT ![i] = NoReservation]
    /\ UNCHANGED <<netcfg, ipsets, resCache, ipRec, ipQueue, ipEdits, ipFaults>>

SyncReservations ==
    /\ resCache # reservations
    /\ resCache' = reservations
    /\ UNCHANGED <<netcfg, ipsets, reservations, ipRec, ipQueue, ipEdits, ipFaults>>

\* The Reservation cannot be written: an error, and the IPSet is tried again.
ReservationFails(i) ==
    /\ ipRec = NoRec /\ ipFaults < MaxIPFaults
    /\ i \in ipQueue
    /\ ipsets[i].st = "live" /\ ipsets[i].fin
    /\ ipFaults' = ipFaults + 1
    /\ ipRec' = [pc |-> "status", i |-> i, ready |-> FALSE, spec |-> ipsets[i].spec, status |-> {}]
    /\ UNCHANGED <<netcfg, ipsets, reservations, resCache, ipQueue, ipEdits>>

\* The reconcile ends before its status is stored: the patch failed, or the
\* operator was restarted and queues everything.
IPAbort ==
    /\ ipRec # NoRec /\ ipFaults < MaxIPFaults
    /\ ipFaults' = ipFaults + 1
    /\ ipRec' = NoRec
    /\ \E again \in {{ipRec.i}, InUse} : ipQueue' = ipQueue \cup again
    /\ UNCHANGED <<netcfg, ipsets, reservations, resCache, ipEdits>>

IPSetStep ==
    \/ \E i \in IPSets : IPRegister(i) \/ EnsureReservation(i) \/ ReleaseReservation(i)
    \/ IPPatchStatus \/ IPRemoveFinalizer

IPAMNext ==
    \/ IPSetStep \/ SyncReservations \/ IPAbort
    \/ \E i \in IPSets : CollectReservation(i) \/ ReservationFails(i) \/ DeleteIPSet(i)
    \/ \E nc \in NetConfigs : EditNetConfig(nc)
    \/ DeleteNetConfig
    \/ \E i \in IPSets, req \in Requests :
           UpdateIPSet(i, req) \/ \E im \in BOOLEAN : CreateIPSet(i, req, im)

\* The worker of the controller, the informer and the garbage collector run.
IPAMFairness ==
    /\ WF_ipamVars(IPSetStep)
    /\ WF_ipamVars(SyncReservations)
    /\ \A i \in IPSets : WF_ipamVars(CollectReservation(i))

IPAMSpec == IPAMInit /\ [][IPAMNext]_ipamVars

-----------------------------------------------------------------------------
(* Properties *)

\* No address of a network is reserved twice (ipam.AssignIP), whatever the
\* order in which IPSets come and go.
UniqueAddresses ==
    \A i, j \in IPSets : \A n \in DOMAIN reservations[i].spec \cap DOMAIN reservations[j].spec :
        reservations[i].spec[n] = reservations[j].spec[n] => i = j

\* A Ready IPSet has an address on every network it asked for, its status shows
\* exactly what is reserved, and every address is one of its subnet, although an
\* error of ensureReservation is lost (ipset_controller.go:275, 400) and the
\* NetConfig may be edited.
ReadyMeansReserved ==
    \A i \in IPSets : (ipsets[i].st = "live" /\ ipsets[i].ready /\ ipsets[i].observed = ipsets[i].spec) =>
        \A k \in DOMAIN ipsets[i].spec :
            LET r == ipsets[i].spec[k] IN
            /\ r.name \in DOMAIN reservations[i].spec
            /\ \E e \in ipsets[i].status : e[1] = r.name /\ e[2] = {reservations[i].spec[r.name]}
            /\ \A s \in Subnets(netcfg, r) : InCidr(reservations[i].spec[r.name], s.cidr)

\* Some network of the request has no address left.
Starved(i) ==
    \E k \in DOMAIN ipsets[i].spec :
        AddressesFor(ipsets[i].spec, reservations[i].spec, reservations)[k] = {}

\* An IPSet for which addresses never run out becomes Ready for what it asks,
\* or is deleted.  One that meets a lack of addresses is not tried again when
\* another IPSet returns some: the error that would requeue it is lost
\* (ipset_controller.go:400) and no watch tells it.
IPSetsServed ==
    \A i \in IPSets :
        []~Starved(i) =>
            ((ipsets[i].st = "live") ~> (\/ ipsets[i].ready /\ ipsets[i].observed = ipsets[i].spec
                                         \/ ipsets[i].st # "live"))

\* Refinement: the Reservations are what the owners hold, and an IPSet leaves
\* when its object is gone and its Reservation waits for the garbage collector.
Pool == INSTANCE AddressPool WITH
            Owners <- IPSets,
            held <- [i \in IPSets |-> reservations[i].spec],
            leaving <- {i \in IPSets : reservations[i].orphan}

\* The Reservations implement a pool of addresses without shared ownership
\* (AddressPool): through every path of ensureReservation an IPSet keeps the
\* addresses it has while entries are added and some of them fail, until its
\* object is gone.
PoolImplemented == Pool!PoolSpec
=============================================================================
