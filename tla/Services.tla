------------------------------ MODULE Services ------------------------------
(***************************************************************************)
(* The reconcilers of the services the operator runs, Memcached, Redis,    *)
(* DNSMasq and InstanceHa, and the Topologies they refer to                *)
(* (internal/controller/{memcached,redis,network,instanceha},              *)
(* apis/topology/v1beta1/topology_types.go).                               *)
(*                                                                         *)
(* One custom resource of one kind, chosen initially, goes through its     *)
(* life while a user edits its Topology reference, its input Secrets and   *)
(* ConfigMaps and the Topologies.  The four reconcilers are built from the *)
(* same steps; Flow and DeleteFlow give the order each kind takes them in, *)
(* Inputs what it needs and what a missing input does, Watched what wakes  *)
(* it.  An early return in the code is a jump to the deferred patch.       *)
(*                                                                         *)
(* A reference is a set with at most one Topology, a hash is the versions  *)
(* of the inputs it was computed from.                                     *)
(***************************************************************************)
EXTENDS Naturals, Sequences

CONSTANTS
  Kinds,          \* a subset of {"memcached", "redis", "dnsmasq", "instanceha"}
  Topologies,     \* Topology resources of the namespace
  MaxVersion,     \* bound: versions of an input or a Topology
  MaxSvcEvents,   \* bound: changes users make, faults included
  MaxSvcFaults    \* bound: failed calls and crashes

ASSUME KindsAssumption == Kinds \subseteq {"memcached", "redis", "dnsmasq", "instanceha"}

VARIABLES
  svcKind,    \* the kind of the resource
  cr,         \* the custom resource
  input,      \* version of every input, 0: missing
  topo,       \* the Topologies: there, deleting, our finalizer, generation
  workload,   \* the StatefulSet or Deployment: {} or one record
  svcRec,     \* the reconcile in progress: steps to do, copy of the resource
  svcQueue,   \* a reconcile request is queued
  svcEvents,
  svcFaults

svcVars == <<svcKind, cr, input, topo, workload, svcRec, svcQueue, svcEvents, svcFaults>>

InputNames == {"config", "cert", "client"}

NoCR == [live |-> FALSE, deleting |-> FALSE, fin |-> FALSE, ref |-> {}, last |-> {}, hash |-> {}]

NewTopology == [there |-> TRUE, deleting |-> FALSE, fin |-> FALSE, gen |-> 1]

\* What is left of a Topology: the generations it used.
Removed(tp) == [tp EXCEPT !.there = FALSE, !.deleting = FALSE, !.fin = FALSE]

SvcIdle == [todo |-> <<>>, cr |-> NoCR, hash |-> {}, topo |-> {}, again |-> FALSE]

-----------------------------------------------------------------------------
(* What differs between the kinds.                                         *)

\* The inputs in the order they are looked up, with the return a missing one
\* causes: "stop" waits for an event, "timer" asks for a requeue.
MemcachedInputs == <<[name |-> "cert", missing |-> "stop"], [name |-> "client", missing |-> "stop"]>>

RedisInputs == <<[name |-> "cert", missing |-> "stop"]>>

\* The cloud's configuration and credentials, then the certificates.
InstanceHaCert == [name |-> "cert", missing |-> "stop"]

InstanceHaInputs == <<[name |-> "config", missing |-> "timer"], InstanceHaCert>>

\* The ConfigMaps with the hosts are listed by label: there may be none.
DNSMasqInputs == <<>>

Inputs(k) ==
  CASE k = "memcached"  -> MemcachedInputs
    [] k = "redis"      -> RedisInputs
    [] k = "instanceha" -> InstanceHaInputs
    [] k = "dnsmasq"    -> DNSMasqInputs

\* What SetupWithManager indexes and watches, and findObjectsForSrc maps back
\* to the resource.  Memcached does not index the client certificate.
MemcachedWatches == {"cert", "topology"}

\* The bug of an index that findObjectsForSrc does not go through.
RedisWatchesForgetful == {"cert"}

RedisWatches == {"cert", "topology"}

InstanceHaWatches == {"config", "cert", "topology"}

DNSMasqWatches == {"config", "topology"}

Watched(k) ==
  CASE k = "memcached"  -> MemcachedWatches
    [] k = "redis"      -> RedisWatches
    [] k = "instanceha" -> InstanceHaWatches
    [] k = "dnsmasq"    -> DNSMasqWatches

\* The inputs whose versions the configuration hash covers.
Hashed(k) ==
  {Inputs(k)[i].name : i \in DOMAIN Inputs(k)} \cup (IF k = "dnsmasq" THEN {"config"} ELSE {})

\* The steps of the reconcile of a live resource.
MemcachedFlow == <<"inputs", "hash", "release", "ensure", "workload", "patch">>

RedisFlow == <<"inputs", "hash", "release", "ensure", "workload", "patch">>

InstanceHaFlow == <<"inputs", "release", "ensure", "workload", "patch">>

DNSMasqFlow == <<"inputs", "release", "ensure", "workload", "patch">>

Flow(k) ==
  CASE k = "memcached"  -> MemcachedFlow
    [] k = "redis"      -> RedisFlow
    [] k = "instanceha" -> InstanceHaFlow
    [] k = "dnsmasq"    -> DNSMasqFlow

\* The steps of the reconcile of a deleted one.
InstanceHaDelete == <<"release", "unfinalize", "patch">>

DNSMasqDelete == <<"unfinalize", "release", "patch">>

\* Memcached and Redis never add their finalizer, so their resource is gone
\* when a reconcile would find it deleted: their reconcileDelete does not run.
OwnsFinalizer(k) == k \in {"instanceha", "dnsmasq"}

DeleteFlow(k) == IF k = "dnsmasq" THEN DNSMasqDelete ELSE InstanceHaDelete

References == {{}} \cup {{t} : t \in Topologies}

\* A fresh namespace with the resource c, or with none.
SvcStart(c) ==
  /\ cr = c
  /\ input = [i \in InputNames |-> 1]
  /\ topo = [t \in Topologies |-> NewTopology]
  /\ workload = {}
  /\ svcRec = SvcIdle
  /\ svcQueue = TRUE
  /\ svcEvents = 0
  /\ svcFaults = 0

SvcInit ==
  /\ svcKind \in Kinds
  /\ \E ref \in References : SvcStart([NoCR EXCEPT !.live = TRUE, !.ref = ref])

-----------------------------------------------------------------------------
(* Users.                                                                  *)

\* Bound: the changes end with the resource.
SvcEvent ==
  /\ cr.live
  /\ svcEvents + svcFaults < MaxSvcEvents
  /\ svcEvents' = svcEvents + 1
  /\ UNCHANGED <<svcKind, svcRec, svcFaults>>

EditRef(ref) ==
  /\ SvcEvent
  /\ cr.ref # ref
  /\ cr' = [cr EXCEPT !.ref = ref]
  /\ svcQueue' = TRUE
  /\ UNCHANGED <<input, topo, workload>>

\* Without a finalizer the resource is gone at once, and what it owns with it.
DeleteCR ==
  /\ SvcEvent
  /\ ~cr.deleting
  /\ cr' = IF cr.fin THEN [cr EXCEPT !.deleting = TRUE] ELSE NoCR
  /\ workload' = IF cr.fin THEN workload ELSE {}
  /\ svcQueue' = TRUE
  /\ UNCHANGED <<input, topo>>

\* An event of a watched object wakes the reconciler of a resource that
\* refers to it.
WatchEvent(what) == svcQueue' = (svcQueue \/ (cr.live /\ what \in Watched(svcKind)))

ChangeInput(i) ==
  /\ SvcEvent
  /\ i \in Hashed(svcKind)
  /\ \E v \in {0, input[i] + 1} \ {input[i]} :
       v <= MaxVersion /\ input' = [input EXCEPT ![i] = v]
  /\ WatchEvent(i)
  /\ UNCHANGED <<cr, topo, workload>>

TopologyEvent(t) ==
  svcQueue' = (svcQueue \/ (cr.live /\ cr.ref = {t} /\ "topology" \in Watched(svcKind)))

ChangeTopology(t) ==
  /\ SvcEvent
  /\ ~topo[t].deleting /\ topo[t].gen < MaxVersion
  /\ topo' = [topo EXCEPT ![t].there = TRUE, ![t].gen = @ + 1]
  /\ TopologyEvent(t)
  /\ UNCHANGED <<cr, input, workload>>

\* Setting the deletion timestamp passes the generation predicate of the watch.
DeleteTopology(t) ==
  /\ SvcEvent
  /\ topo[t].there /\ ~topo[t].deleting
  /\ topo' = [topo EXCEPT ![t] = IF @.fin THEN [@ EXCEPT !.deleting = TRUE]
                                          ELSE Removed(@)]
  /\ TopologyEvent(t)
  /\ UNCHANGED <<cr, input, workload>>

-----------------------------------------------------------------------------
(* The reconciler.                                                         *)

AtStep(step) == svcRec.todo # <<>> /\ Head(svcRec.todo) = step

\* The rest of the flow, with what the step changed in rec.
Proceed(rec) == svcRec' = [rec EXCEPT !.todo = Tail(@)]

\* An early return: the deferred patch follows; again: with an error or a timer.
ReturnEarly(rec, again) == svcRec' = [rec EXCEPT !.todo = <<"patch">>, !.again = again]

SvcFetch ==
  /\ svcRec.todo = <<>> /\ svcQueue
  /\ svcQueue' = FALSE
  /\ LET copy == [SvcIdle EXCEPT !.cr = cr]
     IN  svcRec' =
           IF ~cr.live THEN SvcIdle
           ELSE IF cr.deleting THEN [copy EXCEPT !.todo = DeleteFlow(svcKind)]
           ELSE IF OwnsFinalizer(svcKind) /\ ~cr.fin THEN [copy EXCEPT !.cr.fin = TRUE, !.todo = <<"patch">>]
           ELSE [copy EXCEPT !.todo = Flow(svcKind)]
  /\ UNCHANGED <<svcKind, cr, input, topo, workload, svcEvents, svcFaults>>

Missing(k) == {i \in DOMAIN Inputs(k) : input[Inputs(k)[i].name] = 0}

CurrentHash(k) == {<<i, input[i]>> : i \in Hashed(k)}

\* The input checks: the first missing input decides how the reconcile returns.
CheckInputs ==
  /\ AtStep("inputs")
  /\ LET missing == Missing(svcKind)
         first == CHOOSE i \in missing : \A j \in missing : i <= j
     IN  IF missing # {}
         THEN ReturnEarly(svcRec, Inputs(svcKind)[first].missing = "timer")
         ELSE Proceed([svcRec EXCEPT !.hash = CurrentHash(svcKind)])
  /\ UNCHANGED <<svcKind, cr, input, topo, workload, svcQueue, svcEvents, svcFaults>>

\* util.SetHash: a new hash is stored in the status and the reconcile returns;
\* the status patch starts the next one.
CheckHash ==
  /\ AtStep("hash")
  /\ IF svcRec.cr.hash # svcRec.hash
     THEN ReturnEarly([svcRec EXCEPT !.cr.hash = svcRec.hash], FALSE)
     ELSE Proceed(svcRec)
  /\ UNCHANGED <<svcKind, cr, input, topo, workload, svcQueue, svcEvents, svcFaults>>

\* EnsureDeletedTopologyRef: our finalizer leaves Topology t, and a deleted one
\* goes with its last finalizer.
WithoutFinalizer(tp) ==
  IF tp.fin /\ tp.deleting THEN Removed(tp) ELSE [tp EXCEPT !.fin = FALSE]

\* EnsureServiceTopology, first half, and reconcileDelete: the last applied
\* Topology is released when it is not the one referred to any more.
ReleaseTopology ==
  /\ AtStep("release")
  /\ LET mine == svcRec.cr
         old  == IF mine.deleting \/ mine.ref # mine.last THEN mine.last ELSE {}
     IN  topo' = [t \in Topologies |-> IF t \in old THEN WithoutFinalizer(topo[t]) ELSE topo[t]]
  /\ Proceed(svcRec)
  /\ UNCHANGED <<svcKind, cr, input, workload, svcQueue, svcEvents, svcFaults>>

\* The bug of leaving LastAppliedTopology behind when the reference is removed.
EnsureTopologyForgetful ==
  /\ AtStep("ensure")
  /\ LET ref == svcRec.cr.ref
     IN  IF \E t \in ref : ~topo[t].there \/ (topo[t].deleting /\ ~topo[t].fin)
         THEN ReturnEarly(svcRec, TRUE) /\ UNCHANGED topo
         ELSE /\ topo' = [t \in Topologies |-> IF t \in ref THEN [topo[t] EXCEPT !.fin = TRUE] ELSE topo[t]]
              /\ Proceed([svcRec EXCEPT !.topo = {<<t, topo[t].gen>> : t \in ref}])
  /\ UNCHANGED <<svcKind, cr, input, workload, svcQueue, svcEvents, svcFaults>>

\* EnsureServiceTopology, second half: the Topology referred to gets our
\* finalizer and is recorded as the last applied one.  A missing one is an
\* error; the API server refuses a new finalizer on a deleted one.
EnsureTopology ==
  /\ AtStep("ensure")
  /\ LET ref == svcRec.cr.ref
     IN  IF \E t \in ref : ~topo[t].there \/ (topo[t].deleting /\ ~topo[t].fin)
         THEN ReturnEarly(svcRec, TRUE) /\ UNCHANGED topo
         ELSE /\ topo' = [t \in Topologies |-> IF t \in ref THEN [topo[t] EXCEPT !.fin = TRUE] ELSE topo[t]]
              /\ Proceed([svcRec EXCEPT !.cr.last = ref, !.topo = {<<t, topo[t].gen>> : t \in ref}])
  /\ UNCHANGED <<svcKind, cr, input, workload, svcQueue, svcEvents, svcFaults>>

\* CreateOrPatch of the StatefulSet or Deployment, which is owned.  The owner
\* reference of a resource that is gone makes the garbage collector remove it.
WriteWorkload ==
  /\ AtStep("workload")
  /\ LET new == {[hash |-> svcRec.hash, topo |-> svcRec.topo]}
     IN  /\ workload' = IF cr.live THEN new ELSE {}
         /\ svcQueue' = (svcQueue \/ workload # new)
  /\ Proceed(svcRec)
  /\ UNCHANGED <<svcKind, cr, input, topo, svcEvents, svcFaults>>

RemoveOwnFinalizer ==
  /\ AtStep("unfinalize")
  /\ Proceed([svcRec EXCEPT !.cr.fin = FALSE])
  /\ UNCHANGED <<svcKind, cr, input, topo, workload, svcQueue, svcEvents, svcFaults>>

\* The deferred PatchInstance: finalizer and status of the copy are written;
\* every change is an event of the resource.
PatchCR ==
  /\ AtStep("patch")
  /\ LET new == [cr EXCEPT !.fin = svcRec.cr.fin, !.last = svcRec.cr.last, !.hash = svcRec.cr.hash]
         gone == ~cr.live \/ (cr.deleting /\ ~new.fin)
     IN  /\ cr' = IF gone THEN NoCR ELSE new
         /\ workload' = IF gone THEN {} ELSE workload
         /\ svcQueue' = (svcQueue \/ svcRec.again \/ cr' # cr)
  /\ svcRec' = SvcIdle
  /\ UNCHANGED <<svcKind, input, topo, svcEvents, svcFaults>>

SvcFault ==
  /\ svcRec.todo # <<>>
  /\ svcFaults < MaxSvcFaults /\ svcEvents + svcFaults < MaxSvcEvents
  /\ svcFaults' = svcFaults + 1
  /\ UNCHANGED <<svcKind, cr, input, topo, workload, svcEvents>>

\* A call fails and its error is returned: the deferred patch still runs.
CallFails ==
  /\ SvcFault
  /\ ~AtStep("patch")
  /\ ReturnEarly(svcRec, TRUE)
  /\ UNCHANGED svcQueue

\* The operator stops, or the deferred patch fails.
SvcCrash == SvcFault /\ svcRec' = SvcIdle /\ svcQueue' = TRUE

SvcStep ==
  \/ SvcFetch \/ CheckInputs \/ CheckHash \/ ReleaseTopology \/ EnsureTopology
  \/ WriteWorkload \/ RemoveOwnFinalizer \/ PatchCR

SvcNext ==
  \/ SvcStep
  \/ CallFails
  \/ SvcCrash
  \/ \E ref \in References : EditRef(ref)
  \/ DeleteCR
  \/ \E i \in InputNames : ChangeInput(i)
  \/ \E t \in Topologies : ChangeTopology(t) \/ DeleteTopology(t)

\* The work queue runs the reconciler.
SvcFairness == WF_svcVars(SvcStep)

SvcSpec == SvcInit /\ [][SvcNext]_svcVars /\ SvcFairness

-----------------------------------------------------------------------------
(* Properties.                                                             *)

\* As long as no call fails, a Topology carries the finalizer of a resource
\* only while the resource records it as its last applied one, and a DNSMasq
\* or InstanceHa that is gone has left none behind, whatever references were
\* edited while its reconciles ran.  A Topology with a finalizer left behind
\* could never be deleted.  Memcached and Redis leave one when they are deleted.
TopologyReleased ==
  svcFaults = 0 /\ svcRec.todo = <<>> /\ (cr.live \/ OwnsFinalizer(svcKind))
    => {t \in Topologies : topo[t].fin} \subseteq cr.last

\* The workload a resource asks for: its inputs and its Topology as they are.
Wanted == {[hash |-> CurrentHash(svcKind), topo |-> {<<t, topo[t].gen>> : t \in cr.ref}]}

Satisfiable ==
  /\ Missing(svcKind) = {}
  /\ \A t \in cr.ref : topo[t].there /\ ~topo[t].deleting

\* After the last change the workload runs with the current inputs and
\* Topology, and a deleted resource is gone, although the reconcilers return
\* without a requeue when an input is missing or the hash has changed.  The
\* client certificate of Memcached is not watched and must not change.
WorkloadConverges ==
  [](input["client"] = 1)
    => <>[](~cr.deleting /\ (cr.live /\ Satisfiable => workload = Wanted))
=============================================================================
