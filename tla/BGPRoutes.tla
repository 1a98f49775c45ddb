------------------------------ MODULE BGPRoutes ------------------------------
(***************************************************************************)
(* The BGPConfiguration controller: for every running pod with secondary   *)
(* networks it keeps an FRRConfiguration that announces the pod's          *)
(* addresses, in the namespace where frr-k8s lives, which may move.        *)
(*                                                                         *)
(* A plane is a control plane namespace with its BGPConfiguration.  An     *)
(* FRRConfiguration of the controller is a route: its plane and pod        *)
(* (labels), the announced addresses, and the node.  The controller has    *)
(* one worker.  A reconcile that fails before it has written anything is   *)
(* tried again with back-off; it leaves no trace here.                     *)
(***************************************************************************)
EXTENDS Integers, Sequences, FiniteSets

CONSTANTS
    Planes, PodNames, BGPNodes,
    PodShapes,       \* attachments, network status and label a pod may have
    MaxBGPEvents, MaxBGPFaults

VARIABLES
    bgp,             \* the BGPConfigurations
    bgpPods,
    frr,             \* per namespace, the routes of the controller
    nodeCfg,         \* per namespace, the nodes metallb has configured
    migrated,        \* the namespace openshift-frr-k8s exists
    bgpRec, bgpQueue, bgpEvents, bgpFaults

bgpVars == <<bgp, bgpPods, frr, nodeCfg, migrated, bgpRec, bgpQueue, bgpEvents, bgpFaults>>
bgpCluster == <<bgpPods, nodeCfg, migrated, bgpEvents>>

FRRNamespaces == {"migration", "legacy", "custom"}
NoBGP == [st |-> "absent", fin |-> FALSE, ns |-> "migration"]
NoBGPPod == [st |-> "absent", node |-> "none", shape |-> [attach |-> 0, status |-> <<>>, label |-> {}]]
BGPIdle == [pc |-> "idle", plane |-> "none", ns |-> "none", spec |-> "none", details |-> {}, todo |-> {}, list |-> {}]

BGPInit ==
    /\ bgp = [p \in Planes |-> NoBGP]
    /\ bgpPods = [p \in Planes |-> [n \in PodNames |-> NoBGPPod]]
    /\ frr = [ns \in FRRNamespaces |-> {}]
    /\ migrated \in BOOLEAN
    /\ nodeCfg = [ns \in FRRNamespaces |-> IF ns = "migration" /\ ~migrated THEN {} ELSE BGPNodes]
    /\ bgpRec = BGPIdle
    /\ bgpQueue = {}
    /\ bgpEvents = 0 /\ bgpFaults = 0

-----------------------------------------------------------------------------
(* What the network status of a pod says *)

\* The predicates of the watch on pods.
Relevant(shape) == shape.attach > 0 \/ shape.label # {}

\* An entry that getPodNetworkDetails means to drop: the pod's own interface, or
\* a network without ipam.
Dropped(e) == e.kind \in {"ovn-kubernetes", "eth0"} \/ ~e.ipam

\* The append moves the tail one to the left; its result is discarded, so the
\* slice keeps its length and the last entry appears twice.
RemoveIndex(s, i) == [k \in DOMAIN s |-> IF k < i \/ k = Len(s) THEN s[k] ELSE s[k + 1]]

\* The loop of getPodNetworkDetails walks a copy, so i is a position of the copy.
Trimmed(s) ==
    LET after[i \in 0..Len(s)] ==
            IF i = 0 THEN s
            ELSE IF Dropped(s[i]) THEN RemoveIndex(after[i - 1], i) ELSE after[i - 1]
    IN  after[Len(s)]

\* GetFRRPodPrefixes, with the entry of the predictableip label.
FRRPodPrefixes(shape) ==
    shape.label \cup UNION {Trimmed(shape.status)[k].ips :
        k \in {j \in DOMAIN shape.status : Trimmed(shape.status)[j].kind # "ovn-kubernetes"}}

\* getPodNetworkDetails returns an error for the pod.
NotYetAttached(shape) ==
    /\ shape.attach > 0
    /\ \/ Len(shape.status) <= shape.attach
       \/ \E k \in DOMAIN shape.status : ~Dropped(shape.status[k]) /\ shape.status[k].ips = {}

\* The pods getPodNetworkDetails looks at.
Announced(p) == {n \in PodNames : bgpPods[p][n].st = "running" /\ Relevant(bgpPods[p][n].shape)}

PodDetails(p) ==
    {[plane |-> p, pod |-> n, node |-> bgpPods[p][n].node,
      prefixes |-> FRRPodPrefixes(bgpPods[p][n].shape)] : n \in Announced(p)}

-----------------------------------------------------------------------------
(* Users and cluster *)

BGPEvent ==
    /\ bgpEvents < MaxBGPEvents
    /\ bgpEvents' = bgpEvents + 1

\* The BGPConfigurations of a namespace.
Known(p) == {p} \cap {q \in Planes : bgp[q].st # "absent"}

CreateBGP(p, ns) ==
    /\ BGPEvent
    /\ bgp[p].st = "absent"
    /\ bgp' = [bgp EXCEPT ![p] = [st |-> "live", fin |-> FALSE, ns |-> ns]]
    /\ bgpQueue' = bgpQueue \cup {p}
    /\ UNCHANGED <<bgpPods, frr, nodeCfg, migrated, bgpRec, bgpFaults>>

\* The namespace is set to one of the two frr-k8s has been known to use.
EditBGP(p, ns) ==
    /\ BGPEvent
    /\ bgp[p].st = "live"
    /\ bgp[p].ns # "custom" /\ ns # "custom" /\ ns # bgp[p].ns
    /\ bgp' = [bgp EXCEPT ![p].ns = ns]
    /\ bgpQueue' = bgpQueue \cup {p}
    /\ UNCHANGED <<bgpPods, frr, nodeCfg, migrated, bgpRec, bgpFaults>>

DeleteBGP(p) ==
    /\ BGPEvent
    /\ bgp[p].st = "live"
    /\ bgp' = [bgp EXCEPT ![p] = IF @.fin THEN [@ EXCEPT !.st = "deleting"] ELSE NoBGP]
    /\ bgpQueue' = IF bgp[p].fin THEN bgpQueue \cup {p} ELSE bgpQueue \ {p}
    /\ UNCHANGED <<bgpPods, frr, nodeCfg, migrated, bgpRec, bgpFaults>>

PodEvent(p, n, pod) ==
    /\ bgpPods' = [bgpPods EXCEPT ![p][n] = pod]
    /\ bgpQueue' = IF Relevant(pod.shape) \/ Relevant(bgpPods[p][n].shape)
                   THEN bgpQueue \cup Known(p) ELSE bgpQueue
    /\ UNCHANGED <<bgp, frr, nodeCfg, migrated, bgpRec, bgpFaults>>

\* The pod starts, with its final network status or before it is known.
BGPPodStarts(p, n, node, shape) ==
    /\ BGPEvent
    /\ bgpPods[p][n].st = "absent"
    /\ \E known \in {shape.status, <<>>} :
           PodEvent(p, n, [st |-> "running", node |-> node, shape |-> [shape EXCEPT !.status = known]])

BGPPodAttached(p, n, shape) ==
    /\ bgpPods[p][n].st = "running"
    /\ bgpPods[p][n].shape = [shape EXCEPT !.status = <<>>]
    /\ shape.status # <<>>
    /\ PodEvent(p, n, [bgpPods[p][n] EXCEPT !.shape = shape])
    /\ UNCHANGED bgpEvents

\* It is deleted, or fails, or completes.
BGPPodStops(p, n) ==
    /\ BGPEvent
    /\ bgpPods[p][n].st = "running"
    /\ PodEvent(p, n, [bgpPods[p][n] EXCEPT !.st = "stopped"])

BGPPodGone(p, n) ==
    /\ bgpPods[p][n].st = "stopped"
    /\ PodEvent(p, n, NoBGPPod)
    /\ UNCHANGED bgpEvents

\* frr-k8s moves; nothing watches namespaces, or the configurations of metallb.
MigrateFRR ==
    /\ BGPEvent
    /\ ~migrated
    /\ migrated' = TRUE
    /\ \E nodes \in SUBSET BGPNodes : nodeCfg' = [nodeCfg EXCEPT !["migration"] = nodes]
    /\ UNCHANGED <<bgp, bgpPods, frr, bgpRec, bgpQueue, bgpFaults>>

NodeConfigured(ns) ==
    /\ nodeCfg[ns] # BGPNodes
    /\ ns = "migration" => migrated
    /\ nodeCfg' = [nodeCfg EXCEPT ![ns] = BGPNodes]
    /\ UNCHANGED <<bgp, bgpPods, frr, migrated, bgpRec, bgpQueue, bgpEvents, bgpFaults>>

-----------------------------------------------------------------------------
(* The reconciler *)

FRRConfigurationNamespace(p) == IF migrated THEN "migration" ELSE bgp[p].ns

RoutesOf(p, ns) == {r \in frr[ns] : r.plane = p}

\* frr without the routes of p in some namespaces.
WithoutRoutes(p, nss) == [ns \in FRRNamespaces |-> IF ns \in nss THEN frr[ns] \ RoutesOf(p, ns) ELSE frr[ns]]

\* The watch on FRRConfigurations: a label names the namespace of the owner.
WriteRoutes(new) ==
    /\ frr' = new
    /\ bgpQueue' = bgpQueue \cup {p \in Planes : bgp[p].st # "absent" /\ \E ns \in FRRNamespaces :
                                     {r \in new[ns] : r.plane = p} # RoutesOf(p, ns)}

BGPRegister(p) ==
    /\ bgpRec = BGPIdle
    /\ p \in bgpQueue
    /\ bgp[p].st = "live" /\ ~bgp[p].fin
    /\ bgp' = [bgp EXCEPT ![p].fin = TRUE]
    /\ UNCHANGED <<bgpCluster, frr, bgpRec, bgpQueue, bgpFaults>>

\* Nothing is done as long as one pod has no status, or one node no configuration
\* of metallb to copy.
BGPGather(p) ==
    /\ bgpRec = BGPIdle
    /\ p \in bgpQueue
    /\ bgp[p].st = "live" /\ bgp[p].fin
    /\ \A n \in Announced(p) :
           /\ ~NotYetAttached(bgpPods[p][n].shape)
           /\ bgpPods[p][n].node \in nodeCfg[FRRConfigurationNamespace(p)]
    /\ bgpRec' = [pc |-> "write", plane |-> p, ns |-> FRRConfigurationNamespace(p),
                  spec |-> bgp[p].ns, details |-> PodDetails(p), todo |-> PodDetails(p),
                  list |-> frr[FRRConfigurationNamespace(p)]]
    /\ bgpQueue' = bgpQueue \ {p}
    /\ UNCHANGED <<bgp, bgpCluster, frr, bgpFaults>>

\* createOrPatchFRRConfiguration; the name holds the namespace and the pod.
WriteFRRConfiguration ==
    /\ bgpRec.pc = "write"
    /\ \E d \in bgpRec.todo :
          /\ WriteRoutes([frr EXCEPT ![bgpRec.ns] =
                 {r \in @ : <<r.plane, r.pod>> # <<d.plane, d.pod>>} \cup {d}])
          /\ bgpRec' = [bgpRec EXCEPT !.todo = @ \ {d}]
    /\ UNCHANGED <<bgp, bgpCluster, bgpFaults>>

\* Every route of the list counts, the ones of other planes included.
Stale == {r \in bgpRec.list : \A d \in bgpRec.details : d.pod # r.pod}

\* A plausible slip: routes of pods that are gone are kept.
DeleteStaleSkipped ==
    /\ bgpRec.pc = "write" /\ bgpRec.todo = {}
    /\ bgpRec' = [bgpRec EXCEPT !.pc = "clean"]
    /\ UNCHANGED <<bgp, frr, bgpQueue, bgpCluster, bgpFaults>>

DeleteStaleFRRConfigurations ==
    /\ bgpRec.pc = "write" /\ bgpRec.todo = {}
    /\ IF Stale = {} THEN /\ bgpRec' = [bgpRec EXCEPT !.pc = "clean"]
                          /\ UNCHANGED <<frr, bgpQueue>>
       ELSE \E c \in Stale :
              /\ bgpRec' = [bgpRec EXCEPT !.list = @ \ {c}]
              /\ WriteRoutes([frr EXCEPT ![bgpRec.ns] =
                     {r \in @ : <<r.plane, r.pod>> # <<c.plane, c.pod>>}])
    /\ UNCHANGED <<bgp, bgpCluster, bgpFaults>>

\* The namespaces left behind; a failure here is only logged.
CleanupOldNamespaces ==
    /\ bgpRec.pc = "clean"
    /\ LET old == {bgpRec.spec, "legacy"} \ {bgpRec.ns}
       IN  \E done \in SUBSET old :
              /\ WriteRoutes(WithoutRoutes(bgpRec.plane, done))
              /\ bgpFaults' = bgpFaults + (IF done = old THEN 0 ELSE 1)
    /\ bgpFaults' <= MaxBGPFaults
    /\ bgpRec' = BGPIdle
    /\ UNCHANGED <<bgp, bgpCluster>>

\* A plausible slip: the legacy namespace is forgotten.
DeleteRoutesHere(p) ==
    /\ bgpRec = BGPIdle
    /\ p \in bgpQueue
    /\ bgp[p].st = "deleting"
    /\ WriteRoutes(WithoutRoutes(p, {FRRConfigurationNamespace(p), bgp[p].ns}))
    /\ bgpRec' = [BGPIdle EXCEPT !.pc = "finalize", !.plane = p]
    /\ UNCHANGED <<bgp, bgpCluster, bgpFaults>>

\* reconcileDelete, which returns at the first of its three calls that fails.
DeleteRoutes(p) ==
    /\ bgpRec = BGPIdle
    /\ p \in bgpQueue
    /\ bgp[p].st = "deleting"
    /\ \/ /\ WriteRoutes(WithoutRoutes(p, {FRRConfigurationNamespace(p), bgp[p].ns, "legacy"}))
          /\ bgpRec' = [BGPIdle EXCEPT !.pc = "finalize", !.plane = p]
          /\ UNCHANGED bgpFaults
       \/ /\ bgpFaults < MaxBGPFaults
          /\ bgpFaults' = bgpFaults + 1
          /\ \E done \in {{}, {FRRConfigurationNamespace(p)}, {FRRConfigurationNamespace(p), bgp[p].ns}} :
                 WriteRoutes(WithoutRoutes(p, done))
          /\ UNCHANGED bgpRec
    /\ UNCHANGED <<bgp, bgpCluster>>

RemoveBGPFinalizer ==
    /\ bgpRec.pc = "finalize"
    /\ bgp' = [bgp EXCEPT ![bgpRec.plane] = NoBGP]
    /\ bgpQueue' = bgpQueue \ {bgpRec.plane}
    /\ bgpRec' = BGPIdle
    /\ UNCHANGED <<frr, bgpCluster, bgpFaults>>

\* A call fails and the request is tried again, or the operator restarts.
BGPAbort ==
    /\ bgpRec # BGPIdle /\ bgpFaults < MaxBGPFaults
    /\ bgpFaults' = bgpFaults + 1
    /\ bgpRec' = BGPIdle
    /\ bgpQueue' = bgpQueue \cup Known(bgpRec.plane)
    /\ UNCHANGED <<bgp, frr, bgpCluster>>

BGPStep ==
    \/ \E p \in Planes : BGPRegister(p) \/ BGPGather(p) \/ DeleteRoutes(p)
    \/ WriteFRRConfiguration \/ DeleteStaleFRRConfigurations \/ CleanupOldNamespaces
    \/ RemoveBGPFinalizer

BGPNext ==
    \/ BGPStep \/ BGPAbort \/ MigrateFRR
    \/ \E p \in Planes : \/ DeleteBGP(p)
                         \/ \E ns \in FRRNamespaces : CreateBGP(p, ns) \/ EditBGP(p, ns)
    \/ \E ns \in FRRNamespaces : NodeConfigured(ns)
    \/ \E p \in Planes, n \in PodNames :
          \/ BGPPodStops(p, n) \/ BGPPodGone(p, n)
          \/ \E shape \in PodShapes : \/ BGPPodAttached(p, n, shape)
                                      \/ \E node \in BGPNodes : BGPPodStarts(p, n, node, shape)

\* The worker of the controller runs as long as there is something to do.
BGPFairness == WF_bgpVars(BGPStep)

BGPSpec == BGPInit /\ [][BGPNext]_bgpVars /\ BGPFairness

-----------------------------------------------------------------------------
(* Properties *)

\* A BGPConfiguration that is gone has left no FRRConfiguration in any namespace
\* (reconcileDelete), whichever of them the controller used before, if its
\* namespace was not changed from one that frr-k8s never used.
NoOrphanedRoutes ==
    \A p \in Planes : bgp[p].st = "absent" => \A ns \in FRRNamespaces : RoutesOf(p, ns) = {}

\* The addresses a pod has on networks other than its own interface.
SecondaryAddresses(shape) ==
    shape.label \cup UNION {shape.status[k].ips :
        k \in {j \in DOMAIN shape.status : ~Dropped(shape.status[j])}}

AnnouncedIn(p, ns) ==
    RoutesOf(p, ns) = {[plane |-> p, pod |-> n, node |-> bgpPods[p][n].node,
                        prefixes |-> SecondaryAddresses(bgpPods[p][n].shape)] : n \in Announced(p)}

BGPHealthy(p) ==
    /\ bgp[p].st = "live"
    /\ \A n \in Announced(p) :
           /\ ~NotYetAttached(bgpPods[p][n].shape)
           /\ bgpPods[p][n].node \in nodeCfg[FRRConfigurationNamespace(p)]

\* Once every pod has its status and every node its configuration, the routes in
\* one namespace become exactly the secondary addresses of the running pods, each
\* on the pod's node: no event is lost (SetupWithManager), no status entry either
\* (removeIndex, bgpconfiguration_controller.go:673), if a pod has at most one
\* entry to drop.
RoutesConverge ==
    \A p \in Planes : <>[]BGPHealthy(p) => <>[](\E ns \in FRRNamespaces : AnnouncedIn(p, ns))

\* deleteStaleFRRConfigurations removes "our managed FRRConfigurations", the
\* routes of the BGPConfiguration being reconciled.
OwnRoutesOnly ==
    [][\A ns \in FRRNamespaces : \A r \in frr[ns] :
          (\A q \in frr'[ns] : <<q.plane, q.pod>> # <<r.plane, r.pod>>) =>
              r.plane = bgpRec.plane \/ bgp[r.plane].st = "deleting"]_bgpVars
=============================================================================
