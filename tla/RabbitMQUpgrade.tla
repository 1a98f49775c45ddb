--------------------------- MODULE RabbitMQUpgrade ---------------------------
(***************************************************************************)
(* The RabbitMq controller's storage wipe: a change of major.minor version *)
(* or of queue type (Mirrored to Quorum) deletes the StatefulSet and       *)
(* recreates it with an init container that empties every broker's volume. *)
(* The module has the RabbitMq object with the admission of its edits, one *)
(* Reconcile cut at every API write, the informer caches it reads from,    *)
(* and, as external parts, the StatefulSet controller, the pods and their  *)
(* volumes.  A version is the tuple of its numbers as written: <<4, 2>>    *)
(* and <<4, 2, 1>> are different strings with the same major and minor.    *)
(* The container image is edited together with spec.targetVersion, as the  *)
(* control plane operator does, so a pod's version is its template's.      *)
(***************************************************************************)
EXTENDS Naturals, Sequences, FiniteSets, TLC

CONSTANTS
    Targets,            \* values spec.targetVersion is given; NoVersion is "unset"
    FirstTargets,       \* its values when the object is created
    DefaultVersion,     \* DefaultRabbitMQVersion, used when no target is set
    AdoptedVersion,     \* the version of a StatefulSet found at first sight
    NoVersion, NoSts, NoObject,
    MaxReplicas,        \* bound on spec.replicas
    MaxEdits,           \* bound on edits of the RabbitMq object
    MaxFaults,          \* bound on failed calls, operator crashes and lost pods
    EditDuringUpgrade,  \* whether the object is edited while a wipe is under way
    QueueReverts        \* whether an edit may go from Quorum back to Mirrored

Pods == 1 .. MaxReplicas

ASSUME ConstantsAreSane ==
    /\ \A v \in (Targets \cup FirstTargets \cup {DefaultVersion, AdoptedVersion}) \ {NoVersion} :
          v \in Seq(Nat) /\ Len(v) \in {2, 3}
    /\ MaxReplicas \in Nat \ {0} /\ MaxEdits \in Nat /\ MaxFaults \in Nat
    /\ EditDuringUpgrade \in BOOLEAN /\ QueueReverts \in BOOLEAN

VARIABLES
    rmq,        \* the RabbitMq object in the API server: spec and status
    cached,     \* the informer cache's copy of it
    sts,        \* the StatefulSet: template, replicas, generations, ready count
    stsCached,  \* the informer cache's copy of it
    pod,        \* per ordinal: phase and the template the pod was made from
    pvc,        \* per ordinal: format, declared queues and wipe marker on the volume
    policy,     \* the <name>-ha-all RabbitMQPolicy exists
    legacy,     \* the clients still declare queues the way Mirrored ones are
    pc, base, loc, ready,   \* one Reconcile: step, object read, its copy in memory, clusterReady
    faults

vars == <<rmq, cached, sts, stsCached, pod, pvc, policy, legacy, pc, base, loc, ready, faults>>

-----------------------------------------------------------------------------
(* Versions *)

Major(v) == v[1]
Minor(v) == v[2]
Patch(v) == IF Len(v) = 3 THEN v[3] ELSE 0

IsVersion4OrLater(v) == v # NoVersion /\ Major(v) >= 4
Is3xTo4xUpgrade(v, w) == Major(v) = 3 /\ Major(w) >= 4

\* Only a change of major or minor version needs the volumes emptied.
RequiresStorageWipe(v, w) == v # w /\ ~(Major(v) = Major(w) /\ Minor(v) = Minor(w))

IsDowngrade(v, w) ==
    \/ Major(w) < Major(v)
    \/ Major(w) = Major(v) /\ Minor(w) < Minor(v)
    \/ Major(w) = Major(v) /\ Minor(w) = Minor(v) /\ Patch(w) < Patch(v)

-----------------------------------------------------------------------------
(* Admission of the RabbitMq object *)

\* SpecCore.Default: a 4.x target turns Mirrored into Quorum.
DefaultQueueType(t, q) == IF q = "Mirrored" /\ IsVersion4OrLater(t) THEN "Quorum" ELSE q

\* validateVersionChange: against the status, or the old target before it is set.
ValidVersionChange(old, t) ==
    LET current == IF old.cur # NoVersion THEN old.cur ELSE old.target
    IN  t # NoVersion /\ current # NoVersion => ~IsDowngrade(current, t)

ValidScale(old, n) == n >= old.replicas

-----------------------------------------------------------------------------
(* Reconcile's decisions *)

UpgradesVersion(r) == r.target # NoVersion /\ RequiresStorageWipe(r.cur, r.target)
MigratesQueueType(r) == r.queue = "Quorum" /\ r.qt = "Mirrored"

\* Mutant: a queue migration does not start a wipe.
RequiresWipeVersionOnly(r) == r.phase # "None" \/ UpgradesVersion(r)

\* The storage-wipe switch, and the reason it leaves in the object in memory.
RequiresWipe(r) == r.phase # "None" \/ UpgradesVersion(r) \/ MigratesQueueType(r)

WipeReason(r) ==
    CASE r.phase # "None" -> r.reason
      [] UpgradesVersion(r) -> "VersionUpgrade"
      [] MigratesQueueType(r) -> "QueueTypeMigration"
      [] OTHER -> r.reason

ConfigVersion(r) == IF r.target # NoVersion THEN r.target ELSE r.cur

\* Mutant: WaitingForCluster, the phase in which the StatefulSet is created, is forgotten.
NeedsDataWipeEarly(r, cachedSts) ==
    \/ r.phase = "DeletingResources"
    \/ cachedSts # NoSts /\ cachedSts.wipe

\* The wipe-data init container is kept once the StatefulSet has it.
NeedsDataWipe(r, cachedSts) ==
    \/ r.phase # "None"
    \/ cachedSts # NoSts /\ cachedSts.wipe

ShouldEnableProxy(r) == r.proxy = "True"

Template(s) == [ver |-> s.ver, wipe |-> s.wipe, proxy |-> s.proxy]

\* The part of StatefulSet() that the properties tell apart.
DesiredSts(r, cachedSts) ==
    [ver |-> ConfigVersion(r), wipe |-> NeedsDataWipe(r, cachedSts),
     proxy |-> ShouldEnableProxy(r), replicas |-> r.replicas]

\* statefulset.IsReady of lib-common: ready pods and observed generation, nothing
\* about which template the ready pods were made from.
IsReady(s) == s.observed /\ s.readyReplicas = s.replicas

\* helper.PatchInstance: a merge patch of what Reconcile changed in memory.
PatchInstance(now, old, new) ==
    [f \in DOMAIN now |-> IF new[f] # old[f] THEN new[f] ELSE now[f]]

-----------------------------------------------------------------------------
NewObject(t, q, n) ==
    [target |-> t, queue |-> DefaultQueueType(t, q), replicas |-> n, annot |-> FALSE,
     gen |-> 1, cur |-> NoVersion, phase |-> "None", reason |-> "", qt |-> "",
     proxy |-> "", obs |-> 0]

EmptyVolume == [fmt |-> NoVersion, queues |-> "none", marker |-> NoVersion]
NoPod == [st |-> "none", ver |-> NoVersion, wipe |-> FALSE, proxy |-> FALSE]

\* Either nothing runs yet, or the old operator left a StatefulSet with brokers.
Init ==
    \E t \in FirstTargets, q \in {"Mirrored", "Quorum"}, n \in Pods, adopted \in BOOLEAN :
        /\ adopted \/ n = 1
        /\ rmq = NewObject(t, q, n)
        /\ cached = rmq
        /\ sts = IF adopted
                 THEN [ver |-> AdoptedVersion, wipe |-> FALSE, proxy |-> FALSE, replicas |-> n,
                       observed |-> TRUE, readyReplicas |-> n]
                 ELSE NoSts
        /\ stsCached = sts
        /\ pod = [p \in Pods |-> IF adopted /\ p <= n
                                 THEN [NoPod EXCEPT !.st = "run", !.ver = AdoptedVersion]
                                 ELSE NoPod]
        /\ pvc = [p \in Pods |-> IF adopted /\ p <= n
                                 THEN [EmptyVolume EXCEPT !.fmt = AdoptedVersion,
                                                          !.queues = q]
                                 ELSE EmptyVolume]
        /\ policy = FALSE
        /\ legacy = (adopted /\ q = "Mirrored")
        /\ pc = "idle" /\ base = NoObject /\ loc = NoObject /\ ready = FALSE
        /\ faults = 0

-----------------------------------------------------------------------------
(* The administrator *)

\* The last edit has been processed and the status tells the queue type.
Settled ==
    pc = "idle" /\ rmq.phase = "None" /\ rmq.obs = rmq.gen /\ rmq.qt = rmq.queue

\* Without EditDuringUpgrade an edit waits for the last one to settle; with it,
\* only for the status to have been filled in once.
CanEdit ==
    /\ rmq.gen <= MaxEdits
    /\ Settled \/ (EditDuringUpgrade /\ rmq.qt # "")

EditSpec(t, q, n) ==
    /\ CanEdit
    /\ ValidVersionChange(rmq, t)
    /\ ValidScale(rmq, n)
    /\ QueueReverts \/ ~(rmq.queue = "Quorum" /\ q = "Mirrored")
    /\ <<t, DefaultQueueType(t, q), n>> # <<rmq.target, rmq.queue, rmq.replicas>>
    /\ rmq' = [rmq EXCEPT !.target = t, !.queue = DefaultQueueType(t, q), !.replicas = n,
                          !.gen = @ + 1]
    /\ UNCHANGED <<cached, sts, stsCached, pod, pvc, policy, legacy, pc, base, loc, ready, faults>>

\* The clients have been moved to quorum queues and the object is annotated so.
ReconfigureClients ==
    /\ legacy /\ rmq.qt = "Quorum" /\ rmq.proxy = "True"
    /\ legacy' = FALSE
    /\ rmq' = [rmq EXCEPT !.annot = TRUE]
    /\ UNCHANGED <<cached, sts, stsCached, pod, pvc, policy, pc, base, loc, ready, faults>>

-----------------------------------------------------------------------------
(* Reconcile: one action per API write *)

Return == pc' = "idle" /\ base' = NoObject /\ loc' = NoObject /\ ready' = FALSE

Read ==
    /\ pc = "idle"
    /\ pc' = "read" /\ base' = cached
    /\ loc' = [cached EXCEPT !.reason = IF cached.cur = NoVersion THEN @ ELSE WipeReason(cached)]
    /\ UNCHANGED <<rmq, cached, sts, stsCached, pod, pvc, policy, legacy, ready, faults>>

InitVersion ==
    /\ pc = "read" /\ loc.cur = NoVersion
    /\ LET initial == CASE stsCached # NoSts -> AdoptedVersion
                        [] loc.target # NoVersion -> loc.target
                        [] OTHER -> DefaultVersion
       IN  rmq' = PatchInstance(rmq, base, [loc EXCEPT !.cur = initial])
    /\ Return
    /\ UNCHANGED <<cached, sts, stsCached, pod, pvc, policy, legacy, faults>>

\* clients-reconfigured, first patch: the status.
ClearProxyRequired ==
    /\ pc = "read" /\ loc.cur # NoVersion /\ loc.annot
    /\ rmq' = [rmq EXCEPT !.proxy = "False"]
    /\ pc' = "annotated"
    /\ UNCHANGED <<cached, sts, stsCached, pod, pvc, policy, legacy, base, loc, ready, faults>>

\* clients-reconfigured, second patch: the metadata.
RemoveAnnotation ==
    /\ pc = "annotated"
    /\ rmq' = [rmq EXCEPT !.annot = FALSE]
    /\ Return
    /\ UNCHANGED <<cached, sts, stsCached, pod, pvc, policy, legacy, faults>>

Proceeds == pc = "read" /\ loc.cur # NoVersion /\ ~loc.annot

\* Mutant: the new phase is returned without being stored.
StartWipeUnstored ==
    /\ Proceeds /\ loc.phase = "None" /\ RequiresWipe(loc)
    /\ Return
    /\ UNCHANGED <<rmq, cached, sts, stsCached, pod, pvc, policy, legacy, faults>>

StartWipe ==
    /\ Proceeds /\ loc.phase = "None" /\ RequiresWipe(loc)
    /\ rmq' = PatchInstance(rmq, base, [loc EXCEPT !.phase = "DeletingResources"])
    /\ Return
    /\ UNCHANGED <<cached, sts, stsCached, pod, pvc, policy, legacy, faults>>

\* Mutant: the policy is deleted only for a queue type change.
DeletePolicyOnMigrationOnly ==
    /\ Proceeds /\ loc.phase = "DeletingResources"
    /\ policy' = (policy /\ ~(loc.qt = "Mirrored" /\ loc.reason = "QueueTypeMigration"))
    /\ pc' = "policyDeleted"
    /\ UNCHANGED <<rmq, cached, sts, stsCached, pod, pvc, legacy, base, loc, ready, faults>>

DeleteMirroredPolicy ==
    /\ Proceeds /\ loc.phase = "DeletingResources"
    /\ policy' = (policy /\ loc.qt # "Mirrored")
    /\ pc' = "policyDeleted"
    /\ UNCHANGED <<rmq, cached, sts, stsCached, pod, pvc, legacy, base, loc, ready, faults>>

\* Mutant: the StatefulSet is left for the next apply to update in place.
DeleteStatefulSetSkipped ==
    /\ pc = "policyDeleted"
    /\ pc' = "stsDeleted"
    /\ UNCHANGED <<rmq, cached, sts, stsCached, pod, pvc, policy, legacy, base, loc, ready, faults>>

\* Label the pods, then delete the StatefulSet: its pods are collected with it.
DeleteStatefulSet ==
    /\ pc = "policyDeleted"
    /\ IF stsCached = NoSts
       THEN UNCHANGED <<sts, pod>>
       ELSE /\ sts' = NoSts
            /\ pod' = [p \in Pods |-> IF sts # NoSts /\ pod[p].st \in {"init", "run"}
                                      THEN [pod[p] EXCEPT !.st = "term"] ELSE pod[p]]
    /\ pc' = "stsDeleted"
    /\ UNCHANGED <<rmq, cached, stsCached, pvc, policy, legacy, base, loc, ready, faults>>

\* Mutant: a 3.x to 4.x upgrade, which also changes the queue type, is forgotten.
MigratesQueuesOnRequestOnly(r) ==
    r.proxy # "True" /\ r.queue = "Quorum" /\ r.reason = "QueueTypeMigration"

\* Whether the recreated StatefulSet needs the durability proxy from its start.
MigratesQueues(r) ==
    /\ r.proxy # "True" /\ r.queue = "Quorum"
    /\ \/ r.target # NoVersion /\ Is3xTo4xUpgrade(r.cur, r.target)
       \/ r.reason = "QueueTypeMigration"

WaitForCluster ==
    /\ pc = "stsDeleted"
    /\ rmq' = PatchInstance(rmq, base,
                 [loc EXCEPT !.proxy = IF MigratesQueues(loc) THEN "True" ELSE @,
                             !.qt = loc.queue, !.phase = "WaitingForCluster"])
    /\ Return
    /\ UNCHANGED <<cached, sts, stsCached, pod, pvc, policy, legacy, faults>>

\* CreateOrPatch of the StatefulSet, in four outcomes.
Applies == Proceeds /\ (loc.phase = "WaitingForCluster" \/ ~RequiresWipe(loc))

Differs == LET want == DesiredSts(loc, stsCached) IN \E f \in DOMAIN want : want[f] # stsCached[f]

CreateStatefulSet ==
    /\ Applies /\ stsCached = NoSts /\ sts = NoSts
    /\ sts' = DesiredSts(loc, NoSts) @@ [observed |-> FALSE, readyReplicas |-> 0]
    /\ pc' = "applied"
    /\ UNCHANGED <<rmq, cached, stsCached, pod, pvc, policy, legacy, base, loc, ready, faults>>

\* A merge patch of what differs from the cached object.
PatchStatefulSet ==
    /\ Applies /\ stsCached # NoSts /\ sts # NoSts /\ Differs
    /\ LET want == DesiredSts(loc, stsCached)
           s == [f \in DOMAIN sts |-> IF f \in DOMAIN want /\ want[f] # stsCached[f]
                                      THEN want[f] ELSE sts[f]]
       IN  /\ sts' = IF s = sts THEN s ELSE [s EXCEPT !.observed = FALSE]
           /\ ready' = IsReady(sts')
    /\ pc' = "applied"
    /\ UNCHANGED <<rmq, cached, stsCached, pod, pvc, policy, legacy, base, loc, faults>>

\* Nothing to write: the readiness is that of the cached object.
KeepStatefulSet ==
    /\ Applies /\ stsCached # NoSts /\ ~Differs
    /\ pc' = "applied" /\ ready' = IsReady(stsCached)
    /\ UNCHANGED <<rmq, cached, sts, stsCached, pod, pvc, policy, legacy, base, loc, faults>>

\* AlreadyExists or NotFound: the cache is behind, the error requeues.
ApplyConflict ==
    /\ Applies /\ IF stsCached = NoSts THEN sts # NoSts ELSE sts = NoSts /\ Differs
    /\ Return
    /\ rmq' = PatchInstance(rmq, base, loc)
    /\ UNCHANGED <<cached, sts, stsCached, pod, pvc, policy, legacy, faults>>

\* A ready cluster ends the wipe: the running version is the target.
Completed(r) ==
    IF r.phase = "WaitingForCluster"
    THEN [r EXCEPT !.phase = "None", !.reason = "",
                   !.cur = IF r.target # NoVersion THEN r.target ELSE @]
    ELSE r

\* ha-all is applied when the status is not yet Mirrored, removed when it still is.
SyncQueueType ==
    /\ pc = "applied"
    /\ LET apply  == ready /\ loc.queue = "Mirrored" /\ loc.replicas > 1 /\ loc.qt # "Mirrored"
           remove == ready /\ loc.queue # "Mirrored" /\ loc.qt = "Mirrored"
       IN  policy' = ((policy \/ apply) /\ ~remove)
    /\ loc' = IF ready THEN [Completed(loc) EXCEPT !.qt = loc.queue] ELSE loc
    /\ pc' = "synced"
    /\ UNCHANGED <<rmq, cached, sts, stsCached, pod, pvc, legacy, base, ready, faults>>

Finish ==
    /\ pc = "synced"
    /\ rmq' = PatchInstance(rmq, base, [loc EXCEPT !.obs = loc.gen])
    /\ Return
    /\ UNCHANGED <<cached, sts, stsCached, pod, pvc, policy, legacy, faults>>

\* An API call fails: the deferred PatchInstance stores what is in memory.
ReturnError ==
    /\ Proceeds \/ pc \in {"policyDeleted", "stsDeleted", "applied"}
    /\ faults < MaxFaults /\ faults' = faults + 1
    /\ rmq' = PatchInstance(rmq, base,
                 IF pc = "applied" /\ ready THEN Completed(loc) ELSE loc)
    /\ Return
    /\ UNCHANGED <<cached, sts, stsCached, pod, pvc, policy, legacy>>

\* The operator's process dies: nothing in memory is stored.
Crash ==
    /\ pc # "idle" /\ Return
    /\ faults < MaxFaults /\ faults' = faults + 1
    /\ UNCHANGED <<rmq, cached, sts, stsCached, pod, pvc, policy, legacy>>

Reconcile ==
    \/ Read \/ InitVersion \/ ClearProxyRequired \/ RemoveAnnotation \/ StartWipe
    \/ DeleteMirroredPolicy \/ DeleteStatefulSet \/ WaitForCluster
    \/ CreateStatefulSet \/ PatchStatefulSet \/ KeepStatefulSet \/ ApplyConflict
    \/ SyncQueueType \/ Finish

-----------------------------------------------------------------------------
(* External: informer caches, StatefulSet controller, kubelet, clients *)

\* The caches are brought up to date only where the next step reads them: doing so
\* earlier makes no difference to it.
SyncCache ==
    /\ pc = "idle" /\ cached # rmq /\ cached' = rmq
    /\ UNCHANGED <<rmq, sts, stsCached, pod, pvc, policy, legacy, pc, base, loc, ready, faults>>

SyncStsCache ==
    /\ pc \in {"read", "policyDeleted"} /\ stsCached # sts /\ stsCached' = sts
    /\ UNCHANGED <<rmq, cached, sts, pod, pvc, policy, legacy, pc, base, loc, ready, faults>>

Running == {p \in Pods : pod[p].st = "run"}
Wanted  == IF sts = NoSts THEN {} ELSE 1 .. sts.replicas

StsUpdateStatus ==
    /\ sts # NoSts
    /\ sts' = [sts EXCEPT !.observed = TRUE, !.readyReplicas = Cardinality(Running \cap Wanted)]
    /\ sts' # sts
    /\ UNCHANGED <<rmq, cached, stsCached, pod, pvc, policy, legacy, pc, base, loc, ready, faults>>

StsCreatePod(p) ==
    /\ p \in Wanted /\ pod[p].st = "none"
    /\ pod' = [pod EXCEPT ![p] = [st |-> "init", ver |-> sts.ver, wipe |-> sts.wipe, proxy |-> sts.proxy]]
    /\ UNCHANGED <<rmq, cached, sts, stsCached, pvc, policy, legacy, pc, base, loc, ready, faults>>

\* Rolling update: one pod at a time, from the highest ordinal.
StsRollPod(p) ==
    /\ p \in Wanted /\ sts.observed /\ Wanted \subseteq Running
    /\ Template(pod[p]) # Template(sts)
    /\ \A q \in Wanted : q > p => Template(pod[q]) = Template(sts)
    /\ pod' = [pod EXCEPT ![p].st = "term"]
    /\ UNCHANGED <<rmq, cached, sts, stsCached, pvc, policy, legacy, pc, base, loc, ready, faults>>

\* Mutant: the marker is written and not looked at.
WipeScriptAlways(volume, v) == [EmptyVolume EXCEPT !.marker = v]

\* The wipe-data script: nothing if the marker of this version is there.
WipeScript(volume, v) == IF volume.marker = v THEN volume ELSE [EmptyVolume EXCEPT !.marker = v]

\* wipe-data, setup-container, then the broker, which keeps the format it finds.
StartBroker(p) ==
    /\ pod[p].st = "init"
    /\ LET v == IF pod[p].wipe THEN WipeScript(pvc[p], pod[p].ver) ELSE pvc[p]
       IN  pvc' = [pvc EXCEPT ![p] = [v EXCEPT !.fmt = IF @ = NoVersion THEN pod[p].ver ELSE @]]
    /\ pod' = [pod EXCEPT ![p].st = "run"]
    /\ UNCHANGED <<rmq, cached, sts, stsCached, policy, legacy, pc, base, loc, ready, faults>>

PodTerminated(p) ==
    /\ pod[p].st = "term"
    /\ pod' = [pod EXCEPT ![p] = NoPod]
    /\ UNCHANGED <<rmq, cached, sts, stsCached, pvc, policy, legacy, pc, base, loc, ready, faults>>

Evict(p) ==
    /\ pod[p].st \in {"init", "run"} /\ faults < MaxFaults
    /\ pod' = [pod EXCEPT ![p].st = "term"]
    /\ faults' = faults + 1
    /\ UNCHANGED <<rmq, cached, sts, stsCached, pvc, policy, legacy, pc, base, loc, ready>>

\* Clients declare queues of the type the status tells them.
DeclareQueues ==
    LET empty == {p \in Running : pvc[p].queues = "none"}
    IN  /\ rmq.qt # "" /\ empty # {}
        /\ pvc' = [p \in Pods |-> IF p \in empty THEN [pvc[p] EXCEPT !.queues = rmq.qt] ELSE pvc[p]]
        /\ legacy' = (legacy \/ rmq.qt = "Mirrored")
        /\ UNCHANGED <<rmq, cached, sts, stsCached, pod, policy, pc, base, loc, ready, faults>>

Platform ==
    \/ StsUpdateStatus
    \/ \E p \in Pods : StsCreatePod(p) \/ StsRollPod(p) \/ StartBroker(p) \/ PodTerminated(p)

Next ==
    \/ \E t \in Targets, q \in {"Mirrored", "Quorum"}, n \in Pods : EditSpec(t, q, n)
    \/ ReconfigureClients \/ DeclareQueues
    \/ Reconcile \/ ReturnError \/ Crash
    \/ SyncCache \/ SyncStsCache \/ Platform
    \/ \E p \in Pods : Evict(p)

Spec == Init /\ [][Next]_vars

-----------------------------------------------------------------------------
(* Properties *)

\* A broker never runs on a volume written by another major.minor version: every
\* path of Reconcile that changes the template's version also gives it wipe-data.
BrokerReadsOwnFormat ==
    \A p \in Running : ~RequiresStorageWipe(pvc[p].fmt, pod[p].ver)

\* A volume is emptied only when no broker of the cluster runs on older data:
\* "potentially triggering partial data wipes on only some nodes" is what
\* deleting the StatefulSet first is for.
NoPartialWipe ==
    [][\A p \in Pods : pvc'[p].marker # pvc[p].marker =>
          \A q \in Running : pvc[q].marker = pvc'[p].marker]_vars

\* Clients that still work the mirrored way never meet a broker with quorum
\* queues and no proxy in front of it.
LegacyClientsHaveProxy ==
    rmq.qt = "Quorum" /\ legacy =>
        \A p \in Running : ~RequiresStorageWipe(pod[p].ver, ConfigVersion(rmq)) => pod[p].proxy

\* When the queue migration is over no broker still holds mirrored queues.
MigrationEmptiesVolumes ==
    rmq.phase = "None" /\ rmq.qt = "Quorum" => \A p \in Running : pvc[p].queues # "Mirrored"

\* The ha-all policy is gone before a broker of 4.x, which has no mirrored
\* queues, starts.
NoMirroringOn4x == policy => \A p \in Running : ~IsVersion4OrLater(pod[p].ver)

\* Queues are lost only in a wipe the operator decided on: while the status
\* says none is under way, brokers that restart keep their data.
WipesOnlyWhenDecided ==
    [][\A p \in Pods : pvc[p].queues # "none" /\ pvc'[p].queues = "none" =>
          rmq.phase = "WaitingForCluster"]_vars

\* Fairness: Reconcile is requeued after each of its patches and watches the
\* StatefulSet; the platform's controllers run; the watches deliver, although a
\* Reconcile may start before they do.
Fairness ==
    WF_vars(Reconcile) /\ WF_vars(Platform) /\ SF_vars(SyncCache) /\ SF_vars(SyncStsCache)
FairSpec == Spec /\ Fairness

\* A cluster whose spec asks for another version, or for Quorum, gets there.
UpgradeCompletes ==
    \A t \in Targets \ {NoVersion} :
        (rmq.target = t) ~>
            (rmq.target # t \/ (rmq.phase = "None" /\ rmq.cur # NoVersion /\ ~RequiresStorageWipe(rmq.cur, t)))

=============================================================================
