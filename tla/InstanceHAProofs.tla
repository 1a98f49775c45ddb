--------------------------- MODULE InstanceHAProofs ---------------------------
(***************************************************************************)
(* InstanceHA, for any number of hosts, servers, node sets and faults: the *)
(* rotation of the heartbeat key never makes the agent deaf to nodes that  *)
(* missed no more than the latest rotation, and the agent has a server     *)
(* evacuated only when its guest has stopped.                              *)
(***************************************************************************)
EXTENDS HeartbeatKeys, InstanceHA, TLAPS

-----------------------------------------------------------------------------
(* The heartbeat key *)

HBType ==
  /\ hmac \in [key : Nat, prev : Nat, rv : Nat]
  /\ deployedKey \in [NodeSets -> [key : Nat, prev : Nat]]

\* The Secret's keys are successive, no node set is ahead of it, and whoever has
\* a key at all has the current one when the previous one is not kept.
KeysFollow ==
  /\ hmac.prev # 0 => hmac.prev + 1 = hmac.key
  /\ \A n \in NodeSets : deployedKey[n].key <= hmac.key
  /\ hmac.prev = 0 => \A n \in NodeSets : deployedKey[n].key \in {0, hmac.key}

HBInv == HBType /\ KeysFollow

LEMMA HBInvInit == HBInit => HBInv
  BY DEF HBInit, HBInv, HBType, KeysFollow, NotDeployed

\* Only three steps touch the Secret; TryNullifyPreviousKey is the one that
\* needs the node sets to be in sync.
LEMMA HBInvNext == HBInv /\ [HBNext]_hbVars => HBInv'
<1> SUFFICES ASSUME HBInv, [HBNext]_hbVars
             PROVE  HBInv'
    OBVIOUS
<1> USE DEF HBInv, HBType, KeysFollow
<1>1. CASE EnsureSecret
    BY <1>1 DEF EnsureSecret
<1>2. CASE RotateKey
    BY <1>2 DEF RotateKey
<1>3. CASE TryNullifyPreviousKey
    <2>1. CASE hmac.prev # 0 /\ IsSecretHashInSync
        <3>1. \A n \in NodeSets : deployedKey[n].key = hmac.key
            BY <2>1 DEF IsSecretHashInSync, Content
        <3>2. hmac' = [hmac EXCEPT !.prev = 0, !.rv = @ + 1] /\ UNCHANGED deployedKey
            BY <1>3, <2>1 DEF TryNullifyPreviousKey
        <3>3. hmac'.key = hmac.key /\ hmac'.prev = 0
            BY <3>2
        <3>4. hmac.rv + 1 \in Nat /\ 0 \in Nat
            OBVIOUS
        <3>5. hmac' \in [key : Nat, prev : Nat, rv : Nat]
            BY <3>2, <3>4, Zenon
        <3> QED
            BY <3>1, <3>2, <3>3, <3>5
    <2>2. CASE ~(hmac.prev # 0 /\ IsSecretHashInSync)
        BY <1>3, <2>2 DEF TryNullifyPreviousKey
    <2> QED
        BY <2>1, <2>2
<1>4. ASSUME NEW n \in NodeSets, DeployKey(n)
      PROVE  HBInv'
    <2>1. deployedKey' = [deployedKey EXCEPT ![n] = Content] /\ UNCHANGED hmac
        BY <1>4 DEF DeployKey
    <2>2. Content \in [key : Nat, prev : Nat] /\ Content.key = hmac.key
        BY DEF Content
    <2>3. HBType'
        BY <2>1, <2>2
    <2>4. KeysFollow'
        BY <2>1, <2>2
    <2> QED
        BY <2>3, <2>4
<1>5. CASE UNCHANGED <<hmac, deployedKey>>
    BY <1>5
<1>6. CASE \/ StampRotation \/ RemoveAnnotation \/ PatchMeta \/ PatchSynced
           \/ HBAbort \/ RequestRotation \/ UNCHANGED hbVars
    BY <1>5, <1>6 DEF StampRotation, RemoveAnnotation, PatchMeta, PatchSynced, HBAbort,
                      RequestRotation, hbVars
<1> QED
    BY <1>1, <1>2, <1>3, <1>4, <1>6 DEF HBNext, HBStep

\* Nodes that missed no more than the latest rotation are still heard, through
\* any interleaving of rotations, deployments of the node sets, clearings of the
\* previous key (tryNullifyPreviousKey) and crashes of the operator.
THEOREM LatestKeysStayAccepted == HBSpec => []LatestKeysAccepted
<1>1. HBInv => LatestKeysAccepted
    BY DEF HBInv, HBType, KeysFollow, LatestKeysAccepted
<1> QED
    BY HBInvInit, HBInvNext, <1>1, PTL DEF HBSpec

-----------------------------------------------------------------------------
(* The agent *)

Conditions == {"up", "hung", "kdump", "off", "boot"}
Service == [forced : BOOLEAN, disabled : BOOLEAN,
            reason : {"none", "evacuation", "complete", "failed"}, kdump : BOOLEAN]
JobSteps == {"none", "fence", "force", "mark", "servers", "evacuate", "power", "complete", "dumped"}
ServerStates == {"todo", "watch", "ok", "fail"}
ServerTables == UNION {[found -> ServerStates] : found \in SUBSET Servers}
Job == [pc : JobSteps, resume : BOOLEAN, sv : ServerTables, tries : [Servers -> Nat]]
Migration == [src : ComputeHosts \cup {"none"}, st : {"none", "running", "done", "error"}]

HAType ==
  /\ smart \in BOOLEAN
  /\ cond \in [ComputeHosts -> Conditions]
  /\ svc \in [ComputeHosts -> Service]
  /\ loc \in [Servers -> ComputeHosts]
  /\ mig \in [Servers -> Migration]
  /\ guest \in [Servers -> BOOLEAN]
  /\ snap \in [ComputeHosts -> [svc : Service, down : BOOLEAN]]
  /\ jobs \in [ComputeHosts -> Job]

\* The job of g still has to evacuate server s, or watches its evacuation.
Pending(g, s) ==
  /\ jobs[g].pc = "evacuate" /\ s \in DOMAIN jobs[g].sv
  /\ jobs[g].sv[s] \in {"todo", "watch"}

CanRetry(g, s) == jobs[g].tries[s] + 1 < Retries

\* The next call of the job of g requests the evacuation of s.
AboutToEvacuate(g, s) ==
  /\ Pending(g, s)
  /\ \/ jobs[g].sv[s] = "todo" /\ (~jobs[g].resume \/ mig[s].st \in {"none", "error"})
     \/ jobs[g].sv[s] = "watch" /\ mig[s].st = "error" /\ CanRetry(g, s)

\* A guest that runs, runs on a host that is up.
Reachable(s) == guest[s] => cond[loc[s]] = "up"

\* What keeps guests and evacuations apart:
\* a guest runs on a host that has not been powered off, crashed or rebooted;
GuestsNeedHosts == \A s \in Servers : guest[s] => cond[loc[s]] \in {"up", "hung"}

\* no guest runs on a host that is forced down;
ForcedMeansStopped == \A s \in Servers : svc[loc[s]].forced => ~guest[s]

\* a job forces down only a host that was powered off or is dumping;
FencedBeforeForced == \A h \in ComputeHosts : jobs[h].pc = "force" => cond[h] \in {"off", "kdump"}

\* from then on a guest of the host runs only if the host is back;
MarkedMeansStopped == \A s \in Servers : jobs[loc[s]].pc \in {"mark", "servers"} => Reachable(s)

\* a host listed as forced down is still so when it is admitted;
ListStillTrue == apc = "admit" => \A h \in ComputeHosts : snap[h].svc.forced => svc[h].forced

\* a guest does not run while it is evacuated;
EvacuatedMeansStopped == \A s \in Servers : smart /\ mig[s].st = "running" => ~guest[s]

\* and a job that is about to request the evacuation of a server finds its guest
\* reachable or stopped.
EvacuatesTheStopped ==
  smart => \A g \in ComputeHosts, s \in Servers : AboutToEvacuate(g, s) => Reachable(s)

HAInv ==
  /\ HAType
  /\ GuestsNeedHosts /\ ForcedMeansStopped /\ FencedBeforeForced /\ MarkedMeansStopped
  /\ ListStillTrue /\ EvacuatedMeansStopped /\ EvacuatesTheStopped

\* No host fails at a moment when the job of another host is about to request the
\* evacuation of a server that runs on it.  The two are far apart in time: the
\* server has come back to life since the job read that its evacuation failed, and
\* the job makes its request right after reading that.
RetriesArePrompt ==
  \A h \in ComputeHosts : HostFails(h) =>
    \A s \in Servers : loc[s] = h /\ guest[s] => \A g \in ComputeHosts : ~AboutToEvacuate(g, s)

\* What the calls that change one field leave of a job and of a service.
LEMMA JobStepTo ==
  ASSUME jobs \in [ComputeHosts -> Job], NEW h \in ComputeHosts, NEW pc \in JobSteps, Then(h, pc)
  PROVE  /\ jobs' \in [ComputeHosts -> Job]
         /\ \A g \in ComputeHosts \ {h} : jobs'[g] = jobs[g]
         /\ jobs'[h].pc = pc /\ jobs'[h].sv = jobs[h].sv
         /\ jobs'[h].resume = jobs[h].resume /\ jobs'[h].tries = jobs[h].tries
  BY Zenon DEF Job, Then

LEMMA NoJobIsJob == NoJob \in Job /\ NoJob.pc = "none"
<1>1. [s \in {} |-> s] \in [{} -> ServerStates]
    OBVIOUS
<1>2. [s \in {} |-> s] \in ServerTables
    BY <1>1 DEF ServerTables
<1> QED
    BY <1>2 DEF NoJob, Job, JobSteps

LEMMA JobEnds ==
  ASSUME jobs \in [ComputeHosts -> Job], NEW h \in ComputeHosts, EndJob(h)
  PROVE  /\ jobs' \in [ComputeHosts -> Job]
         /\ \A g \in ComputeHosts \ {h} : jobs'[g] = jobs[g]
         /\ jobs'[h].pc = "none"
  BY NoJobIsJob DEF EndJob

LEMMA TableUpdate ==
  ASSUME NEW t \in ServerTables, NEW s \in DOMAIN t, NEW st \in ServerStates
  PROVE  /\ [t EXCEPT ![s] = st] \in ServerTables
         /\ DOMAIN [t EXCEPT ![s] = st] = DOMAIN t
         /\ \A r \in DOMAIN t : [t EXCEPT ![s] = st][r] = IF r = s THEN st ELSE t[r]
  BY DEF ServerTables

LEMMA ServerStepTo ==
  ASSUME jobs \in [ComputeHosts -> Job], NEW h \in ComputeHosts, NEW s \in DOMAIN jobs[h].sv,
         NEW st \in ServerStates, Server(h, s, st)
  PROVE  /\ jobs' \in [ComputeHosts -> Job]
         /\ \A g \in ComputeHosts \ {h} : jobs'[g] = jobs[g]
         /\ jobs'[h].pc = jobs[h].pc /\ jobs'[h].resume = jobs[h].resume /\ jobs'[h].tries = jobs[h].tries
         /\ DOMAIN jobs'[h].sv = DOMAIN jobs[h].sv
         /\ \A r \in DOMAIN jobs[h].sv : jobs'[h].sv[r] = IF r = s THEN st ELSE jobs[h].sv[r]
<1> DEFINE t == [jobs[h].sv EXCEPT ![s] = st]
<1>1. jobs[h].sv \in ServerTables
    BY DEF Job
<1>2. /\ t \in ServerTables /\ DOMAIN t = DOMAIN jobs[h].sv
      /\ \A r \in DOMAIN jobs[h].sv : t[r] = IF r = s THEN st ELSE jobs[h].sv[r]
    BY <1>1, TableUpdate
<1>3. jobs' = [jobs EXCEPT ![h].sv = t]
    BY DEF Server
<1> HIDE DEF t
<1> QED
    BY <1>2, <1>3, Zenon DEF Job

LEMMA ServiceWith ==
  ASSUME NEW x \in Service, NEW k \in BOOLEAN,
         NEW reason \in {"none", "evacuation", "complete", "failed"}
  PROVE  /\ [x EXCEPT !.disabled = TRUE, !.reason = reason, !.kdump = k] \in Service
         /\ [x EXCEPT !.disabled = TRUE, !.reason = reason, !.kdump = k].forced = x.forced
<1> DEFINE x1 == [x EXCEPT !.disabled = TRUE]
           x2 == [x1 EXCEPT !.reason = reason]
           x3 == [x2 EXCEPT !.kdump = k]
<1>1. x1 \in Service /\ x1.forced = x.forced
    BY Zenon DEF Service
<1>2. [x EXCEPT !.disabled = TRUE, !.reason = reason, !.kdump = k] = x3
    BY Zenon
<1> HIDE DEF x1
<1>3. x2 \in Service /\ x2.forced = x.forced
    BY <1>1, Zenon DEF Service
<1> HIDE DEF x2
<1>4. x3 \in Service /\ x3.forced = x.forced
    BY <1>3, Zenon DEF Service
<1> HIDE DEF x3
<1> QED
    BY <1>2, <1>4, Zenon

LEMMA CountUp ==
  ASSUME NEW f \in [Servers -> Nat], NEW s \in Servers
  PROVE  /\ [f EXCEPT ![s] = @ + 1] \in [Servers -> Nat]
         /\ \A r \in Servers : \/ [f EXCEPT ![s] = @ + 1][r] = f[r]
                               \/ [f EXCEPT ![s] = @ + 1][r] = f[r] + 1
OBVIOUS

LEMMA ServiceMarked ==
  ASSUME svc \in [ComputeHosts -> Service], NEW h \in ComputeHosts,
         NEW reason \in {"none", "evacuation", "complete", "failed"}, NEW kdump \in BOOLEAN,
         LogReason(h, reason, kdump)
  PROVE  /\ svc' \in [ComputeHosts -> Service]
         /\ \A g \in ComputeHosts : svc'[g].forced = svc[g].forced
<1> DEFINE x == [svc[h] EXCEPT !.disabled = TRUE, !.reason = reason, !.kdump = kdump]
<1>0. svc[h] \in Service
    BY Zenon
<1>1. x \in Service /\ x.forced = svc[h].forced
    BY <1>0, ServiceWith, ZenonT(40)
<1>2. svc' = [svc EXCEPT ![h] = x]
    BY Zenon DEF LogReason
<1> HIDE DEF x
<1> QED
    BY <1>1, <1>2

LEMMA HAInvInit == HAInit => HAInv
<1> SUFFICES ASSUME HAInit PROVE HAInv
    OBVIOUS
<1>1. Enabled \in Service /\ ~Enabled.forced
    BY DEF Enabled, Service
<1>2. NoMigration \in Migration /\ NoMigration.st = "none"
    BY DEF NoMigration, Migration
<1>3. HAType
    BY <1>1, <1>2, NoJobIsJob DEF HAInit, HAType, Conditions, NoList
<1>4. \A h \in ComputeHosts : jobs[h].pc = "none" /\ cond[h] = "up" /\ ~svc[h].forced
    BY <1>1, NoJobIsJob DEF HAInit
<1>5. \A s \in Servers : loc[s] \in ComputeHosts /\ mig[s].st = "none"
    BY <1>2, <1>3 DEF HAInit, HAType
<1>6. GuestsNeedHosts /\ ForcedMeansStopped /\ FencedBeforeForced /\ MarkedMeansStopped
    BY <1>4, <1>5 DEF GuestsNeedHosts, ForcedMeansStopped, FencedBeforeForced, MarkedMeansStopped
<1>7. ListStillTrue
    BY DEF HAInit, ListStillTrue
<1>8. EvacuatedMeansStopped /\ EvacuatesTheStopped
    BY <1>4, <1>5 DEF EvacuatedMeansStopped, EvacuatesTheStopped, AboutToEvacuate, Pending
<1> QED
    BY <1>3, <1>6, <1>7, <1>8 DEF HAInv

LEMMA HostFailsKeeps ==
  ASSUME HAInv, NEW h \in ComputeHosts, HostFails(h), RetriesArePrompt
  PROVE  HAInv'
<1> USE DEF HAInv, HAType
<1>1. /\ UNCHANGED <<smart, svc, loc, mig, jobs, snap, apc>>
      /\ cond[h] = "up" /\ jobs[h].pc = "none"
      /\ \/ cond' = [cond EXCEPT ![h] = "hung"] /\ UNCHANGED guest
         \/ /\ cond' = [cond EXCEPT ![h] = "kdump"]
            /\ guest' = [s \in Servers |-> guest[s] /\ loc[s] # h]
    BY DEF HostFails, HAEvent, HASpend, AgentUnchanged, nova, poller
<1>2. HAType'
    BY <1>1, Zenon DEF Conditions
<1>3. /\ \A s \in Servers : guest'[s] => guest[s]
      /\ \A g \in ComputeHosts : g # h => cond'[g] = cond[g]
      /\ cond'[h] = "hung" \/ (cond'[h] = "kdump" /\ \A s \in Servers : loc[s] = h => ~guest'[s])
    BY <1>1, Zenon
<1>4. GuestsNeedHosts' /\ ForcedMeansStopped' /\ FencedBeforeForced'
    BY <1>1, <1>3, Zenon DEF GuestsNeedHosts, ForcedMeansStopped, FencedBeforeForced
<1>5. MarkedMeansStopped'
    BY <1>1, <1>3 DEF MarkedMeansStopped, Reachable
<1>6. ListStillTrue' /\ EvacuatedMeansStopped'
    BY <1>1, <1>3 DEF ListStillTrue, EvacuatedMeansStopped
<1>7. EvacuatesTheStopped'
    <2> SUFFICES ASSUME smart, NEW g \in ComputeHosts, NEW s \in Servers, AboutToEvacuate(g, s)
                 PROVE  Reachable(s)'
        BY <1>1 DEF EvacuatesTheStopped, AboutToEvacuate, Pending, CanRetry
    <2>1. Reachable(s)
        BY DEF EvacuatesTheStopped
    <2>2. ~(loc[s] = h /\ guest[s])
        BY DEF RetriesArePrompt
    <2> QED
        BY <1>1, <1>3, <2>1, <2>2, Zenon DEF Reachable
<1> QED
    BY <1>2, <1>4, <1>5, <1>6, <1>7

\* A host that comes back disturbs nothing: no guest runs on it yet.
LEMMA HostReturnsKeeps ==
  ASSUME HAInv, NEW h \in ComputeHosts, HostHeals(h) \/ HostBoots(h)
  PROVE  HAInv'
<1> USE DEF HAInv, HAType
<1>1. /\ UNCHANGED <<smart, svc, loc, mig, jobs, snap, apc, guest>>
      /\ \/ cond[h] = "hung" /\ cond' = [cond EXCEPT ![h] = "up"]
         \/ cond[h] = "kdump" /\ jobs[h].pc # "force" /\ cond' = [cond EXCEPT ![h] = "boot"]
         \/ cond[h] = "boot" /\ cond' = [cond EXCEPT ![h] = "up"]
    BY DEF HostHeals, HostBoots, HAEvent, HASpend, AgentUnchanged, nova, poller, bounds
<1>2. HAType'
    BY <1>1 DEF Conditions
<1>3. GuestsNeedHosts' /\ ForcedMeansStopped' /\ FencedBeforeForced'
    BY <1>1, ZenonT(40) DEF GuestsNeedHosts, ForcedMeansStopped, FencedBeforeForced
<1>4. \A s \in Servers : Reachable(s) => Reachable(s)'
    BY <1>1 DEF Reachable
<1>5. MarkedMeansStopped'
    BY <1>1, <1>4 DEF MarkedMeansStopped
<1>6. ListStillTrue' /\ EvacuatedMeansStopped'
    BY <1>1 DEF ListStillTrue, EvacuatedMeansStopped
<1>7. EvacuatesTheStopped'
    BY <1>1, <1>4 DEF EvacuatesTheStopped, AboutToEvacuate, Pending, CanRetry
<1> QED
    BY <1>2, <1>3, <1>5, <1>6, <1>7

LEMMA GuestStartsKeeps ==
  ASSUME HAInv, NEW s \in Servers, GuestStarts(s)
  PROVE  HAInv'
<1> USE DEF HAInv, HAType
<1>1. /\ UNCHANGED <<smart, cond, svc, loc, mig, jobs, snap, apc>>
      /\ guest' = [guest EXCEPT ![s] = TRUE]
      /\ mig[s].st # "running" /\ ~svc[loc[s]].forced /\ cond[loc[s]] = "up"
    BY DEF GuestStarts, AgentUnchanged, nova, poller, bounds, ServiceState
<1>2. HAType'
    BY <1>1
<1>3. \A r \in Servers : r # s => guest'[r] = guest[r]
    BY <1>1
<1>4. GuestsNeedHosts' /\ ForcedMeansStopped' /\ FencedBeforeForced'
    BY <1>1, <1>3 DEF GuestsNeedHosts, ForcedMeansStopped, FencedBeforeForced
<1>5. \A r \in Servers : Reachable(r) => Reachable(r)'
    BY <1>1, <1>3 DEF Reachable
<1>6. MarkedMeansStopped'
    BY <1>1, <1>5 DEF MarkedMeansStopped
<1>7. ListStillTrue' /\ EvacuatedMeansStopped'
    BY <1>1, <1>3, Zenon DEF ListStillTrue, EvacuatedMeansStopped
<1>8. EvacuatesTheStopped'
    BY <1>1, <1>5 DEF EvacuatesTheStopped, AboutToEvacuate, Pending, CanRetry
<1> QED
    BY <1>2, <1>4, <1>6, <1>7, <1>8

\* An evacuation ends on a host that is up, or leaves the server where it was.
LEMMA MigrationEndsKeeps ==
  ASSUME HAInv, NEW s \in Servers, MigrationEnds(s)
  PROVE  HAInv'
<1> USE DEF HAInv, HAType
<1>1. /\ UNCHANGED <<smart, cond, svc, jobs, snap, apc>>
      /\ mig[s].st = "running"
    BY DEF MigrationEnds, AgentUnchanged, nova, poller, bounds
<1>2. CASE mig' = [mig EXCEPT ![s].st = "error"] /\ UNCHANGED <<loc, guest>>
    <2>1. HAType'
        BY <1>1, <1>2, Zenon DEF Migration
    <2>2. \A r \in Servers : (mig'[r].st = mig[r].st \/ (r = s /\ mig'[r].st = "error"))
        BY <1>2 DEF Migration
    <2>3. smart => ~guest[s]
        BY <1>1 DEF EvacuatedMeansStopped
    <2>4. /\ GuestsNeedHosts' /\ ForcedMeansStopped' /\ FencedBeforeForced' /\ MarkedMeansStopped'
          /\ ListStillTrue'
        BY <1>1, <1>2 DEF GuestsNeedHosts, ForcedMeansStopped, FencedBeforeForced, MarkedMeansStopped,
                          ListStillTrue, Reachable
    <2>5. EvacuatedMeansStopped'
        BY <1>1, <1>2, <2>2 DEF EvacuatedMeansStopped
    <2>6. EvacuatesTheStopped'
        BY <1>1, <1>2, <2>2, <2>3 DEF EvacuatesTheStopped, AboutToEvacuate, Pending, CanRetry, Reachable
    <2> QED
        BY <2>1, <2>4, <2>5, <2>6
<1>3. ASSUME NEW h \in Destinations(s), loc' = [loc EXCEPT ![s] = h], guest' = [guest EXCEPT ![s] = TRUE],
             mig' = [mig EXCEPT ![s].st = "done"]
      PROVE  HAInv'
    <2>1. h \in ComputeHosts /\ cond[h] = "up" /\ ~svc[h].forced
        BY <1>3 DEF Destinations, ServiceState
    <2>2. HAType'
        BY <1>1, <1>3, <2>1, Zenon DEF Migration
    <2>3. /\ loc'[s] = h /\ guest'[s] /\ mig'[s].st = "done"
          /\ \A r \in Servers : r # s => loc'[r] = loc[r] /\ guest'[r] = guest[r] /\ mig'[r] = mig[r]
        BY <1>3 DEF Migration
    <2>4. GuestsNeedHosts' /\ ForcedMeansStopped' /\ FencedBeforeForced' /\ ListStillTrue'
        BY <1>1, <2>1, <2>3, Zenon DEF GuestsNeedHosts, ForcedMeansStopped, FencedBeforeForced, ListStillTrue
    <2>5. \A r \in Servers : (r = s \/ Reachable(r)) => Reachable(r)'
        BY <1>1, <2>1, <2>3 DEF Reachable
    <2>6. MarkedMeansStopped'
        BY <1>1, <2>3, <2>5, Zenon DEF MarkedMeansStopped
    <2>7. EvacuatedMeansStopped'
        BY <1>1, <2>3, Zenon DEF EvacuatedMeansStopped
    <2>8. EvacuatesTheStopped'
        BY <1>1, <2>3, <2>5, Zenon DEF EvacuatesTheStopped, AboutToEvacuate, Pending, CanRetry
    <2> QED
        BY <2>2, <2>4, <2>6, <2>7, <2>8
<1> QED
    BY <1>2, <1>3 DEF MigrationEnds


\* The poll loop's calls on services: force-down is only ever taken away here,
\* and never between the list and the admission.
LEMMA PollKeeps ==
  ASSUME HAInv, ReconcileOrphanedHosts \/ ListServices \/ \E h \in ComputeHosts : ReenableHost(h)
  PROVE  HAInv'
<1> USE DEF HAInv, HAType
<1>1. /\ UNCHANGED <<smart, cond, loc, mig, guest, jobs>>
      /\ HAType'
      /\ \A h \in ComputeHosts : svc'[h].forced => svc[h].forced
      /\ ListStillTrue'
    <2>1. CASE ReconcileOrphanedHosts
        <3>1. \A h \in ComputeHosts :
                 /\ [svc[h] EXCEPT !.disabled = TRUE, !.reason = "evacuation", !.kdump = FALSE] \in Service
                 /\ [svc[h] EXCEPT !.disabled = TRUE, !.reason = "evacuation", !.kdump = FALSE].forced = svc[h].forced
            BY ServiceWith, Zenon
        <3>2. svc' \in [ComputeHosts -> Service] /\ \A h \in ComputeHosts : svc'[h].forced = svc[h].forced
            BY <2>1, <3>1, Zenon DEF ReconcileOrphanedHosts
        <3> QED
            BY <2>1, <3>2, Zenon DEF ReconcileOrphanedHosts, bounds, ListStillTrue
    <2>2. CASE ListServices
        <3>1. Listed \in [ComputeHosts -> [svc : Service, down : BOOLEAN]]
            BY DEF Listed
        <3>2. \A h \in ComputeHosts : Listed[h].svc = svc[h]
            BY DEF Listed
        <3> QED
            BY <2>2, <3>1, <3>2 DEF ListServices, nova, bounds, ListStillTrue
    <2>3. ASSUME NEW h \in ComputeHosts, ReenableHost(h)
          PROVE  /\ UNCHANGED <<smart, cond, loc, mig, guest, jobs>>
                 /\ HAType'
                 /\ \A g \in ComputeHosts : svc'[g].forced => svc[g].forced
                 /\ ListStillTrue'
        <3>1. /\ UNCHANGED <<smart, cond, loc, mig, guest, jobs>>
              /\ apc' \in {"list", "reenable"} /\ snap' \in {NoList, snap}
            BY <2>3 DEF ReenableHost, Reenabling, bounds
        <3>2. Enabled \in Service
            BY DEF Enabled, Service
        <3>3. NoList \in [ComputeHosts -> [svc : Service, down : BOOLEAN]]
            BY <3>2 DEF NoList
        <3>4. PICK new \in {Unforced(h, snap[h].svc), [Enabled EXCEPT !.forced = svc[h].forced], svc[h]} :
                  svc' = [svc EXCEPT ![h] = new]
            BY <2>3, Zenon DEF ReenableHost
        <3>5. ASSUME NEW x \in Service, NEW forced \in BOOLEAN
              PROVE  [x EXCEPT !.forced = forced] \in Service /\ [x EXCEPT !.forced = forced].forced = forced
            BY <3>5, Zenon DEF Service
        <3>6. new \in Service /\ (new.forced => svc[h].forced)
            <4>1. CASE new = [svc[h] EXCEPT !.forced = FALSE]
                BY <3>5, <4>1, Zenon
            <4>2. CASE new = [svc[h] EXCEPT !.forced = FALSE, !.disabled = TRUE, !.reason = "complete", !.kdump = FALSE]
                <5> DEFINE x == [svc[h] EXCEPT !.forced = FALSE]
                <5>1. new = [x EXCEPT !.disabled = TRUE, !.reason = "complete", !.kdump = FALSE]
                    BY <4>2, Zenon
                <5>2. x \in Service /\ x.forced = FALSE
                    BY <3>5, Zenon
                <5> HIDE DEF x
                <5> QED
                    BY <5>1, <5>2, ServiceWith, Zenon
            <4>3. CASE new = [Enabled EXCEPT !.forced = svc[h].forced]
                <5>1. svc[h].forced \in BOOLEAN
                    BY DEF Service
                <5> QED
                    BY <3>2, <3>5, <4>3, <5>1
            <4>4. CASE new = svc[h]
                BY <4>4
            <4> QED
                BY <3>4, <4>1, <4>2, <4>3, <4>4 DEF Unforced
        <3>8. svc' \in [ComputeHosts -> Service] /\ \A g \in ComputeHosts : svc'[g].forced => svc[g].forced
            BY <3>4, <3>6, Zenon
        <3> QED
            BY <3>1, <3>3, <3>8, Zenon DEF ListStillTrue
    <2> QED
        BY <2>1, <2>2, <2>3
<1>2. /\ GuestsNeedHosts' /\ ForcedMeansStopped' /\ FencedBeforeForced' /\ MarkedMeansStopped'
      /\ EvacuatedMeansStopped'
    BY <1>1, Zenon DEF GuestsNeedHosts, ForcedMeansStopped, FencedBeforeForced, MarkedMeansStopped,
                EvacuatedMeansStopped, Reachable
<1>3. EvacuatesTheStopped'
    BY <1>1 DEF EvacuatesTheStopped, AboutToEvacuate, Pending, CanRetry, Reachable
<1> QED
    BY <1>1, <1>2, <1>3, Zenon

\* A new job starts with fencing, or with a host that is dumping, or that is
\* still forced down.
LEMMA AdmitKeeps ==
  ASSUME HAInv, AdmitStaleServices
  PROVE  HAInv'
<1> USE DEF HAInv, HAType
<1>1. /\ UNCHANGED <<smart, cond, svc, loc, mig, guest>>
      /\ apc = "admit" /\ apc' \in {"list", "reenable"} /\ snap' \in {NoList, snap}
    BY DEF AdmitStaleServices, Reenabling, nova, bounds
<1>2. Enabled \in Service
    BY DEF Enabled, Service
<1>3. NoList \in [ComputeHosts -> [svc : Service, down : BOOLEAN]]
    BY <1>2 DEF NoList
<1>4. ASSUME NEW hosts, NEW resumed,
             jobs' = Submit(hosts, resumed),
             \A h \in resumed : \/ cond[h] = "kdump"
                                \/ snap[h].svc.forced /\ snap[h].svc.disabled
      PROVE  /\ jobs' \in [ComputeHosts -> Job]
             /\ \A h \in ComputeHosts :
                   \/ jobs'[h] = jobs[h]
                   \/ jobs'[h].pc = "fence"
                   \/ jobs'[h].pc = "force" /\ cond[h] = "kdump"
                   \/ jobs'[h].pc = "servers" /\ snap[h].svc.forced
    <2> DEFINE new(h) == [NoJob EXCEPT !.pc = FirstStep(snap[h].svc, h \in resumed), !.resume = h \in resumed]
    <2>1. \A h \in ComputeHosts : jobs'[h] = IF h \in hosts THEN new(h) ELSE jobs[h]
        BY <1>4, Zenon DEF Submit
    <2>2. ASSUME NEW h \in ComputeHosts
          PROVE  FirstStep(snap[h].svc, h \in resumed) \in JobSteps
        BY DEF FirstStep, JobSteps
    <2>3. ASSUME NEW h \in ComputeHosts
          PROVE  new(h) \in Job /\ new(h).pc = FirstStep(snap[h].svc, h \in resumed)
        <3>1. ASSUME NEW pc \in JobSteps, NEW again \in BOOLEAN
              PROVE  /\ [NoJob EXCEPT !.pc = pc, !.resume = again] \in Job
                     /\ [NoJob EXCEPT !.pc = pc, !.resume = again].pc = pc
            BY NoJobIsJob, Zenon DEF Job
        <3>2. PICK again \in BOOLEAN : again = (h \in resumed)
            <4>1. (h \in resumed) \in BOOLEAN
                OBVIOUS
            <4> QED
                BY <4>1, Zenon
        <3>3. PICK pc \in JobSteps : pc = FirstStep(snap[h].svc, h \in resumed)
            BY <2>2
        <3>4. new(h) = [NoJob EXCEPT !.pc = pc, !.resume = again]
            BY <3>2, <3>3, Zenon
        <3> HIDE DEF new
        <3> QED
            BY <3>1, <3>3, <3>4, ZenonT(40)
    <2>6. jobs' = [h \in ComputeHosts |-> IF h \in hosts THEN new(h) ELSE jobs[h]]
        BY <1>4, Zenon DEF Submit
    <2> HIDE DEF new
    <2>4. jobs' \in [ComputeHosts -> Job]
        BY <2>3, <2>6
    <2>5. ASSUME NEW h \in ComputeHosts, h \in hosts
          PROVE  \/ jobs'[h].pc = "fence"
                 \/ jobs'[h].pc = "force" /\ cond[h] = "kdump"
                 \/ jobs'[h].pc = "servers" /\ snap[h].svc.forced
        BY <1>4, <2>1, <2>3, <2>5 DEF FirstStep
    <2> QED
        BY <2>1, <2>4, <2>5
<1>5. /\ jobs' \in [ComputeHosts -> Job]
      /\ \A h \in ComputeHosts :
            \/ jobs'[h] = jobs[h]
            \/ jobs'[h].pc = "fence"
            \/ jobs'[h].pc = "force" /\ cond[h] = "kdump"
            \/ jobs'[h].pc = "servers" /\ svc[h].forced
    <2>1. CASE UNCHANGED jobs
        BY <2>1
    <2>2. ASSUME NEW hosts, NEW capped, NEW dumped \in SUBSET {h \in capped : cond[h] = "kdump"},
                 jobs' = Submit(hosts, dumped \cup FilterProcessingHosts(ToResume(snap)))
          PROVE  /\ jobs' \in [ComputeHosts -> Job]
                 /\ \A h \in ComputeHosts :
                       \/ jobs'[h] = jobs[h]
                       \/ jobs'[h].pc = "fence"
                       \/ jobs'[h].pc = "force" /\ cond[h] = "kdump"
                       \/ jobs'[h].pc = "servers" /\ svc[h].forced
        <3>1. \A h \in FilterProcessingHosts(ToResume(snap)) : snap[h].svc.forced /\ snap[h].svc.disabled
            BY DEF FilterProcessingHosts, ToResume, IsServiceResumeCandidate
        <3>2. \A h \in ComputeHosts : snap[h].svc.forced => svc[h].forced
            BY <1>1 DEF ListStillTrue
        <3>3. PICK resumed : resumed = dumped \cup FilterProcessingHosts(ToResume(snap))
            BY Zenon
        <3>4. \A h \in resumed : cond[h] = "kdump" \/ (snap[h].svc.forced /\ snap[h].svc.disabled)
            BY <3>1, <3>3
        <3>5. jobs' = Submit(hosts, resumed)
            BY <2>2, <3>3
        <3>6. /\ jobs' \in [ComputeHosts -> Job]
              /\ \A h \in ComputeHosts :
                    \/ jobs'[h] = jobs[h]
                    \/ jobs'[h].pc = "fence"
                    \/ jobs'[h].pc = "force" /\ cond[h] = "kdump"
                    \/ jobs'[h].pc = "servers" /\ snap[h].svc.forced
            BY <1>4, <3>4, <3>5
        <3> QED
            BY <3>2, <3>6
    <2>3. \/ UNCHANGED jobs
          \/ \E hosts : \E capped : \E dumped \in SUBSET {h \in capped : cond[h] = "kdump"} :
                jobs' = Submit(hosts, dumped \cup FilterProcessingHosts(ToResume(snap)))
        <3> DEFINE nodes == FilterProcessingHosts(ComputeNodes(snap))
                   resume == FilterProcessingHosts(ToResume(snap))
                   withServers == FilterHostsWithServers(nodes)
                   fence == {h \in withServers : ~WithinFenceGracePeriod(h)}
        <3>1. CASE Gated(nodes, resume, withServers)
            BY <3>1 DEF AdmitStaleServices
        <3>2. CASE ~Gated(nodes, resume, withServers)
            <4>1. \E capped \in RateLimited(fence) :
                  \E dumped \in SUBSET {h \in capped : cond[h] = "kdump"} :
                     jobs' = Submit((capped \ WaitingForKdump(capped, dumped)) \cup resume, dumped \cup resume)
                BY <3>2, Zenon DEF AdmitStaleServices
            <4> HIDE DEF fence, resume
            <4> QED
                BY <4>1, Zenon DEF resume
        <3> QED
            BY <3>1, <3>2, Zenon
    <2> QED
        BY <2>1, <2>2, <2>3, Zenon
<1>6. HAType' /\ ListStillTrue'
    BY <1>1, <1>3, <1>5 DEF ListStillTrue
<1>7. GuestsNeedHosts' /\ ForcedMeansStopped' /\ EvacuatedMeansStopped'
    BY <1>1 DEF GuestsNeedHosts, ForcedMeansStopped, EvacuatedMeansStopped
<1>8. FencedBeforeForced'
    BY <1>1, <1>5, Zenon DEF FencedBeforeForced
<1>9. MarkedMeansStopped'
    BY <1>1, <1>5 DEF MarkedMeansStopped, ForcedMeansStopped, Reachable
<1>10. EvacuatesTheStopped'
    BY <1>1, <1>5, ZenonT(40) DEF EvacuatesTheStopped, AboutToEvacuate, Pending, CanRetry, Reachable
<1> QED
    BY <1>6, <1>7, <1>8, <1>9, <1>10, Zenon


\* A job of h moves on: the others keep their places.
LEMMA FenceKeeps ==
  ASSUME HAInv, NEW h \in ComputeHosts, HostFence(h)
  PROVE  HAInv'
<1> USE DEF HAInv, HAType
<1>1. /\ UNCHANGED <<smart, svc, loc, mig, snap, apc>>
      /\ cond' = [cond EXCEPT ![h] = "off"]
      /\ guest' = [s \in Servers |-> guest[s] /\ loc[s] # h]
      /\ Then(h, "force")
    BY DEF HostFence, PowerOff, JobUnchanged, nova, poller, bounds
<1>2. /\ jobs' \in [ComputeHosts -> Job] /\ jobs'[h].pc = "force"
      /\ \A g \in ComputeHosts \ {h} : jobs'[g] = jobs[g]
    BY <1>1, JobStepTo DEF JobSteps
<1>3. HAType'
    BY <1>1, <1>2, Zenon DEF Conditions
<1>4. \A s \in Servers : (guest'[s] => guest[s]) /\ (loc[s] = h => ~guest'[s])
    BY <1>1, Zenon
<1>5. cond'[h] = "off" /\ \A g \in ComputeHosts \ {h} : cond'[g] = cond[g]
    BY <1>1
<1>6. GuestsNeedHosts' /\ ForcedMeansStopped' /\ ListStillTrue' /\ EvacuatedMeansStopped'
    BY <1>1, <1>4, <1>5 DEF GuestsNeedHosts, ForcedMeansStopped, ListStillTrue, EvacuatedMeansStopped
<1>7. FencedBeforeForced'
    BY <1>2, <1>5 DEF FencedBeforeForced
<1>8. \A s \in Servers : Reachable(s) => Reachable(s)'
    BY <1>1, <1>4, <1>5 DEF Reachable
<1>9. MarkedMeansStopped'
    BY <1>1, <1>2, <1>8 DEF MarkedMeansStopped
<1>10. EvacuatesTheStopped'
    BY <1>1, <1>2, <1>8, Zenon DEF EvacuatesTheStopped, AboutToEvacuate, Pending, CanRetry
<1> QED
    BY <1>3, <1>6, <1>7, <1>9, <1>10

\* When a host is forced down none of its guests runs.
LEMMA ForceDownKeeps ==
  ASSUME HAInv, NEW h \in ComputeHosts, ForceDown(h)
  PROVE  HAInv'
<1> USE DEF HAInv, HAType
<1>1. /\ UNCHANGED <<smart, cond, loc, mig, guest, snap, apc>>
      /\ jobs[h].pc = "force"
      /\ svc' = [svc EXCEPT ![h].forced = TRUE]
      /\ Then(h, "mark")
    BY DEF ForceDown, At, JobUnchanged, poller, bounds
<1>2. /\ jobs' \in [ComputeHosts -> Job] /\ jobs'[h].pc = "mark"
      /\ \A g \in ComputeHosts \ {h} : jobs'[g] = jobs[g]
    BY <1>1, JobStepTo DEF JobSteps
<1>3. svc' \in [ComputeHosts -> Service] /\ svc'[h].forced
      /\ \A g \in ComputeHosts \ {h} : svc'[g] = svc[g]
    <2>0. svc[h] \in Service
        OBVIOUS
    <2>1. [svc[h] EXCEPT !.forced = TRUE] \in Service /\ [svc[h] EXCEPT !.forced = TRUE].forced
        BY <2>0, Zenon DEF Service
    <2>2. svc' = [svc EXCEPT ![h] = [svc[h] EXCEPT !.forced = TRUE]]
        BY <1>1, Zenon
    <2> QED
        BY <2>1, <2>2
<1>4. HAType'
    BY <1>1, <1>2, <1>3
<1>5. \A s \in Servers : loc[s] = h => ~guest[s]
    BY <1>1, Zenon DEF FencedBeforeForced, GuestsNeedHosts
<1>6. GuestsNeedHosts' /\ ForcedMeansStopped' /\ ListStillTrue' /\ EvacuatedMeansStopped'
    BY <1>1, <1>3, <1>5 DEF GuestsNeedHosts, ForcedMeansStopped, ListStillTrue, EvacuatedMeansStopped
<1>7. FencedBeforeForced'
    BY <1>1, <1>2, Zenon DEF FencedBeforeForced
<1>8. MarkedMeansStopped'
    BY <1>1, <1>2, <1>5 DEF MarkedMeansStopped, Reachable
<1>9. EvacuatesTheStopped'
    <2>1. \A g \in ComputeHosts, s \in Servers : AboutToEvacuate(g, s)' => AboutToEvacuate(g, s)
        BY <1>1, <1>2, Zenon DEF AboutToEvacuate, Pending, CanRetry
    <2> QED
        BY <1>1, <2>1 DEF EvacuatesTheStopped, Reachable
<1> QED
    BY <1>4, <1>6, <1>7, <1>8, <1>9

\* A step of the job of h that leaves hosts, guests, evacuations and force-down
\* alone, and after which the job has nothing to evacuate, or is where it was.
LEMMA QuietJobKeeps ==
  ASSUME HAInv, NEW h \in ComputeHosts,
         UNCHANGED <<smart, loc, mig, guest, snap, apc>>,
         cond' \in [ComputeHosts -> Conditions],
         \A g \in ComputeHosts : cond'[g] = cond[g] \/ (g = h /\ cond[g] = "off" /\ jobs'[g].pc # "force"),
         svc' \in [ComputeHosts -> Service],
         \A g \in ComputeHosts : svc'[g].forced = svc[g].forced,
         jobs' \in [ComputeHosts -> Job],
         \A g \in ComputeHosts \ {h} : jobs'[g] = jobs[g],
         \/ jobs'[h].pc \in {"none", "power", "complete", "dumped"}
         \/ jobs'[h].pc = "servers" /\ jobs[h].pc = "mark"
  PROVE  HAInv'
<1> USE DEF HAInv, HAType
<1>1. HAType'
    OBVIOUS
<1>2. /\ ForcedMeansStopped' /\ ListStillTrue' /\ EvacuatedMeansStopped'
    BY Zenon DEF ForcedMeansStopped, ListStillTrue, EvacuatedMeansStopped
<1>3. GuestsNeedHosts' /\ FencedBeforeForced'
    BY Zenon DEF GuestsNeedHosts, FencedBeforeForced
<1>4. \A s \in Servers : Reachable(s) => Reachable(s)'
    BY DEF Reachable, GuestsNeedHosts
<1>5. MarkedMeansStopped'
    BY <1>4 DEF MarkedMeansStopped
<1>6. EvacuatesTheStopped'
    BY <1>4, ZenonT(40) DEF EvacuatesTheStopped, AboutToEvacuate, Pending, CanRetry
<1> QED
    BY <1>1, <1>2, <1>3, <1>5, <1>6


\* The calls that mark the service, switch the host on or end the job.
LEMMA MarkingKeeps ==
  ASSUME HAInv, NEW h \in ComputeHosts,
         MarkEvacuation(h) \/ EvacuationOver(h) \/ PowerOn(h) \/ MarkComplete(h)
  PROVE  HAInv'
<1>0. /\ jobs \in [ComputeHosts -> Job] /\ svc \in [ComputeHosts -> Service]
      /\ cond \in [ComputeHosts -> Conditions]
    BY DEF HAInv, HAType
<1>1. CASE MarkEvacuation(h)
    <2>1. /\ UNCHANGED <<smart, cond, loc, mig, guest, snap, apc>> /\ jobs[h].pc = "mark"
          /\ LogReason(h, "evacuation", h \in kfenced) /\ Then(h, "servers")
        BY <1>1, Zenon DEF MarkEvacuation, At, JobUnchanged, poller, bounds
    <2>2. PICK kdump \in BOOLEAN : kdump = (h \in kfenced)
        <3>1. (h \in kfenced) \in BOOLEAN
            OBVIOUS
        <3> QED
            BY <3>1, Zenon
    <2>3. svc' \in [ComputeHosts -> Service] /\ \A g \in ComputeHosts : svc'[g].forced = svc[g].forced
        BY <1>0, <2>1, <2>2, ServiceMarked, Zenon
    <2>4. "servers" \in JobSteps
        BY DEF JobSteps
    <2>5. /\ jobs' \in [ComputeHosts -> Job] /\ jobs'[h].pc = "servers"
          /\ \A g \in ComputeHosts \ {h} : jobs'[g] = jobs[g]
        BY <1>0, <2>1, <2>4, JobStepTo
    <2> QED
        BY <1>0, <2>1, <2>3, <2>5, QuietJobKeeps
<1>2. CASE EvacuationOver(h)
    <2>1. /\ UNCHANGED <<smart, cond, loc, mig, guest, snap, apc>>
          /\ \/ Then(h, "power") /\ UNCHANGED svc
             \/ EndJob(h) /\ (LogReason(h, "failed", FALSE) \/ UNCHANGED svc)
        BY <1>2, Zenon DEF EvacuationOver, JobUnchanged, poller, bounds
    <2>2. svc' \in [ComputeHosts -> Service] /\ \A g \in ComputeHosts : svc'[g].forced = svc[g].forced
        <3>1. CASE UNCHANGED svc
            BY <1>0, <3>1
        <3>2. CASE LogReason(h, "failed", FALSE)
            BY <1>0, <3>2, ServiceMarked, Zenon
        <3> QED
            BY <2>1, <3>1, <3>2, Zenon
    <2>3. "power" \in JobSteps
        BY DEF JobSteps
    <2>4. /\ jobs' \in [ComputeHosts -> Job] /\ jobs'[h].pc \in {"none", "power"}
          /\ \A g \in ComputeHosts \ {h} : jobs'[g] = jobs[g]
        <3>1. CASE Then(h, "power")
            BY <1>0, <3>1, <2>3, JobStepTo
        <3>2. CASE EndJob(h)
            BY <1>0, <3>2, JobEnds
        <3> QED
            BY <2>1, <3>1, <3>2, Zenon
    <2> QED
        BY <1>0, <2>1, <2>2, <2>4, QuietJobKeeps
<1>3. CASE PowerOn(h)
    <2>1. PICK pc \in {"dumped", "complete"} : Then(h, pc)
        BY <1>3 DEF PowerOn
    <2>2. /\ UNCHANGED <<smart, svc, loc, mig, guest, snap, apc>>
          /\ UNCHANGED cond \/ (cond[h] = "off" /\ cond' = [cond EXCEPT ![h] = "boot"])
        BY <1>3 DEF PowerOn, poller, bounds, nova
    <2>3. pc \in JobSteps
        BY DEF JobSteps
    <2>4. /\ jobs' \in [ComputeHosts -> Job] /\ jobs'[h].pc \in {"dumped", "complete"}
          /\ \A g \in ComputeHosts \ {h} : jobs'[g] = jobs[g]
        BY <1>0, <2>1, <2>3, JobStepTo
    <2>5. /\ cond' \in [ComputeHosts -> Conditions]
          /\ \A g \in ComputeHosts : cond'[g] = cond[g] \/ (g = h /\ cond[g] = "off" /\ jobs'[g].pc # "force")
        BY <1>0, <2>2, <2>4 DEF Conditions
    <2> QED
        BY <1>0, <2>2, <2>4, <2>5, QuietJobKeeps
<1>4. CASE MarkComplete(h)
    <2>1. /\ UNCHANGED <<smart, cond, loc, mig, guest, snap, apc>>
          /\ LogReason(h, "complete", At(h, "dumped")) /\ EndJob(h)
        BY <1>4 DEF MarkComplete, JobUnchanged, poller, bounds
    <2>2. PICK kdump \in BOOLEAN : kdump = At(h, "dumped")
        BY Zenon DEF At
    <2>3. svc' \in [ComputeHosts -> Service] /\ \A g \in ComputeHosts : svc'[g].forced = svc[g].forced
        BY <1>0, <2>1, <2>2, ServiceMarked, Zenon
    <2>4. /\ jobs' \in [ComputeHosts -> Job] /\ jobs'[h].pc = "none"
          /\ \A g \in ComputeHosts \ {h} : jobs'[g] = jobs[g]
        BY <1>0, <2>1, JobEnds, Zenon
    <2> QED
        BY <1>0, <2>1, <2>3, <2>4, QuietJobKeeps, Zenon
<1> QED
    BY <1>1, <1>2, <1>3, <1>4

\* The servers a job finds on its host have stopped, or run on it again.
LEMMA GetServersKeeps ==
  ASSUME HAInv, NEW h \in ComputeHosts, GetEvacuableServers(h)
  PROVE  HAInv'
<1> USE DEF HAInv, HAType
<1>1. PICK found \in SUBSET {s \in Servers : loc[s] = h} :
         jobs' = [jobs EXCEPT ![h].pc = IF found = {} THEN "power" ELSE "evacuate",
                              ![h].sv = [s \in found |-> "todo"]]
    BY Zenon DEF GetEvacuableServers, ServersOn
<1>2. UNCHANGED <<smart, cond, svc, loc, mig, guest, snap, apc>> /\ jobs[h].pc = "servers"
    BY DEF GetEvacuableServers, At, JobUnchanged, poller, bounds, nova
<1>3. /\ jobs' \in [ComputeHosts -> Job]
      /\ \A g \in ComputeHosts \ {h} : jobs'[g] = jobs[g]
      /\ jobs'[h].pc \in {"power", "evacuate"} /\ DOMAIN jobs'[h].sv = found
    <2>1. PICK pc \in {"power", "evacuate"} : pc = IF found = {} THEN "power" ELSE "evacuate"
        OBVIOUS
    <2>2. PICK sv \in ServerTables : sv = [s \in found |-> "todo"]
        <3>1. [s \in found |-> "todo"] \in [found -> ServerStates]
            BY Zenon DEF ServerStates
        <3>2. [s \in found |-> "todo"] \in ServerTables
            BY <3>1 DEF ServerTables
        <3> QED
            BY <3>2
    <2>3. DOMAIN sv = found
        BY <2>2
    <2>4. jobs' = [jobs EXCEPT ![h] = [[jobs[h] EXCEPT !.pc = pc] EXCEPT !.sv = sv]]
        BY <1>1, <2>1, <2>2, Zenon
    <2>5. jobs[h] \in Job /\ pc \in JobSteps
        BY DEF JobSteps
    <2>6. PICK j : j = [jobs[h] EXCEPT !.pc = pc]
        BY Zenon
    <2>7. j \in Job /\ j.pc = pc
        BY <2>5, <2>6, Zenon DEF Job
    <2>8. [j EXCEPT !.sv = sv] \in Job /\ [j EXCEPT !.sv = sv].pc = pc /\ [j EXCEPT !.sv = sv].sv = sv
        BY <2>7, Zenon DEF Job
    <2> QED
        BY <2>3, <2>4, <2>6, <2>8
<1>4. HAType'
    BY <1>2, <1>3
<1>5. /\ GuestsNeedHosts' /\ ForcedMeansStopped' /\ FencedBeforeForced' /\ MarkedMeansStopped'
      /\ ListStillTrue' /\ EvacuatedMeansStopped'
    BY <1>2, <1>3, Zenon DEF GuestsNeedHosts, ForcedMeansStopped, FencedBeforeForced, MarkedMeansStopped,
                      ListStillTrue, EvacuatedMeansStopped, Reachable
<1>6. EvacuatesTheStopped'
    <2>1. \A s \in Servers : Reachable(s)' <=> Reachable(s)
        BY <1>2 DEF Reachable
    <2>2. \A g \in ComputeHosts, s \in Servers :
             AboutToEvacuate(g, s)' => AboutToEvacuate(g, s) \/ (g = h /\ s \in found)
        BY <1>2, <1>3, Zenon DEF AboutToEvacuate, Pending, CanRetry
    <2>3. \A s \in found : Reachable(s)
        BY <1>2 DEF MarkedMeansStopped
    <2> QED
        BY <1>2, <2>1, <2>2, <2>3 DEF EvacuatesTheStopped
<1> QED
    BY <1>4, <1>5, <1>6

\* A request that is made and taken finds the guest stopped.
LEMMA RequestFindsStopped ==
  ASSUME HAInv, smart, NEW g \in ComputeHosts, NEW s \in Servers, AboutToEvacuate(g, s),
         ServiceState(loc[s]) = "down"
  PROVE  ~guest[s]
<1>1. Reachable(s) /\ loc[s] \in ComputeHosts
    BY DEF HAInv, HAType, EvacuatesTheStopped
<1>2. cond[loc[s]] # "up" \/ svc[loc[s]].forced
    BY DEF ServiceState
<1> QED
    BY <1>1, <1>2 DEF HAInv, ForcedMeansStopped, Reachable

\* What a request does to the evacuations.
LEMMA RequestTypes ==
  ASSUME HAType, NEW s \in Servers, mig' \in {mig, Evacuated(s)}
  PROVE  /\ mig' \in [Servers -> Migration]
         /\ \A r \in Servers : mig'[r] = mig[r]
              \/ (r = s /\ mig'[r].st = "running" /\ mig' = Evacuated(s) /\ ServiceState(loc[s]) = "down")
  BY DEF HAType, Evacuated, Migration

\* A step of the job of h with server s that requests its evacuation, or none, and
\* gives up, waits or ends.
LEMMA RequestKeeps ==
  ASSUME HAInv, NEW h \in ComputeHosts, NEW s \in Servers,
         UNCHANGED <<smart, cond, svc, loc, guest, snap, apc>>,
         mig' \in {mig, Evacuated(s)},
         smart /\ mig' # mig => AboutToEvacuate(h, s),
         jobs' \in [ComputeHosts -> Job],
         \A g \in ComputeHosts \ {h} : jobs'[g] = jobs[g],
         jobs'[h].pc = jobs[h].pc,
         jobs[h].pc = "evacuate",
         \A r \in Servers : AboutToEvacuate(h, r)' => Reachable(r) \/ ~smart
  PROVE  HAInv'
<1> USE DEF HAInv, HAType
<1>1. /\ mig' \in [Servers -> Migration]
      /\ \A r \in Servers : mig'[r] = mig[r]
           \/ (r = s /\ mig'[r].st = "running" /\ mig' = Evacuated(s) /\ ServiceState(loc[s]) = "down")
    BY RequestTypes, Zenon
<1>2. smart => \A r \in Servers : mig'[r] # mig[r] => ~guest[r]
    BY <1>1, RequestFindsStopped, Zenon
<1>3. HAType'
    BY <1>1
<1>4. /\ GuestsNeedHosts' /\ ForcedMeansStopped' /\ FencedBeforeForced' /\ MarkedMeansStopped'
      /\ ListStillTrue'
    BY Zenon DEF GuestsNeedHosts, ForcedMeansStopped, FencedBeforeForced, MarkedMeansStopped,
           ListStillTrue, Reachable
<1>5. EvacuatedMeansStopped'
    BY <1>1, <1>2 DEF EvacuatedMeansStopped
<1>6. EvacuatesTheStopped'
    <2>1. \A r \in Servers : Reachable(r)' <=> Reachable(r)
        BY DEF Reachable
    <2>2. \A g \in ComputeHosts \ {h}, r \in Servers : AboutToEvacuate(g, r)' => AboutToEvacuate(g, r)
        BY <1>1, Zenon DEF AboutToEvacuate, Pending, CanRetry
    <2> QED
        BY <2>1, <2>2, Zenon DEF EvacuatesTheStopped
<1> QED
    BY <1>3, <1>4, <1>5, <1>6, Zenon

\* A server of a job that has come to state st, with mig as before or requested.
LEMMA ServerMovesOn ==
  ASSUME HAInv, NEW h \in ComputeHosts, NEW s \in Servers,
         jobs[h].pc = "evacuate", s \in DOMAIN jobs[h].sv, NEW st \in {"watch", "ok", "fail"},
         Server(h, s, st),
         mig' \in {mig, Evacuated(s)},
         st = "watch" => mig'[s].st # "error" \/ Reachable(s)
  PROVE  /\ jobs' \in [ComputeHosts -> Job]
         /\ \A g \in ComputeHosts \ {h} : jobs'[g] = jobs[g]
         /\ jobs'[h].pc = jobs[h].pc
         /\ \A r \in Servers : AboutToEvacuate(h, r)' => Reachable(r) \/ ~smart
<1>1. jobs \in [ComputeHosts -> Job] /\ st \in ServerStates
    BY DEF HAInv, HAType, ServerStates
<1>2. /\ jobs' \in [ComputeHosts -> Job]
      /\ \A g \in ComputeHosts \ {h} : jobs'[g] = jobs[g]
      /\ jobs'[h].pc = jobs[h].pc /\ jobs'[h].resume = jobs[h].resume /\ jobs'[h].tries = jobs[h].tries
      /\ DOMAIN jobs'[h].sv = DOMAIN jobs[h].sv
      /\ \A r \in DOMAIN jobs[h].sv : jobs'[h].sv[r] = IF r = s THEN st ELSE jobs[h].sv[r]
    BY <1>1, ServerStepTo, ZenonT(40)
<1>3. ASSUME NEW r \in Servers, AboutToEvacuate(h, r)', smart
      PROVE  Reachable(r)
    <2>1. \A q \in Servers : mig'[q] = mig[q] \/ (q = s /\ mig'[q].st = "running")
        BY RequestTypes DEF HAInv
    <2>2. CASE r = s
        <3>1. jobs'[h].sv[s] = st /\ st = "watch" /\ mig'[s].st = "error"
            BY <1>2, <1>3, <2>2, Zenon DEF AboutToEvacuate, Pending
        <3> QED
            BY <2>2, <3>1
    <2>3. CASE r # s
        <3>1. AboutToEvacuate(h, r)
            BY <1>2, <1>3, <2>1, <2>3, Zenon DEF AboutToEvacuate, Pending, CanRetry
        <3> QED
            BY <3>1, <1>3, Zenon DEF HAInv, EvacuatesTheStopped
    <2> QED
        BY <2>2, <2>3
<1> QED
    BY <1>2, <1>3, Zenon

\* The two calls that request an evacuation do so for a job that is about to.
LEMMA WhoRequests ==
  ASSUME HAInv, NEW h \in ComputeHosts, NEW s \in Servers,
         ServerEvacuate(h, s) \/ MonitorEvacuation(h, s)
  PROVE  /\ UNCHANGED <<smart, cond, svc, loc, guest, snap, apc>>
         /\ jobs[h].pc = "evacuate" /\ s \in DOMAIN jobs[h].sv
         /\ mig' \in {mig, Evacuated(s)}
         /\ smart /\ mig' # mig => AboutToEvacuate(h, s)
<1>1. CASE ServerEvacuate(h, s)
    BY <1>1, Zenon DEF ServerEvacuate, At, AboutToEvacuate, Pending, JobUnchanged, poller, bounds
<1>2. CASE MonitorEvacuation(h, s)
    BY <1>2 DEF MonitorEvacuation, At, AboutToEvacuate, Pending, CanRetry, JobUnchanged, poller, bounds
<1> QED
    BY <1>1, <1>2, Zenon

LEMMA ServerEvacuateKeeps ==
  ASSUME HAInv, NEW h \in ComputeHosts, NEW s \in Servers, ServerEvacuate(h, s)
  PROVE  HAInv'
<1>1. PICK st \in {"watch", "ok", "fail"} :
         /\ Server(h, s, st)
         /\ st = "watch" => \/ mig[s].st = "running" /\ UNCHANGED mig
                            \/ mig' = Evacuated(s) /\ ServiceState(loc[s]) # "up"
    BY Zenon DEF ServerEvacuate
<1>2. st = "watch" => mig'[s].st # "error"
    BY <1>1 DEF HAInv, HAType, Evacuated, ServiceState
<1>3. /\ jobs' \in [ComputeHosts -> Job]
      /\ \A g \in ComputeHosts \ {h} : jobs'[g] = jobs[g]
      /\ jobs'[h].pc = jobs[h].pc
      /\ \A r \in Servers : AboutToEvacuate(h, r)' => Reachable(r) \/ ~smart
    BY <1>1, <1>2, WhoRequests, ServerMovesOn, Zenon
<1> QED
    BY <1>3, WhoRequests, RequestKeeps, Zenon

LEMMA MonitorKeeps ==
  ASSUME HAInv, NEW h \in ComputeHosts, NEW s \in Servers, MonitorEvacuation(h, s)
  PROVE  HAInv'
<1>1. CASE \E st \in {"ok", "fail"} : Server(h, s, st)
    <2>1. PICK st \in {"ok", "fail"} : Server(h, s, st)
        BY <1>1
    <2>2. /\ jobs' \in [ComputeHosts -> Job]
          /\ \A g \in ComputeHosts \ {h} : jobs'[g] = jobs[g]
          /\ jobs'[h].pc = jobs[h].pc
          /\ \A r \in Servers : AboutToEvacuate(h, r)' => Reachable(r) \/ ~smart
        BY <2>1, WhoRequests, ServerMovesOn, Zenon
    <2> QED
        BY <2>2, WhoRequests, RequestKeeps, Zenon
<1>2. CASE /\ mig[s].st = "error" /\ jobs[h].tries[s] + 1 < Retries
           /\ jobs' = [jobs EXCEPT ![h].tries[s] = @ + 1]
    <2>1. jobs \in [ComputeHosts -> Job] /\ jobs[h] \in Job /\ jobs[h].tries \in [Servers -> Nat]
        BY DEF HAInv, HAType, Job
    <2>2. PICK t : t = [jobs[h].tries EXCEPT ![s] = @ + 1]
        BY Zenon
    <2>3. /\ t \in [Servers -> Nat]
          /\ \A r \in Servers : t[r] = jobs[h].tries[r] \/ t[r] = jobs[h].tries[r] + 1
        BY <2>1, <2>2, CountUp, Zenon
    <2>4. jobs' = [jobs EXCEPT ![h] = [jobs[h] EXCEPT !.tries = t]]
        BY <1>2, <2>2, Zenon
    <2>5. /\ jobs' \in [ComputeHosts -> Job]
          /\ \A g \in ComputeHosts \ {h} : jobs'[g] = jobs[g]
          /\ jobs'[h].pc = jobs[h].pc /\ jobs'[h].sv = jobs[h].sv
          /\ jobs'[h].resume = jobs[h].resume /\ jobs'[h].tries = t
        BY <2>1, <2>3, <2>4 DEF Job
    <2>6. \A r \in Servers : mig'[r] = mig[r] \/ mig'[r].st = "running"
        BY WhoRequests, RequestTypes, Zenon DEF HAInv
    <2>7. Retries \in Nat
        BY RetriesAssumption, ZenonT(40)
    <2>8. \A r \in Servers : AboutToEvacuate(h, r)' => AboutToEvacuate(h, r)
        BY <2>1, <2>3, <2>5, <2>6, <2>7 DEF AboutToEvacuate, Pending, CanRetry
    <2>9. \A r \in Servers : AboutToEvacuate(h, r)' => Reachable(r) \/ ~smart
        BY <2>8 DEF HAInv, EvacuatesTheStopped
    <2> QED
        BY <2>5, <2>9, WhoRequests, RequestKeeps, Zenon
<1> QED
    BY <1>1, <1>2 DEF MonitorEvacuation

LEMMA FaultsKeep ==
  ASSUME HAInv, \/ \E h \in ComputeHosts : JobFails(h) \/ \E s \in Servers : ServerFails(h, s)
                \/ AgentCrashes
  PROVE  HAInv'
<1>1. ASSUME NEW h \in ComputeHosts, JobFails(h)
      PROVE  HAInv'
    <2>1. /\ UNCHANGED <<smart, svc, loc, mig, snap, apc>>
          /\ EndJob(h)
          /\ \/ UNCHANGED <<cond, guest>>
             \/ PowerOff(h)
        BY <1>1, Zenon DEF JobFails, HAFault, HASpend, nova, poller
    <2>2. /\ jobs' \in [ComputeHosts -> Job]
          /\ \A g \in ComputeHosts \ {h} : jobs'[g] = jobs[g]
          /\ jobs'[h].pc = "none"
        BY <2>1, JobEnds, Zenon DEF HAInv, HAType
    <2>3. CASE UNCHANGED <<cond, guest>>
        BY <2>1, <2>2, <2>3, QuietJobKeeps, Zenon DEF HAInv, HAType
    <2>4. CASE PowerOff(h)
        <3> USE DEF HAInv, HAType
        <3>1. /\ \A s \in Servers : (guest'[s] => guest[s]) /\ (loc[s] = h => ~guest'[s])
              /\ cond'[h] = "off" /\ \A g \in ComputeHosts \ {h} : cond'[g] = cond[g]
            BY <2>4, Zenon DEF PowerOff
        <3>2. HAType'
            BY <2>1, <2>2, <2>4, Zenon DEF PowerOff, Conditions
        <3>3. GuestsNeedHosts' /\ ForcedMeansStopped' /\ ListStillTrue' /\ EvacuatedMeansStopped'
            BY <2>1, <3>1, Zenon DEF GuestsNeedHosts, ForcedMeansStopped, ListStillTrue, EvacuatedMeansStopped
        <3>4. FencedBeforeForced'
            BY <2>2, <3>1 DEF FencedBeforeForced
        <3>5. \A s \in Servers : Reachable(s) => Reachable(s)'
            BY <2>1, <3>1, Zenon DEF Reachable
        <3>6. MarkedMeansStopped'
            BY <2>1, <2>2, <3>5 DEF MarkedMeansStopped
        <3>7. EvacuatesTheStopped'
            BY <2>1, <2>2, <3>5, ZenonT(40) DEF EvacuatesTheStopped, AboutToEvacuate, Pending, CanRetry
        <3> QED
            BY <3>2, <3>3, <3>4, <3>6, <3>7
    <2> QED
        BY <2>1, <2>3, <2>4, Zenon
<1>2. ASSUME NEW h \in ComputeHosts, NEW s \in Servers, ServerFails(h, s)
      PROVE  HAInv'
    <2>1. /\ UNCHANGED <<smart, cond, svc, loc, mig, guest, snap, apc>>
          /\ jobs[h].pc = "evacuate" /\ s \in DOMAIN jobs[h].sv /\ Server(h, s, "fail")
        BY <1>2, Zenon DEF ServerFails, HAFault, HASpend, At, nova, poller
    <2>2. /\ jobs' \in [ComputeHosts -> Job]
          /\ \A g \in ComputeHosts \ {h} : jobs'[g] = jobs[g]
          /\ jobs'[h].pc = jobs[h].pc
          /\ \A r \in Servers : AboutToEvacuate(h, r)' => Reachable(r) \/ ~smart
        BY <2>1, ServerMovesOn, Zenon
    <2> QED
        BY <2>1, <2>2, RequestKeeps
<1>3. CASE AgentCrashes
    <2> USE DEF HAInv, HAType
    <2>1. /\ UNCHANGED <<smart, cond, svc, loc, mig, guest>>
          /\ apc' = "start" /\ snap' = NoList
          /\ jobs' = [h \in ComputeHosts |-> NoJob]
        BY <1>3 DEF AgentCrashes, HAFault, HASpend, nova
    <2>2. jobs' \in [ComputeHosts -> Job] /\ \A h \in ComputeHosts : jobs'[h].pc = "none"
        BY <2>1, NoJobIsJob, Zenon
    <2>3. NoList \in [ComputeHosts -> [svc : Service, down : BOOLEAN]]
        BY Zenon DEF NoList, Enabled, Service
    <2>4. HAType'
        BY <2>1, <2>2, <2>3, Zenon
    <2>5. /\ GuestsNeedHosts' /\ ForcedMeansStopped' /\ FencedBeforeForced' /\ MarkedMeansStopped'
          /\ ListStillTrue' /\ EvacuatedMeansStopped'
        BY <2>1, <2>2 DEF GuestsNeedHosts, ForcedMeansStopped, FencedBeforeForced, MarkedMeansStopped,
                          ListStillTrue, EvacuatedMeansStopped
    <2>6. EvacuatesTheStopped'
        BY <2>1, <2>2, Zenon DEF EvacuatesTheStopped, AboutToEvacuate, Pending
    <2> QED
        BY <2>4, <2>5, <2>6, Zenon
<1> QED
    BY <1>1, <1>2, <1>3

LEMMA HAInvNext == HAInv /\ [HANext]_haVars /\ [RetriesArePrompt]_haVars => HAInv'
<1> SUFFICES ASSUME HAInv, [HANext]_haVars, [RetriesArePrompt]_haVars PROVE HAInv'
    OBVIOUS
<1>1. CASE UNCHANGED haVars
    BY <1>1, Zenon DEF haVars, HAInv, HAType, GuestsNeedHosts, ForcedMeansStopped, FencedBeforeForced,
                MarkedMeansStopped, ListStillTrue, EvacuatedMeansStopped, EvacuatesTheStopped,
                AboutToEvacuate, Pending, CanRetry, Reachable
<1>2. CASE PollStep
    BY <1>2, PollKeeps, AdmitKeeps DEF PollStep
<1>3. CASE WorkerStep
    <2>1. PICK h \in ComputeHosts : JobStep(h)
        BY <1>3 DEF WorkerStep
    <2> QED
        BY <2>1, FenceKeeps, ForceDownKeeps, MarkingKeeps, GetServersKeeps, ServerEvacuateKeeps,
           MonitorKeeps DEF JobStep
<1>4. CASE CloudStep
    BY <1>4, HostReturnsKeeps, MigrationEndsKeeps DEF CloudStep
<1>5. CASE \/ \E h \in ComputeHosts : JobFails(h) \/ \E s \in Servers : ServerFails(h, s)
           \/ AgentCrashes
    BY <1>5, FaultsKeep
<1>6. CASE HANext /\ \E h \in ComputeHosts : HostFails(h) \/ HostHeals(h)
    <2>1. ASSUME NEW h \in ComputeHosts, HostFails(h)
          PROVE  HAInv'
        <3>1. cond' # cond
            <4>1. cond \in [ComputeHosts -> Conditions]
                BY DEF HAInv, HAType
            <4> QED
                BY <2>1, <4>1 DEF HostFails
        <3>2. RetriesArePrompt
            BY <3>1 DEF haVars
        <3> QED
            BY <2>1, <3>2, HostFailsKeeps
    <2> QED
        BY <1>6, <2>1, HostReturnsKeeps
<1>7. CASE \E s \in Servers : GuestStarts(s)
    BY <1>7, GuestStartsKeeps, Zenon
<1> QED
    BY <1>1, <1>2, <1>3, <1>4, <1>5, <1>6, <1>7 DEF HANext

\* Whoever changes an evacuation to running requested it.
LEMMA StepsDoNotSplit ==
  ASSUME HAInv, [HANext]_haVars, NEW s \in Servers,
         smart, mig'[s] # mig[s], mig'[s].st = "running"
  PROVE  ~guest[s]
<1>1. \/ \E h \in ComputeHosts, r \in Servers : ServerEvacuate(h, r) \/ MonitorEvacuation(h, r)
      \/ \E r \in Servers : MigrationEnds(r)
    <2>1. CASE UNCHANGED haVars
        BY <2>1 DEF haVars
    <2>2. CASE PollStep
        BY <2>2, Zenon DEF PollStep, ReconcileOrphanedHosts, ListServices, AdmitStaleServices, ReenableHost, nova
    <2>3. CASE WorkerStep
        BY <2>3, Zenon DEF WorkerStep, JobStep, HostFence, ForceDown, MarkEvacuation, GetEvacuableServers,
                    EvacuationOver, PowerOn, MarkComplete, nova
    <2>4. CASE CloudStep
        BY <2>4 DEF CloudStep, HostBoots, nova
    <2>5. CASE \/ \E h \in ComputeHosts : JobFails(h) \/ \E r \in Servers : ServerFails(h, r)
               \/ AgentCrashes
        BY <2>5, Zenon DEF JobFails, ServerFails, AgentCrashes, nova
    <2>6. CASE \E h \in ComputeHosts : HostFails(h) \/ HostHeals(h)
        BY <2>6, Zenon DEF HostFails, HostHeals, nova
    <2>7. CASE \E r \in Servers : GuestStarts(r)
        BY <2>7, Zenon DEF GuestStarts, nova
    <2> QED
        BY <2>1, <2>2, <2>3, <2>4, <2>5, <2>6, <2>7, Zenon DEF HANext
<1>2. ASSUME NEW h \in ComputeHosts, NEW r \in Servers, ServerEvacuate(h, r) \/ MonitorEvacuation(h, r)
      PROVE  ~guest[s]
    <2>1. mig' \in {mig, Evacuated(r)} /\ (smart /\ mig' # mig => AboutToEvacuate(h, r))
        BY <1>2, WhoRequests, Zenon
    <2>2. s = r /\ ServiceState(loc[s]) = "down"
        BY <2>1, RequestTypes DEF HAInv
    <2> QED
        BY <2>1, <2>2, RequestFindsStopped
<1>3. ASSUME NEW r \in Servers, MigrationEnds(r)
      PROVE  FALSE
    <2>1. mig \in [Servers -> Migration]
        BY DEF HAInv, HAType
    <2>2. \/ mig' = [mig EXCEPT ![r].st = "done"]
          \/ mig' = [mig EXCEPT ![r].st = "error"]
        BY <1>3 DEF MigrationEnds
    <2> QED
        BY <2>1, <2>2, Zenon DEF Migration
<1> QED
    BY <1>1, <1>2, <1>3

\* A server is never started in two places.  With SMART_EVACUATION, for any number
\* of hosts and servers and any failures of hosts, calls and the agent, an
\* evacuation (_server_evacuate, _monitor_evacuation) is requested only of a server
\* whose guest has stopped, provided that requests are prompt in the sense of
\* RetriesArePrompt.
THEOREM EvacuatesStoppedGuests == HASpec /\ [][RetriesArePrompt]_haVars => NoSplitBrain
<1> DEFINE Split ==
      \A s \in Servers : smart /\ mig'[s] # mig[s] /\ mig'[s].st = "running" => ~guest[s]
<1>1. HAInv /\ [HANext]_haVars => [Split]_haVars
    BY StepsDoNotSplit
<1>2. NoSplitBrain <=> [][Split]_haVars
    BY DEF NoSplitBrain
<1> HIDE DEF Split
<1> QED
    BY HAInvInit, HAInvNext, <1>1, <1>2, PTL DEF HASpec

=============================================================================
