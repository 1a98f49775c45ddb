----------------------------- MODULE InstanceHA -----------------------------
(***************************************************************************)
(* The InstanceHA agent (templates/instanceha/bin/instanceha.py): a poll   *)
(* loop that lists the nova-compute services, admits failed hosts and      *)
(* re-enables recovered ones, and worker threads that fence a host, force  *)
(* its service down, evacuate its servers and power it on again.           *)
(*                                                                         *)
(* Everything a restart needs is in Nova: forced_down, the status and the  *)
(* marker in disabled_reason.  The table of hosts being processed, the     *)
(* jobs and the kdump state are in memory.  The poll loop works on one     *)
(* answer of Nova for a whole cycle; a job works on the copy of the        *)
(* service it was submitted with.                                          *)
(*                                                                         *)
(* Nova, the hosts and the guests are external.  A migration record is the *)
(* most recent evacuation of a server.  Assumed: a host fails again only   *)
(* when no job of it is left, and an entry of hosts_processing lasts as    *)
(* long as its job.  Reserved hosts, heartbeats, tags and aggregates are   *)
(* switched off; a KDUMP_TIMEOUT passes from one poll to the next.         *)
(***************************************************************************)
EXTENDS Naturals, FiniteSets

CONSTANTS
  ComputeHosts,
  Servers,
  DownCycles,        \* FENCE_AFTER_DOWN_CYCLES
  PerCycle,          \* MAX_HOSTS_PER_CYCLE
  ThresholdPercent,  \* THRESHOLD
  Retries,           \* EVACUATION_RETRIES
  HABudgets          \* bounds, one chosen at the start: hosts that fail or heal (events),
                     \* failed calls and crashes of the agent (faults)

ASSUME RetriesAssumption == Retries \in Nat

VARIABLES
  smart,        \* SMART_EVACUATION
  cond,         \* the hosts: "up", "hung", "kdump", "off" or "boot"
  svc,          \* their nova-compute services
  loc, mig,     \* per server: its host, and its last evacuation
  guest,        \* per server: its guest runs on that host
  apc, snap, todo,   \* the poll loop: next step, services listed, hosts to look at
  processing,   \* hosts_processing
  downs,        \* host_down_cycles
  checking, kfenced,   \* kdump_hosts_checking, kdump_fenced_hosts
  jobs,
  haBudget

haVars == <<smart, cond, svc, loc, mig, guest, apc, snap, todo, processing, downs, checking, kfenced,
            jobs, haBudget>>
nova == <<svc, loc, mig>>
poller == <<apc, snap, todo, downs>>
bounds == <<smart, haBudget>>

NoMigration == [src |-> "none", st |-> "none"]
Enabled == [forced |-> FALSE, disabled |-> FALSE, reason |-> "none", kdump |-> FALSE]
NoJob == [pc |-> "none", resume |-> FALSE, sv |-> [s \in {} |-> s], tries |-> [s \in Servers |-> 0]]

ServiceState(h) == IF svc[h].forced \/ cond[h] # "up" THEN "down" ELSE "up"
Listed == [h \in ComputeHosts |-> [svc |-> svc[h], down |-> ServiceState(h) = "down"]]

NoList == [h \in ComputeHosts |-> [svc |-> Enabled, down |-> FALSE]]

HAInit ==
  /\ smart \in BOOLEAN
  /\ cond = [h \in ComputeHosts |-> "up"]
  /\ svc = [h \in ComputeHosts |-> Enabled]
  /\ loc \in [Servers -> ComputeHosts]
  /\ mig = [s \in Servers |-> NoMigration]
  /\ guest = [s \in Servers |-> TRUE]
  /\ apc = "start" /\ snap = NoList /\ todo = {}
  /\ processing = {} /\ checking = {} /\ kfenced = {}
  /\ downs = [h \in ComputeHosts |-> 0]
  /\ jobs = [h \in ComputeHosts |-> NoJob]
  /\ haBudget \in HABudgets

ServersOn(h) == {s \in Servers : loc[s] = h}

-----------------------------------------------------------------------------
(* Nova, hosts and guests *)

HASpend(what) == haBudget[what] > 0 /\ haBudget' = [haBudget EXCEPT ![what] = @ - 1] /\ UNCHANGED smart
HAEvent == HASpend("events")
HAFault == HASpend("faults")
AgentUnchanged == UNCHANGED <<poller, processing, checking, kfenced, jobs>>

\* A hung host has lost its network: its guests go on running.
HostFails(h) ==
  /\ HAEvent /\ AgentUnchanged
  /\ cond[h] = "up" /\ jobs[h].pc = "none"
  /\ \/ cond' = [cond EXCEPT ![h] = "hung"] /\ UNCHANGED guest
     \/ /\ cond' = [cond EXCEPT ![h] = "kdump"]
        /\ guest' = [s \in Servers |-> guest[s] /\ loc[s] # h]
  /\ UNCHANGED nova

HostHeals(h) ==
  /\ HAEvent /\ AgentUnchanged
  /\ cond[h] = "hung" /\ cond' = [cond EXCEPT ![h] = "up"]
  /\ UNCHANGED <<nova, guest>>

\* A dump ends with a reboot; it outlasts the time a job needs to force the
\* host down.
HostBoots(h) ==
  /\ \/ /\ cond[h] = "kdump" /\ jobs[h].pc # "force"
        /\ cond' = [cond EXCEPT ![h] = "boot"]
     \/ cond[h] = "boot" /\ cond' = [cond EXCEPT ![h] = "up"]
  /\ AgentUnchanged /\ UNCHANGED <<nova, guest, bounds>>

\* The owner of the server starts it; Nova wants its host up for that.
GuestStarts(s) ==
  /\ ~guest[s] /\ mig[s].st # "running" /\ ServiceState(loc[s]) = "up"
  /\ guest' = [guest EXCEPT ![s] = TRUE]
  /\ AgentUnchanged /\ UNCHANGED <<cond, nova, bounds>>

Destinations(s) == {h \in ComputeHosts : ServiceState(h) = "up" /\ ~svc[h].disabled}

MigrationEnds(s) ==
  /\ mig[s].st = "running"
  /\ \/ \E h \in Destinations(s) :
          /\ loc' = [loc EXCEPT ![s] = h]
          /\ guest' = [guest EXCEPT ![s] = TRUE]
          /\ mig' = [mig EXCEPT ![s].st = "done"]
     \/ /\ Destinations(s) = {}
        /\ mig' = [mig EXCEPT ![s].st = "error"]
        /\ UNCHANGED <<loc, guest>>
  /\ AgentUnchanged /\ UNCHANGED <<cond, svc, bounds>>

\* An evacuation request: Nova takes it when the server's host is down.
Evacuated(s) ==
  IF ServiceState(loc[s]) = "down" THEN [mig EXCEPT ![s] = [src |-> loc[s], st |-> "running"]] ELSE mig

-----------------------------------------------------------------------------
(* The poll loop *)

\* Start-up: a host that was forced down but not marked is marked.
ReconcileOrphanedHosts ==
  /\ apc = "start" /\ apc' = "list"
  /\ svc' = [h \in ComputeHosts |-> IF svc[h].forced /\ ~svc[h].disabled
               THEN [svc[h] EXCEPT !.disabled = TRUE, !.reason = "evacuation", !.kdump = FALSE]
               ELSE svc[h]]
  /\ UNCHANGED <<cond, loc, mig, guest, snap, todo, downs, processing, checking, kfenced, jobs, bounds>>

\* _categorize_services
ComputeNodes(sn) == {h \in ComputeHosts : ~sn[h].svc.disabled /\ ~sn[h].svc.forced /\ sn[h].down}

IsServiceResumeCandidate(x) == x.svc.forced /\ x.down /\ x.svc.disabled /\ x.svc.reason = "evacuation"
ToResume(sn) == {h \in ComputeHosts : IsServiceResumeCandidate(sn[h])}

\* Mutant: hosts marked complete are not looked at.
ToReenableForcedOnly(sn) == {h \in ComputeHosts : ~sn[h].svc.disabled /\ sn[h].svc.forced}

ToReenable(sn) ==
  {h \in ComputeHosts : \/ ~sn[h].svc.disabled /\ sn[h].svc.forced
                        \/ sn[h].svc.disabled /\ sn[h].svc.reason = "complete"} \ ToResume(sn)

\* record_down_cycles, counted up to the threshold
RecordDownCycles(down) ==
  [h \in ComputeHosts |-> IF h \notin down \/ DownCycles <= 1 THEN 0
                          ELSE IF downs[h] < DownCycles THEN downs[h] + 1 ELSE downs[h]]

ListServices ==
  /\ apc = "list" /\ apc' = "admit"
  /\ snap' = Listed
  /\ downs' = RecordDownCycles(ComputeNodes(Listed))
  /\ UNCHANGED <<cond, nova, guest, todo, processing, checking, kfenced, jobs, bounds>>

WithinFenceGracePeriod(h) == DownCycles > 1 /\ downs[h] < DownCycles

\* THRESHOLD
TooMany(hosts) == Cardinality(hosts) * 100 > ThresholdPercent * Cardinality(ComputeHosts)

\* The gates that end a cycle: all active services stale, every failed host in
\* its grace period, too large a share of the hosts impacted.
Gated(nodes, resume, withServers) ==
  LET active == {h \in ComputeHosts : ~snap[h].svc.disabled /\ ~snap[h].svc.forced}
      impacted == {h \in ComputeHosts : snap[h].down} \cup withServers IN
  \/ nodes # {} /\ Cardinality(active) >= 3 /\ Cardinality(nodes) >= Cardinality(active)
  \/ nodes # {} /\ resume = {} /\ \A h \in nodes : WithinFenceGracePeriod(h)
  \/ withServers # {} /\ TooMany(impacted)

\* Where process_service begins: a resumed job does not fence, and it disables
\* the service unless the listed copy is disabled.
FirstStep(x, resumed) ==
  IF ~resumed THEN "fence" ELSE IF x.forced /\ x.disabled THEN "servers" ELSE "force"

Submit(hosts, resumed) ==
  [h \in ComputeHosts |-> IF h \in hosts
     THEN [NoJob EXCEPT !.pc = FirstStep(snap[h].svc, h \in resumed), !.resume = h \in resumed]
     ELSE jobs[h]]

\* The cycle ends with the last host to look at; its list is dropped.
Reenabling ==
  /\ apc' = IF todo' = {} THEN "list" ELSE "reenable"
  /\ snap' = IF todo' = {} THEN NoList ELSE snap

FilterProcessingHosts(hosts) == hosts \ processing
FilterHostsWithServers(hosts) == {h \in hosts : ServersOn(h) # {}}

\* _check_kdump: a host that sent no message waits for one until the next poll.
WaitingForKdump(hosts, dumped) == (hosts \ dumped) \ checking
CheckKdump(hosts, dumped) ==
  /\ checking' = (checking \ hosts) \cup WaitingForKdump(hosts, dumped)
  /\ kfenced' = kfenced \cup dumped

RateLimited(hosts) ==
  {capped \in SUBSET hosts :
     Cardinality(capped) = IF Cardinality(hosts) > PerCycle THEN PerCycle ELSE Cardinality(hosts)}

AdmitStaleServices ==
  LET nodes == FilterProcessingHosts(ComputeNodes(snap))
      resume == FilterProcessingHosts(ToResume(snap))
      withServers == FilterHostsWithServers(nodes)
      fence == {h \in withServers : ~WithinFenceGracePeriod(h)} IN
  /\ apc = "admit" /\ todo' = ToReenable(snap) /\ Reenabling
  /\ IF Gated(nodes, resume, withServers)
     THEN UNCHANGED <<processing, checking, kfenced, jobs>>
     ELSE \E capped \in RateLimited(fence) :
          \E dumped \in SUBSET {h \in capped : cond[h] = "kdump"} :
            LET hosts == (capped \ WaitingForKdump(capped, dumped)) \cup resume IN
            /\ CheckKdump(capped, dumped)
            /\ processing' = processing \cup hosts
            /\ jobs' = Submit(hosts, dumped \cup resume)
  /\ UNCHANGED <<cond, nova, guest, downs, bounds>>

\* _host_enable with reenable: a host that was dumping is marked complete too.
Unforced(h, x) ==
  IF x.kdump THEN [svc[h] EXCEPT !.forced = FALSE, !.disabled = TRUE, !.reason = "complete", !.kdump = FALSE]
             ELSE [svc[h] EXCEPT !.forced = FALSE]

MigrationsComplete(h) == \A s \in Servers : mig[s] # [src |-> h, st |-> "running"]

\* One host of _process_reenabling: force-down goes once no evacuation is under
\* way and the dump is over; the service is enabled when it was listed as up.
ReenableHost(h) ==
  LET x == snap[h].svc
      ready == MigrationsComplete(h) /\ ~(x.kdump /\ cond[h] = "kdump") IN
  /\ apc = "reenable" /\ h \in todo /\ todo' = todo \ {h} /\ Reenabling
  /\ svc' = [svc EXCEPT ![h] =
               CASE ready /\ x.forced -> Unforced(h, x)
                 [] ready /\ ~x.forced /\ x.disabled /\ ~snap[h].down -> [Enabled EXCEPT !.forced = svc[h].forced]
                 [] OTHER -> @]
  /\ kfenced' = IF ready /\ x.forced /\ x.kdump THEN kfenced \ {h} ELSE kfenced
  /\ UNCHANGED <<cond, loc, mig, guest, downs, processing, checking, jobs, bounds>>

-----------------------------------------------------------------------------
(* process_service, one action per call *)

At(h, pc) == jobs[h].pc = pc
Then(h, pc) == jobs' = [jobs EXCEPT ![h].pc = pc] /\ UNCHANGED processing
JobUnchanged == UNCHANGED <<poller, checking, kfenced, bounds>>

\* track_host_processing removes the entry of the host, whoever made it.
EndJob(h) ==
  /\ jobs' = [jobs EXCEPT ![h] = NoJob]
  /\ processing' = processing \ {h}

PowerOff(h) ==
  /\ cond' = [cond EXCEPT ![h] = "off"]
  /\ guest' = [s \in Servers |-> guest[s] /\ loc[s] # h]

\* Mutant: a fencing that fails does not end the job.
HostFenceUnchecked(h) ==
  /\ At(h, "fence") /\ (PowerOff(h) \/ UNCHANGED <<cond, guest>>) /\ Then(h, "force")
  /\ JobUnchanged /\ UNCHANGED nova

HostFence(h) ==
  /\ At(h, "fence") /\ PowerOff(h) /\ Then(h, "force")
  /\ JobUnchanged /\ UNCHANGED nova

ForceDown(h) ==
  /\ At(h, "force") /\ Then(h, "mark")
  /\ svc' = [svc EXCEPT ![h].forced = TRUE]
  /\ JobUnchanged /\ UNCHANGED <<cond, loc, mig, guest>>

LogReason(h, reason, kdump) ==
  svc' = [svc EXCEPT ![h].disabled = TRUE, ![h].reason = reason, ![h].kdump = kdump]

MarkEvacuation(h) ==
  /\ At(h, "mark") /\ LogReason(h, "evacuation", h \in kfenced) /\ Then(h, "servers")
  /\ JobUnchanged /\ UNCHANGED <<cond, loc, mig, guest>>

\* A server that is being rebuilt is taken up by resumed jobs only.
GetEvacuableServers(h) ==
  LET found == {s \in ServersOn(h) : jobs[h].resume \/ mig[s].st # "running"} IN
  /\ At(h, "servers")
  /\ jobs' = [jobs EXCEPT ![h].pc = IF found = {} THEN "power" ELSE "evacuate",
                          ![h].sv = [s \in found |-> "todo"]]
  /\ UNCHANGED processing
  /\ JobUnchanged /\ UNCHANGED <<cond, nova, guest>>

Server(h, s, st) == jobs' = [jobs EXCEPT ![h].sv[s] = st] /\ UNCHANGED processing

\* A resumed smart evacuation looks at the server's last migration first.
ServerEvacuate(h, s) ==
  /\ At(h, "evacuate") /\ s \in DOMAIN jobs[h].sv /\ jobs[h].sv[s] = "todo"
  /\ LET looks == smart /\ jobs[h].resume IN
     \/ looks /\ mig[s].st = "done" /\ Server(h, s, "ok") /\ UNCHANGED mig
     \/ looks /\ mig[s].st = "running" /\ Server(h, s, "watch") /\ UNCHANGED mig
     \/ /\ ~looks \/ mig[s].st \in {"none", "error"}
        /\ mig' = Evacuated(s)
        /\ Server(h, s, IF ServiceState(loc[s]) = "up" THEN "fail" ELSE IF smart THEN "watch" ELSE "ok")
  /\ JobUnchanged /\ UNCHANGED <<cond, svc, loc, guest>>

\* _monitor_evacuation: a failed migration is requested again, Retries times.
MonitorEvacuation(h, s) ==
  /\ At(h, "evacuate") /\ s \in DOMAIN jobs[h].sv /\ jobs[h].sv[s] = "watch"
  /\ \/ mig[s].st = "done" /\ Server(h, s, "ok") /\ UNCHANGED mig
     \/ mig[s].st = "error" /\ jobs[h].tries[s] + 1 >= Retries /\ Server(h, s, "fail") /\ UNCHANGED mig
     \/ /\ mig[s].st = "error" /\ jobs[h].tries[s] + 1 < Retries
        /\ jobs' = [jobs EXCEPT ![h].tries[s] = @ + 1] /\ UNCHANGED processing
        /\ mig' = Evacuated(s)
  /\ JobUnchanged /\ UNCHANGED <<cond, svc, loc, guest>>

Results(h) == {jobs[h].sv[s] : s \in DOMAIN jobs[h].sv}

\* Only the smart evacuation records its failure.
EvacuationOver(h) ==
  /\ At(h, "evacuate") /\ Results(h) \subseteq {"ok", "fail"}
  /\ IF "fail" \notin Results(h)
     THEN Then(h, "power") /\ UNCHANGED svc
     ELSE EndJob(h) /\ IF smart THEN LogReason(h, "failed", FALSE) ELSE UNCHANGED svc
  /\ JobUnchanged /\ UNCHANGED <<cond, loc, mig, guest>>

\* _post_evacuation_recovery: power on, except after a dump, then the marker;
\* kdump_fenced_hosts is read once.
PowerOn(h) ==
  /\ At(h, "power") /\ Then(h, IF h \in kfenced THEN "dumped" ELSE "complete")
  /\ cond' = IF cond[h] = "off" /\ h \notin kfenced THEN [cond EXCEPT ![h] = "boot"] ELSE cond
  /\ checking' = IF h \in kfenced THEN checking \ {h} ELSE checking
  /\ UNCHANGED <<nova, guest, poller, kfenced, bounds>>

MarkComplete(h) ==
  /\ At(h, "complete") \/ At(h, "dumped")
  /\ LogReason(h, "complete", At(h, "dumped")) /\ EndJob(h)
  /\ JobUnchanged /\ UNCHANGED <<cond, loc, mig, guest>>

-----------------------------------------------------------------------------
(* Faults *)

\* A call fails: the job ends.  A host may be off although fencing reports failure.
JobFails(h) ==
  /\ HAFault /\ EndJob(h)
  /\ \/ ~At(h, "none") /\ ~At(h, "evacuate") /\ UNCHANGED <<cond, guest>>
     \/ At(h, "evacuate") /\ Results(h) \subseteq {"ok", "fail"} /\ "fail" \in Results(h)
        /\ UNCHANGED <<cond, guest>>
     \/ At(h, "fence") /\ PowerOff(h)
  /\ UNCHANGED <<nova, poller, checking, kfenced>>

\* A request is refused, or an evacuation outlasts EVACUATION_TIMEOUT.
ServerFails(h, s) ==
  /\ HAFault
  /\ At(h, "evacuate") /\ s \in DOMAIN jobs[h].sv /\ jobs[h].sv[s] \in {"todo", "watch"}
  /\ Server(h, s, "fail")
  /\ UNCHANGED <<cond, nova, guest, poller, checking, kfenced>>

AgentCrashes ==
  /\ HAFault
  /\ apc' = "start" /\ snap' = NoList /\ todo' = {} /\ downs' = [h \in ComputeHosts |-> 0]
  /\ processing' = {} /\ checking' = {} /\ kfenced' = {}
  /\ jobs' = [h \in ComputeHosts |-> NoJob]
  /\ UNCHANGED <<cond, nova, guest>>

-----------------------------------------------------------------------------
PollStep ==
  \/ ReconcileOrphanedHosts \/ ListServices \/ AdmitStaleServices
  \/ \E h \in ComputeHosts : ReenableHost(h)

JobStep(h) ==
  \/ HostFence(h) \/ ForceDown(h) \/ MarkEvacuation(h) \/ GetEvacuableServers(h)
  \/ \E s \in Servers : ServerEvacuate(h, s) \/ MonitorEvacuation(h, s)
  \/ EvacuationOver(h) \/ PowerOn(h) \/ MarkComplete(h)

WorkerStep == \E h \in ComputeHosts : JobStep(h)

\* What hosts and Nova do by themselves.
CloudStep ==
  \/ \E h \in ComputeHosts : HostBoots(h)
  \/ \E s \in Servers : MigrationEnds(s)

HANext ==
  \/ PollStep \/ WorkerStep \/ CloudStep
  \/ \E h \in ComputeHosts : JobFails(h) \/ \E s \in Servers : ServerFails(h, s)
  \/ AgentCrashes
  \/ \E h \in ComputeHosts : HostFails(h) \/ HostHeals(h)
  \/ \E s \in Servers : GuestStarts(s)

HAFairness ==
  /\ WF_haVars(PollStep)
  /\ WF_haVars(WorkerStep)
  /\ WF_haVars(CloudStep)

HASpec == HAInit /\ [][HANext]_haVars /\ HAFairness

-----------------------------------------------------------------------------
\* A server is never started in two places: with SMART_EVACUATION, whichever
\* way a host came to be admitted (failed, dumping, resumed after a crash, from
\* an outdated list), an evacuation is requested only once its guest has stopped.
NoSplitBrain ==
  [][\A s \in Servers :
       smart /\ mig'[s] # mig[s] /\ mig'[s].st = "running" => ~guest[s]]_haVars

Serving(h) == cond[h] = "up" /\ svc[h] = Enabled

\* Marked, but the poll loop has unset force-down between the two calls of
\* _host_disable: neither resumed nor re-enabled when the job does not finish.
Stranded(h) == svc[h].disabled /\ svc[h].reason = "evacuation" /\ ~svc[h].forced

\* Powered off with a mark in kdump_fenced_hosts that an earlier job left:
\* recovery does not power it on.
LeftOff(h) == cond[h] = "off" /\ (h \in kfenced \/ svc[h].reason = "complete")

\* Hosts that have nothing to evacuate are not looked after.
LeftAlone(h) == ServersOn(h) = {} /\ (cond[h] = "hung" \/ svc[h] = Enabled)

Settled(h) == svc[h].reason = "failed" \/ Stranded(h) \/ LeftOff(h) \/ LeftAlone(h)

\* A host that fails with servers on it is fenced, evacuated, powered on and
\* re-enabled, or marked FAILED, through failed calls and crashes of the agent:
\* again and again all hosts serve or are settled in one of the cases above, or
\* so many are out of service that THRESHOLD holds them back.
HostsReturn ==
  []<>\E out \in SUBSET ComputeHosts :
         /\ \A h \in ComputeHosts : h \in out <=> ~Serving(h)
         /\ TooMany(out) \/ \A h \in out : Settled(h)
=============================================================================
