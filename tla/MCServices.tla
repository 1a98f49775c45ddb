----------------------------- MODULE MCServices -----------------------------
(***************************************************************************)
(* Small instances of the controllers of the managed services: the         *)
(* reconcilers of Memcached, Redis, DNSMasq and InstanceHa, the rotation   *)
(* of InstanceHa's heartbeat key, the InstanceHA agent, RabbitMQ policies, *)
(* the take-over of a RabbitMQ cluster and the rendering of its pods.      *)
(* They share no state, so one behaviour runs one of them: `part' says     *)
(* which, and the others rest in an initial state.                         *)
(***************************************************************************)
EXTENDS Services, HeartbeatKeys, InstanceHA, RabbitMQPolicies, RabbitMQAdoption, RabbitMQPod

CONSTANTS h1, h2   \* compute hosts; the servers begin on the first

VARIABLE part

\* Two hosts that fail, or one host and two failures of the agent.
MCHABudgets == {[events |-> 2, faults |-> 0], [events |-> 1, faults |-> 2]}
RestBudget == [events |-> 1, faults |-> 2]

partVars == <<svcVars, hbVars, haVars, polVars, adoptVars, podVars, part>>

MSInit ==
  /\ part \in {"services", "keys", "agent", "policy", "adoption", "pod"}
  /\ HBInit /\ HAInit /\ PolInit /\ AdoptInit /\ PodInit
  /\ IF part = "services" THEN SvcInit ELSE svcKind = "redis" /\ SvcStart(NoCR)
  /\ part # "policy" => ~pol.ref
  /\ part # "adoption" => oldCR = "gone"
  /\ loc = [s \in Servers |-> h1]
  /\ part # "agent" => smart /\ haBudget = RestBudget

MSNext ==
  /\ UNCHANGED part
  /\ \/ part = "services" /\ SvcNext /\ UNCHANGED <<hbVars, haVars, polVars, adoptVars, podVars>>
     \/ part = "keys" /\ HBNext /\ UNCHANGED <<svcVars, haVars, polVars, adoptVars, podVars>>
     \/ part = "agent" /\ HANext /\ UNCHANGED <<svcVars, hbVars, polVars, adoptVars, podVars>>
     \/ part = "policy" /\ PolNext /\ UNCHANGED <<svcVars, hbVars, haVars, adoptVars, podVars>>
     \/ part = "adoption" /\ AdoptNext /\ UNCHANGED <<svcVars, hbVars, haVars, polVars, podVars>>
     \/ part = "pod" /\ RenderPod /\ UNCHANGED <<svcVars, hbVars, haVars, polVars, adoptVars>>

\* The fairness of each part, for the behaviours that run it.
MSFairness ==
  /\ WF_svcVars(part = "services" /\ SvcStep)
  /\ WF_hbVars(part = "keys" /\ HBStep)
  /\ \A n \in NodeSets : WF_hbVars(part = "keys" /\ DeployKey(n))
  /\ WF_haVars(part = "agent" /\ PollStep)
  /\ WF_haVars(part = "agent" /\ WorkerStep)
  /\ WF_haVars(part = "agent" /\ CloudStep)
  /\ WF_polVars(part = "policy" /\ PolStep)
  /\ WF_polVars(part = "policy" /\ ClusterProgress)
  /\ WF_polVars(part = "policy" /\ RestoreVhost)

MSSpec == MSInit /\ [][MSNext]_partVars /\ MSFairness
=============================================================================
