-------------------------- MODULE RabbitMQPolicies --------------------------
(***************************************************************************)
(* A RabbitMQPolicy object and the controller that carries it into the     *)
(* broker (internal/controller/rabbitmq/rabbitmqpolicy_controller.go).     *)
(*                                                                         *)
(* The policy is meant for the default vhost "/" or for the vhost of a     *)
(* RabbitMQVhost object.  The controller writes it through the management  *)
(* API and only then notes in the status where it put it; the deletion     *)
(* reads the place from the status, or works it out again.  Cluster and    *)
(* policy name are immutable; a change of vhostRef leaves the policy in    *)
(* the old vhost and is not modelled.  The content of the policy is the    *)
(* generation of the object it was taken from.                             *)
(***************************************************************************)
EXTENDS Naturals

CONSTANTS
  MaxPolEvents,   \* bound: edits, deletions, restarts of the cluster
  MaxPolFaults    \* bound: failed calls and crashes

Places == {"/", "vhost"}

VARIABLES
  pol,          \* the RabbitMQPolicy: state, finalizer, generation, vhostRef, status.vhost
  vhostCR,      \* the RabbitMQVhost object exists
  brokerVhost,  \* the broker has its vhost
  brokerPol,    \* per vhost of the broker, the generation of the policy; 0 is none
  polCluster,   \* the RabbitMq object: "starting", "ready", "deleting" or "gone"
  polRec,       \* the reconcile in progress: step, object read, vhost of the call
  polQueue,     \* a reconcile request is queued
  polLost,      \* a deletion failed to look the vhost up
  polEvents, polFaults

polVars == <<pol, vhostCR, brokerVhost, brokerPol, polCluster, polRec, polQueue, polLost,
             polEvents, polFaults>>

PolIdle == [pc |-> "idle", gen |-> 0, vhost |-> "/", status |-> ""]

PolInit ==
  /\ \E ref \in BOOLEAN :
       pol = [st |-> "live", fin |-> FALSE, gen |-> 1, ref |-> ref, status |-> ""]
  /\ vhostCR = TRUE /\ brokerVhost = TRUE
  /\ brokerPol = [p \in Places |-> 0]
  /\ polCluster = "starting"
  /\ polRec = PolIdle /\ polQueue = TRUE /\ polLost = FALSE
  /\ polEvents = 0 /\ polFaults = 0

-----------------------------------------------------------------------------
(* Users, the vhost controller and the cluster.                            *)

PolEvent ==
  /\ polEvents < MaxPolEvents
  /\ polEvents' = polEvents + 1
  /\ UNCHANGED <<polRec, polLost, polFaults>>

\* ValidateUpdate admits changes of pattern, definition and priority.
EditPolicy ==
  /\ PolEvent
  /\ pol.st = "live"
  /\ pol' = [pol EXCEPT !.gen = @ + 1]
  /\ polQueue' = TRUE
  /\ UNCHANGED <<vhostCR, brokerVhost, brokerPol, polCluster>>

\* An object without finalizer goes at once.
DeletePolicyCR ==
  /\ PolEvent
  /\ pol.st = "live"
  /\ pol' = [pol EXCEPT !.st = IF pol.fin THEN "deleting" ELSE "absent"]
  /\ polQueue' = TRUE
  /\ UNCHANGED <<vhostCR, brokerVhost, brokerPol, polCluster>>

\* The vhost controller removes the vhost and everything in it; the policy
\* controller does not watch the RabbitMQVhost.
DropVhost ==
  /\ PolEvent
  /\ vhostCR /\ polCluster = "ready"
  /\ vhostCR' = FALSE /\ brokerVhost' = FALSE
  /\ brokerPol' = [brokerPol EXCEPT !["vhost"] = 0]
  /\ UNCHANGED <<pol, polCluster, polQueue>>

\* A storage wipe empties the broker; the status of the RabbitMq changes.
WipeBroker ==
  /\ PolEvent
  /\ polCluster = "ready"
  /\ polCluster' = "starting"
  /\ brokerPol' = [p \in Places |-> 0]
  /\ brokerVhost' = FALSE
  /\ polQueue' = TRUE
  /\ UNCHANGED <<pol, vhostCR>>

DeleteCluster ==
  /\ PolEvent
  /\ polCluster \in {"starting", "ready"}
  /\ polCluster' = "deleting"
  /\ polQueue' = TRUE
  /\ UNCHANGED <<pol, vhostCR, brokerVhost, brokerPol>>

\* The cluster comes up, or goes: an event of a watched object either way.
ClusterProgress ==
  /\ \/ polCluster = "starting" /\ polCluster' = "ready" /\ UNCHANGED <<brokerPol, brokerVhost>>
     \/ /\ polCluster = "deleting" /\ polCluster' = "gone"
        /\ brokerPol' = [p \in Places |-> 0] /\ brokerVhost' = FALSE
  /\ polQueue' = TRUE
  /\ UNCHANGED <<pol, vhostCR, polRec, polLost, polEvents, polFaults>>

RestoreVhost ==
  /\ vhostCR /\ ~brokerVhost /\ polCluster = "ready"
  /\ brokerVhost' = TRUE
  /\ UNCHANGED <<pol, vhostCR, brokerPol, polCluster, polRec, polQueue, polLost, polEvents, polFaults>>

-----------------------------------------------------------------------------
(* The controller.                                                         *)

PolReturn(requeue) ==
  /\ polRec' = PolIdle
  /\ polQueue' = (polQueue \/ requeue)

\* Where reconcileNormal puts the policy.
Target == IF pol.ref THEN "vhost" ELSE "/"

\* The deferred patch with the new finalizer is an event of the object.
AddPolicyFinalizer ==
  /\ polRec.pc = "idle" /\ polQueue
  /\ pol.st = "live" /\ ~pol.fin
  /\ pol' = [pol EXCEPT !.fin = TRUE]
  /\ UNCHANGED <<vhostCR, brokerVhost, brokerPol, polCluster, polRec, polQueue, polLost,
                 polEvents, polFaults>>

\* reconcileNormal up to the call: the vhost's object must exist and the
\* cluster be ready, else the request is retried or comes back in 10 seconds.
BeginNormal ==
  /\ polRec.pc = "idle" /\ polQueue
  /\ pol.st = "live" /\ pol.fin
  /\ pol.ref => vhostCR
  /\ polCluster = "ready"
  /\ polQueue' = FALSE
  /\ polRec' = [pc |-> "put", gen |-> pol.gen, vhost |-> Target, status |-> pol.status]
  /\ UNCHANGED <<pol, vhostCR, brokerVhost, brokerPol, polCluster, polLost, polEvents, polFaults>>

BrokerAnswers(v) == polCluster \in {"ready", "deleting"} /\ (v = "vhost" => brokerVhost)

\* The bug of dropping the error of the call.
CreateOrUpdatePolicyIgnoringErrors ==
  /\ polRec.pc = "put"
  /\ IF BrokerAnswers(polRec.vhost)
     THEN brokerPol' = [brokerPol EXCEPT ![polRec.vhost] = polRec.gen]
     ELSE UNCHANGED brokerPol
  /\ polRec' = [polRec EXCEPT !.pc = "patch", !.status = polRec.vhost]
  /\ UNCHANGED <<pol, vhostCR, brokerVhost, polCluster, polQueue, polLost, polEvents, polFaults>>

CreateOrUpdatePolicy ==
  /\ polRec.pc = "put"
  /\ IF BrokerAnswers(polRec.vhost)
     THEN /\ brokerPol' = [brokerPol EXCEPT ![polRec.vhost] = polRec.gen]
          /\ polRec' = [polRec EXCEPT !.pc = "patch", !.status = polRec.vhost]
          /\ UNCHANGED polQueue
     ELSE UNCHANGED brokerPol /\ PolReturn(TRUE)
  /\ UNCHANGED <<pol, vhostCR, brokerVhost, polCluster, polLost, polEvents, polFaults>>

\* The deferred patch; a changed status is an event of the object.
PatchPolicyStatus ==
  /\ polRec.pc = "patch"
  /\ pol' = [pol EXCEPT !.status = polRec.status]
  /\ PolReturn(pol.status # polRec.status)
  /\ UNCHANGED <<vhostCR, brokerVhost, brokerPol, polCluster, polLost, polEvents, polFaults>>

\* reconcileDelete: the status, else the vhostRef while its object exists.
WhereApplied ==
  CASE pol.status # ""      -> pol.status
    [] pol.ref /\ vhostCR   -> "vhost"
    [] OTHER                -> "/"

\* A cluster that is gone, or going, needs no clean-up.
BeginDelete ==
  /\ polRec.pc = "idle" /\ polQueue
  /\ pol.st = "deleting"
  /\ polCluster # "starting"
  /\ polQueue' = FALSE
  /\ polRec' = [polRec EXCEPT !.pc = IF polCluster = "ready" THEN "delete" ELSE "release",
                              !.vhost = WhereApplied]
  /\ UNCHANGED <<pol, vhostCR, brokerVhost, brokerPol, polCluster, polLost, polEvents, polFaults>>

\* A lookup of the vhost that fails is logged, and the default vhost is taken.
BeginDeleteBlind ==
  /\ polRec.pc = "idle" /\ polQueue
  /\ pol.st = "deleting" /\ pol.status = "" /\ pol.ref
  /\ polCluster = "ready"
  /\ polFaults < MaxPolFaults /\ polFaults' = polFaults + 1
  /\ polQueue' = FALSE
  /\ polRec' = [polRec EXCEPT !.pc = "delete", !.vhost = "/"]
  /\ polLost' = TRUE
  /\ UNCHANGED <<pol, vhostCR, brokerVhost, brokerPol, polCluster, polEvents>>

\* DeletePolicy: what the broker does not have counts as deleted.
DeletePolicy ==
  /\ polRec.pc = "delete"
  /\ IF polCluster \in {"ready", "deleting"}
     THEN /\ brokerPol' = [brokerPol EXCEPT ![polRec.vhost] = 0]
          /\ polRec' = [polRec EXCEPT !.pc = "release"]
          /\ UNCHANGED polQueue
     ELSE UNCHANGED brokerPol /\ PolReturn(TRUE)
  /\ UNCHANGED <<pol, vhostCR, brokerVhost, polCluster, polLost, polEvents, polFaults>>

ReleasePolicy ==
  /\ polRec.pc = "release"
  /\ pol' = [pol EXCEPT !.st = "absent", !.fin = FALSE]
  /\ PolReturn(FALSE)
  /\ UNCHANGED <<vhostCR, brokerVhost, brokerPol, polCluster, polLost, polEvents, polFaults>>

\* A failed call, a failed patch or a crash: the reconcile starts again.
PolAbort ==
  /\ polRec.pc # "idle"
  /\ polFaults < MaxPolFaults /\ polFaults' = polFaults + 1
  /\ PolReturn(TRUE)
  /\ UNCHANGED <<pol, vhostCR, brokerVhost, brokerPol, polCluster, polLost, polEvents>>

PolStep ==
  \/ AddPolicyFinalizer \/ BeginNormal \/ CreateOrUpdatePolicy \/ PatchPolicyStatus
  \/ BeginDelete \/ DeletePolicy \/ ReleasePolicy

PolNext ==
  \/ PolStep
  \/ BeginDeleteBlind \/ PolAbort
  \/ EditPolicy \/ DeletePolicyCR \/ DropVhost \/ WipeBroker \/ DeleteCluster
  \/ ClusterProgress \/ RestoreVhost

\* The work queue runs the controller; a cluster that starts comes up, one that
\* is deleted goes, and the vhost controller restores its vhost.
PolFairness ==
  /\ WF_polVars(PolStep)
  /\ WF_polVars(ClusterProgress)
  /\ WF_polVars(RestoreVhost)

PolSpec == PolInit /\ [][PolNext]_polVars /\ PolFairness

-----------------------------------------------------------------------------
(* Properties.                                                             *)

\* What a broker should hold, given the object.
WantedPolicies ==
  [p \in Places |-> IF pol.st = "live" /\ p = Target /\ (pol.ref => vhostCR) THEN pol.gen ELSE 0]

\* A broker that stays up ends with the latest content of a live policy, and with
\* nothing of a deleted one: through edits and deletions during a reconcile, lost
\* status writes (status.vhost is written after the call that put the policy there)
\* and storage wipes, of which only the watch of the RabbitMq tells the controller.
\* The exception is a deletion that neither had the status nor could look the vhost
\* up: reconcileDelete logs that error and takes the default vhost.
PolicyFollowsObject ==
  <>[](polCluster = "ready" /\ ~polLost => brokerPol = WantedPolicies)
=============================================================================
