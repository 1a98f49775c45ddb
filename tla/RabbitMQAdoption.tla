-------------------------- MODULE RabbitMQAdoption --------------------------
(***************************************************************************)
(* The RabbitMq controller takes over a cluster of the old                 *)
(* rabbitmq-cluster-operator (internal/controller/rabbitmq/                *)
(* rabbitmq_controller.go).  The old RabbitmqCluster object owns the       *)
(* cluster's resources and its volume claims.  As long as it is there, a   *)
(* reconcile replaces the owner of each resource by the RabbitMq object,   *)
(* strips the old owner from the claims and only then deletes the old      *)
(* object; Kubernetes' garbage collector deletes whatever has no owner     *)
(* left.  Secrets are filled only when they are created, so a Secret that  *)
(* was collected comes back with another Erlang cookie or password.        *)
(*                                                                         *)
(* One Reconcile is cut at every API write; the upgrade's storage wipe,    *)
(* which may fall into the take-over, deletes and recreates the            *)
(* StatefulSet.  An adopted StatefulSet that is scaled up makes claims     *)
(* from a template that still names the old owner.                         *)
(***************************************************************************)
EXTENDS Naturals, Sequences

CONSTANTS
  Claims,          \* volume claims persistence-<name>-server-<n> of the first replicas
  LateClaims,      \* and of replicas that are added later
  MaxAdoptEvents,  \* bound: deletion of the old object by a user, replicas added
  MaxAdoptFaults   \* bound: failed calls and crashes

\* What Reconcile creates or adopts, in its order.
Resources == <<"rbac", "cookie", "user", "config", "headless", "client", "sts">>
ResourceNames == {Resources[k] : k \in 1 .. Len(Resources)}

VARIABLES
  oldCR,        \* the RabbitmqCluster: "present", "terminating" or "gone"
  oldFin,       \* it has its finalizer
  resource,     \* per resource: owners, and the number of times it was created
  claim,        \* per volume claim: owners, and whether it is there
  staleVCT,     \* the StatefulSet's claim template names the old owner
  adoptStatus,  \* status of the RabbitMq: OldCRCleaned, VCTCleaned
  wipeDue,      \* the upgrade phase is DeletingResources
  adoptRec,     \* the reconcile in progress: step, isMigration, status in memory
  adoptEvents, adoptFaults

adoptVars ==
  <<oldCR, oldFin, resource, claim, staleVCT, adoptStatus, wipeDue, adoptRec, adoptEvents,
    adoptFaults>>

AllClaims == Claims \cup LateClaims

AdoptIdle == [pc |-> "idle", migrate |-> FALSE, status |-> [oldCleaned |-> FALSE, vctCleaned |-> FALSE]]

\* Left by the old operator, or a fresh deployment.
AdoptInit ==
  \E adopted \in BOOLEAN, wipe \in BOOLEAN :
    /\ oldCR = IF adopted THEN "present" ELSE "gone"
    /\ oldFin = adopted
    /\ resource = [r \in ResourceNames |->
                     IF adopted THEN [owners |-> {"old"}, made |-> 1] ELSE [owners |-> {}, made |-> 0]]
    /\ claim = [c \in AllClaims |-> [owners |-> IF adopted /\ c \in Claims THEN {"old"} ELSE {},
                                     there |-> c \in Claims]]
    /\ staleVCT = adopted
    /\ adoptStatus = AdoptIdle.status
    /\ wipeDue = (adopted /\ wipe)
    /\ adoptRec = AdoptIdle
    /\ adoptEvents = 0 /\ adoptFaults = 0

Exists(r) == resource[r].owners # {}

-----------------------------------------------------------------------------
(* A user, and the garbage collector.                                      *)

\* The finalizer keeps the object, as the old operator no longer runs.
DeleteOldCR ==
  /\ adoptEvents < MaxAdoptEvents /\ adoptEvents' = adoptEvents + 1
  /\ oldCR = "present" /\ oldFin
  /\ oldCR' = "terminating"
  /\ UNCHANGED <<oldFin, resource, claim, staleVCT, adoptStatus, wipeDue, adoptRec, adoptFaults>>

\* The StatefulSet controller makes the claim of a new replica.
AddReplica(c) ==
  /\ adoptEvents < MaxAdoptEvents /\ adoptEvents' = adoptEvents + 1
  /\ ~claim[c].there /\ Exists("sts")
  /\ claim' = [claim EXCEPT ![c] = [owners |-> IF staleVCT THEN {"old"} ELSE {}, there |-> TRUE]]
  /\ UNCHANGED <<oldCR, oldFin, resource, staleVCT, adoptStatus, wipeDue, adoptRec, adoptFaults>>

Orphan(owners) == owners = {"old"} /\ oldCR = "gone"

\* Everything whose only owner is gone goes too.
CollectGarbage ==
  /\ \/ \E r \in ResourceNames : Orphan(resource[r].owners)
     \/ \E c \in AllClaims : Orphan(claim[c].owners)
  /\ resource' = [r \in ResourceNames |->
                    IF Orphan(resource[r].owners) THEN [resource[r] EXCEPT !.owners = {}] ELSE resource[r]]
  /\ claim' = [c \in AllClaims |->
                 IF Orphan(claim[c].owners) THEN [owners |-> {}, there |-> FALSE] ELSE claim[c]]
  /\ UNCHANGED <<oldCR, oldFin, staleVCT, adoptStatus, wipeDue, adoptRec, adoptEvents, adoptFaults>>

-----------------------------------------------------------------------------
(* Reconcile.                                                              *)

GoTo(pc) == adoptRec' = [adoptRec EXCEPT !.pc = pc]

\* Whether this is a migration is found out by every reconcile, until the status
\* says that the old object is gone.  With nothing left to do it changes nothing.
DetectMigration ==
  /\ adoptRec.pc = "idle"
  /\ ~(adoptStatus.oldCleaned /\ \A r \in ResourceNames : Exists(r))
  /\ LET migrate == ~adoptStatus.oldCleaned /\ oldCR # "gone"
     IN  adoptRec' = [pc |-> "rbac", migrate |-> migrate,
                      status |-> [adoptStatus EXCEPT !.oldCleaned = ~migrate]]
  /\ UNCHANGED <<oldCR, oldFin, resource, claim, staleVCT, adoptStatus, wipeDue, adoptEvents, adoptFaults>>

Create(r) == [resource EXCEPT ![r] = [owners |-> {"new"}, made |-> @.made + 1]]

\* setOwnership: adoptResource drops a foreign controller during a migration;
\* otherwise SetControllerReference refuses it.
SetOwnership(r) == [resource EXCEPT ![r].owners = {"new"}]
MayOwn(r) == adoptRec.migrate \/ "old" \notin resource[r].owners

\* RBAC objects of the old operator are deleted, and created again.
EnsureRbac ==
  /\ adoptRec.pc = "rbac"
  /\ MayOwn("rbac")
  /\ resource' = IF resource["rbac"].owners = {"new"} THEN resource ELSE Create("rbac")
  /\ GoTo("cookie")
  /\ UNCHANGED <<oldCR, oldFin, claim, staleVCT, adoptStatus, wipeDue, adoptEvents, adoptFaults>>

\* CreateOrPatch of one of the other resources: content only when created.
EnsureResource(k) ==
  /\ k \in 2 .. Len(Resources) - 1
  /\ adoptRec.pc = Resources[k]
  /\ MayOwn(Resources[k])
  /\ resource' = IF Exists(Resources[k]) THEN SetOwnership(Resources[k]) ELSE Create(Resources[k])
  /\ GoTo(IF Resources[k + 1] # "sts" THEN Resources[k + 1]
          ELSE IF wipeDue THEN "wipe"
          ELSE IF adoptRec.migrate /\ ~adoptRec.status.vctCleaned THEN "fixVCT" ELSE "sts")
  /\ UNCHANGED <<oldCR, oldFin, claim, staleVCT, adoptStatus, wipeDue, adoptEvents, adoptFaults>>

\* The storage wipe deletes the StatefulSet, stores the status and returns.
WipeStatefulSet ==
  /\ adoptRec.pc = "wipe"
  /\ resource' = [resource EXCEPT !["sts"].owners = {}]
  /\ wipeDue' = FALSE
  /\ adoptStatus' = adoptRec.status
  /\ adoptRec' = AdoptIdle
  /\ UNCHANGED <<oldCR, oldFin, claim, staleVCT, adoptEvents, adoptFaults>>

\* fixStaleVCTOwnerRefs: a StatefulSet of the old operator has claims with its
\* owner; they are cleaned as far as that succeeds, errors are only logged.
FixStaleVCTOwnerRefs ==
  /\ adoptRec.pc = "fixVCT"
  /\ \E cleaned \in SUBSET AllClaims :
       /\ cleaned # AllClaims => adoptFaults < MaxAdoptFaults
       /\ adoptFaults' = IF cleaned = AllClaims THEN adoptFaults ELSE adoptFaults + 1
       /\ claim' = [c \in AllClaims |-> IF c \in cleaned /\ Exists("sts") /\ staleVCT
                                     THEN [claim[c] EXCEPT !.owners = @ \ {"old"}] ELSE claim[c]]
  /\ adoptRec' = [adoptRec EXCEPT !.pc = "sts", !.status.vctCleaned = TRUE]
  /\ UNCHANGED <<oldCR, oldFin, resource, staleVCT, adoptStatus, wipeDue, adoptEvents>>

EnsureStatefulSet ==
  /\ adoptRec.pc = "sts"
  /\ MayOwn("sts")
  /\ resource' = IF Exists("sts") THEN SetOwnership("sts") ELSE Create("sts")
  /\ staleVCT' = (staleVCT /\ Exists("sts"))
  /\ GoTo(IF adoptRec.migrate THEN "strip" ELSE "patch")
  /\ UNCHANGED <<oldCR, oldFin, claim, adoptStatus, wipeDue, adoptEvents, adoptFaults>>

\* The bug of going on when a claim cannot be updated.
StripClaimsBestEffort ==
  /\ adoptRec.pc = "strip"
  /\ \E c \in AllClaims :
       /\ adoptFaults < MaxAdoptFaults
       /\ claim' = [d \in AllClaims |-> IF d # c THEN [claim[d] EXCEPT !.owners = @ \ {"old"}] ELSE claim[d]]
  /\ adoptFaults' = adoptFaults + 1
  /\ GoTo("unfinalize")
  /\ UNCHANGED <<oldCR, oldFin, resource, staleVCT, adoptStatus, wipeDue, adoptEvents>>

\* cleanupOldRabbitmqClusterCR: every claim loses the old owner, or the function
\* returns the error.
StripClaims ==
  /\ adoptRec.pc = "strip"
  /\ claim' = [c \in AllClaims |-> [claim[c] EXCEPT !.owners = @ \ {"old"}]]
  /\ GoTo("unfinalize")
  /\ UNCHANGED <<oldCR, oldFin, resource, staleVCT, adoptStatus, wipeDue, adoptEvents, adoptFaults>>

\* An object that was being deleted goes with its finalizer.
RemoveOldFinalizers ==
  /\ adoptRec.pc = "unfinalize"
  /\ oldFin' = FALSE
  /\ oldCR' = IF oldCR = "terminating" THEN "gone" ELSE oldCR
  /\ GoTo("delete")
  /\ UNCHANGED <<resource, claim, staleVCT, adoptStatus, wipeDue, adoptEvents, adoptFaults>>

DeleteOld ==
  /\ adoptRec.pc = "delete"
  /\ oldCR' = "gone"
  /\ adoptRec' = [adoptRec EXCEPT !.pc = "patch", !.status.oldCleaned = TRUE]
  /\ UNCHANGED <<oldFin, resource, claim, staleVCT, adoptStatus, wipeDue, adoptEvents, adoptFaults>>

PatchAdoptStatus ==
  /\ adoptRec.pc = "patch"
  /\ adoptStatus' = adoptRec.status
  /\ adoptRec' = AdoptIdle
  /\ UNCHANGED <<oldCR, oldFin, resource, claim, staleVCT, wipeDue, adoptEvents, adoptFaults>>

\* An error: the deferred patch stores the status reached so far.  Claims may
\* have been stripped up to the one that failed.
AdoptError ==
  /\ adoptRec.pc \notin {"idle", "patch"}
  /\ adoptFaults < MaxAdoptFaults /\ adoptFaults' = adoptFaults + 1
  /\ \E some \in SUBSET AllClaims :
       /\ some # {} => adoptRec.pc = "strip"
       /\ claim' = [c \in AllClaims |-> IF c \in some THEN [claim[c] EXCEPT !.owners = @ \ {"old"}] ELSE claim[c]]
  /\ adoptStatus' = adoptRec.status
  /\ adoptRec' = AdoptIdle
  /\ UNCHANGED <<oldCR, oldFin, resource, staleVCT, wipeDue, adoptEvents>>

AdoptCrash ==
  /\ adoptRec.pc # "idle"
  /\ adoptFaults < MaxAdoptFaults /\ adoptFaults' = adoptFaults + 1
  /\ adoptRec' = AdoptIdle
  /\ UNCHANGED <<oldCR, oldFin, resource, claim, staleVCT, adoptStatus, wipeDue, adoptEvents>>

AdoptStep ==
  \/ DetectMigration \/ EnsureRbac \/ (\E k \in 1 .. Len(Resources) : EnsureResource(k))
  \/ WipeStatefulSet \/ FixStaleVCTOwnerRefs \/ EnsureStatefulSet
  \/ StripClaims \/ RemoveOldFinalizers \/ DeleteOld \/ PatchAdoptStatus

AdoptNext ==
  \/ AdoptStep
  \/ AdoptError \/ AdoptCrash
  \/ DeleteOldCR
  \/ \E c \in LateClaims : AddReplica(c)
  \/ CollectGarbage

AdoptSpec == AdoptInit /\ [][AdoptNext]_adoptVars

-----------------------------------------------------------------------------
(* Properties.                                                             *)

\* The take-over keeps what the brokers cannot lose: their volume claims, the
\* Erlang cookie and the default user's password are the old ones throughout,
\* and nothing the garbage collector would delete is still in use when the old
\* object goes.  It needs cleanupOldRabbitmqClusterCR to come after every
\* adoption and to fail when a claim cannot be stripped, although
\* fixStaleVCTOwnerRefs has done the same on a best-effort basis.  Claims of
\* replicas added to an adopted StatefulSet are not covered: once the old object
\* is gone they are born orphans.
AdoptionKeepsData ==
  /\ \A c \in Claims : claim[c].there /\ ~Orphan(claim[c].owners)
  /\ \A r \in {"cookie", "user"} : resource[r].made <= 1 /\ ~Orphan(resource[r].owners)
=============================================================================
