--------------------------- MODULE HeartbeatKeys ---------------------------
(***************************************************************************)
(* The rotation of the heartbeat HMAC key by the InstanceHA controller     *)
(* (internal/controller/instanceha/instanceha_controller.go).              *)
(*                                                                         *)
(* The Secret holds the current key and, during a rotation, the previous   *)
(* one; the agent accepts heartbeats signed with either.  A user asks for  *)
(* a rotation with an annotation on the InstanceHa, the controller rotates *)
(* the Secret, stamps the annotation with the Secret's resource version    *)
(* and removes it.  The dataplane operator (external) deploys the key node *)
(* set by node set; once every node set has the Secret the controller      *)
(* clears the previous key.                                                *)
(*                                                                         *)
(* Keys are numbered in the order they are generated; 0 is "no key".  A    *)
(* hash of the Secret is its content.                                      *)
(***************************************************************************)
EXTENDS Naturals

CONSTANTS
  NodeSets,        \* the OpenStackDataPlaneNodeSets of the namespace
  MaxRotations,    \* bound: rotations a user asks for
  MaxHBFaults      \* bound: reconciles cut short by a crash or failed writes

VARIABLES
  hmac,        \* the Secret: key, previous key, resource version; key 0: no Secret
  rotateAnn,   \* the annotation: is it set, and the resource version it was
               \* stamped with; 0 is "true", a request
  rotSynced,   \* Status.HMACKeyRotationSynced: "Idle" or "WaitingForDeployment"
  deployedKey, \* per node set, the Secret's content of its last deployment
  hbRec,       \* the reconcile in progress: its step and the status it will write
  hbQueue,     \* a reconcile request is queued
  rotations,   \* rotations asked for so far
  hbFaults     \* faults so far

hbVars == <<hmac, rotateAnn, rotSynced, deployedKey, hbRec, hbQueue, rotations, hbFaults>>

NotDeployed == [key |-> 0, prev |-> 0]

NoAnnotation == [set |-> FALSE, stamp |-> 0]

HBIdle == [pc |-> "idle", sync |-> "Idle"]

Content == [key |-> hmac.key, prev |-> hmac.prev]

HBInit ==
  /\ hmac = [key |-> 0, prev |-> 0, rv |-> 0]
  /\ rotateAnn = NoAnnotation
  /\ rotSynced = "Idle"
  /\ deployedKey = [n \in NodeSets |-> NotDeployed]
  /\ hbRec = HBIdle
  /\ hbQueue = TRUE
  /\ rotations = 0
  /\ hbFaults = 0

-----------------------------------------------------------------------------
(* The user and the dataplane operator.                                    *)

\* kubectl annotate: any change of the InstanceHa wakes the controller.
RequestRotation ==
  /\ rotations < MaxRotations
  /\ rotations' = rotations + 1
  /\ rotateAnn' = [set |-> TRUE, stamp |-> 0]
  /\ hbQueue' = TRUE
  /\ UNCHANGED <<hmac, rotSynced, deployedKey, hbRec, hbFaults>>

\* findInstanceHaWithPendingRotation: an event of a node set wakes only the
\* InstanceHas whose status says that they wait for the deployment.
NodeSetEvent == hbQueue' = (hbQueue \/ rotSynced # "Idle")

\* A deployment copies the Secret to the nodes of n and records its hash.
DeployKey(n) ==
  /\ hmac.key # 0
  /\ deployedKey[n] # Content
  /\ deployedKey' = [deployedKey EXCEPT ![n] = Content]
  /\ NodeSetEvent
  /\ UNCHANGED <<hmac, rotateAnn, rotSynced, hbRec, rotations, hbFaults>>

\* edpm.IsSecretHashInSync: every node set was deployed with the Secret.
IsSecretHashInSync == \A n \in NodeSets : deployedKey[n] = Content

-----------------------------------------------------------------------------
(* The controller.                                                         *)

Resume(pc) == hbRec' = [hbRec EXCEPT !.pc = pc]

\* The Secret is created with a first key when there is none, and the
\* annotation decides what follows: no value, the stamp of a rotation that was
\* done, or a request.
EnsureSecret ==
  /\ hbRec.pc = "idle" /\ hbQueue
  /\ hbQueue' = (hmac.key = 0)
  /\ hmac' = IF hmac.key = 0 THEN [key |-> 1, prev |-> 0, rv |-> 1] ELSE hmac
  /\ Resume(CASE ~rotateAnn.set             -> "nullify"
              [] rotateAnn.stamp = hmac'.rv -> "unannotate"
              [] OTHER                      -> "rotate")
  /\ UNCHANGED <<rotateAnn, rotSynced, deployedKey, rotations, hbFaults>>

\* The current key becomes the previous one.  The Secret is owned, so its
\* update queues a reconcile.
RotateKey ==
  /\ hbRec.pc = "rotate"
  /\ hmac' = [key |-> hmac.key + 1, prev |-> hmac.key, rv |-> hmac.rv + 1]
  /\ hbQueue' = TRUE
  /\ Resume("stamp")
  /\ UNCHANGED <<rotateAnn, rotSynced, deployedKey, rotations, hbFaults>>

\* A stamp or a removal that fails once is repeated by the deferred
\* PatchInstance, which writes the same value; the write is lost only when
\* both fail or the operator stops, see HBAbort.
StampRotation ==
  /\ hbRec.pc = "stamp"
  /\ rotateAnn' = [set |-> TRUE, stamp |-> hmac.rv]
  /\ hbQueue' = TRUE
  /\ Resume("unannotate")
  /\ UNCHANGED <<hmac, rotSynced, deployedKey, rotations, hbFaults>>

RemoveAnnotation ==
  /\ hbRec.pc = "unannotate"
  /\ rotateAnn' = NoAnnotation
  /\ hbQueue' = TRUE
  /\ Resume("patchMeta")
  /\ UNCHANGED <<hmac, rotSynced, deployedKey, rotations, hbFaults>>

\* The deferred PatchInstance compares with the object read at the start,
\* which had the annotation: it removes it again, with the request a user made
\* since.
PatchMeta ==
  /\ hbRec.pc = "patchMeta"
  /\ rotateAnn' = NoAnnotation
  /\ hbQueue' = TRUE
  /\ Resume("idle")
  /\ UNCHANGED <<hmac, rotSynced, deployedKey, rotations, hbFaults>>

\* The bug of trusting the nodes to be up to date.
NullifyAtOnce ==
  /\ hbRec.pc = "nullify"
  /\ hmac' = [hmac EXCEPT !.prev = 0, !.rv = IF hmac.prev = 0 THEN @ ELSE @ + 1]
  /\ hbRec' = [pc |-> "patch", sync |-> "Idle"]
  /\ hbQueue' = (hbQueue \/ hmac.prev # 0)
  /\ UNCHANGED <<rotateAnn, rotSynced, deployedKey, rotations, hbFaults>>

\* The previous key is cleared once the node sets are in sync; until then the
\* status will say that the rotation waits for them.
TryNullifyPreviousKey ==
  /\ hbRec.pc = "nullify"
  /\ LET clear == hmac.prev # 0 /\ IsSecretHashInSync
     IN  /\ hmac' = IF clear THEN [hmac EXCEPT !.prev = 0, !.rv = @ + 1] ELSE hmac
         /\ hbRec' = [pc |-> "patch",
                      sync |-> IF hmac.prev # 0 /\ ~clear THEN "WaitingForDeployment"
                                                          ELSE "Idle"]
         /\ hbQueue' = (hbQueue \/ clear)
  /\ UNCHANGED <<rotateAnn, rotSynced, deployedKey, rotations, hbFaults>>

\* The bug of watching the InstanceHa with a generation predicate.
PatchSyncedSilently ==
  /\ hbRec.pc = "patch"
  /\ rotSynced' = hbRec.sync
  /\ hbRec' = HBIdle
  /\ UNCHANGED <<hmac, rotateAnn, deployedKey, hbQueue, rotations, hbFaults>>

\* The deferred PatchInstance at the end; a changed status is an event of the
\* InstanceHa, which is watched without a predicate.
PatchSynced ==
  /\ hbRec.pc = "patch"
  /\ rotSynced' = hbRec.sync
  /\ hbQueue' = (hbQueue \/ rotSynced # hbRec.sync)
  /\ hbRec' = HBIdle
  /\ UNCHANGED <<hmac, rotateAnn, deployedKey, rotations, hbFaults>>

\* A crash of the operator, or a write that fails together with the deferred
\* patch: what is not yet written is lost, and the reconcile starts again.
HBAbort ==
  /\ hbRec.pc # "idle"
  /\ hbFaults < MaxHBFaults
  /\ hbFaults' = hbFaults + 1
  /\ hbRec' = HBIdle
  /\ hbQueue' = TRUE
  /\ UNCHANGED <<hmac, rotateAnn, rotSynced, deployedKey, rotations>>

HBStep ==
  \/ EnsureSecret \/ RotateKey \/ StampRotation \/ RemoveAnnotation \/ PatchMeta
  \/ TryNullifyPreviousKey \/ PatchSynced

HBNext ==
  \/ HBStep
  \/ HBAbort
  \/ RequestRotation
  \/ \E n \in NodeSets : DeployKey(n)

\* The work queue runs the controller; the administrator redeploys every node
\* set after a rotation, as docs/instanceha_guide.md asks.
HBFairness ==
  /\ WF_hbVars(HBStep)
  /\ \A n \in NodeSets : WF_hbVars(DeployKey(n))

HBSpec == HBInit /\ [][HBNext]_hbVars /\ HBFairness

-----------------------------------------------------------------------------
(* Properties.                                                             *)

\* Nodes that missed no more than the latest rotation are still heard: a key
\* that was current until the last rotation is accepted until every node set
\* has the new one.  It relates the clearing in tryNullifyPreviousKey to the
\* deployments, through any interleaving of rotations, deployments and crashes.
LatestKeysAccepted ==
  \A n \in NodeSets :
    deployedKey[n].key > 0 /\ deployedKey[n].key + 1 >= hmac.key
      => deployedKey[n].key \in {hmac.key, hmac.prev}

\* Every rotation comes to an end: the annotation is removed, the previous
\* key is cleared and the status returns to Idle, although node set events
\* that find the status Idle wake nobody (findInstanceHaWithPendingRotation).
RotationCompletes ==
  <>[](~rotateAnn.set /\ hmac.prev = 0 /\ rotSynced = "Idle")
=============================================================================
