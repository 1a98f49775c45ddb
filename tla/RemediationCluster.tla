--------------------------- MODULE RemediationCluster ---------------------------
(***************************************************************************)
(* The Kubernetes objects the PodRemediator controller reads and writes,   *)
(* and everything in the cluster that changes them behind its back.        *)
(*                                                                         *)
(* One claim name is tracked, on one storage node.  The claim may be       *)
(* deleted and created again (a new UID), the node may fail, recover, be   *)
(* removed and rejoin (a new UID), SelfNodeRemediation objects come and    *)
(* go, pods that mount the claim are created, scheduled, evicted.          *)
(*                                                                         *)
(* UIDs are positive naturals handed out in order; 0 stands for "no        *)
(* object" and for an empty annotation.                                    *)
(***************************************************************************)
EXTENDS Naturals, FiniteSets

CONSTANTS
    Workers,        \* controller processes: one, or two while a deposed leader lingers
    Remediators,    \* UIDs of PodRemediator resources
    NoRemediator,   \* the empty remediator-uid annotation
    Homes,          \* where the claim's volume may live, see PVC
    MaxPVC,         \* how many incarnations of the claim are created
    MaxPods,        \* how many pods ever mount the claim
    MaxSnrs,        \* how many SelfNodeRemediation objects are created
    Budgets         \* alternatives: how many environment events of each kind may happen

EventKinds == {"crash", "node", "consent", "spec", "edit", "pod", "deps"}

ASSUME ClusterAssumptions ==
    /\ NoRemediator \notin Remediators
    /\ Homes \subseteq {"direct", "hostname", "elsewhere"}
    /\ MaxPVC \in Nat \ {0} /\ MaxPods \in Nat /\ MaxSnrs \in Nat
    /\ Budgets \subseteq [EventKinds -> Nat]

VARIABLES
    pvc,        \* the PersistentVolumeClaim under the tracked name
    rev,        \* the last resourceVersion handed out for that name
    lastPVC,    \* the last claim UID handed out
    commits,    \* deletion-commit ConfigMaps, by claim UID
    pods,       \* pods that mount the claim, by UID
    node,       \* the storage node
    snrs,       \* SelfNodeRemediation objects for that node, by UID
    deps,       \* NodeHealthCheck and SNR template exist, intervals are valid
    crs,        \* PodRemediator resources
    cache,      \* the informer's possibly stale copy of crs
    ctl,        \* local state of each controller process
    lastToken,  \* commit tokens drawn so far (random and unique in the code)
    budget,     \* environment events left, by kind
    granted,    \* history: commit records whose finalized token was written
    killed      \* history: pods whose force deletion the API accepted

apiVars == <<pvc, rev, lastPVC, commits, pods, node, snrs, deps, crs, cache>>
histVars == <<granted, killed>>
vars == <<pvc, rev, lastPVC, commits, pods, node, snrs, deps, crs, cache,
          ctl, lastToken, budget, granted, killed>>

PodIds == 1..MaxPods
SnrIds == 1..MaxSnrs
PVCIds == 1..MaxPVC
Owner == Remediators \union {NoRemediator}

---------------------------------------------------------------------------
(* Objects                                                                  *)

\* A request id names the remediator, the claim and the SNR.  The claim is
\* the one the annotation sits on, so the other two identify the request.
Request == [cr: Owner, snr: Nat]
NoRequest == [cr |-> NoRemediator, snr |-> 0]

\* A safe-to-delete annotation left by an older release, without consent-id.
LegacyConsent == [cr |-> NoRemediator, snr |-> 1]

\* The claim: identity, version, deletion timestamp, where its volume lives
\* ("direct": pinned to the node by a node-name topology key, "hostname":
\* pinned by the hostname label, "elsewhere": not on this node), the
\* handshake annotations and the deletion-commit annotations.
PVC == [uid: 0..MaxPVC, rv: Nat, deleting: BOOLEAN, home: {"direct", "hostname", "elsewhere"},
        stuck: BOOLEAN, req: Request, nodeUID: Nat, consent: Request,
        marker: Owner, token: Nat, final: Nat]

BarePVC(uid, rv, home) ==
    [uid |-> uid, rv |-> rv, deleting |-> FALSE, home |-> home,
     stuck |-> FALSE, req |-> NoRequest, nodeUID |-> 0, consent |-> NoRequest,
     marker |-> NoRemediator, token |-> 0, final |-> 0]

NoPVC == BarePVC(0, 0, "elsewhere")

\* The durable record of one deletion transaction.  "damaged" records fail
\* decodeDeletionCommit; "absent" stands for no ConfigMap.
Commit == [phase: {"absent", "damaged", "prepared", "committed"}, pvc: Nat, rv: Nat,
           req: Request, owner: Owner, token: Nat, pods: SUBSET Nat]

NoCommit == [phase |-> "absent", pvc |-> 0, rv |-> 0, req |-> NoRequest,
             owner |-> NoRemediator, token |-> 0, pods |-> {}]

Pod == [st: {"none", "running", "deleting", "forced", "gone"},
        loc: {"pending", "here", "elsewhere"}]
Node == [uid: Nat, st: {"ready", "notReady", "absent"}]
Snr == [st: {"none", "remediating", "fenced", "removed", "expired"}, born: Nat]
CR == [st: {"none", "live", "deleting", "gone"}, fin: BOOLEAN,
       disabled: BOOLEAN, paused: BOOLEAN]

---------------------------------------------------------------------------
(* Predicates on annotations                                                *)

HasRemediationConsent(p) == p.req # NoRequest /\ p.consent = p.req

hasRemediationAnnotations(p) ==
    p.stuck \/ p.req # NoRequest \/ p.nodeUID # 0 \/ p.consent # NoRequest

hasDeletionCommitAnnotations(p) ==
    p.marker # NoRemediator \/ p.token # 0 \/ p.final # 0

preparedCommitMatchesPVC(p, c) ==
    p.uid = c.pvc /\ p.marker = c.owner /\ p.token = c.token

finalizedCommitMatchesPVC(p, c) ==
    preparedCommitMatchesPVC(p, c) /\ p.final = c.token

pvcDeletionConsentMatches(p, owner, req) ==
    /\ HasRemediationConsent(p)
    /\ p.stuck
    /\ p.req.cr = owner
    /\ p.nodeUID # 0
    /\ p.req = req

clearRemediationAnnotations(p) ==
    [p EXCEPT !.stuck = FALSE, !.req = NoRequest, !.nodeUID = 0, !.consent = NoRequest]

\* Mutant: the empty values of two annotations are swapped.
clearAllAnnotationsSwapped(p) ==
    [clearRemediationAnnotations(p)
        EXCEPT !.marker = 0, !.token = NoRemediator, !.final = 0]

clearAllAnnotations(p) ==
    [clearRemediationAnnotations(p)
        EXCEPT !.marker = NoRemediator, !.token = 0, !.final = 0]

podsUsingPVC == {p \in PodIds : pods[p].st \in {"running", "deleting", "forced"}}

---------------------------------------------------------------------------
(* Fencing evidence                                                         *)

activeSnrs == {s \in SnrIds : snrs[s].st \in {"remediating", "fenced"}}

\* Mutant: an SNR counts before it has passed the reboot barrier.
fencedSnrAnyPhase ==
    IF \E s \in activeSnrs : activeSnrs = {s}
    THEN CHOOSE s \in activeSnrs : activeSnrs = {s}
    ELSE 0

\* The SNR that proves fencing: the only active one, past the reboot barrier.
fencedSnr ==
    IF \E s \in activeSnrs : activeSnrs = {s} /\ snrs[s].st = "fenced"
    THEN CHOOSE s \in activeSnrs : activeSnrs = {s}
    ELSE 0

\* Evidence older than the node's current incarnation does not count.
fencingMatchesNode(s, n) == s # 0 /\ snrs[s].born = n.uid

\* Fencing as it must hold for claim p just before its deletion is finalized.
deletionFencingCurrent(p, cr) ==
    /\ fencedSnr # 0
    /\ p.req = [cr |-> cr, snr |-> fencedSnr]
    /\ IF node.st = "absent"
       THEN p.nodeUID # 0 /\ p.home = "direct"
       ELSE /\ node.st = "notReady"
            /\ p.nodeUID = node.uid
            /\ fencingMatchesNode(fencedSnr, node)

---------------------------------------------------------------------------
(* Environment                                                              *)

Spend(kind) ==
    /\ budget[kind] > 0
    /\ budget' = [budget EXCEPT ![kind] = @ - 1]

\* Any write to the claim takes a fresh resourceVersion.
WritePVC(p) ==
    /\ rev' = rev + 1
    /\ pvc' = [p EXCEPT !.rv = rev + 1]

NodeChanges(st) ==
    /\ Spend("node")
    /\ node.st # st
    /\ node' = [uid |-> IF node.st = "absent" THEN node.uid + 1 ELSE node.uid, st |-> st]
    /\ UNCHANGED <<pvc, rev, lastPVC, commits, pods, snrs, deps, crs, cache, ctl,
                   lastToken, granted, killed>>

SnrCreated(s) ==
    /\ node.st = "notReady"
    /\ snrs[s].st = "none"
    /\ \A t \in SnrIds : t < s => snrs[t].st # "none"
    /\ snrs' = [snrs EXCEPT ![s] = [st |-> "remediating", born |-> node.uid]]
    /\ UNCHANGED <<pvc, rev, lastPVC, commits, pods, node, deps, crs, cache, ctl,
                   lastToken, budget, granted, killed>>

SnrFences(s) ==
    /\ snrs[s].st = "remediating"
    /\ snrs' = [snrs EXCEPT ![s].st = "fenced"]
    /\ UNCHANGED <<pvc, rev, lastPVC, commits, pods, node, deps, crs, cache, ctl,
                   lastToken, budget, granted, killed>>

\* Deleted before it fenced the node, or after.
SnrRemoved(s) ==
    /\ Spend("node")
    /\ s \in activeSnrs
    /\ snrs' = [snrs EXCEPT ![s].st = IF @ = "fenced" THEN "expired" ELSE "removed"]
    /\ UNCHANGED <<pvc, rev, lastPVC, commits, pods, node, deps, crs, cache, ctl,
                   lastToken, granted, killed>>

\* The workload operator grants consent to the request it evaluated, in one
\* optimistically locked update, or withdraws it.
ConsentChanges(c) ==
    /\ Spend("consent")
    /\ pvc.uid # 0 /\ pvc.req # NoRequest
    /\ c \in {pvc.req, NoRequest} \ {pvc.consent}
    /\ WritePVC([pvc EXCEPT !.consent = c])
    /\ UNCHANGED <<lastPVC, commits, pods, node, snrs, deps, crs, cache, ctl,
                   lastToken, granted, killed>>

PodCreated(p) ==
    /\ Spend("pod")
    /\ pods[p].st = "none"
    /\ \A q \in PodIds : q < p => pods[q].st # "none"
    /\ pods' = [pods EXCEPT ![p] = [st |-> "running", loc |-> "pending"]]
    /\ UNCHANGED <<pvc, rev, lastPVC, commits, node, snrs, deps, crs, cache, ctl,
                   lastToken, granted, killed>>

PodScheduled(p, loc) ==
    /\ pods[p].st = "running" /\ pods[p].loc = "pending"
    /\ pods' = [pods EXCEPT ![p].loc = loc]
    /\ UNCHANGED <<pvc, rev, lastPVC, commits, node, snrs, deps, crs, cache, ctl,
                   lastToken, budget, granted, killed>>

\* A graceful deletion by anybody else.
PodEvicted(p) ==
    /\ Spend("pod")
    /\ pods[p].st = "running"
    /\ pods' = [pods EXCEPT ![p].st = "deleting"]
    /\ UNCHANGED <<pvc, rev, lastPVC, commits, node, snrs, deps, crs, cache, ctl,
                   lastToken, granted, killed>>

\* A force-deleted pod disappears; a gracefully deleted one needs its kubelet.
PodGone(p) ==
    /\ \/ pods[p].st = "forced"
       \/ pods[p].st = "deleting" /\ (pods[p].loc # "here" \/ node.st = "ready")
    /\ pods' = [pods EXCEPT ![p].st = "gone"]
    /\ UNCHANGED <<pvc, rev, lastPVC, commits, node, snrs, deps, crs, cache, ctl,
                   lastToken, budget, granted, killed>>

\* The claim protection finalizer goes once no scheduled pod uses the claim.
PVCRemoved ==
    /\ pvc.uid # 0 /\ pvc.deleting
    /\ \A p \in podsUsingPVC : pods[p].loc = "pending"
    /\ pvc' = NoPVC
    /\ UNCHANGED <<rev, lastPVC, commits, pods, node, snrs, deps, crs, cache, ctl,
                   lastToken, budget, granted, killed>>

PVCCreated(home) ==
    /\ pvc.uid = 0 /\ lastPVC < MaxPVC
    /\ lastPVC' = lastPVC + 1
    /\ rev' = rev + 1
    /\ pvc' = BarePVC(lastPVC + 1, rev + 1, home)
    /\ UNCHANGED <<commits, pods, node, snrs, deps, crs, cache, ctl,
                   lastToken, budget, granted, killed>>

\* Somebody else edits the claim: an unrelated change, a deletion, or the
\* loss of some or all of the commit annotations.
PVCEdited ==
    /\ Spend("edit")
    /\ pvc.uid # 0
    /\ \/ WritePVC(pvc)
       \/ ~pvc.deleting /\ WritePVC([pvc EXCEPT !.deleting = TRUE])
       \/ /\ hasDeletionCommitAnnotations(pvc)
          /\ \/ WritePVC([pvc EXCEPT !.marker = NoRemediator, !.token = 0, !.final = 0])
             \/ WritePVC([pvc EXCEPT !.marker = NoRemediator])
    /\ UNCHANGED <<lastPVC, commits, pods, node, snrs, deps, crs, cache, ctl,
                   lastToken, granted, killed>>

\* Somebody damages or removes a commit record.
CommitEdited(u) ==
    /\ Spend("edit")
    /\ commits[u].phase # "absent"
    /\ \/ commits' = [commits EXCEPT ![u] = NoCommit]
       \/ /\ commits[u].phase # "damaged"
          /\ commits' = [commits EXCEPT ![u].phase = "damaged"]
    /\ UNCHANGED <<pvc, rev, lastPVC, pods, node, snrs, deps, crs, cache, ctl,
                   lastToken, granted, killed>>

\* A user creates, reconfigures or deletes a PodRemediator.
CRCreated(r) ==
    /\ crs[r].st = "none"
    /\ crs' = [crs EXCEPT ![r].st = "live"]
    /\ UNCHANGED <<pvc, rev, lastPVC, commits, pods, node, snrs, deps, cache, ctl,
                   lastToken, budget, granted, killed>>

CRChanges(r) ==
    /\ Spend("spec")
    /\ crs[r].st = "live"
    /\ \/ crs' = [crs EXCEPT ![r].disabled = ~@]
       \/ crs' = [crs EXCEPT ![r].paused = ~@]
       \/ crs' = [crs EXCEPT ![r].st = IF crs[r].fin THEN "deleting" ELSE "gone"]
    /\ UNCHANGED <<pvc, rev, lastPVC, commits, pods, node, snrs, deps, cache, ctl,
                   lastToken, granted, killed>>

CacheSync(r) ==
    /\ cache[r] # crs[r]
    /\ cache' = [cache EXCEPT ![r] = crs[r]]
    /\ UNCHANGED <<pvc, rev, lastPVC, commits, pods, node, snrs, deps, crs, ctl,
                   lastToken, budget, granted, killed>>

DepsChange ==
    /\ Spend("deps")
    /\ deps' = ~deps
    /\ UNCHANGED <<pvc, rev, lastPVC, commits, pods, node, snrs, crs, cache, ctl,
                   lastToken, granted, killed>>

Environment ==
    \/ \E st \in {"ready", "notReady", "absent"} : NodeChanges(st)
    \/ \E s \in SnrIds : SnrCreated(s) \/ SnrFences(s) \/ SnrRemoved(s)
    \/ \E c \in {pvc.req, NoRequest} : ConsentChanges(c)
    \/ \E p \in PodIds :
          \/ PodCreated(p) \/ PodEvicted(p) \/ PodGone(p)
          \/ \E loc \in {"here", "elsewhere"} : PodScheduled(p, loc)
    \/ PVCRemoved \/ PVCEdited
    \/ \E home \in Homes : PVCCreated(home)
    \/ \E u \in PVCIds : CommitEdited(u)
    \/ \E r \in Remediators : CRCreated(r) \/ CRChanges(r) \/ CacheSync(r)
    \/ DepsChange
================================================================================
