----------------------- MODULE PodRemediatorStepProofs ------------------------
(***************************************************************************)
(* What a step of a reconcile or of the environment changes, and where it  *)
(* leads: the facts that the proofs about the sharper invariants of        *)
(* PodRemediator share.  The first of those invariants, that an SNR which  *)
(* fenced stands behind every request, closes the module.                  *)
(***************************************************************************)
EXTENDS PodRemediatorInvariants, TLAPS

---------------------------------------------------------------------------
(* Types                                                                    *)

\* What a worker holds has its type, and its copies of the claim are exact.
LEMMA WorkerHolds ==
    ASSUME IInv, NEW w \in Workers
    PROVE  /\ ctl[w] \in Local /\ pvc \in PVC /\ rev \in Nat
           /\ ctl[w].cur \in PVC /\ ctl[w].listed \in PVC /\ ctl[w].cmt \in Commit
           /\ ctl[w].me \in Owner /\ ctl[w].snrSeen \in Nat /\ ctl[w].nodeSeen \in Node
           /\ Snap(ctl[w].cur, pvc, rev, granted) /\ Snap(ctl[w].listed, pvc, rev, granted)
<1>1. ctl[w] \in Local /\ pvc \in PVC /\ rev \in Nat
    BY DEF IInv, TypeOK
<1>2. Snap(ctl[w].cur, pvc, rev, granted) /\ Snap(ctl[w].listed, pvc, rev, granted)
    BY Zenon DEF IInv, LocalOK
<1> QED
    BY <1>1, <1>2 DEF Local

\* A scrubbed claim is still the same claim.
LEMMA Scrubbed ==
    ASSUME NEW p \in PVC
    PROVE  /\ clearRemediationAnnotations(p) \in PVC /\ clearAllAnnotations(p) \in PVC
           /\ clearRemediationAnnotations(p).uid = p.uid /\ clearAllAnnotations(p).uid = p.uid
           /\ clearRemediationAnnotations(p).final = p.final /\ clearAllAnnotations(p).final = 0
<1>1. NoRequest \in Request /\ NoRemediator \in Owner
    BY DEF NoRequest, Request, Owner
<1> DEFINE a == clearRemediationAnnotations(p)
           b == clearAllAnnotations(p)
<1>2. a \in PVC
    BY <1>1, Zenon DEF PVC, clearRemediationAnnotations
<1>3. a.uid = p.uid /\ a.final = p.final
    BY DEF PVC, clearRemediationAnnotations
<1>4. b \in PVC
    <2>1. 0 \in Nat
        OBVIOUS
    <2>2. [a EXCEPT !.marker = NoRemediator, !.token = 0, !.final = 0] \in PVC
        <3> HIDE DEF a
        <3> QED
            BY <1>1, <1>2, <2>1, Zenon DEF PVC
    <2>3. QED
        BY <2>2 DEF clearAllAnnotations
<1>5. b.uid = a.uid /\ b.final = 0
    <2> HIDE DEF a
    <2> QED
        BY <1>2 DEF PVC, clearAllAnnotations, a
<1>6. QED
    BY <1>2, <1>3, <1>4, <1>5

\* A worker that moves is the only one that does.
LEMMA MoveFacts ==
    ASSUME IInv, NEW w \in Workers, NEW X, Move(w, X)
    PROVE  /\ ctl[w] \in Local /\ ctl'[w] = X
           /\ \A v \in Workers : v # w => ctl'[v] = ctl[v]
<1>1. ctl \in [Workers -> Local]
    BY DEF IInv, TypeOK
<1> QED
    BY <1>1 DEF Move

---------------------------------------------------------------------------
(* What changes                                                             *)

\* What the environment changes of what the controller works on.  It moves no
\* worker and grants nothing.
LEMMA EnvironmentChanges ==
    ASSUME Environment
    PROVE  /\ ctl' = ctl /\ granted' = granted
           /\ \/ pvc' = pvc /\ lastPVC' = lastPVC
              \/ PVCRemoved \/ PVCEdited \/ \E home \in Homes : PVCCreated(home)
              \/ \E c \in {pvc.req, NoRequest} : ConsentChanges(c)
           /\ \/ UNCHANGED <<commits, crs, cache>>
              \/ \E u \in PVCIds : CommitEdited(u)
              \/ \E r \in Remediators : CRCreated(r) \/ CRChanges(r) \/ CacheSync(r)
           /\ budget' = budget \/ \E k \in {"node", "consent", "pod", "edit", "spec", "deps"} : Spend(k)
<1>1. ctl' = ctl /\ granted' = granted
    BY Zenon DEF Environment, NodeChanges, SnrCreated, SnrFences, SnrRemoved, ConsentChanges, PodCreated,
           PodEvicted, PodGone, PodScheduled, PVCRemoved, PVCEdited, PVCCreated, CommitEdited,
           CRCreated, CRChanges, CacheSync, DepsChange
<1>2. \/ pvc' = pvc /\ lastPVC' = lastPVC
      \/ PVCRemoved \/ PVCEdited \/ \E home \in Homes : PVCCreated(home)
      \/ \E c \in {pvc.req, NoRequest} : ConsentChanges(c)
    BY Zenon DEF Environment, NodeChanges, SnrCreated, SnrFences, SnrRemoved, PodCreated, PodEvicted, PodGone,
           PodScheduled, CommitEdited, CRCreated, CRChanges, CacheSync, DepsChange
<1>3. \/ UNCHANGED <<commits, crs, cache>>
      \/ \E u \in PVCIds : CommitEdited(u)
      \/ \E r \in Remediators : CRCreated(r) \/ CRChanges(r) \/ CacheSync(r)
    BY ZenonT(40) DEF Environment, NodeChanges, SnrCreated, SnrFences, SnrRemoved, ConsentChanges, PodCreated, PodEvicted,
           PodGone, PodScheduled, PVCRemoved, PVCEdited, PVCCreated, DepsChange
<1>4. budget' = budget \/ \E k \in {"node", "consent", "pod", "edit", "spec", "deps"} : Spend(k)
    BY DEF Environment, NodeChanges, SnrCreated, SnrFences, SnrRemoved, ConsentChanges, PodCreated,
           PodEvicted, PodGone, PodScheduled, PVCRemoved, PVCEdited, PVCCreated, CommitEdited,
           CRCreated, CRChanges, CacheSync, DepsChange
<1> QED
    BY <1>1, <1>2, <1>3, <1>4, Zenon

\* The environment writes no request, and gives a claim its UID only when it
\* creates one.
LEMMA EnvironmentRequests ==
    ASSUME IInv, Environment
    PROVE  /\ pvc'.req = NoRequest \/ (pvc'.req = pvc.req /\ pvc'.nodeUID = pvc.nodeUID)
           /\ pvc'.req = NoRequest \/ pvc'.uid = pvc.uid
<1>1. pvc \in PVC /\ rev \in Nat
    BY DEF IInv, TypeOK
<1>2. \/ pvc' = pvc \/ PVCRemoved \/ PVCEdited \/ \E home \in Homes : PVCCreated(home)
      \/ \E c \in {pvc.req, NoRequest} : ConsentChanges(c)
    BY EnvironmentChanges, Zenon
<1>3. CASE PVCRemoved
    BY <1>3 DEF PVCRemoved, NoPVC, BarePVC
<1>4. CASE PVCEdited
    <2>1. ASSUME NEW new, WritePVC(new), new.req = pvc.req, new.nodeUID = pvc.nodeUID, new.uid = pvc.uid,
                 new \in PVC
          PROVE  pvc'.req = pvc.req /\ pvc'.nodeUID = pvc.nodeUID /\ pvc'.uid = pvc.uid
        BY <1>1, <2>1 DEF WritePVC, PVC
    <2> QED
        BY <1>1, <1>4, <2>1, Zenon DEF PVCEdited, WritePVC, PVC
<1>5. ASSUME NEW home \in Homes, PVCCreated(home) PROVE pvc'.req = NoRequest
    BY <1>5 DEF PVCCreated, BarePVC
<1>6. ASSUME NEW c \in {pvc.req, NoRequest}, ConsentChanges(c)
      PROVE  pvc'.req = pvc.req /\ pvc'.nodeUID = pvc.nodeUID /\ pvc'.uid = pvc.uid
    BY <1>1, <1>6 DEF ConsentChanges, WritePVC, PVC
<1> QED
    BY <1>2, <1>3, <1>4, <1>5, <1>6

\* What a step of a worker does to the request on the claim.  A patch changes
\* nothing else, because it goes through only on the version that was read.
LEMMA RequestChanges ==
    ASSUME IInv, NEW w \in Workers, Step(w)
    PROVE  /\ snrs' = snrs
           /\ \/ pvc'.req = NoRequest
              \/ pvc'.req = pvc.req /\ pvc'.nodeUID = pvc.nodeUID
              \/ /\ ctl[w].pc = "startRequest"
                 /\ pvc'.req.snr = ctl[w].snrSeen /\ pvc'.nodeUID = ctl[w].nodeSeen.uid
<1> DEFINE c == ctl[w]
           Goal == /\ snrs' = snrs
                   /\ \/ pvc'.req = NoRequest
                      \/ pvc'.req = pvc.req /\ pvc'.nodeUID = pvc.nodeUID
                      \/ /\ c.pc = "startRequest"
                         /\ pvc'.req.snr = c.snrSeen /\ pvc'.nodeUID = c.nodeSeen.uid
<1>a. /\ c.cur \in PVC /\ c.listed \in PVC /\ pvc \in PVC /\ rev \in Nat
      /\ Snap(c.cur, pvc, rev, granted) /\ Snap(c.listed, pvc, rev, granted)
    BY WorkerHolds
<1>b. ASSUME pvc' = pvc, snrs' = snrs PROVE Goal
    BY <1>b
<1>c. ASSUME NEW p \in PVC, NEW X, PatchPVC(w, p, clearRemediationAnnotations(p), X) PROVE Goal
    BY <1>b, <1>c, Zenon DEF PatchPVC, WritePVC, OnlyPVC, clearRemediationAnnotations, PVC
<1>d. ASSUME NEW p \in PVC, NEW X, PatchPVC(w, p, clearAllAnnotations(p), X) PROVE Goal
    BY <1>b, <1>d, Zenon DEF PatchPVC, WritePVC, OnlyPVC, clearAllAnnotations, clearRemediationAnnotations, PVC
<1>e. ASSUME snrs' = snrs, NEW new \in PVC, WritePVC(new), new.req = pvc.req, new.nodeUID = pvc.nodeUID
      PROVE  Goal
    BY <1>e DEF WritePVC, PVC
<1>f. pvc.uid # 0 /\ pvc.rv = c.cur.rv => c.cur = pvc
    BY <1>a DEF Snap
<1>g. /\ \A b \in BOOLEAN : /\ [c.cur EXCEPT !.deleting = b] \in PVC
                            /\ [c.cur EXCEPT !.deleting = b].req = c.cur.req
                            /\ [c.cur EXCEPT !.deleting = b].nodeUID = c.cur.nodeUID
      /\ \A r \in Request : /\ [c.cur EXCEPT !.consent = r] \in PVC
                            /\ [c.cur EXCEPT !.consent = r].req = c.cur.req
                            /\ [c.cur EXCEPT !.consent = r].nodeUID = c.cur.nodeUID
      /\ \A o \in Owner, t \in Nat :
             /\ [c.cur EXCEPT !.marker = o, !.token = t] \in PVC
             /\ [c.cur EXCEPT !.marker = o, !.token = t].req = c.cur.req
             /\ [c.cur EXCEPT !.marker = o, !.token = t].nodeUID = c.cur.nodeUID
      /\ \A t \in Nat : /\ [c.cur EXCEPT !.final = t] \in PVC
                        /\ [c.cur EXCEPT !.final = t].req = c.cur.req
                        /\ [c.cur EXCEPT !.final = t].nodeUID = c.cur.nodeUID
    <2> HIDE DEF c
    <2> QED
        BY <1>a, Zenon DEF PVC
<1>h. NoRequest \in Request /\ c.cmt.owner \in Owner /\ c.cmt.token \in Nat
    <2>1. c.cmt \in Commit
        BY WorkerHolds
    <2> QED
        BY <2>1 DEF Commit, NoRequest, Request, Owner
<1> SUFFICES Goal
    OBVIOUS
<1> HIDE DEF Goal, c
<1>0. c = ctl[w]
    BY DEF c
<1>1. CASE \/ ListPVCs(w) \/ ListCommits(w) \/ \E r \in Remediators : AddFinalizer(w, r) \/ Reconcile(w, r)
    BY <1>1, <1>b, Zenon DEF AddFinalizer, Reconcile, ListPVCs, ListCommits, ClusterUnchanged, apiVars
<1>2. CASE \E x \in ctl[w].todo : ResumeDamaged(w, x) \/ ResumeForeign(w, x) \/ ResumeOwn(w, x)
    BY <1>2, <1>b DEF ResumeDamaged, ResumeForeign, ResumeOwn, ClusterUnchanged, apiVars
<1>3. CASE ResumeScrub(w)
    BY <1>0, <1>3, <1>a, <1>b, <1>d DEF ResumeScrub, ClusterUnchanged, apiVars
<1>4. CASE Drop(w) \/ promotePreparedDeletionCommit(w) \/ createOrAdoptDeletionCommit(w)
    <2>1. OnlyCommits
        BY <1>4, Zenon DEF Drop, promotePreparedDeletionCommit, createOrAdoptDeletionCommit
    <2> QED
        BY <2>1, <1>b, Zenon DEF OnlyCommits
<1>5. CASE Clear(w)
    BY <1>0, <1>5, <1>a, <1>b, <1>d DEF Clear, ClusterUnchanged, apiVars
<1>6. CASE ListUsers(w) \/ ListRemaining(w) \/ ConfirmGone(w) \/ \E x \in ctl[w].seen : DeletePod(w, x)
    BY <1>6, <1>b, Zenon DEF ListUsers, ListRemaining, ConfirmGone, DeletePod, ClusterUnchanged, apiVars
<1>7. CASE DeletePVC(w)
    <2>1. /\ snrs' = snrs
          /\ \/ pvc' = pvc
             \/ pvc.uid # 0 /\ pvc.rv = c.cur.rv /\ WritePVC([c.cur EXCEPT !.deleting = TRUE])
        BY <1>0, <1>7, Zenon DEF DeletePVC, PatchPVC, OnlyPVC
    <2> QED
        BY <2>1, <1>b, <1>e, <1>f, <1>g, Zenon
<1>8. CASE CleanupList(w) \/ CleanupPatch(w) \/ RemoveFinalizer(w) \/ ClearRecovered(w)
    BY <1>0, <1>8, <1>a, <1>b, <1>c, Zenon DEF CleanupList, CleanupPatch, RemoveFinalizer, ClearRecovered,
                                     ClusterUnchanged, apiVars
<1>9. CASE CheckDeps(w) \/ ScanNodes(w) \/ ScanSnrs(w) \/ ScanPVC(w)
    BY <1>9, <1>b DEF CheckDeps, ScanNodes, ScanSnrs, ScanPVC, ClusterUnchanged, apiVars
<1>10. CASE DropOrphanedConsent(w)
    <2>1. /\ snrs' = snrs
          /\ \/ pvc' = pvc
             \/ pvc.uid # 0 /\ pvc.rv = c.cur.rv /\ WritePVC([c.cur EXCEPT !.consent = NoRequest])
        BY <1>0, <1>10 DEF DropOrphanedConsent, PatchPVC, OnlyPVC
    <2> QED
        BY <2>1, <1>b, <1>e, <1>f, <1>g, <1>h, Zenon
<1>11. CASE startRequest(w)
    <2> DEFINE new == [c.cur EXCEPT !.stuck = TRUE, !.req = [cr |-> c.me, snr |-> c.snrSeen],
                                    !.nodeUID = c.nodeSeen.uid, !.consent = NoRequest]
    <2>1. /\ snrs' = snrs /\ c.pc = "startRequest"
          /\ pvc' = pvc \/ WritePVC(new)
        BY <1>0, <1>11 DEF startRequest, PatchPVC, OnlyPVC
    <2>2. WritePVC(new) => pvc'.req.snr = c.snrSeen /\ pvc'.nodeUID = c.nodeSeen.uid
        BY <1>a DEF WritePVC, PVC
    <2> QED
        BY <2>1, <2>2, <1>b DEF Goal
<1>12. CASE isRemediationPaused(w) \/ ListPods(w)
    BY <1>12, <1>b, Zenon DEF isRemediationPaused, ListPods, ClusterUnchanged, apiVars
<1>13. CASE ReadAdopted(w) \/ Reread(w) \/ ReadCurrent(w) \/ ConfirmMark(w)
    BY <1>13, <1>b DEF ReadAdopted, Reread, ReadCurrent, ConfirmMark, ClusterUnchanged, apiVars
<1>14. CASE Mark(w)
    <2>1. /\ snrs' = snrs
          /\ \/ pvc' = pvc
             \/ /\ pvc.uid # 0 /\ pvc.rv = c.cur.rv
                /\ WritePVC([c.cur EXCEPT !.marker = c.cmt.owner, !.token = c.cmt.token])
        BY <1>0, <1>14 DEF Mark, ConditionalWrite, OnlyPVC
    <2> QED
        BY <2>1, <1>b, <1>e, <1>f, <1>g, <1>h, Zenon
<1>15. CASE Finalize(w)
    <2>1. /\ snrs' = snrs
          /\ \/ pvc' = pvc
             \/ pvc.uid # 0 /\ pvc.rv = c.cur.rv /\ WritePVC([c.cur EXCEPT !.final = c.cmt.token])
        BY <1>0, <1>15, Zenon DEF Finalize, ConditionalWrite, OnlyPVC
    <2> QED
        BY <2>1, <1>b, <1>e, <1>f, <1>g, <1>h, Zenon
<1>16. CASE FenceSnr(w) \/ FenceNode(w) \/ ConfirmFinal(w)
    BY <1>16, <1>b DEF FenceSnr, FenceNode, ConfirmFinal, ClusterUnchanged, apiVars
<1> QED
    BY Zenon, <1>1, <1>2, <1>3, <1>4, <1>5, <1>6, <1>7, <1>8, <1>9, <1>10, <1>11, <1>12, <1>13, <1>14,
       <1>15, <1>16 DEF Step

\* A worker patches the claim it read, it does not make one.
LEMMA StepKeepsClaim ==
    ASSUME IInv, NEW w \in Workers, Step(w)
    PROVE  pvc' = pvc \/ (pvc.uid # 0 /\ pvc'.uid = pvc.uid)
<1> DEFINE c == ctl[w]
           Goal == pvc' = pvc \/ (pvc.uid # 0 /\ pvc'.uid = pvc.uid)
<1>a. /\ c.cur \in PVC /\ c.listed \in PVC /\ pvc \in PVC /\ rev \in Nat
      /\ Snap(c.cur, pvc, rev, granted) /\ Snap(c.listed, pvc, rev, granted)
    BY WorkerHolds
<1>b. ASSUME NEW p \in PVC, Snap(p, pvc, rev, granted), NEW new \in PVC, new.uid = p.uid,
             pvc.uid # 0, pvc.rv = p.rv, WritePVC(new)
      PROVE  Goal
    <2>1. p = pvc
        BY <1>b DEF Snap
    <2>2. pvc'.uid = new.uid
        BY <1>b DEF WritePVC, PVC
    <2> QED
        BY <1>b, <2>1, <2>2
<1>c. ASSUME NEW p \in PVC, Snap(p, pvc, rev, granted), NEW new \in PVC, new.uid = p.uid,
             NEW X, PatchPVC(w, p, new, X)
      PROVE  Goal
    BY <1>b, <1>c DEF PatchPVC
<1>d. ASSUME NEW p \in PVC
      PROVE  /\ clearAllAnnotations(p) \in PVC /\ clearAllAnnotations(p).uid = p.uid
             /\ clearRemediationAnnotations(p) \in PVC /\ clearRemediationAnnotations(p).uid = p.uid
    <2>1. clearRemediationAnnotations(p).uid = p.uid
        BY DEF clearRemediationAnnotations, PVC
    <2> QED
        BY <2>1, Scrubbed
<1>e. c.cmt \in Commit /\ c.me \in Owner /\ c.snrSeen \in Nat /\ c.nodeSeen \in Node
    BY WorkerHolds
<1>f. /\ NoRequest \in Request /\ c.cmt.owner \in Owner /\ c.cmt.token \in Nat
      /\ [cr |-> c.me, snr |-> c.snrSeen] \in Request /\ c.nodeSeen.uid \in Nat
    <2> HIDE DEF c
    <2> QED
        BY <1>e DEF Commit, NoRequest, Request, Owner, Node
<1> SUFFICES Goal
    OBVIOUS
<1> HIDE DEF Goal, c
<1>g. /\ [c.cur EXCEPT !.deleting = TRUE] \in PVC /\ [c.cur EXCEPT !.consent = NoRequest] \in PVC
      /\ [c.cur EXCEPT !.marker = c.cmt.owner, !.token = c.cmt.token] \in PVC
      /\ [c.cur EXCEPT !.final = c.cmt.token] \in PVC
    BY <1>a, <1>f, Zenon DEF PVC
<1>h. /\ [c.cur EXCEPT !.deleting = TRUE].uid = c.cur.uid /\ [c.cur EXCEPT !.consent = NoRequest].uid = c.cur.uid
      /\ [c.cur EXCEPT !.marker = c.cmt.owner, !.token = c.cmt.token].uid = c.cur.uid
      /\ [c.cur EXCEPT !.final = c.cmt.token].uid = c.cur.uid
    BY <1>a DEF PVC
<1>0. c = ctl[w]
    BY DEF c
<1>1. CASE pvc' = pvc
    BY <1>1 DEF Goal
<1>2. CASE ResumeScrub(w)
    BY <1>0, <1>1, <1>2, <1>a, <1>c, <1>d, Zenon DEF ResumeScrub, ClusterUnchanged, apiVars
<1>3. CASE Clear(w)
    BY <1>0, <1>1, <1>3, <1>a, <1>c, <1>d DEF Clear, ClusterUnchanged, apiVars
<1>4. CASE DeletePVC(w)
    BY <1>0, <1>4, <1>a, <1>c, <1>g, <1>h, Zenon DEF DeletePVC
<1>5. CASE CleanupPatch(w) \/ ClearRecovered(w)
    BY <1>0, <1>5, <1>a, <1>c, <1>d DEF CleanupPatch, ClearRecovered
<1>6. CASE DropOrphanedConsent(w)
    BY <1>0, <1>6, <1>a, <1>c, <1>g, <1>h, Zenon DEF DropOrphanedConsent
<1>7. CASE startRequest(w)
    <2> DEFINE r == [cr |-> c.me, snr |-> c.snrSeen]
               new == [c.cur EXCEPT !.stuck = TRUE, !.req = r, !.nodeUID = c.nodeSeen.uid,
                                    !.consent = NoRequest]
    <2>1. r \in Request
        BY <1>f
    <2>2. new.uid = c.cur.uid
        BY <1>a DEF PVC
    <2>3. PatchPVC(w, c.cur, new, Idle)
        BY <1>0, <1>7 DEF startRequest
    <2> HIDE DEF r
    <2>4. new \in PVC
        BY <1>a, <1>f, <2>1, Zenon DEF PVC
    <2> HIDE DEF new
    <2> QED
        BY <1>a, <1>c, <2>2, <2>3, <2>4
<1>8. CASE Mark(w)
    BY <1>0, <1>1, <1>8, <1>a, <1>b, <1>g, <1>h, Zenon DEF Mark, ConditionalWrite
<1>9. CASE Finalize(w)
    BY <1>0, <1>1, <1>9, <1>a, <1>b, <1>g, <1>h, Zenon DEF Finalize, ConditionalWrite
<1>10. \/ pvc' = pvc \/ ResumeScrub(w) \/ Clear(w) \/ DeletePVC(w) \/ CleanupPatch(w) \/ ClearRecovered(w)
       \/ DropOrphanedConsent(w) \/ startRequest(w) \/ Mark(w) \/ Finalize(w)
    BY Zenon DEF Step, AddFinalizer, Reconcile, ListPVCs, ListCommits, ResumeDamaged, ResumeForeign, ResumeOwn, Drop,
           promotePreparedDeletionCommit, ListUsers, DeletePod, ListRemaining, ConfirmGone, CleanupList,
           RemoveFinalizer, CheckDeps, ScanNodes, ScanSnrs, ScanPVC, isRemediationPaused, ListPods,
           createOrAdoptDeletionCommit, ReadAdopted, Reread, ReadCurrent, ConfirmMark, FenceSnr, FenceNode,
           ConfirmFinal, ClusterUnchanged, OnlyCommits, apiVars
<1> QED
    BY <1>1, <1>2, <1>3, <1>4, <1>5, <1>6, <1>7, <1>8, <1>9, <1>10

---------------------------------------------------------------------------
(* Where the steps lead                                                     *)

\* What a step inside one reconcile keeps.
SameReconcile(X, c) == X.me = c.me /\ X.inst = c.inst /\ X.stage = c.stage

\* Two stretches of the reconcile: a prepared record on its way to the grant,
\* and a committed one on its way to the deletion.
PreparingPCs == {"readCurrent", "mark", "confirmMark", "markFailed", "fenceSnr", "fenceNode",
                 "finalize", "confirmFinal", "finalizeFailed", "promote"}
CommittedPCs == {"readAdopted", "reread", "listUsers", "deletePods", "deletePVC"}

\* One worker at a time reconciles, which leader election is there for.
OneWorker == \A v, w \in Workers : v = w

\* The bookkeeping of the resume loop, and what the worker takes along.
LEMMA SkipMove ==
    ASSUME NEW c \in Local
    PROVE  \A x : LET X == Skip(c, x) IN
               /\ X.pc = c.pc /\ SameReconcile(X, c) /\ X.cur = c.cur /\ X.cmt = c.cmt
               /\ X.todo = c.todo \ {x} /\ X.held = c.held
BY DEF Skip, SameReconcile, Local

LEMMA AccountMove ==
    ASSUME NEW c \in Local
    PROVE  \A x : LET X == Account(c, x) IN
               /\ X.pc = c.pc /\ SameReconcile(X, c) /\ X.cur = c.cur /\ X.cmt = c.cmt
               /\ X.todo = c.todo \ {x} /\ X.held = c.held
BY DEF Account, Skip, SameReconcile, Local

LEMMA HoldMove ==
    ASSUME NEW c \in Local
    PROVE  \A x : LET X == Hold(c, x) IN
               /\ X.pc = c.pc /\ SameReconcile(X, c) /\ X.cur = c.cur /\ X.cmt = c.cmt
               /\ X.todo = c.todo \ {x} /\ X.held = c.held \union {x.pvc}
BY DEF Hold, Account, Skip, SameReconcile, Local

LEMMA TakeUpMove ==
    ASSUME NEW c \in Local
    PROVE  \A x, p, q : LET X == TakeUp(c, x, p, q) IN
               /\ X.pc = q /\ SameReconcile(X, c) /\ X.cur = p /\ X.cmt = x
               /\ X.todo = c.todo \ {x} /\ X.held = c.held
BY DEF TakeUp, Account, Skip, SameReconcile, Local

LEMMA AbortMove ==
    ASSUME NEW c \in Local
    PROVE  \A x, p, q : LET X == Abort(c, x, p, q) IN
               /\ X.pc = q /\ SameReconcile(X, c) /\ X.cur = p /\ X.cmt = x
               /\ X.todo = c.todo \ {x} /\ X.held = c.held
BY DEF Abort, TakeUp, Account, Skip, SameReconcile, Local

LEMMA DiscardMove ==
    ASSUME NEW c \in Local
    PROVE  \A x : LET X == Discard(c, x) IN
               /\ X.pc = "drop" /\ SameReconcile(X, c) /\ X.cmt = x
               /\ X.todo = c.todo \ {x} /\ X.held = c.held
BY DEF Discard, AtRecord, Skip, SameReconcile, Local

\* The ends of a piece of work: the next record, or the end of the reconcile.
LEMMA IdleMove == Idle.pc = "idle" /\ Idle.cmt = NoCommit /\ Idle.todo = {}
BY DEF Idle

LEMMA HandledMove ==
    ASSUME NEW c \in Local
    PROVE  \/ Handled(c) = Idle
           \/ /\ Handled(c).pc = "resume" /\ SameReconcile(Handled(c), c) /\ Handled(c).cmt = NoCommit
              /\ Handled(c).todo = c.todo /\ Handled(c).held = c.held
BY DEF Handled, Local, SameReconcile

LEMMA PendingMove ==
    ASSUME NEW c \in Local
    PROVE  \/ Pending(c) = Idle
           \/ /\ Pending(c).pc = "resume" /\ SameReconcile(Pending(c), c) /\ Pending(c).cmt = NoCommit
              /\ Pending(c).todo = c.todo /\ Pending(c).held = c.held \union {c.cmt.pvc}
<1> DEFINE d == [c EXCEPT !.held = @ \union {c.cmt.pvc}]
<1>1. c.cmt \in Commit /\ c.held \subseteq Nat
    BY DEF Local
<1>2. c.held \union {c.cmt.pvc} \in SUBSET Nat
    BY <1>1 DEF Commit
<1>3. d \in Local
    BY <1>2, Zenon DEF Local
<1>4. SameReconcile(d, c) /\ d.todo = c.todo /\ d.held = c.held \union {c.cmt.pvc}
    BY DEF Local, SameReconcile
<1>5. Pending(c) = Handled(d)
    BY DEF Pending
<1> HIDE DEF d
<1> QED
    BY <1>3, <1>4, <1>5, HandledMove DEF SameReconcile

LEMMA AfterCleanupMove ==
    ASSUME NEW c \in Local
    PROVE  \/ AfterCleanup(c) = Idle
           \/ /\ AfterCleanup(c).pc = "removeFinalizer" /\ c.inst.st = "deleting"
              /\ SameReconcile(AfterCleanup(c), c)
              /\ AfterCleanup(c).cmt = c.cmt /\ AfterCleanup(c).todo = c.todo
BY DEF AfterCleanup, AtWith, Local, SameReconcile

LEMMA AfterResumeMove ==
    ASSUME NEW c \in Local
    PROVE  \/ AfterResume(c) = Idle
           \/ /\ AfterResume(c).pc \in {"cleanupList", "deps"}
              /\ AfterResume(c).me = c.me /\ AfterResume(c).inst = c.inst
              /\ AfterResume(c).cmt = NoCommit /\ AfterResume(c).todo = {}
              /\ c.inst.st = "deleting" => AfterResume(c).pc = "cleanupList" /\ c.held = {}
<1> DEFINE done == [Idle EXCEPT !.me = c.me, !.inst = c.inst, !.stage = "scan",
                                !.held = c.held, !.aborted = c.aborted]
<1>1. \A q : /\ At(done, q).pc = q /\ At(done, q).me = c.me /\ At(done, q).inst = c.inst
             /\ At(done, q).cmt = NoCommit /\ At(done, q).todo = {}
    BY DEF At, Idle
<1>2. AfterResume(c) = IF c.inst.st = "deleting"
                       THEN IF c.held # {} THEN Idle ELSE At(done, "cleanupList")
                       ELSE At(done, IF c.inst.disabled THEN "cleanupList" ELSE "deps")
    BY DEF AfterResume
<1> HIDE DEF done
<1> QED
    BY <1>1, <1>2

---------------------------------------------------------------------------
(* Who may do what                                                          *)

\* What one step of a worker changes besides its own local state: only
\* Finalize grants, only DeletePod touches pods.
LEMMA StepEffects ==
    ASSUME NEW w \in Workers, Step(w)
    PROVE  /\ granted' = granted \/ Finalize(w)
           /\ pods' = pods \/ \E x \in ctl[w].seen : DeletePod(w, x)
           /\ ctl' = ctl \/ \E X : Move(w, X)
           /\ ctl[w].pc = "deletePVC" => DeletePVC(w) \/ ctl' = ctl
<1> USE DEF Return
<1>1. CASE \E r \in Remediators : AddFinalizer(w, r) \/ Reconcile(w, r)
    BY <1>1 DEF AddFinalizer, Reconcile, ClusterUnchanged, apiVars, histVars
<1>2. CASE ListPVCs(w) \/ ListCommits(w)
    BY <1>2 DEF ListPVCs, ListCommits, ClusterUnchanged, apiVars, histVars
<1>3. CASE ResumeScrub(w) \/ Drop(w) \/ Clear(w)
    BY ZenonT(40), <1>3 DEF ResumeScrub, Drop, Clear, PatchPVC, OnlyPVC, OnlyCommits, ClusterUnchanged,
                apiVars, histVars
<1>4. CASE \E x \in ctl[w].todo : ResumeDamaged(w, x) \/ ResumeForeign(w, x) \/ ResumeOwn(w, x)
    BY Zenon, <1>4 DEF ResumeDamaged, ResumeForeign, ResumeOwn, ClusterUnchanged, apiVars, histVars
<1>5. CASE promotePreparedDeletionCommit(w) \/ ListUsers(w) \/ ListRemaining(w) \/ ConfirmGone(w)
    BY <1>5 DEF promotePreparedDeletionCommit, ListUsers, ListRemaining, ConfirmGone,
                OnlyCommits, ClusterUnchanged, apiVars, histVars
<1>6. CASE DeletePVC(w)
    BY <1>6 DEF DeletePVC, PatchPVC, OnlyPVC
<1>7. CASE \E x \in ctl[w].seen : DeletePod(w, x)
    BY Zenon, <1>7 DEF DeletePod
<1>8. CASE CleanupList(w) \/ CleanupPatch(w) \/ RemoveFinalizer(w)
    BY <1>8 DEF CleanupList, CleanupPatch, RemoveFinalizer, PatchPVC, OnlyPVC,
                ClusterUnchanged, apiVars, histVars
<1>9. CASE CheckDeps(w) \/ ScanNodes(w) \/ ScanSnrs(w) \/ ScanPVC(w)
    BY <1>9 DEF CheckDeps, ScanNodes, ScanSnrs, ScanPVC, ClusterUnchanged, apiVars, histVars
<1>10. CASE ClearRecovered(w) \/ DropOrphanedConsent(w) \/ startRequest(w)
    BY <1>10 DEF ClearRecovered, DropOrphanedConsent, startRequest, PatchPVC, OnlyPVC
<1>11. CASE isRemediationPaused(w) \/ ListPods(w) \/ createOrAdoptDeletionCommit(w)
    BY Zenon, <1>11 DEF isRemediationPaused, ListPods, createOrAdoptDeletionCommit, OnlyCommits,
                 ClusterUnchanged, apiVars, histVars
<1>12. CASE ReadAdopted(w) \/ Reread(w) \/ ReadCurrent(w) \/ ConfirmMark(w)
    BY <1>12 DEF ReadAdopted, Reread, ReadCurrent, ConfirmMark, ClusterUnchanged, apiVars, histVars
<1>13. CASE Mark(w) \/ Finalize(w)
    BY ZenonT(40), <1>13 DEF Mark, Finalize, ConditionalWrite, OnlyPVC
<1>14. CASE FenceSnr(w) \/ FenceNode(w) \/ ConfirmFinal(w)
    BY <1>14 DEF FenceSnr, FenceNode, ConfirmFinal, ClusterUnchanged, apiVars, histVars
<1>15. QED
    BY ZenonT(40), <1>1, <1>2, <1>3, <1>4, <1>5, <1>6, <1>7, <1>8, <1>9, <1>10, <1>11, <1>12, <1>13, <1>14
       DEF Step

\* The environment neither grants nor force-deletes, and moves no worker.
LEMMA EnvironmentEffects ==
    ASSUME IInv, Environment
    PROVE  /\ granted' = granted /\ ctl' = ctl
           /\ \A p \in PodIds : pods'[p].st = "forced" => pods[p].st = "forced"
<1>1. granted' = granted /\ ctl' = ctl
    BY ZenonT(40) DEF Environment, NodeChanges, SnrCreated, SnrFences, SnrRemoved, ConsentChanges, PodCreated,
           PodEvicted, PodGone, PodScheduled, PVCRemoved, PVCEdited, PVCCreated, CommitEdited,
           CRCreated, CRChanges, CacheSync, DepsChange
<1>2. \/ pods' = pods
      \/ \E p \in PodIds : \/ PodCreated(p) \/ PodEvicted(p) \/ PodGone(p)
                           \/ \E loc \in {"here", "elsewhere"} : PodScheduled(p, loc)
    BY DEF Environment, NodeChanges, SnrCreated, SnrFences, SnrRemoved, ConsentChanges,
           PVCRemoved, PVCEdited, PVCCreated, CommitEdited, CRCreated, CRChanges, CacheSync,
           DepsChange
<1>3. pods \in [PodIds -> Pod]
    BY DEF IInv, TypeOK
<1>4. ASSUME NEW p \in PodIds, PodCreated(p) \/ PodEvicted(p) \/ PodGone(p)
      PROVE  \A q \in PodIds : pods'[q].st = "forced" => pods[q].st = "forced"
    BY <1>3, <1>4 DEF PodCreated, PodEvicted, PodGone, Pod
<1>5. ASSUME NEW p \in PodIds, NEW loc \in {"here", "elsewhere"}, PodScheduled(p, loc)
      PROVE  \A q \in PodIds : pods'[q].st = "forced" => pods[q].st = "forced"
    BY <1>3, <1>5 DEF PodScheduled, Pod
<1>6. QED
    BY ZenonT(40), <1>1, <1>2, <1>4, <1>5

\* A crash changes no more than the worker and the budget.
LEMMA CrashEffects ==
    ASSUME NEW w \in Workers, Crash(w)
    PROVE  granted' = granted /\ pods' = pods /\ Move(w, Idle)
BY DEF Crash, Return, apiVars

---------------------------------------------------------------------------
(* Requests rest on fencing                                                 *)

\* Among the SNRs S, s finished fencing the node incarnation uid.
FencedBy(S, s, uid) ==
    s \in SnrIds /\ S[s].st \in {"fenced", "expired"} /\ S[s].born = uid

\* The request on the claim, and the scan's snapshot from which the next one
\* is written.
RequestIsFenced == pvc.req # NoRequest => FencedBy(snrs, pvc.req.snr, pvc.nodeUID)
SeenIsFenced(c, S) ==
    /\ c.pc \in {"scanPVC", "startRequest"} /\ c.snrSeen # 0 /\ c.nodeSeen.st # "absent"
          => FencedBy(S, c.snrSeen, c.nodeSeen.uid)
    /\ c.pc = "startRequest" => c.snrSeen # 0 /\ c.nodeSeen.st # "absent"
FenceInv == RequestIsFenced /\ \A w \in Workers : SeenIsFenced(ctl[w], snrs)

\* The places a decision of the resume loop leads to.
LEMMA DecisionPlaces ==
    ASSUME NEW c \in Local, NEW x, NEW p, c.pc = "resume"
    PROVE  /\ DamagedDecision(c, x).pc \in {"resume", "dropClear"}
           /\ ResumeDecision(c, x, p).pc \in {"resume", "drop", "dropClear", "promote", "listUsers"}
<1>1. /\ Skip(c, x).pc = "resume" /\ Account(c, x).pc = "resume" /\ Hold(c, x).pc = "resume"
      /\ \A q, b : TakeUp(c, x, b, q).pc = q /\ Abort(c, x, b, q).pc = q
      /\ Discard(c, x).pc = "drop"
    BY SkipMove, AccountMove, HoldMove, TakeUpMove, AbortMove, DiscardMove
<1> QED
    BY <1>1, Zenon DEF DamagedDecision, ResumeDecision

ScanPCs == {"scanPVC", "startRequest"}

\* Only the scan brings a worker to where the snapshot matters.
LEMMA ScanPlaces ==
    ASSUME IInv, NEW w \in Workers, Step(w)
    PROVE  \/ ctl' = ctl
           \/ /\ \A v \in Workers : v # w => ctl'[v] = ctl[v]
              /\ ctl'[w].pc \in ScanPCs => ScanSnrs(w) \/ ScanPVC(w)
<1> DEFINE c == ctl[w]
<1> DEFINE Goal == \/ ctl' = ctl
                   \/ /\ \A v \in Workers : v # w => ctl'[v] = ctl[v]
                      /\ ctl'[w].pc \in ScanPCs => ScanSnrs(w) \/ ScanPVC(w)
<1>a. c \in Local
    BY DEF IInv, TypeOK
<1>b. ASSUME NEW X, Move(w, X), X.pc \notin ScanPCs PROVE Goal
    BY <1>b, MoveFacts
<1>c. /\ Idle.pc \notin ScanPCs /\ Handled(c).pc \notin ScanPCs /\ Pending(c).pc \notin ScanPCs
      /\ AfterResume(c).pc \notin ScanPCs /\ AfterCleanup(c).pc \notin ScanPCs
    BY <1>a, IdleMove, HandledMove, PendingMove, AfterCleanupMove, AfterResumeMove, Zenon DEF ScanPCs
<1>d. ASSUME NEW p, NEW new, NEW X, PatchPVC(w, p, new, X), X.pc \notin ScanPCs PROVE Goal
    BY <1>b, <1>c, <1>d DEF PatchPVC, Return
<1>e. /\ \A q : At(c, q).pc = q
      /\ \A q, y : /\ AtWith(c, q, y).pc = q /\ AtRecord(c, q, y).pc = q
                   /\ AtPods(c, q, y).pc = q /\ AtSnr(c, q, y).pc = q
      /\ Undo(c).pc = "dropClear"
    BY <1>a DEF At, AtWith, AtRecord, AtPods, AtSnr, Undo, Local
<1> SUFFICES Goal
    OBVIOUS
<1> HIDE DEF Goal, c
<1>0. c = ctl[w]
    BY DEF c
<1>1. CASE \E r \in Remediators : AddFinalizer(w, r) \/ Reconcile(w, r)
    <2>1. ASSUME NEW r \in Remediators, AddFinalizer(w, r) PROVE Goal
        BY <2>1 DEF AddFinalizer, Goal
    <2>2. ASSUME NEW r \in Remediators, Reconcile(w, r) PROVE Goal
        <3>1. [Idle EXCEPT !.pc = "listPVCs", !.me = r, !.inst = cache[r]].pc = "listPVCs"
            BY DEF Idle
        <3> QED
            BY <2>2, <3>1, <1>b, Zenon DEF Reconcile, ScanPCs
    <2> QED
        BY <1>0, <1>1, <2>1, <2>2
<1>2. CASE ListPVCs(w) \/ ListCommits(w)
    <2>1. \A y : /\ [c EXCEPT !.pc = "listCommits", !.listed = y].pc = "listCommits"
                 /\ [c EXCEPT !.pc = "resume", !.todo = y].pc = "resume"
        BY <1>a DEF Local
    <2> QED
        BY <1>0, <1>2, <2>1, <1>b, Zenon DEF ListPVCs, ListCommits, ScanPCs
<1>3. CASE \E x \in ctl[w].todo : ResumeDamaged(w, x) \/ ResumeForeign(w, x) \/ ResumeOwn(w, x)
    <2> PICK x \in ctl[w].todo : ResumeDamaged(w, x) \/ ResumeForeign(w, x) \/ ResumeOwn(w, x)
        BY <1>3
    <2>1. c.pc = "resume"
        BY <1>0 DEF ResumeDamaged, ResumeForeign, ResumeOwn
    <2>2. /\ DamagedDecision(c, x).pc \notin ScanPCs /\ ResumeDecision(c, x, pvc).pc \notin ScanPCs
          /\ Account(c, x).pc \notin ScanPCs
        BY <1>a, <2>1, DecisionPlaces, AccountMove, Zenon DEF ScanPCs
    <2> QED
        BY <1>0, <2>2, <1>b DEF ResumeDamaged, ResumeForeign, ResumeOwn
<1>4. CASE ResumeScrub(w)
    BY <1>0, <1>4, <1>b, <1>c, <1>d, Zenon DEF ResumeScrub
<1>5. CASE Drop(w)
    BY <1>0, <1>5, <1>b, <1>c, <1>e DEF Drop, Return, ScanPCs
<1>6. CASE Clear(w)
    BY <1>0, <1>6, <1>b, <1>c, <1>d, Zenon DEF Clear
<1>7. CASE promotePreparedDeletionCommit(w)
    BY <1>0, <1>7, <1>b, <1>c, <1>e DEF promotePreparedDeletionCommit, Return, ScanPCs
<1>8. CASE ListUsers(w)
    BY <1>0, <1>8, <1>b, <1>c, <1>e DEF ListUsers, ScanPCs
<1>9. CASE \E x \in ctl[w].seen : DeletePod(w, x)
    <2> PICK x \in ctl[w].seen : DeletePod(w, x)
        BY <1>9
    <2>1. c.pc = "deletePods" /\ (Move(w, [c EXCEPT !.seen = @ \ {x}]) \/ Move(w, Idle))
        BY <1>0 DEF DeletePod, Return
    <2>2. [c EXCEPT !.seen = @ \ {x}].pc = c.pc
        BY <1>a, Zenon DEF Local
    <2> QED
        BY <2>1, <2>2, <1>b, <1>c, Zenon DEF ScanPCs
<1>10. CASE ListRemaining(w)
    BY <1>0, <1>10, <1>b, <1>c, <1>e DEF ListRemaining, ScanPCs
<1>11. CASE DeletePVC(w)
    BY <1>0, <1>11, <1>d, <1>e DEF DeletePVC, ScanPCs
<1>12. CASE ConfirmGone(w)
    BY <1>0, <1>12, <1>b, <1>c, <1>e DEF ConfirmGone, ScanPCs
<1>13. CASE CleanupList(w) \/ CleanupPatch(w) \/ RemoveFinalizer(w)
    BY <1>0, <1>13, <1>b, <1>c, <1>d, <1>e DEF CleanupList, CleanupPatch, RemoveFinalizer, Return, ScanPCs
<1>14. CASE CheckDeps(w) \/ ScanNodes(w)
    <2>1. \A y : [c EXCEPT !.pc = "scanSnrs", !.nodeSeen = y].pc = "scanSnrs"
        BY <1>a, Zenon DEF Local
    <2>2. CASE CheckDeps(w)
        BY <1>0, <2>2, <1>b, <1>c, <1>e DEF CheckDeps, ScanPCs
    <2>3. CASE ScanNodes(w)
        <3>1. Move(w, [c EXCEPT !.pc = "scanSnrs", !.nodeSeen = node])
            BY <1>0, <2>3 DEF ScanNodes
        <3> QED
            BY <2>1, <3>1, <1>b, Zenon DEF ScanPCs
    <2> QED
        BY <1>14, <2>2, <2>3
<1>15. CASE ScanSnrs(w) \/ ScanPVC(w)
    <2>1. PICK X : Move(w, X)
        BY <1>15 DEF ScanSnrs, ScanPVC
    <2> QED
        BY <1>0, <1>15, <2>1, MoveFacts DEF Goal
<1>16. CASE ClearRecovered(w) \/ DropOrphanedConsent(w) \/ startRequest(w)
    BY <1>0, <1>16, <1>c, <1>d, Zenon DEF ClearRecovered, DropOrphanedConsent, startRequest
<1>17. CASE isRemediationPaused(w) \/ ListPods(w)
    BY <1>0, <1>17, <1>b, <1>c, <1>e DEF isRemediationPaused, ListPods, ScanPCs
<1>18. CASE createOrAdoptDeletionCommit(w)
    <2>1. \/ Move(w, At(c, "readCurrent")) \/ Move(w, Idle)
          \/ \E y : Move(w, AtRecord(c, "readCurrent", y)) \/ Move(w, AtRecord(c, "readAdopted", y))
        BY <1>0, <1>18, Zenon DEF createOrAdoptDeletionCommit, Return
    <2> QED
        BY <2>1, <1>b, <1>c, <1>e DEF ScanPCs
<1>19. CASE ReadAdopted(w) \/ Reread(w)
    BY <1>0, <1>19, <1>b, <1>c, <1>e DEF ReadAdopted, Reread, ResumeRead, ScanPCs
<1>20. CASE ReadCurrent(w) \/ ConfirmMark(w)
    BY <1>0, <1>20, <1>b, <1>c, <1>e DEF ReadCurrent, ConfirmMark, ScanPCs
<1>21. CASE Mark(w) \/ Finalize(w)
    BY <1>0, <1>21, <1>b, <1>e DEF Mark, Finalize, ConditionalWrite, ScanPCs
<1>22. CASE FenceSnr(w) \/ FenceNode(w) \/ ConfirmFinal(w)
    BY <1>0, <1>22, <1>b, <1>c, <1>e DEF FenceSnr, FenceNode, ConfirmFinal, rejectPreparedDeletionCommit, ScanPCs
<1> QED
    BY Zenon, <1>1, <1>2, <1>3, <1>4, <1>5, <1>6, <1>7, <1>8, <1>9, <1>10, <1>11, <1>12, <1>13, <1>14,
       <1>15, <1>16, <1>17, <1>18, <1>19, <1>20, <1>21, <1>22 DEF Step, Goal

\* Fencing evidence is not lost again: an SNR that fenced keeps its state but
\* for its removal, and its incarnation.
LEMMA FencingKept ==
    ASSUME IInv, Environment, NEW s, NEW uid, FencedBy(snrs, s, uid)
    PROVE  FencedBy(snrs', s, uid)
<1>1. snrs \in [SnrIds -> Snr]
    BY DEF IInv, TypeOK
<1>2. \/ snrs' = snrs
      \/ \E t \in SnrIds : SnrCreated(t) \/ SnrFences(t) \/ SnrRemoved(t)
    BY Zenon DEF Environment, NodeChanges, ConsentChanges, PodCreated, PodEvicted, PodGone, PodScheduled,
           PVCRemoved, PVCEdited, PVCCreated, CommitEdited, CRCreated, CRChanges, CacheSync, DepsChange
<1>3. ASSUME NEW t \in SnrIds, SnrCreated(t) PROVE FencedBy(snrs', s, uid)
    BY <1>1, <1>3 DEF SnrCreated, FencedBy, Snr
<1>4. ASSUME NEW t \in SnrIds, SnrFences(t) PROVE FencedBy(snrs', s, uid)
    BY <1>1, <1>4 DEF SnrFences, FencedBy, Snr
<1>5. ASSUME NEW t \in SnrIds, SnrRemoved(t) PROVE FencedBy(snrs', s, uid)
    <2> DEFINE new == IF snrs[t].st = "fenced" THEN "expired" ELSE "removed"
    <2>1. snrs[t].st \in {"remediating", "fenced"} /\ snrs' = [snrs EXCEPT ![t].st = new]
        BY <1>5 DEF SnrRemoved, activeSnrs
    <2>2. snrs[s].st = "fenced" => (t = s => new = "expired")
        OBVIOUS
    <2> HIDE DEF new
    <2> QED
        BY <1>1, <2>1, <2>2 DEF FencedBy, Snr
<1>6. CASE snrs' = snrs
    BY <1>6 DEF FencedBy
<1> QED
    BY <1>2, <1>3, <1>4, <1>5, <1>6

\* The SNR the scan accepts has finished fencing.
LEMMA FencedSnrFact ==
    ASSUME IInv, fencedSnr # 0
    PROVE  fencedSnr \in SnrIds /\ snrs[fencedSnr].st = "fenced"
<1>1. PICK s \in activeSnrs : activeSnrs = {s} /\ snrs[s].st = "fenced"
    BY DEF fencedSnr
<1>2. fencedSnr = s
    BY <1>1 DEF fencedSnr
<1> QED
    BY <1>1, <1>2 DEF activeSnrs

\* The scan's two steps keep the snapshot good.
LEMMA ScanKeeps ==
    ASSUME IInv, FenceInv, NEW w \in Workers, ScanSnrs(w) \/ ScanPVC(w)
    PROVE  SeenIsFenced(ctl'[w], snrs')
<1> DEFINE c == ctl[w]
<1>1. c \in Local /\ c.snrSeen \in Nat
    BY WorkerHolds
<1>2. snrs' = snrs
    BY DEF ScanSnrs, ScanPVC, ClusterUnchanged, apiVars
<1>3. \A s, uid : FencedBy(snrs, s, uid) <=> FencedBy(snrs', s, uid)
    BY <1>2 DEF FencedBy
<1>4. \A X : SeenIsFenced(X, snrs) <=> SeenIsFenced(X, snrs')
    BY <1>3, Zenon DEF SeenIsFenced
<1>5. CASE ScanSnrs(w)
    <2> DEFINE s == IF c.nodeSeen.st = "absent" \/ fencingMatchesNode(fencedSnr, c.nodeSeen)
                    THEN fencedSnr ELSE 0
    <2>1. ctl'[w] = AtSnr(c, "scanPVC", s)
        BY <1>5, MoveFacts, Zenon DEF ScanSnrs
    <2>2. s # 0 /\ c.nodeSeen.st # "absent" => FencedBy(snrs, s, c.nodeSeen.uid)
        BY FencedSnrFact DEF FencedBy, fencingMatchesNode
    <2>3. /\ AtSnr(c, "scanPVC", s).pc = "scanPVC" /\ AtSnr(c, "scanPVC", s).snrSeen = s
          /\ AtSnr(c, "scanPVC", s).nodeSeen = c.nodeSeen
        BY <1>1, Zenon DEF AtSnr, Local
    <2> HIDE DEF s
    <2> QED
        BY <1>4, <2>1, <2>2, <2>3, Zenon DEF SeenIsFenced
<1>6. CASE ScanPVC(w)
    <2>1. SeenIsFenced(c, snrs) /\ c.pc = "scanPVC"
        BY <1>6, Zenon DEF FenceInv, ScanPVC
    <2>2. Idle.pc = "idle" /\ SeenIsFenced(Idle, snrs)
        BY DEF Idle, SeenIsFenced
    <2>3. ASSUME NEW q, NEW p, q # "scanPVC", q = "startRequest" => c.snrSeen # 0 /\ c.nodeSeen.st # "absent"
          PROVE  SeenIsFenced(AtWith(c, q, p), snrs)
        <3> DEFINE X == AtWith(c, q, p)
        <3>1. X.pc = q /\ X.snrSeen = c.snrSeen /\ X.nodeSeen = c.nodeSeen
            BY <1>1, Zenon DEF AtWith, Local
        <3> HIDE DEF X
        <3>2. SeenIsFenced(X, snrs)
            BY <2>1, <2>3, <3>1 DEF SeenIsFenced
        <3> QED
            BY <3>2 DEF X
    <2>4. SeenIsFenced(processExistingPVCHandshake(c, pvc), snrs) /\ SeenIsFenced(processNewPVCHandshake(c, pvc), snrs)
        <3>1. c.nodeSeen.st \in {"ready", "notReady", "absent"}
            BY <1>1 DEF Local, Node
        <3> HIDE DEF c
        <3> QED
            BY <2>2, <2>3, <3>1, Zenon DEF processExistingPVCHandshake, processNewPVCHandshake
    <2>5. PICK X : Move(w, X) /\ SeenIsFenced(X, snrs)
        BY <1>6, <2>2, <2>4 DEF ScanPVC
    <2> QED
        BY <1>4, <2>5, MoveFacts
<1> QED
    BY <1>5, <1>6

\* Every step keeps requests and snapshots fenced.
LEMMA FenceStep ==
    ASSUME IInv, FenceInv, [Next]_vars
    PROVE  FenceInv'
<1>1. CASE UNCHANGED vars
    BY <1>1, Zenon DEF vars, FenceInv, RequestIsFenced, SeenIsFenced, FencedBy
<1>2. CASE Environment
    <2>1. \A X : SeenIsFenced(X, snrs) => SeenIsFenced(X, snrs')
        BY <1>2, FencingKept DEF SeenIsFenced
    <2>2. RequestIsFenced'
        BY <1>2, FencingKept, EnvironmentRequests DEF FenceInv, RequestIsFenced
    <2>3. ctl' = ctl
        BY <1>2, EnvironmentChanges
    <2> QED
        BY <2>1, <2>2, <2>3, Zenon DEF FenceInv
<1>3. ASSUME snrs' = snrs PROVE \A s, uid : FencedBy(snrs, s, uid) <=> FencedBy(snrs', s, uid)
    BY <1>3 DEF FencedBy
<1>4. ASSUME NEW w \in Workers, Step(w) PROVE FenceInv'
    <2>1. snrs' = snrs
        BY <1>4, RequestChanges
    <2>2. \A X : SeenIsFenced(X, snrs) <=> SeenIsFenced(X, snrs')
        BY <1>3, <2>1, Zenon DEF SeenIsFenced
    <2>3. RequestIsFenced'
        BY <1>3, <1>4, <2>1, RequestChanges DEF FenceInv, RequestIsFenced, SeenIsFenced
    <2>4. ASSUME NEW v \in Workers PROVE SeenIsFenced(ctl'[v], snrs')
        <3>1. CASE ctl' = ctl \/ v # w
            BY <1>4, <2>2, <3>1, ScanPlaces DEF FenceInv
        <3>2. CASE ScanSnrs(w) \/ ScanPVC(w)
            BY <1>4, <2>2, <3>1, <3>2, ScanKeeps
        <3>3. CASE ctl' # ctl /\ v = w /\ ~(ScanSnrs(w) \/ ScanPVC(w))
            <4>1. ctl'[v].pc \notin ScanPCs
                BY <1>4, <3>3, ScanPlaces
            <4>2. SeenIsFenced(ctl'[v], snrs)
                BY <4>1 DEF ScanPCs, SeenIsFenced
            <4> QED
                BY <2>2, <4>2
        <3> QED
            BY <3>1, <3>2, <3>3
    <2> QED
        BY <2>3, <2>4 DEF FenceInv
<1>5. ASSUME NEW w \in Workers, Crash(w) PROVE FenceInv'
    <2>1. snrs' = snrs /\ pvc' = pvc /\ Move(w, Idle)
        BY <1>5 DEF Crash, Return, apiVars
    <2>2. \A X : SeenIsFenced(X, snrs) <=> SeenIsFenced(X, snrs')
        BY <1>3, <2>1, Zenon DEF SeenIsFenced
    <2>3. SeenIsFenced(Idle, snrs)
        BY DEF Idle, SeenIsFenced
    <2>4. RequestIsFenced'
        BY <1>3, <2>1 DEF FenceInv, RequestIsFenced
    <2>5. \A v \in Workers : SeenIsFenced(ctl'[v], snrs)
        BY <2>1, <2>3, MoveFacts DEF FenceInv
    <2> QED
        BY <2>2, <2>4, <2>5 DEF FenceInv
<1> QED
    BY <1>1, <1>2, <1>4, <1>5 DEF Next
===============================================================================
