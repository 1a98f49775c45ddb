------------------------- MODULE PodRemediatorProofs --------------------------
(***************************************************************************)
(* The theorems about PodRemediator, for any number of workers,            *)
(* PodRemediators, claim incarnations, pods and environment events; the last*)
(* two are about one worker at a time.  Each rests on the invariant IInv of*)
(* PodRemediatorInvariantProofs, and where a sharper one is needed, on that*)
(* one and the lemma that every step keeps it.                             *)
(***************************************************************************)
EXTENDS PodRemediatorInvariantProofs, PodRemediatorRecordProofs, PodRemediatorFinalizerProofs

---------------------------------------------------------------------------
(* Theorems                                                                 *)

\* Every object the controller stores, and every local copy, keeps its type:
\* no annotation is written with another's value, tokens and UIDs stay numbers.
THEOREM TypeCorrect == Spec => []TypeOK
<1>1. IInv => TypeOK
    BY Zenon DEF IInv
<1>2. QED
    BY <1>1, InductiveInvariant, PTL

\* Only pods on the record of a transaction that crossed the commit boundary
\* are force-deleted by resumeCommittedPVCDeletion, for any number of workers,
\* crashes, retries, replaced claims and replaced pods.
THEOREM OnlyRecordedPodsAreKilled == Spec => []OnlyRecordedPodsKilled
<1>1. IInv => OnlyRecordedPodsKilled
    BY Zenon DEF IInv
<1>2. QED
    BY <1>1, InductiveInvariant, PTL

\* The finalized token that finalizePreparedDeletionCommit writes never turns
\* up on a claim whose deletion was not committed.
THEOREM TokensAreGrants == Spec => []TokenMeansGrant
<1>1. IInv => TokenMeansGrant
    BY ZenonT(40) DEF IInv, Snap, HasGrant, TokenMeansGrant
<1>2. QED
    BY <1>1, InductiveInvariant, PTL

\* Consent that was withdrawn before the finalized token is written prevents
\* the commit: the conditional patch of finalizePreparedDeletionCommit goes
\* through only on the very version whose consent was checked.
THEOREM CommitsRestOnConsent == Spec => ConsentAtCommit
<1> DEFINE A == \A g \in granted' \ granted :
                   pvc.uid = g.pvc /\ pvcDeletionConsentMatches(pvc, g.owner, g.req)
<1>1. IInv /\ [Next]_vars => A
    <2> SUFFICES ASSUME IInv, [Next]_vars, NEW g \in granted' \ granted
                 PROVE  pvc.uid = g.pvc /\ pvcDeletionConsentMatches(pvc, g.owner, g.req)
        OBVIOUS
    <2>1. PICK w \in Workers : Finalize(w)
        BY Zenon, StepEffects, EnvironmentEffects, CrashEffects DEF Next, vars
    <2>2. g = ctl[w].cmt /\ pvc.uid # 0 /\ pvc.rv = ctl[w].cur.rv
        BY ZenonT(40), <2>1 DEF Finalize
    <2>3. /\ preparedCommitMatchesPVC(ctl[w].cur, ctl[w].cmt)
          /\ pvcDeletionConsentMatches(ctl[w].cur, ctl[w].cmt.owner, ctl[w].cmt.req)
          /\ Snap(ctl[w].cur, pvc, rev, granted)
        BY <2>1, ZenonT(40) DEF IInv, LocalOK, Finalize
    <2>4. ctl[w].cur = pvc
        BY Zenon, <2>2, <2>3 DEF Snap
    <2>5. QED
        BY ZenonT(40), <2>2, <2>3, <2>4 DEF preparedCommitMatchesPVC
<1>2. QED
    BY <1>1, InductiveInvariant, PTL DEF Spec, ConsentAtCommit

\* The pods that resumeCommittedPVCDeletion force-deletes are never on another
\* node: the deletion is bound to the version of the pod it looked at.
THEOREM PodsElsewhereAreSafe == Spec => NeverKillsElsewhere
<1> DEFINE A == \A p \in PodIds : pods[p].st # "forced" /\ pods'[p].st = "forced"
                                     => pods[p].loc # "elsewhere"
<1>1. IInv /\ [Next]_vars => A
    <2> SUFFICES ASSUME IInv, [Next]_vars, NEW p \in PodIds,
                        pods[p].st # "forced", pods'[p].st = "forced"
                 PROVE  pods[p].loc # "elsewhere"
        OBVIOUS
    <2>1. PICK w \in Workers : \E x \in ctl[w].seen : DeletePod(w, x)
        BY Zenon, StepEffects, EnvironmentEffects, CrashEffects DEF Next, vars
    <2>2. PICK x \in ctl[w].seen : DeletePod(w, x)
        BY <2>1, Zenon
    <2>3. x[2].loc # "elsewhere"
        BY <2>2, ZenonT(40) DEF IInv, LocalOK, DeletePod
    <2>4. pods[x[1]] = x[2] /\ pods' = [pods EXCEPT ![x[1]].st = "forced"]
        BY <2>2, Zenon DEF DeletePod
    <2>5. pods \in [PodIds -> Pod]
        BY Zenon DEF IInv, TypeOK
    <2>6. p = x[1]
        BY <2>4, <2>5, Zenon
    <2>7. QED
        BY <2>3, <2>4, <2>6, Zenon
<1>2. QED
    BY <1>1, InductiveInvariant, PTL DEF Spec, NeverKillsElsewhere

\* The claim is deleted only under its own granted record and after every pod
\* of that record is gone, although the record, the pods and the claim were
\* read in different API calls.
THEOREM ClaimsGoLast == Spec => DeletedAfterRelease
<1> DEFINE A == \A w \in Workers :
                   ctl[w].pc = "deletePVC" /\ ctl'[w].pc = "confirmGone" /\ pvc.uid # 0
                      => \E g \in granted : /\ g.pvc = pvc.uid /\ g.token = pvc.final
                                            /\ \A p \in g.pods : pods[p].st = "gone"
<1>1. IInv /\ [Next]_vars => A
    <2> SUFFICES ASSUME IInv, [Next]_vars, NEW w \in Workers, ctl[w].pc = "deletePVC",
                        ctl'[w].pc = "confirmGone", pvc.uid # 0
                 PROVE  \E g \in granted : /\ g.pvc = pvc.uid /\ g.token = pvc.final
                                           /\ \A p \in g.pods : pods[p].st = "gone"
        BY Zenon
    <2>1. ctl \in [Workers -> Local]
        BY ZenonT(40) DEF IInv, TypeOK
    <2>2. ~UNCHANGED vars /\ ~Environment
        BY Zenon, EnvironmentEffects DEF vars
    <2>3. PICK v \in Workers : Step(v) \/ Crash(v)
        BY <2>2 DEF Next
    <2>4. \E X : Move(v, X)
        BY Zenon, <2>3, StepEffects, CrashEffects
    <2>5. v = w
        BY <2>1, <2>4, Zenon DEF Move
    <2>6. ~Crash(w)
        BY <2>1, CrashEffects DEF Move, Idle
    <2>7. DeletePVC(w)
        BY Zenon, <2>3, <2>5, <2>6, StepEffects
    <2>8. pvc.rv = ctl[w].cur.rv
        BY <2>1, <2>7 DEF DeletePVC, PatchPVC, Return, Move, Idle
    <2>9. /\ Snap(ctl[w].cur, pvc, rev, granted) /\ finalizedCommitMatchesPVC(ctl[w].cur, ctl[w].cmt)
          /\ HasGrant(granted, ctl[w].cmt.pvc, ctl[w].cmt.token)
          /\ \A p \in ctl[w].cmt.pods : pods[p].st = "gone"
        BY ZenonT(40) DEF IInv, LocalOK, CleanupPCs
    <2>10. pvc.uid = ctl[w].cmt.pvc /\ pvc.final = ctl[w].cmt.token
        BY ZenonT(40), <2>8, <2>9 DEF Snap, finalizedCommitMatchesPVC, preparedCommitMatchesPVC
    <2>11. PICK g \in granted : g.pvc = ctl[w].cmt.pvc /\ g.token = ctl[w].cmt.token
        BY ZenonT(40), <2>9 DEF HasGrant
    <2>12. g.pods = ctl[w].cmt.pods
        BY ZenonT(40), <2>11, RecordsMembers DEF IInv, RecordsOK
    <2>13. QED
        BY Zenon, <2>9, <2>10, <2>11, <2>12
<1>2. QED
    BY <1>1, InductiveInvariant, PTL DEF Spec, DeletedAfterRelease

\* A deletion is committed only on a request that an SNR which really finished
\* fencing stands behind, and it fenced the very node incarnation recorded on
\* the claim: the scan reads the Node, the SNRs and the claim in different
\* calls, and the SNR or the Node may be gone by the time of the commit.
THEOREM CommitsRestOnFencing == Spec => FencedBeforeCommit
<1> DEFINE A == \A g \in granted' \ granted :
                   /\ snrs[g.req.snr].st \in {"fenced", "expired"}
                   /\ snrs[g.req.snr].born = pvc.nodeUID
<1>1. Init => FenceInv
    <2> SUFFICES ASSUME Init PROVE FenceInv
        OBVIOUS
    <2>1. pvc.req = NoRequest
        BY DEF Init, BarePVC
    <2>2. \A w \in Workers : ctl[w] = Idle
        BY Zenon DEF Init
    <2>3. SeenIsFenced(Idle, snrs)
        BY Zenon DEF Idle, SeenIsFenced
    <2> QED
        BY <2>1, <2>2, <2>3, Zenon DEF FenceInv, RequestIsFenced
<1>2. IInv /\ FenceInv /\ [Next]_vars => A
    <2> SUFFICES ASSUME IInv, FenceInv, [Next]_vars, NEW g \in granted' \ granted
                 PROVE  /\ snrs[g.req.snr].st \in {"fenced", "expired"}
                        /\ snrs[g.req.snr].born = pvc.nodeUID
        OBVIOUS
    <2>1. PICK w \in Workers : Finalize(w)
        BY Zenon, StepEffects, EnvironmentEffects, CrashEffects DEF Next, vars
    <2>2. g = ctl[w].cmt /\ pvc.uid # 0 /\ pvc.rv = ctl[w].cur.rv
        BY ZenonT(40), <2>1 DEF Finalize
    <2>3. /\ pvcDeletionConsentMatches(ctl[w].cur, ctl[w].cmt.owner, ctl[w].cmt.req)
          /\ Snap(ctl[w].cur, pvc, rev, granted)
        BY <2>1, ZenonT(40) DEF IInv, LocalOK, Finalize
    <2>4. ctl[w].cur = pvc
        BY Zenon, <2>2, <2>3 DEF Snap
    <2>5. pvc.req = g.req /\ pvc.req # NoRequest
        BY <2>2, <2>3, <2>4, Zenon DEF pvcDeletionConsentMatches, HasRemediationConsent
    <2> QED
        BY <2>5, Zenon DEF FenceInv, RequestIsFenced, FencedBy
<1>3. IInv /\ FenceInv /\ [Next]_vars => FenceInv'
    BY FenceStep
<1>4. QED
    BY <1>1, <1>2, <1>3, InductiveInvariant, PTL DEF Spec, FencedBeforeCommit

\* While one leader reconciles and nobody else deletes or edits the claim or
\* its record, a deletion that resumeCommittedPVCDeletion asked for keeps its
\* committed record until the claim is gone, whatever crashes in between: no
\* path that drops a record is reached while its claim is being deleted.
THEOREM RecordsOutliveDeletions ==
    ASSUME OneWorker, NoForeignEdits
    PROVE  Spec => []RecordOutlivesDeletion
<1>1. Init => DelInv
    BY DelInit
<1>2. IInv /\ DelInv /\ [Next]_vars => DelInv'
    BY DelStep, Zenon
<1>3. DelInv => RecordOutlivesDeletion
    BY DEF DelInv, Recorded, RecordOutlivesDeletion
<1>4. QED
    BY <1>1, <1>2, <1>3, InductiveInvariant, PTL DEF Spec

\* While one leader reconciles, reconcileDelete removes the finalizer of a
\* PodRemediator only after its requests are cleared and its usable records
\* are resolved, whatever crashes, edits and stale cache reads come between:
\* one that is gone has left none of either behind, and none appears later.
THEOREM FinalizerGuardsCleanup ==
    ASSUME OneWorker
    PROVE  Spec => []FinalizerHeldUntilClean
<1>1. Init => FinInv
    BY FinInit
<1>2. IInv /\ FinInv /\ [Next]_vars => FinInv'
    BY FinStep, Zenon
<1>3. IInv /\ FinInv => FinalizerHeldUntilClean
    <2> SUFFICES ASSUME IInv, FinInv, NEW r \in Remediators, crs[r].st = "gone"
                 PROVE  /\ pvc.req.cr # r
                        /\ \A u \in PVCIds : commits[u].owner = r => commits[u].phase = "damaged"
        BY Zenon DEF FinalizerHeldUntilClean
    <2>1. Clean(r, pvc.req, commits)
        BY Zenon DEF FinInv, ResourcesOK
    <2>2. \A u \in PVCIds : commits[u].phase \in {"absent", "damaged", "prepared", "committed"}
        BY Zenon DEF IInv, TypeOK, Commit
    <2>3. \A u \in PVCIds : commits[u].phase = "absent" => commits[u].owner # r
        BY Nothing DEF FinInv, RecordsNamed
    <2> QED
        BY <2>1, <2>2, <2>3, Zenon DEF Clean, Owned
<1>4. QED
    BY <1>1, <1>2, <1>3, InductiveInvariant, PTL DEF Spec
===============================================================================
