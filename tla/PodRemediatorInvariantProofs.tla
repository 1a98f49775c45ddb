--------------------- MODULE PodRemediatorInvariantProofs ---------------------
(***************************************************************************)
(* IInv is an invariant, for any number of workers, PodRemediators, claim  *)
(* incarnations, pods and environment events: one lemma per action, resting*)
(* on what a step preserves whoever takes it.                              *)
(***************************************************************************)
EXTENDS PodRemediatorInvariants, TLAPS

---------------------------------------------------------------------------
(* What the invariant says of a worker                                      *)

\* Membership in Records, spelled out.
LEMMA RecordsMembers ==
    ASSUME NEW a
    PROVE  a \in Records <=> \/ a = NoCommit \/ a \in granted
                             \/ \E u \in PVCIds : a = commits[u]
                             \/ \E w \in Workers : a = ctl[w].cmt \/ a \in ctl[w].todo
BY Zenon DEF Records

\* A local state a worker may move to.
Good(X) ==
    /\ X \in Local /\ X.cmt \in Records /\ X.todo \subseteq Records
    /\ LocalOK(X, pvc, rev, granted, pods)

\* What is known of a worker's local state.
LEMMA WorkerGood ==
    ASSUME IInv, NEW w \in Workers
    PROVE  Good(ctl[w])
BY RecordsMembers DEF IInv, TypeOK, Good

\* The fields of a good local state, and their types.
LEMMA GoodFields ==
    ASSUME NEW X, Good(X)
    PROVE  /\ X \in Local /\ X.cmt \in Records /\ X.todo \subseteq Records
           /\ NoCommit \notin X.todo
           /\ Snap(X.cur, pvc, rev, granted) /\ Snap(X.listed, pvc, rev, granted)
           /\ X.pc \in PCs /\ X.stage \in {"resume", "scan"} /\ X.me \in Owner /\ X.inst \in CR
           /\ X.listed \in PVC /\ X.todo \subseteq Commit /\ X.active \subseteq Nat
           /\ X.held \subseteq Nat /\ X.aborted \subseteq Nat /\ X.cur \in PVC
           /\ X.cmt \in Commit /\ X.seen \subseteq Nat \X Pod /\ X.nodeSeen \in Node
           /\ X.snrSeen \in Nat
BY DEF Good, LocalOK, Local

\* Annotations are cleared: still a claim, the same one, with no new token.
LEMMA ClearedPVC ==
    ASSUME NEW p \in PVC
    PROVE  /\ clearRemediationAnnotations(p) \in PVC /\ clearAllAnnotations(p) \in PVC
           /\ clearRemediationAnnotations(p).uid = p.uid /\ clearAllAnnotations(p).uid = p.uid
           /\ clearRemediationAnnotations(p).final = p.final /\ clearAllAnnotations(p).final = 0
<1>1. NoRequest \in Request /\ NoRemediator \in Owner
    BY DEF NoRequest, Request, Owner
<1> DEFINE a == clearRemediationAnnotations(p)
           b == clearAllAnnotations(p)
<1>2. a \in PVC
    BY <1>1, Zenon DEF PVC, clearRemediationAnnotations
<1>3. a.uid = p.uid /\ a.final = p.final
    BY DEF PVC, clearRemediationAnnotations
<1>4. b \in PVC
    <2>1. 0 \in Nat
        OBVIOUS
    <2>2. [a EXCEPT !.marker = NoRemediator, !.token = 0, !.final = 0] \in PVC
        <3> HIDE DEF a
        <3> QED
            BY <1>1, <1>2, <2>1, Zenon DEF PVC
    <2>3. QED
        BY <2>2 DEF clearAllAnnotations
<1>5. b.uid = a.uid /\ b.final = 0
    <2> HIDE DEF a
    <2> QED
        BY <1>2 DEF PVC, clearAllAnnotations, a
<1>6. QED
    BY <1>2, <1>3, <1>4, <1>5

---------------------------------------------------------------------------
(* What every step preserves, whoever takes it                              *)

\* The claim only takes fresh versions, grants are never revoked, and pods
\* neither come back nor are un-created.
ClusterStep ==
    /\ \/ pvc' = pvc /\ rev' = rev
       \/ pvc'.uid = 0 /\ pvc'.rv = 0 /\ rev' = rev
       \/ pvc'.rv = rev + 1 /\ rev' = rev + 1
    /\ Snap(pvc', pvc', rev', granted')
    /\ granted \subseteq granted'
    /\ \A p \in PodIds : /\ pods[p].st = "gone" => pods'[p].st = "gone"
                         /\ pods[p].st # "none" => pods'[p].st # "none"

\* A record that differs from a known one in its phase at most.
Kept(a) ==
    \/ a \in Records
    \/ a.token # 0 /\ \E b \in Records : a.token = b.token /\ a.pods = b.pods

\* The same, for the records after the step.
LEMMA NewRecordsMembers ==
    ASSUME NEW a
    PROVE  a \in Records' <=> \/ a = NoCommit \/ a \in granted'
                              \/ \E u \in PVCIds : a = commits'[u]
                              \/ \E w \in Workers : a = ctl'[w].cmt \/ a \in ctl'[w].todo
BY Zenon DEF Records, NoCommit, NoRequest, PVCIds

\* A snapshot stays one when the claim takes a fresh version or disappears.
LEMMA SnapStable ==
    ASSUME IInv, ClusterStep, NEW p \in PVC, Snap(p, pvc, rev, granted)
    PROVE  Snap(p, pvc', rev', granted')
<1>1. rev \in Nat /\ p.rv \in Nat
    BY DEF IInv, TypeOK, PVC
<1>2. p.rv <= rev' /\ (pvc'.uid # 0 /\ p.rv = pvc'.rv => p = pvc')
    BY <1>1 DEF Snap, ClusterStep
<1>3. p.final # 0 => HasGrant(granted', p.uid, p.final)
    BY DEF Snap, ClusterStep, HasGrant
<1>4. QED
    BY <1>2, <1>3 DEF Snap

\* So does everything else a worker relies on.
LEMMA LocalStable ==
    ASSUME IInv, ClusterStep, NEW c \in Local, c.cmt \in Records,
           LocalOK(c, pvc, rev, granted, pods)
    PROVE  LocalOK(c, pvc', rev', granted', pods')
<1>1. c.cur \in PVC /\ c.listed \in PVC
    BY DEF Local
<1>2. Snap(c.cur, pvc', rev', granted') /\ Snap(c.listed, pvc', rev', granted')
    BY <1>1, SnapStable DEF LocalOK
<1>3. HasGrant(granted, c.cmt.pvc, c.cmt.token) => HasGrant(granted', c.cmt.pvc, c.cmt.token)
    BY DEF ClusterStep, HasGrant
<1>4. (\A p \in c.cmt.pods : pods[p].st = "gone") => \A p \in c.cmt.pods : pods'[p].st = "gone"
    BY DEF IInv, RecordsOK, ClusterStep
<1>5. QED
    BY <1>2, <1>3, <1>4 DEF LocalOK

\* Records that are kept stay consistent.
LEMMA RecordsStable ==
    ASSUME IInv, ClusterStep, lastToken' = lastToken, \A a \in Records' : Kept(a)
    PROVE  RecordsOK'
<1>1. \A a \in Records' : \E b \in Records : a.token = b.token /\ a.pods = b.pods
    BY DEF Kept
<1>2. \A a, b \in Records' : a.token = b.token => a.pods = b.pods
    BY <1>1 DEF IInv, RecordsOK
<1>3. \A a \in Records' : a = NoCommit \/ a.token # 0
    BY DEF IInv, RecordsOK, Kept
<1>4. \A a \in Records' : a.token <= lastToken
    BY <1>1 DEF IInv, RecordsOK
<1>5. \A a \in Records' : \A p \in a.pods : p \in PodIds /\ pods'[p].st # "none"
    BY <1>1 DEF IInv, RecordsOK, ClusterStep
<1>6. QED
    BY <1>2, <1>3, <1>4, <1>5 DEF RecordsOK, NoCommit, NoRequest, PodIds

\* One worker moves to local state X while the cluster takes a step.
LEMMA WorkerStep ==
    ASSUME IInv, TypeOK', ClusterStep, OnlyRecordedPodsKilled', lastToken' = lastToken,
           NEW w \in Workers, NEW X \in Local, Move(w, X), Kept(X.cmt), X.todo \subseteq Records,
           LocalOK(X, pvc', rev', granted', pods'),
           \A u \in PVCIds : Kept(commits'[u]), \A g \in granted' : Kept(g)
    PROVE  IInv'
<1>1. ctl'[w] = X /\ \A v \in Workers : v # w => ctl'[v] = ctl[v]
    BY DEF Move, IInv, TypeOK
<1>2. \A a \in Records' : Kept(a)
    <2> SUFFICES ASSUME NEW a \in Records' PROVE Kept(a)
        OBVIOUS
    <2>1. CASE a = NoCommit
        BY <2>1, RecordsMembers DEF Kept
    <2>2. CASE a \in granted' \/ \E u \in PVCIds : a = commits'[u]
        BY <2>2
    <2>3. CASE \E v \in Workers : a = ctl'[v].cmt \/ a \in ctl'[v].todo
        <3> PICK v \in Workers : a = ctl'[v].cmt \/ a \in ctl'[v].todo
            BY <2>3
        <3>1. CASE v = w
            BY <3>1, <1>1 DEF Kept
        <3>2. CASE v # w
            BY <3>2, <1>1, RecordsMembers DEF Kept
        <3>3. QED
            BY <3>1, <3>2
    <2>4. QED
        BY <2>1, <2>2, <2>3, NewRecordsMembers
<1>3. \A v \in Workers : LocalOK(ctl'[v], pvc', rev', granted', pods')
    <2> SUFFICES ASSUME NEW v \in Workers PROVE LocalOK(ctl'[v], pvc', rev', granted', pods')
        OBVIOUS
    <2>1. CASE v = w
        BY <2>1, <1>1
    <2>2. CASE v # w
        <3>1. ctl[v] \in Local /\ ctl[v].cmt \in Records
            BY RecordsMembers DEF IInv, TypeOK
        <3>2. LocalOK(ctl[v], pvc, rev, granted, pods)
            BY DEF IInv
        <3>3. QED
            BY <2>2, <1>1, <3>1, <3>2, LocalStable, Zenon
    <2>3. QED
        BY <2>1, <2>2
<1>4. RecordsOK'
    BY <1>2, RecordsStable, Zenon
<1>5. Snap(pvc', pvc', rev', granted')
    BY Zenon DEF ClusterStep
<1>6. pvc'.uid # 0 => pvc'.rv # 0
    BY DEF ClusterStep, IInv, TypeOK
<1>7. QED
    BY <1>3, <1>4, <1>5, <1>6 DEF IInv

\* A worker that is idle relies on nothing.
LEMMA IdleOK ==
    ASSUME IInv
    PROVE  /\ Idle \in Local /\ Idle.cmt \in Records /\ Idle.todo \subseteq Records
           /\ LocalOK(Idle, pvc, rev, granted, pods)
<1>1. NoRequest \in Request /\ NoRequest.cr = NoRemediator
    BY DEF NoRequest, Request, Owner
<1>2. NoPVC \in PVC /\ NoPVC.rv = 0 /\ NoPVC.final = 0
    BY <1>1, ClusterAssumptions DEF NoPVC, BarePVC, PVC, Owner
<1>3. NoCommit \in Commit
    BY <1>1 DEF NoCommit, Commit, Owner
<1>4. Idle \in Local
    BY <1>2, <1>3 DEF Idle, Local, PCs, CR, Node, Owner
<1>5. Idle.pc = "idle" /\ Idle.cur = NoPVC /\ Idle.listed = NoPVC /\ Idle.cmt = NoCommit
          /\ Idle.todo = {}
    BY DEF Idle
<1>6. Snap(NoPVC, pvc, rev, granted)
    BY <1>2 DEF Snap, IInv, TypeOK
<1>7. LocalOK(Idle, pvc, rev, granted, pods)
    BY <1>5, <1>6 DEF LocalOK, CommitPCs, CleanupPCs
<1>8. QED
    BY <1>4, <1>5, <1>7, RecordsMembers

\* The worker only reads, or returns.
LEMMA LocalStep ==
    ASSUME IInv, NEW w \in Workers, NEW X \in Local, Move(w, X), ClusterUnchanged,
           Kept(X.cmt), X.todo \subseteq Records, LocalOK(X, pvc, rev, granted, pods)
    PROVE  IInv'
<1>1. TypeOK'
    BY Zenon DEF IInv, TypeOK, Move, ClusterUnchanged, apiVars, histVars
<1>2. ClusterStep
    BY DEF IInv, ClusterUnchanged, apiVars, histVars, ClusterStep
<1>3. OnlyRecordedPodsKilled'
    BY DEF IInv, OnlyRecordedPodsKilled, ClusterUnchanged, histVars
<1>4. (\A u \in PVCIds : Kept(commits'[u])) /\ \A g \in granted' : Kept(g)
    BY RecordsMembers, Zenon DEF Kept, ClusterUnchanged, apiVars, histVars
<1>5. LocalOK(X, pvc', rev', granted', pods')
    BY DEF ClusterUnchanged, apiVars, histVars
<1>6. lastToken' = lastToken
    BY DEF ClusterUnchanged
<1>7. QED
    BY <1>1, <1>2, <1>3, <1>4, <1>5, <1>6, WorkerStep, Zenon

\* The worker writes or deletes a commit record.
LEMMA CommitsStep ==
    ASSUME IInv, NEW w \in Workers, NEW X \in Local, Move(w, X), OnlyCommits,
           commits' \in [PVCIds -> Commit], \A u \in PVCIds : Kept(commits'[u]),
           Kept(X.cmt), X.todo \subseteq Records, LocalOK(X, pvc, rev, granted, pods)
    PROVE  IInv'
<1>1. TypeOK'
    BY Zenon DEF IInv, TypeOK, Move, OnlyCommits
<1>2. ClusterStep
    BY DEF IInv, OnlyCommits, ClusterStep
<1>3. OnlyRecordedPodsKilled'
    BY DEF IInv, OnlyRecordedPodsKilled, OnlyCommits
<1>4. \A g \in granted' : Kept(g)
    BY RecordsMembers DEF Kept, OnlyCommits
<1>5. LocalOK(X, pvc', rev', granted', pods')
    BY DEF OnlyCommits
<1>6. lastToken' = lastToken
    BY DEF OnlyCommits
<1>7. QED
    BY <1>1, <1>2, <1>3, <1>4, <1>5, <1>6, WorkerStep, Zenon

\* A claim written from new.
LEMMA WriteStep ==
    ASSUME IInv, NEW new \in PVC, WritePVC(new), granted \subseteq granted', UNCHANGED pods,
           new.final # 0 => HasGrant(granted', new.uid, new.final)
    PROVE  ClusterStep /\ pvc' \in PVC /\ rev' \in Nat
<1>1. rev \in Nat /\ rev' = rev + 1 /\ pvc' = [new EXCEPT !.rv = rev + 1]
    BY DEF IInv, TypeOK, WritePVC
<1>2. pvc' \in PVC
    BY <1>1 DEF PVC
<1>3. pvc'.rv = rev + 1 /\ pvc'.final = new.final /\ pvc'.uid = new.uid
    BY <1>1 DEF PVC
<1>4. Snap(pvc', pvc', rev', granted')
    BY <1>1, <1>3 DEF Snap
<1>5. QED
    BY <1>1, <1>2, <1>3, <1>4 DEF ClusterStep

\* The worker patches the claim under the lock of its copy p.
LEMMA PatchStep ==
    ASSUME IInv, NEW w \in Workers, NEW p \in PVC, NEW new \in PVC, NEW X \in Local,
           PatchPVC(w, p, new, X), Snap(p, pvc, rev, granted),
           new.uid = p.uid, new.final \in {0, p.final},
           X.cmt \in Records, X.todo \subseteq Records,
           LocalOK(X, pvc, rev, granted, pods)
    PROVE  IInv'
<1>1. UNCHANGED <<lastPVC, commits, pods, node, snrs, deps, crs, cache, lastToken, killed,
                  budget, granted>>
    BY DEF PatchPVC, OnlyPVC
<1>2. (\A u \in PVCIds : Kept(commits'[u])) /\ \A g \in granted' : Kept(g)
    BY <1>1, RecordsMembers, Zenon DEF Kept
<1>3. OnlyRecordedPodsKilled'
    BY <1>1, Zenon DEF IInv, OnlyRecordedPodsKilled
<1>4. ClusterStep /\ pvc' \in PVC /\ rev' \in Nat
    <2>1. CASE UNCHANGED <<pvc, rev>>
        BY ZenonT(40), <2>1, <1>1 DEF IInv, TypeOK, ClusterStep
    <2>2. CASE pvc.uid # 0 /\ pvc.rv = p.rv /\ WritePVC(new)
        BY ZenonT(40), <2>2, <1>1, WriteStep DEF Snap
    <2>3. QED
        BY <2>1, <2>2 DEF PatchPVC
<1>5. ASSUME NEW Y \in Local, Move(w, Y), Y.cmt \in Records, Y.todo \subseteq Records,
             LocalOK(Y, pvc, rev, granted, pods)
      PROVE  IInv'
    <2>1. TypeOK'
        BY <1>1, <1>4, <1>5, Zenon DEF IInv, TypeOK, Move
    <2>2. LocalOK(Y, pvc', rev', granted', pods')
        BY <1>4, <1>5, LocalStable
    <2>3. QED
        BY <1>1, <1>2, <1>3, <1>4, <1>5, <2>1, <2>2, WorkerStep, Zenon DEF Kept
<1>6. CASE Move(w, X)
    BY <1>5, <1>6
<1>7. CASE Move(w, Idle)
    BY <1>5, <1>7, IdleOK, Zenon
<1>8. QED
    BY <1>6, <1>7, Zenon DEF PatchPVC, Return

QuietPCs == PCs \ (CommitPCs \union {"checkPause", "listPods"})

\* Where nothing was checked, only the copies matter.
LEMMA QuietGood ==
    ASSUME NEW X \in Local, X.pc \in QuietPCs, X.cmt \in Records, X.todo \subseteq Records,
           NoCommit \notin X.todo, Snap(X.cur, pvc, rev, granted),
           Snap(X.listed, pvc, rev, granted)
    PROVE  Good(X)
BY DEF Good, LocalOK, QuietPCs, CommitPCs, CleanupPCs

\* The cluster is as in the copy just read.
LEMMA PVCGood ==
    ASSUME IInv
    PROVE  pvc \in PVC /\ Snap(pvc, pvc, rev, granted)
BY DEF IInv, TypeOK

\* A worker may always return.
LEMMA IdleGood ==
    ASSUME IInv
    PROVE  Good(Idle)
BY IdleOK, Zenon DEF Good

\* A worker that only reads may move to any good local state.
LEMMA GoodMove ==
    ASSUME IInv, NEW w \in Workers, NEW X, Good(X), Move(w, X), ClusterUnchanged
    PROVE  IInv'
BY LocalStep DEF Good, Kept

\* So may one that writes or deletes commit records known before.
LEMMA GoodCommits ==
    ASSUME IInv, NEW w \in Workers, NEW X, Good(X), Move(w, X), OnlyCommits,
           commits' \in [PVCIds -> Commit], \A u \in PVCIds : Kept(commits'[u])
    PROVE  IInv'
BY CommitsStep, Zenon DEF Good, Kept

\* So may one that patches the claim without bringing in a token.
LEMMA GoodPatch ==
    ASSUME IInv, NEW w \in Workers, NEW p \in PVC, NEW new \in PVC, NEW X, Good(X),
           PatchPVC(w, p, new, X), Snap(p, pvc, rev, granted),
           new.uid = p.uid, new.final \in {0, p.final}
    PROVE  IInv'
BY PatchStep DEF Good

\* The commit at hand may always be put aside.
LEMMA HandledGood ==
    ASSUME IInv, NEW c, Good(c)
    PROVE  Good(Handled(c))
<1>1. CASE c.stage = "scan"
    BY <1>1, IdleGood DEF Handled
<1>2. CASE c.stage # "scan"
    <2> DEFINE X == [c EXCEPT !.pc = "resume", !.cur = NoPVC, !.cmt = NoCommit, !.seen = {}]
    <2>1. NoPVC \in PVC /\ NoCommit \in Commit /\ NoCommit \in Records
              /\ Snap(NoPVC, pvc, rev, granted)
        BY IdleGood, GoodFields DEF Idle
    <2>2. X \in Local
        <3>1. c \in Local
            BY DEF Good
        <3>2. QED
            BY ZenonT(40), <2>1, <3>1 DEF Local, PCs
    <2>3. X.pc = "resume" /\ X.cur = NoPVC /\ X.cmt = NoCommit /\ X.todo = c.todo
              /\ X.listed = c.listed
        BY GoodFields DEF Local
    <2>4. "resume" \in QuietPCs
        BY DEF QuietPCs, PCs, CommitPCs
    <2>5. Good(X)
        BY Zenon, <2>1, <2>2, <2>3, <2>4, GoodFields, QuietGood
    <2>6. QED
        BY <1>2, <2>5 DEF Handled
<1>3. QED
    BY <1>1, <1>2

---------------------------------------------------------------------------
(* Reconcile and resumeCommittedPVCDeletions                                *)

\* Reconcile starts from nothing but the cached resource.
LEMMA ReconcileStep ==
    ASSUME IInv, NEW w \in Workers, NEW r \in Remediators, Reconcile(w, r)
    PROVE  IInv'
<1> DEFINE X == [Idle EXCEPT !.pc = "listPVCs", !.me = r, !.inst = cache[r]]
<1>1. Good(Idle) /\ Idle \in Local /\ cache[r] \in CR /\ r \in Owner
    BY IdleGood DEF IInv, TypeOK, Owner, Good
<1>2. X \in Local
    BY ZenonT(40), <1>1 DEF Local, PCs
<1>3. X.pc = "listPVCs" /\ X.cur = Idle.cur /\ X.cmt = Idle.cmt /\ X.todo = Idle.todo
          /\ X.listed = Idle.listed
    BY <1>1, GoodFields DEF Local
<1>4. Good(X)
    BY Zenon, <1>1, <1>2, <1>3, GoodFields, QuietGood DEF QuietPCs, PCs, CommitPCs
<1>5. QED
    BY <1>4, GoodMove DEF Reconcile

\* Listing the claims takes an exact copy of the claim.
LEMMA ListPVCsStep ==
    ASSUME IInv, NEW w \in Workers, ListPVCs(w)
    PROVE  IInv'
<1> DEFINE c == ctl[w]
           X == [c EXCEPT !.pc = "listCommits", !.listed = pvc]
<1>1. Good(c) /\ c \in Local /\ pvc \in PVC
    BY WorkerGood, PVCGood DEF Good
<1>2. X \in Local
    BY ZenonT(40), <1>1 DEF Local, PCs
<1>3. X.pc = "listCommits" /\ X.cur = c.cur /\ X.cmt = c.cmt /\ X.todo = c.todo
          /\ X.listed = pvc
    BY <1>1, GoodFields DEF Local
<1>4. Good(X)
    BY Zenon, <1>1, <1>2, <1>3, GoodFields, PVCGood, QuietGood DEF QuietPCs, PCs, CommitPCs
<1>5. QED
    BY <1>4, GoodMove DEF ListPVCs

\* Listing the commit records takes records that are stored.
LEMMA ListCommitsStep ==
    ASSUME IInv, NEW w \in Workers, ListCommits(w)
    PROVE  IInv'
<1> DEFINE c == ctl[w]
           T == {commits[u] : u \in PVCIds} \ {NoCommit}
           X == [c EXCEPT !.pc = "resume", !.todo = T]
<1>1. Good(c) /\ c \in Local
    BY WorkerGood DEF Good
<1>2. T \subseteq Commit /\ T \subseteq Records /\ NoCommit \notin T
    BY RecordsMembers DEF IInv, TypeOK
<1>3. X \in Local
    <2> HIDE DEF T
    <2> QED
        BY ZenonT(40), <1>1, <1>2 DEF Local, PCs
<1>4. X.pc = "resume" /\ X.cur = c.cur /\ X.cmt = c.cmt /\ X.todo = T /\ X.listed = c.listed
    BY <1>1, GoodFields DEF Local
<1>5. Good(X)
    <2> HIDE DEF T, X
    <2> QED
        BY <1>1, <1>2, <1>3, <1>4, GoodFields, QuietGood DEF QuietPCs, PCs, CommitPCs
<1>6. QED
    BY <1>5, GoodMove DEF ListCommits

\* The update of a good local state that ends where nothing was checked.
LEMMA QuietUpdate ==
    ASSUME IInv, NEW c, Good(c), NEW X \in Local, X.pc \in QuietPCs, X.cmt \in Records,
           X.todo \subseteq c.todo, X.cur \in {c.cur, c.listed, pvc, NoPVC},
           X.listed \in {c.listed, NoPVC}
    PROVE  Good(X)
<1>1. Snap(NoPVC, pvc, rev, granted)
    BY IdleGood, GoodFields DEF Idle
<1>2. Snap(X.cur, pvc, rev, granted) /\ Snap(X.listed, pvc, rev, granted)
    BY <1>1, PVCGood, GoodFields
<1>3. X.todo \subseteq Records /\ NoCommit \notin X.todo
    BY GoodFields, Zenon
<1>4. QED
    BY <1>2, <1>3, QuietGood

\* The local states of the resume loop after record x was taken up.
LEMMA ResumeLocals ==
    ASSUME IInv, NEW c, Good(c), c.pc = "resume", NEW x \in c.todo
    PROVE  /\ Good(Skip(c, x)) /\ Good(Account(c, x)) /\ Good(Hold(c, x)) /\ Good(Discard(c, x))
           /\ /\ Account(c, x) \in Local /\ Account(c, x).listed = c.listed
              /\ Account(c, x).todo = c.todo \ {x}
<1> DEFINE S == Skip(c, x)
           A == Account(c, x)
           H == Hold(c, x)
           D == Discard(c, x)
<1>1. c \in Local /\ x \in Commit /\ x.pvc \in Nat /\ x \in Records /\ "resume" \in QuietPCs
          /\ "drop" \in QuietPCs /\ c.cmt \in Records /\ "drop" \in PCs
    BY GoodFields DEF Good, Commit, QuietPCs, PCs, CommitPCs
<1>2. /\ S \in Local /\ S.pc = "resume" /\ S.cmt = c.cmt /\ S.cur = c.cur
      /\ S.listed = c.listed /\ S.todo = c.todo \ {x}
    BY <1>1 DEF Local, Skip
<1>3. /\ A \in Local /\ A.pc = "resume" /\ A.cmt = c.cmt /\ A.cur = c.cur
      /\ A.listed = c.listed /\ A.todo = c.todo \ {x}
    BY <1>1, <1>2 DEF Local, Account
<1>4. /\ H \in Local /\ H.pc = "resume" /\ H.cmt = c.cmt /\ H.cur = c.cur
      /\ H.listed = c.listed /\ H.todo = c.todo \ {x}
    BY <1>1, <1>3 DEF Local, Hold
<1>5. D \in Local
    <2>1. S \in Local
        BY <1>2
    <2>2. QED
        BY <1>1, <2>1, Zenon DEF Local, Discard, AtRecord
<1>6. D.pc = "drop" /\ D.cmt = x /\ D.cur = c.cur /\ D.listed = c.listed /\ D.todo = c.todo \ {x}
    BY <1>2 DEF Local, Discard, AtRecord
<1>7. QED
    BY <1>1, <1>2, <1>3, <1>4, <1>5, <1>6, QuietUpdate, Zenon

\* A record is worked on, or undone.
LEMMA TakeUpFields ==
    ASSUME IInv, NEW c, Good(c), c.pc = "resume", NEW x \in c.todo, NEW p \in PVC, NEW q \in PCs
    PROVE  LET X == TakeUp(c, x, p, q) IN
           /\ X \in Local /\ X.pc = q /\ X.cur = p /\ X.cmt = x
           /\ X.listed = c.listed /\ X.todo = c.todo \ {x}
<1>1. Account(c, x) \in Local /\ x \in Commit
    BY ResumeLocals, GoodFields
<1>2. TakeUp(c, x, p, q) \in Local
    BY <1>1, Zenon DEF Local, TakeUp
<1>3. QED
    BY <1>1, <1>2, ResumeLocals DEF Local, TakeUp

\* A record may be undone from the claim as listed or as read now.
LEMMA AbortGood ==
    ASSUME IInv, NEW c, Good(c), c.pc = "resume", NEW x \in c.todo, NEW p \in {pvc, c.listed},
           NEW q \in {"drop", "dropClear"}
    PROVE  Good(Abort(c, x, p, q))
<1> DEFINE T == TakeUp(c, x, p, q)
           X == Abort(c, x, p, q)
<1>1. p \in PVC /\ q \in PCs /\ q \in QuietPCs
    BY PVCGood, GoodFields, Zenon DEF PCs, QuietPCs, CommitPCs
<1>2. /\ T \in Local /\ T.pc = q /\ T.cur = p /\ T.cmt = x
      /\ T.listed = c.listed /\ T.todo = c.todo \ {x}
    BY <1>1, TakeUpFields
<1>3. x.pvc \in Nat /\ x \in Records
    BY GoodFields DEF Commit
<1>4. /\ X \in Local /\ X.pc = q /\ X.cur = p /\ X.cmt = x
      /\ X.listed = c.listed /\ X.todo = c.todo \ {x}
    <2> HIDE DEF T
    <2> QED
        BY <1>2, <1>3, Zenon DEF Local, Abort, T
<1>5. QED
    BY <1>1, <1>3, <1>4, QuietUpdate, Zenon

\* A finalized token found on a copy was granted.
LEMMA FinalizedIsGranted ==
    ASSUME NEW p, NEW x, Snap(p, pvc, rev, granted), finalizedCommitMatchesPVC(p, x), x.token # 0
    PROVE  HasGrant(granted, x.pvc, x.token)
BY DEF Snap, finalizedCommitMatchesPVC, preparedCommitMatchesPVC

\* A damaged record is skipped, accounted for, held or undone.
LEMMA ResumeDamagedStep ==
    ASSUME IInv, NEW w \in Workers, NEW x \in ctl[w].todo, ResumeDamaged(w, x)
    PROVE  IInv'
<1> DEFINE c == ctl[w]
<1>1. Good(c) /\ c.pc = "resume"
    BY WorkerGood, Zenon DEF ResumeDamaged
<1>2. Good(Skip(c, x)) /\ Good(Account(c, x)) /\ Good(Hold(c, x))
          /\ Good(Abort(c, x, c.listed, "dropClear"))
    BY <1>1, ResumeLocals, AbortGood, Zenon
<1>3. Good(DamagedDecision(c, x))
    BY <1>2, Zenon DEF DamagedDecision
<1>4. QED
    BY <1>3, GoodMove DEF ResumeDamaged

\* A record of another PodRemediator is accounted for.
LEMMA ResumeForeignStep ==
    ASSUME IInv, NEW w \in Workers, NEW x \in ctl[w].todo, ResumeForeign(w, x)
    PROVE  IInv'
BY WorkerGood, ResumeLocals, GoodMove, Zenon DEF ResumeForeign

\* Cleanup of an own record starts only from a finalized, hence granted, token.
LEMMA ResumeOwnStep ==
    ASSUME IInv, NEW w \in Workers, NEW x \in ctl[w].todo, ResumeOwn(w, x)
    PROVE  IInv'
<1> DEFINE c == ctl[w]
           q == IF x.phase = "prepared" THEN "promote" ELSE "listUsers"
           X == TakeUp(c, x, pvc, q)
<1>1. Good(c) /\ c.pc = "resume"
    BY WorkerGood DEF ResumeOwn
<1>2. Good(Discard(c, x)) /\ Good(Hold(c, x)) /\ Good(Abort(c, x, pvc, "drop"))
          /\ Good(Abort(c, x, pvc, "dropClear"))
    BY ZenonT(40), <1>1, ResumeLocals, AbortGood
<1>3. ASSUME finalizedCommitMatchesPVC(pvc, x)
      PROVE  Good(X)
    <2>1. x \in Records /\ x.token # 0
        BY <1>1, GoodFields DEF IInv, RecordsOK
    <2>2. HasGrant(granted, x.pvc, x.token)
        BY <1>3, <2>1, PVCGood, FinalizedIsGranted
    <2>3. q \in {"promote", "listUsers"} /\ q \in PCs
        BY ZenonT(40) DEF PCs
    <2>4. /\ X \in Local /\ X.pc = q /\ X.cur = pvc /\ X.cmt = x
          /\ X.listed = c.listed /\ X.todo = c.todo \ {x}
        BY <1>1, <2>3, PVCGood, TakeUpFields
    <2>5. Snap(pvc, pvc, rev, granted) /\ Snap(c.listed, pvc, rev, granted)
              /\ c.todo \subseteq Records /\ NoCommit \notin c.todo
        BY <1>1, PVCGood, GoodFields
    <2> HIDE DEF X, q
    <2>6. QED
        BY <1>3, <2>1, <2>2, <2>3, <2>4, <2>5, Zenon DEF Good, LocalOK, CommitPCs, CleanupPCs
<1>4. Good(ResumeDecision(c, x, pvc))
    BY <1>2, <1>3 DEF ResumeDecision
<1>5. QED
    BY <1>4, GoodMove, Zenon DEF ResumeOwn

\* Two updates most steps are made of, and their fields.
LEMMA PcUpdate ==
    ASSUME NEW c \in Local, NEW q \in PCs
    PROVE  LET X == At(c, q) IN
           /\ X \in Local /\ X.pc = q /\ X.cur = c.cur /\ X.cmt = c.cmt /\ X.listed = c.listed
           /\ X.todo = c.todo /\ X.seen = c.seen
BY DEF Local, At

\* The same, with a claim just read.
LEMMA PcCurUpdate ==
    ASSUME NEW c \in Local, NEW q \in PCs, NEW p \in PVC
    PROVE  LET X == AtWith(c, q, p) IN
           /\ X \in Local /\ X.pc = q /\ X.cur = p /\ X.cmt = c.cmt /\ X.listed = c.listed
           /\ X.todo = c.todo /\ X.seen = c.seen
<1>1. AtWith(c, q, p) \in Local
    BY Zenon DEF Local, AtWith
<1>2. QED
    BY <1>1 DEF Local, AtWith

\* Going on to a place where nothing was checked.
LEMMA QuietPc ==
    ASSUME IInv, NEW c, Good(c), NEW q \in QuietPCs
    PROVE  /\ Good(At(c, q))
           /\ \A p \in {c.cur, c.listed, pvc, NoPVC} : Good(AtWith(c, q, p))
<1>1. c \in Local /\ c.cmt \in Records /\ q \in PCs /\ NoPVC \in PVC
    BY IdleGood, GoodFields DEF QuietPCs, Idle
<1>2. Good(At(c, q))
    <2> DEFINE X == At(c, q)
    <2>1. /\ X \in Local /\ X.pc = q /\ X.cur = c.cur /\ X.cmt = c.cmt /\ X.listed = c.listed
          /\ X.todo = c.todo
        BY <1>1, PcUpdate, Zenon
    <2>2. QED
        BY <1>1, <2>1, QuietUpdate
<1>3. ASSUME NEW p \in PVC, p \in {c.cur, c.listed, pvc, NoPVC}
      PROVE  Good(AtWith(c, q, p))
    <2> DEFINE X == AtWith(c, q, p)
    <2>1. /\ X \in Local /\ X.pc = q /\ X.cur = p /\ X.cmt = c.cmt /\ X.listed = c.listed
          /\ X.todo = c.todo
        BY <1>1, PcCurUpdate
    <2>2. QED
        BY <1>1, <1>3, <2>1, QuietUpdate, Zenon
<1>4. \A p \in {c.cur, c.listed, pvc, NoPVC} : p \in PVC
    BY <1>1, GoodFields, PVCGood
<1>5. QED
    BY <1>2, <1>3, <1>4

\* The claim is left alone for the rest of the reconcile.
LEMMA PendingGood ==
    ASSUME IInv, NEW c, Good(c)
    PROVE  Good(Pending(c))
<1> DEFINE X == [c EXCEPT !.held = @ \union {c.cmt.pvc}]
<1>1. c.cmt.pvc \in Nat /\ c \in Local
    BY GoodFields DEF Commit
<1>2. /\ X \in Local /\ X.pc = c.pc /\ X.cur = c.cur /\ X.cmt = c.cmt /\ X.listed = c.listed
      /\ X.todo = c.todo /\ X.seen = c.seen
    BY ZenonT(40), <1>1 DEF Local
<1>3. Good(X)
    <2> HIDE DEF X
    <2> QED
        BY <1>2 DEF Good, LocalOK
<1>4. QED
    BY <1>3, HandledGood, Zenon DEF Pending

\* The end of the resume pass.
LEMMA AfterResumeGood ==
    ASSUME IInv, NEW c, Good(c)
    PROVE  Good(AfterResume(c))
<1> DEFINE D == [Idle EXCEPT !.me = c.me, !.inst = c.inst, !.stage = "scan",
                             !.held = c.held, !.aborted = c.aborted]
<1>1. Good(Idle) /\ Idle \in Local /\ Idle.pc = "idle"
    BY Zenon, IdleGood, GoodFields DEF Idle
<1>2. c.me \in Owner /\ c.inst \in CR /\ c.held \in SUBSET Nat /\ c.aborted \in SUBSET Nat
    BY GoodFields
<1>3. D \in Local
    BY <1>1, <1>2, Zenon DEF Local
<1>4. D.pc = "idle" /\ D.cur = Idle.cur /\ D.cmt = Idle.cmt /\ D.listed = Idle.listed
          /\ D.todo = Idle.todo
    BY <1>1 DEF Local
<1>5. "idle" \in QuietPCs /\ "cleanupList" \in QuietPCs /\ "deps" \in QuietPCs
    BY DEF QuietPCs, PCs, CommitPCs
<1>6. Good(D)
    <2> HIDE DEF D
    <2> QED
        BY <1>1, <1>3, <1>4, <1>5, GoodFields, QuietUpdate
<1>7. Good(At(D, "cleanupList")) /\ Good(At(D, "deps"))
    <2> HIDE DEF D
    <2> QED
        BY <1>5, <1>6, QuietPc
<1>8. QED
    BY <1>1, <1>7 DEF AfterResume

\* Scrubbing removes tokens and adds none.
LEMMA ResumeScrubStep ==
    ASSUME IInv, NEW w \in Workers, ResumeScrub(w)
    PROVE  IInv'
<1> DEFINE c == ctl[w]
<1>1. Good(c) /\ Good(AfterResume(c)) /\ c.listed \in PVC /\ Snap(c.listed, pvc, rev, granted)
    BY WorkerGood, AfterResumeGood, GoodFields, Zenon
<1>2. CASE PatchPVC(w, c.listed, clearAllAnnotations(c.listed), AfterResume(c))
    BY <1>1, <1>2, ClearedPVC, GoodPatch
<1>3. CASE Move(w, AfterResume(c)) /\ ClusterUnchanged
    BY <1>1, <1>3, GoodMove, Zenon
<1>4. QED
    BY ZenonT(40), <1>2, <1>3 DEF ResumeScrub

\* Deleting a record brings in no other one.
LEMMA DropStep ==
    ASSUME IInv, NEW w \in Workers, Drop(w)
    PROVE  IInv'
<1> DEFINE c == ctl[w]
<1>1. Good(c) /\ Good(Idle) /\ Good(Handled(c)) /\ Good(At(c, "clear"))
    BY WorkerGood, IdleGood, HandledGood, QuietPc, Zenon DEF QuietPCs, PCs, CommitPCs
<1>2. NoCommit \in Commit /\ NoCommit \in Records /\ commits \in [PVCIds -> Commit]
    BY IdleGood, GoodFields DEF Idle, IInv, TypeOK
<1>3. commits' \in [PVCIds -> Commit] /\ \A u \in PVCIds : commits'[u] \in {commits[u], NoCommit}
    BY ZenonT(40), <1>2 DEF Drop
<1>4. \A u \in PVCIds : Kept(commits'[u])
    BY Zenon, <1>2, <1>3, RecordsMembers DEF Kept
<1>5. PICK X : Good(X) /\ Move(w, X)
    BY ZenonT(40), <1>1 DEF Drop, Return
<1>6. QED
    BY <1>3, <1>4, <1>5, GoodCommits, Zenon DEF Drop

\* clearAbortedPVC removes tokens and adds none.
LEMMA ClearStep ==
    ASSUME IInv, NEW w \in Workers, Clear(w)
    PROVE  IInv'
<1> DEFINE c == ctl[w]
<1>1. Good(c) /\ Good(Handled(c)) /\ c.cur \in PVC /\ Snap(c.cur, pvc, rev, granted)
    BY WorkerGood, HandledGood, GoodFields
<1>2. CASE Move(w, Handled(c)) /\ ClusterUnchanged
    BY <1>1, <1>2, GoodMove, Zenon
<1>3. CASE PatchPVC(w, c.cur, clearAllAnnotations(c.cur), Handled(c))
    BY <1>1, <1>3, ClearedPVC, GoodPatch
<1>4. QED
    BY ZenonT(40), <1>2, <1>3 DEF Clear

---------------------------------------------------------------------------
(* resumeCommittedPVCDeletion                                               *)

\* Fields of the updates that note a record, pods or an SNR.
LEMMA RecordUpdate ==
    ASSUME NEW c \in Local, NEW q \in PCs, NEW x \in Commit
    PROVE  LET X == AtRecord(c, q, x) IN
           /\ X \in Local /\ X.pc = q /\ X.cur = c.cur /\ X.cmt = x /\ X.listed = c.listed
           /\ X.todo = c.todo
<1>1. AtRecord(c, q, x) \in Local
    BY Zenon DEF Local, AtRecord
<1>2. QED
    BY <1>1 DEF Local, AtRecord

\* The same for the pods.
LEMMA PodsUpdate ==
    ASSUME NEW c \in Local, NEW q \in PCs, NEW S \in SUBSET (Nat \X Pod)
    PROVE  LET X == AtPods(c, q, S) IN
           /\ X \in Local /\ X.pc = q /\ X.cur = c.cur /\ X.cmt = c.cmt /\ X.listed = c.listed
           /\ X.todo = c.todo /\ X.seen = S
<1>1. AtPods(c, q, S) \in Local
    BY Zenon DEF Local, AtPods
<1>2. QED
    BY <1>1 DEF Local, AtPods

\* The same for the SNR.
LEMMA SnrUpdate ==
    ASSUME NEW c \in Local, NEW q \in PCs, NEW s \in Nat
    PROVE  LET X == AtSnr(c, q, s) IN
           /\ X \in Local /\ X.pc = q /\ X.cur = c.cur /\ X.cmt = c.cmt /\ X.listed = c.listed
           /\ X.todo = c.todo
<1>1. AtSnr(c, q, s) \in Local
    BY Zenon DEF Local, AtSnr
<1>2. QED
    BY <1>1 DEF Local, AtSnr

\* What holds of a worker in the cleanup of a committed record.
LEMMA CleanupFacts ==
    ASSUME IInv, NEW c, Good(c), c.pc \in CleanupPCs
    PROVE  /\ c.cmt.token # 0 /\ HasGrant(granted, c.cmt.pvc, c.cmt.token)
           /\ finalizedCommitMatchesPVC(c.cur, c.cmt)
BY Zenon DEF Good, LocalOK, CleanupPCs, CommitPCs

\* Undoing the transaction at hand is always possible.
LEMMA UndoGood ==
    ASSUME IInv, NEW c, Good(c)
    PROVE  Good(Undo(c))
<1>1. c \in Local /\ c.cmt.pvc \in Nat /\ "dropClear" \in PCs /\ c.aborted \in SUBSET Nat
    BY GoodFields DEF PCs, Commit
<1>2. c.aborted \union {c.cmt.pvc} \in SUBSET Nat
    BY <1>1
<1>3. Undo(c) \in Local
    BY <1>1, <1>2, Zenon DEF Local, Undo
<1>4. Undo(c).pc = "dropClear" /\ Undo(c).cur = c.cur /\ Undo(c).cmt = c.cmt
          /\ Undo(c).listed = c.listed /\ Undo(c).todo = c.todo
    BY <1>1 DEF Local, Undo
<1>5. QED
    BY <1>3, <1>4, GoodFields, QuietUpdate, Zenon DEF QuietPCs, PCs, CommitPCs

\* A promoted record differs from the granted one in its phase only.
LEMMA PromoteStep ==
    ASSUME IInv, NEW w \in Workers, promotePreparedDeletionCommit(w)
    PROVE  IInv'
<1> DEFINE c == ctl[w]
           u == c.cmt.pvc
           y == [c.cmt EXCEPT !.phase = "committed"]
           q == IF c.stage = "scan" THEN "reread" ELSE "listUsers"
           X == AtRecord(c, q, y)
<1>1. Good(c) /\ Good(Idle) /\ c \in Local /\ c.cmt \in Commit /\ c.cmt \in Records
          /\ c.pc = "promote"
    BY WorkerGood, IdleGood, GoodFields DEF promotePreparedDeletionCommit
<1>2. /\ y \in Commit /\ y.token = c.cmt.token /\ y.pods = c.cmt.pods /\ y.pvc = c.cmt.pvc
      /\ y.owner = c.cmt.owner
    BY <1>1, Zenon DEF Commit
<1>3. /\ c.cmt.token # 0 /\ HasGrant(granted, c.cmt.pvc, c.cmt.token)
      /\ finalizedCommitMatchesPVC(c.cur, c.cmt)
    BY <1>1, CleanupFacts DEF CleanupPCs
<1>4. Kept(y) /\ Kept(NoCommit)
    BY <1>1, <1>2, <1>3, RecordsMembers, Zenon DEF Kept
<1>5. commits \in [PVCIds -> Commit]
    BY Zenon DEF IInv, TypeOK
<1>6. commits' \in [PVCIds -> Commit] /\ \A v \in PVCIds : commits'[v] \in {commits[v], y}
    <2> HIDE DEF y
    <2>1. commits' = commits \/ commits' = [commits EXCEPT ![u] = y]
        BY DEF promotePreparedDeletionCommit, y
    <2>2. QED
        BY <1>2, <1>5, <2>1
<1>7. \A v \in PVCIds : Kept(commits'[v])
    BY Zenon, <1>4, <1>6, RecordsMembers DEF Kept
<1>8. CASE Move(w, Idle)
    BY ZenonT(40), <1>1, <1>6, <1>7, <1>8, GoodCommits DEF promotePreparedDeletionCommit
<1>9. CASE Move(w, X)
    <2>1. q \in {"reread", "listUsers"} /\ q \in PCs
        BY Zenon DEF PCs
    <2>2. /\ X \in Local /\ X.pc = q /\ X.cur = c.cur /\ X.cmt = y /\ X.listed = c.listed
          /\ X.todo = c.todo
        <3> HIDE DEF y, q
        <3> QED
            BY <1>1, <1>2, <2>1, RecordUpdate
    <2>3. finalizedCommitMatchesPVC(c.cur, y)
        BY <1>2, <1>3 DEF finalizedCommitMatchesPVC, preparedCommitMatchesPVC
    <2>4. LocalOK(X, pvc, rev, granted, pods)
        <3> HIDE DEF X, y, q
        <3> QED
            BY Zenon, <1>1, <1>2, <1>3, <2>1, <2>2, <2>3, GoodFields DEF LocalOK, CommitPCs, CleanupPCs
    <2>5. X.todo \subseteq Records /\ OnlyCommits
        BY ZenonT(40), <1>1, <2>2, GoodFields DEF promotePreparedDeletionCommit
    <2>6. QED
        <3> HIDE DEF X, y
        <3> QED
            BY <1>4, <1>6, <1>7, <1>9, <2>2, <2>4, <2>5, CommitsStep
<1>10. QED
    BY <1>8, <1>9, Zenon DEF promotePreparedDeletionCommit, Return

\* Pods are listed for deletion only when the record covers every user.
LEMMA ListUsersStep ==
    ASSUME IInv, NEW w \in Workers, ListUsers(w)
    PROVE  IInv'
<1> DEFINE c == ctl[w]
           S == {<<p, pods[p]>> : p \in {q \in podsUsingPVC : pods[q].st # "forced"}}
           X == AtPods(c, "deletePods", S)
<1>1. Good(c) /\ c.pc = "listUsers" /\ c \in Local /\ "deletePods" \in PCs
    BY ZenonT(40), WorkerGood, GoodFields DEF ListUsers, PCs
<1>2. /\ c.cmt.token # 0 /\ HasGrant(granted, c.cmt.pvc, c.cmt.token)
      /\ finalizedCommitMatchesPVC(c.cur, c.cmt)
    BY ZenonT(40), <1>1, CleanupFacts DEF CleanupPCs
<1>3. Good(Pending(c)) /\ Good(Undo(c))
    BY <1>1, PendingGood, UndoGood, Zenon
<1>4. S \in SUBSET (Nat \X Pod)
    <2>1. pods \in [PodIds -> Pod]
        BY ZenonT(40) DEF IInv, TypeOK
    <2>2. podsUsingPVC \subseteq PodIds
        BY ZenonT(40) DEF podsUsingPVC
    <2>3. PodIds \subseteq Nat
        BY ClusterAssumptions DEF PodIds
    <2> HIDE DEF c, X
    <2>4. \A p \in PodIds : <<p, pods[p]>> \in Nat \X Pod
        BY <2>1, <2>3
    <2>5. QED
        BY <2>2, <2>4
<1>5. ASSUME foreignUsers(c.cmt) = {}
      PROVE  Good(X)
    <2>1. \A x \in S : x[1] \in c.cmt.pods /\ x[2].loc # "elsewhere" /\ x[2].st # "gone"
        BY SMTT(60), <1>5 DEF foreignUsers, podsUsingPVC
    <2>2. /\ X \in Local /\ X.pc = "deletePods" /\ X.cur = c.cur /\ X.cmt = c.cmt
          /\ X.listed = c.listed /\ X.todo = c.todo /\ X.seen = S
        <3> HIDE DEF S
        <3> QED
            BY <1>1, <1>4, PodsUpdate
    <2> HIDE DEF X, S
    <2>3. QED
        BY ZenonT(40), <1>1, <1>2, <2>1, <2>2, GoodFields DEF Good, LocalOK, CommitPCs, CleanupPCs
<1>6. PICK Y : Good(Y) /\ Move(w, Y)
    <2> HIDE DEF X
    <2>1. Move(w, IF foreignUsers(c.cmt) = {} THEN X
                  ELSE IF c.cur.deleting THEN Pending(c) ELSE Undo(c))
        BY DEF ListUsers, X
    <2>2. QED
        BY ZenonT(40), <1>3, <1>5, <2>1
<1>7. QED
    BY ZenonT(40), <1>6, GoodMove DEF ListUsers

\* Once nobody uses the claim, every recorded pod is gone for good.
LEMMA ListRemainingStep ==
    ASSUME IInv, NEW w \in Workers, ListRemaining(w)
    PROVE  IInv'
<1> DEFINE c == ctl[w]
           X == At(c, "deletePVC")
<1>1. Good(c) /\ c.pc = "deletePods" /\ c \in Local /\ "deletePVC" \in PCs
    BY WorkerGood, GoodFields DEF ListRemaining, PCs
<1>2. Good(Pending(c)) /\ Good(At(c, "confirmGone"))
    BY ZenonT(40), <1>1, PendingGood, QuietPc DEF QuietPCs, PCs, CommitPCs
<1>3. ASSUME podsUsingPVC = {}
      PROVE  Good(X)
    <2>1. /\ X \in Local /\ X.pc = "deletePVC" /\ X.cur = c.cur /\ X.cmt = c.cmt
          /\ X.listed = c.listed /\ X.todo = c.todo
        BY ZenonT(40), <1>1, PcUpdate
    <2>2. \A p \in c.cmt.pods : p \in PodIds /\ pods[p].st # "none"
        BY ZenonT(40), <1>1, GoodFields DEF IInv, RecordsOK
    <2>3. \A p \in c.cmt.pods : pods[p].st = "gone"
        BY <1>3, <2>2, Zenon DEF podsUsingPVC, IInv, TypeOK, Pod
    <2>4. /\ c.cmt.token # 0 /\ HasGrant(granted, c.cmt.pvc, c.cmt.token)
          /\ finalizedCommitMatchesPVC(c.cur, c.cmt)
        BY <1>1, CleanupFacts, Zenon DEF CleanupPCs
    <2> HIDE DEF X
    <2>5. QED
        BY Zenon, <1>1, <2>1, <2>3, <2>4, GoodFields DEF Good, LocalOK, CommitPCs, CleanupPCs
<1>4. PICK Y : Good(Y) /\ Move(w, Y)
    BY <1>2, <1>3 DEF ListRemaining
<1>5. QED
    BY ZenonT(40), <1>4, GoodMove DEF ListRemaining

\* Deleting the claim keeps its UID and its token.
LEMMA DeletePVCStep ==
    ASSUME IInv, NEW w \in Workers, DeletePVC(w)
    PROVE  IInv'
<1> DEFINE c == ctl[w]
           new == [c.cur EXCEPT !.deleting = TRUE]
<1>1. Good(c) /\ c.cur \in PVC /\ Snap(c.cur, pvc, rev, granted)
    BY WorkerGood, GoodFields, Zenon
<1>2. Good(At(c, "confirmGone"))
    BY <1>1, QuietPc DEF QuietPCs, PCs, CommitPCs
<1>3. new \in PVC /\ new.uid = c.cur.uid /\ new.final = c.cur.final
    BY Zenon, <1>1 DEF PVC
<1>4. PatchPVC(w, c.cur, new, At(c, "confirmGone"))
    BY Zenon DEF DeletePVC
<1>5. QED
    BY Zenon, <1>1, <1>2, <1>3, <1>4, GoodPatch

\* Confirming the deletion only reads.
LEMMA ConfirmGoneStep ==
    ASSUME IInv, NEW w \in Workers, ConfirmGone(w)
    PROVE  IInv'
<1> DEFINE c == ctl[w]
<1>1. Good(At(c, "drop")) /\ Good(Pending(c))
    BY WorkerGood, PendingGood, QuietPc DEF QuietPCs, PCs, CommitPCs
<1>2. QED
    BY <1>1, GoodMove DEF ConfirmGone

\* The pod that goes is in the record at hand, hence in the granted one.
LEMMA DeletePodStep ==
    ASSUME IInv, NEW w \in Workers, NEW x \in ctl[w].seen, DeletePod(w, x)
    PROVE  IInv'
<1> DEFINE c == ctl[w]
           X == [c EXCEPT !.seen = @ \ {x}]
<1>1. Good(c) /\ Good(Idle) /\ c.pc = "deletePods" /\ c \in Local
    BY WorkerGood, IdleGood, GoodFields DEF DeletePod
<1>2. /\ X \in Local /\ X.pc = c.pc /\ X.cur = c.cur /\ X.cmt = c.cmt /\ X.listed = c.listed
      /\ X.todo = c.todo /\ X.seen = c.seen \ {x}
    BY <1>1 DEF Local
<1>3. Good(X)
    <2> HIDE DEF X
    <2> QED
        BY Zenon, <1>1, <1>2 DEF Good, LocalOK
<1>4. PICK Y : Good(Y) /\ Move(w, Y)
    BY <1>1, <1>3 DEF DeletePod, Return
<1>5. /\ x[1] \in c.cmt.pods /\ x[2].st # "gone" /\ x \in Nat \X Pod
      /\ HasGrant(granted, c.cmt.pvc, c.cmt.token)
    BY ZenonT(40), <1>1, CleanupFacts, GoodFields DEF Good, LocalOK, CleanupPCs
<1>6. x[1] \in PodIds /\ x[1] \in Nat
    BY ZenonT(40), <1>1, <1>5, GoodFields DEF IInv, RecordsOK
<1>7. \E g \in granted : x[1] \in g.pods
    BY <1>1, <1>5, GoodFields, RecordsMembers, Zenon DEF HasGrant, IInv, RecordsOK
<1>8. UNCHANGED <<pvc, rev, lastPVC, commits, node, snrs, deps, crs, cache,
                  lastToken, budget, granted>>
    BY DEF DeletePod
<1>9. \/ /\ pods[x[1]] = x[2] /\ pods' = [pods EXCEPT ![x[1]].st = "forced"]
         /\ killed' = killed \union {x[1]}
      \/ UNCHANGED <<pods, killed>>
    BY DEF DeletePod
<1>10. pods \in [PodIds -> Pod] /\ killed \in SUBSET Nat
    BY Zenon DEF IInv, TypeOK
<1>11. /\ pods' \in [PodIds -> Pod]
       /\ \A p \in PodIds : /\ pods[p].st = "gone" => pods'[p].st = "gone"
                            /\ pods[p].st # "none" => pods'[p].st # "none"
    BY <1>5, <1>6, <1>9, <1>10 DEF Pod
<1>12. killed' \in SUBSET Nat /\ OnlyRecordedPodsKilled'
    BY <1>6, <1>7, <1>8, <1>9, <1>10 DEF IInv, OnlyRecordedPodsKilled
<1>13. TypeOK'
    BY ZenonT(40), <1>4, <1>8, <1>11, <1>12 DEF IInv, TypeOK, Move, Good
<1>14. ClusterStep
    BY Zenon, <1>8, <1>11 DEF IInv, ClusterStep
<1>15. (\A u \in PVCIds : Kept(commits'[u])) /\ \A g \in granted' : Kept(g)
    BY ZenonT(40), <1>8, RecordsMembers DEF Kept
<1>16. LocalOK(Y, pvc', rev', granted', pods')
    BY <1>4, <1>14, LocalStable DEF Good
<1>17. QED
    BY Zenon, <1>4, <1>8, <1>12, <1>13, <1>14, <1>15, <1>16, WorkerStep DEF Good, Kept

---------------------------------------------------------------------------
(* cleanupAnnotations, the finalizer, and the scan                          *)

\* After cleanupAnnotations nothing is relied on.
LEMMA AfterCleanupGood ==
    ASSUME IInv, NEW c, Good(c)
    PROVE  Good(AfterCleanup(c))
BY IdleGood, QuietPc DEF AfterCleanup, QuietPCs, PCs, CommitPCs

\* cleanupAnnotations reads the claim.
LEMMA CleanupListStep ==
    ASSUME IInv, NEW w \in Workers, CleanupList(w)
    PROVE  IInv'
<1>1. Good(AfterCleanup(ctl[w])) /\ Good(AtWith(ctl[w], "cleanupPatch", pvc))
    BY ZenonT(40), WorkerGood, AfterCleanupGood, QuietPc DEF QuietPCs, PCs, CommitPCs
<1>2. QED
    BY ZenonT(40), <1>1, GoodMove DEF CleanupList

\* cleanupAnnotations clears the handshake, never a token.
LEMMA CleanupPatchStep ==
    ASSUME IInv, NEW w \in Workers, CleanupPatch(w)
    PROVE  IInv'
BY WorkerGood, AfterCleanupGood, GoodFields, ClearedPVC, GoodPatch DEF CleanupPatch

\* Releasing the PodRemediator concerns no record.
LEMMA RemoveFinalizerStep ==
    ASSUME IInv, NEW w \in Workers, RemoveFinalizer(w)
    PROVE  IInv'
<1>1. UNCHANGED <<pvc, rev, lastPVC, commits, pods, node, snrs, deps, cache,
                  lastToken, budget, granted, killed>>
    BY DEF RemoveFinalizer
<1>2. crs' \in [Remediators -> CR]
    <2>1. crs \in [Remediators -> CR]
        BY DEF IInv, TypeOK
    <2>2. \A a \in CR : [a EXCEPT !.st = "gone"] \in CR /\ [a EXCEPT !.fin = FALSE] \in CR
        BY ZenonT(40) DEF CR
    <2>3. crs' = [crs EXCEPT ![ctl[w].me].st = "gone", ![ctl[w].me].fin = FALSE]
        BY DEF RemoveFinalizer
    <2>4. QED
        BY Zenon, <2>1, <2>2, <2>3
<1>3. Move(w, Idle) /\ Good(Idle)
    BY IdleGood DEF RemoveFinalizer, Return
<1>4. TypeOK'
    BY Zenon, <1>1, <1>2, <1>3 DEF IInv, TypeOK, Move, Good
<1>5. ClusterStep /\ OnlyRecordedPodsKilled'
    BY Zenon, <1>1 DEF IInv, ClusterStep, OnlyRecordedPodsKilled
<1>6. (\A u \in PVCIds : Kept(commits'[u])) /\ \A g \in granted' : Kept(g)
    BY <1>1, RecordsMembers, Zenon DEF Kept
<1>7. LocalOK(Idle, pvc', rev', granted', pods')
    BY <1>1, <1>3 DEF Good
<1>8. QED
    BY Zenon, <1>1, <1>3, <1>4, <1>5, <1>6, <1>7, WorkerStep DEF Good, Kept

\* The dependency check only reads.
LEMMA CheckDepsStep ==
    ASSUME IInv, NEW w \in Workers, CheckDeps(w)
    PROVE  IInv'
<1>1. Good(Idle) /\ Good(At(ctl[w], "scanNodes"))
    BY WorkerGood, IdleGood, QuietPc DEF QuietPCs, PCs, CommitPCs
<1>2. QED
    BY <1>1, GoodMove DEF CheckDeps

\* The scan notes the node.
LEMMA ScanNodesStep ==
    ASSUME IInv, NEW w \in Workers, ScanNodes(w)
    PROVE  IInv'
<1> DEFINE c == ctl[w]
           X == [c EXCEPT !.pc = "scanSnrs", !.nodeSeen = node]
<1>1. Good(c) /\ c \in Local /\ node \in Node /\ "scanSnrs" \in PCs
    BY Zenon, WorkerGood, GoodFields DEF IInv, TypeOK, PCs
<1>2. X \in Local
    BY <1>1, Zenon DEF Local
<1>3. X.pc = "scanSnrs" /\ X.cur = c.cur /\ X.cmt = c.cmt /\ X.todo = c.todo
          /\ X.listed = c.listed
    BY ZenonT(40), <1>1 DEF Local
<1>4. Good(X)
    <2> HIDE DEF X
    <2> QED
        BY <1>1, <1>2, <1>3, GoodFields, QuietUpdate, Zenon DEF QuietPCs, PCs, CommitPCs
<1>5. QED
    BY <1>4, GoodMove DEF ScanNodes

\* The SNR that proves fencing is one of the SNRs, or 0.
LEMMA FencedSnrType == fencedSnr \in Nat
BY ClusterAssumptions DEF fencedSnr, activeSnrs, SnrIds

\* The scan notes the SNR.
LEMMA ScanSnrsStep ==
    ASSUME IInv, NEW w \in Workers, ScanSnrs(w)
    PROVE  IInv'
<1> DEFINE c == ctl[w]
<1>1. Good(c) /\ c \in Local /\ c.cmt \in Records /\ "scanPVC" \in PCs /\ "scanPVC" \in QuietPCs
    BY WorkerGood, GoodFields DEF PCs, QuietPCs, CommitPCs
<1>2. ASSUME NEW s \in Nat
      PROVE  Good(AtSnr(c, "scanPVC", s))
    BY ZenonT(40), <1>1, SnrUpdate, QuietUpdate
<1>3. QED
    BY ZenonT(40), <1>2, FencedSnrType, GoodMove DEF ScanSnrs

\* The scan goes on to a deletion only with an existing claim.
LEMMA ScanPVCStep ==
    ASSUME IInv, NEW w \in Workers, ScanPVC(w)
    PROVE  IInv'
<1> DEFINE c == ctl[w]
           X == AtWith(c, "checkPause", pvc)
<1>1. Good(c) /\ Good(Idle) /\ c \in Local /\ pvc \in PVC /\ "checkPause" \in PCs
    BY WorkerGood, IdleGood, PVCGood, GoodFields DEF PCs
<1>2. Good(AtWith(c, "clearRecovered", pvc)) /\ Good(AtWith(c, "startRequest", pvc))
          /\ Good(AtWith(c, "dropOrphan", pvc))
    BY <1>1, QuietPc DEF QuietPCs, PCs, CommitPCs
<1>3. ASSUME pvc.uid # 0
      PROVE  Good(X)
    <2>1. /\ X \in Local /\ X.pc = "checkPause" /\ X.cur = pvc /\ X.cmt = c.cmt
          /\ X.listed = c.listed /\ X.todo = c.todo
        BY <1>1, PcCurUpdate
    <2>2. pvc.uid \in PVCIds
        BY <1>1, <1>3, ClusterAssumptions DEF PVC, PVCIds
    <2> HIDE DEF X
    <2>3. QED
        BY Zenon, <1>1, <2>1, <2>2, GoodFields, PVCGood DEF Good, LocalOK, CommitPCs, CleanupPCs
<1>4. ASSUME pvc.uid # 0
      PROVE  Good(processExistingPVCHandshake(c, pvc)) /\ Good(processNewPVCHandshake(c, pvc))
    BY <1>1, <1>2, <1>3, <1>4 DEF processExistingPVCHandshake, processNewPVCHandshake
<1>5. PICK Y : Good(Y) /\ Move(w, Y)
    BY ZenonT(40), <1>1, <1>4 DEF ScanPVC
<1>6. QED
    BY <1>5, GoodMove DEF ScanPVC

\* A recovered node clears the handshake, never a token.
LEMMA ClearRecoveredStep ==
    ASSUME IInv, NEW w \in Workers, ClearRecovered(w)
    PROVE  IInv'
BY WorkerGood, IdleGood, GoodFields, ClearedPVC, GoodPatch DEF ClearRecovered

\* Dropping an orphaned consent keeps the rest of the claim.
LEMMA DropOrphanedConsentStep ==
    ASSUME IInv, NEW w \in Workers, DropOrphanedConsent(w)
    PROVE  IInv'
<1> DEFINE c == ctl[w]
           new == [c.cur EXCEPT !.consent = NoRequest]
<1>1. c.cur \in PVC /\ Snap(c.cur, pvc, rev, granted) /\ Good(Idle) /\ NoRequest \in Request
    BY Zenon, WorkerGood, IdleGood, GoodFields DEF NoRequest, Request, Owner
<1>2. new \in PVC /\ new.uid = c.cur.uid /\ new.final = c.cur.final
    BY <1>1 DEF PVC
<1>3. PatchPVC(w, c.cur, new, Idle)
    BY ZenonT(40) DEF DropOrphanedConsent
<1>4. QED
    BY Zenon, <1>1, <1>2, <1>3, GoodPatch

\* A new request keeps the token of the claim.
LEMMA StartRequestStep ==
    ASSUME IInv, NEW w \in Workers, startRequest(w)
    PROVE  IInv'
<1> DEFINE c == ctl[w]
           r == [cr |-> c.me, snr |-> c.snrSeen]
           new == [c.cur EXCEPT !.stuck = TRUE, !.req = r, !.nodeUID = c.nodeSeen.uid,
                                !.consent = NoRequest]
<1>1. c.cur \in PVC /\ Snap(c.cur, pvc, rev, granted) /\ Good(Idle) /\ NoRequest \in Request
    BY ZenonT(40), WorkerGood, IdleGood, GoodFields DEF NoRequest, Request, Owner
<1>2. r \in Request /\ c.nodeSeen.uid \in Nat
    BY WorkerGood, GoodFields DEF Request, Node
<1>3. new \in PVC
    <2> HIDE DEF r
    <2> QED
        BY <1>1, <1>2, Zenon DEF PVC
<1>4. new.uid = c.cur.uid /\ new.final = c.cur.final
    BY <1>1 DEF PVC
<1>5. PatchPVC(w, c.cur, new, Idle)
    BY ZenonT(40) DEF startRequest
<1>6. QED
    BY ZenonT(40), <1>1, <1>3, <1>4, <1>5, GoodPatch

---------------------------------------------------------------------------
(* deletePVCAndPods                                                         *)

\* The pause switch is read, with the claim still at hand.
LEMMA IsRemediationPausedStep ==
    ASSUME IInv, NEW w \in Workers, isRemediationPaused(w)
    PROVE  IInv'
<1> DEFINE c == ctl[w]
           X == At(c, "listPods")
<1>1. Good(c) /\ Good(Idle) /\ c \in Local /\ "listPods" \in PCs /\ c.pc = "checkPause"
    BY ZenonT(40), WorkerGood, IdleGood, GoodFields DEF PCs, isRemediationPaused
<1>2. /\ X \in Local /\ X.pc = "listPods" /\ X.cur = c.cur /\ X.cmt = c.cmt
      /\ X.listed = c.listed /\ X.todo = c.todo
    BY <1>1, PcUpdate
<1>3. Good(X)
    <2> HIDE DEF X
    <2> QED
        BY Zenon, <1>1, <1>2 DEF Good, LocalOK, CommitPCs, CleanupPCs
<1>4. QED
    BY ZenonT(40), <1>1, <1>3, GoodMove DEF isRemediationPaused

\* Records are records, wherever they are kept.
LEMMA RecordsTyped ==
    ASSUME IInv
    PROVE  Records \subseteq Commit
<1> SUFFICES ASSUME NEW a \in Records PROVE a \in Commit
    OBVIOUS
<1>1. CASE a = NoCommit \/ a \in granted
    BY Zenon, <1>1, IdleOK DEF IInv, TypeOK, Local, Idle
<1>2. CASE \E u \in PVCIds : a = commits[u]
    BY <1>2 DEF IInv, TypeOK
<1>3. CASE \E w \in Workers : a = ctl[w].cmt \/ a \in ctl[w].todo
    BY <1>3, WorkerGood, GoodFields
<1>4. QED
    BY <1>1, <1>2, <1>3, RecordsMembers

\* A prepared record built from a copy of the claim is a record.
LEMMA NewRecord ==
    ASSUME NEW p \in PVC, NEW o \in Owner, NEW t \in Nat, NEW S \in SUBSET Nat
    PROVE  [phase |-> "prepared", pvc |-> p.uid, rv |-> p.rv, req |-> p.req, owner |-> o,
            token |-> t, pods |-> S] \in Commit
<1>1. p.uid \in Nat /\ p.rv \in Nat /\ p.req \in Request
    BY ClusterAssumptions DEF PVC
<1>2. QED
    BY ZenonT(40), <1>1 DEF Commit

\* A drawn token is new, so the new record cannot disagree with an older one.
LEMMA ListPodsStep ==
    ASSUME IInv, NEW w \in Workers, ListPods(w)
    PROVE  IInv'
<1> DEFINE c == ctl[w]
           y == [phase |-> "prepared", pvc |-> c.cur.uid, rv |-> c.cur.rv, req |-> c.cur.req,
                 owner |-> c.me, token |-> lastToken + 1, pods |-> podsUsingPVC]
           X == AtRecord(c, "createCommit", y)
<1>1. Good(c) /\ c \in Local /\ c.cur \in PVC /\ c.me \in Owner /\ "createCommit" \in PCs
          /\ c.pc = "listPods"
    BY Zenon, WorkerGood, GoodFields DEF ListPods, PCs
<1>2. CASE Move(w, At(c, "clear")) /\ UNCHANGED lastToken
    <2>1. Good(At(c, "clear"))
        BY <1>1, QuietPc DEF QuietPCs, PCs, CommitPCs
    <2>2. ClusterUnchanged
        BY ZenonT(40), <1>2 DEF ListPods, ClusterUnchanged
    <2>3. QED
        BY <1>2, <2>1, <2>2, GoodMove, Zenon
<1>3. CASE lastToken' = lastToken + 1 /\ Move(w, X)
    <2>1. UNCHANGED <<pvc, rev, lastPVC, commits, pods, node, snrs, deps, crs, cache, budget,
                      granted, killed>>
        BY Zenon DEF ListPods, apiVars, histVars
    <2>2. lastToken \in Nat /\ \A p \in podsUsingPVC : p \in PodIds /\ p \in Nat /\ pods[p].st # "none"
        BY ClusterAssumptions DEF IInv, TypeOK, podsUsingPVC, PodIds
    <2>3. y \in Commit /\ y.token = lastToken + 1 /\ y.pods = podsUsingPVC /\ y.pvc = c.cur.uid
        <3>1. lastToken + 1 \in Nat /\ podsUsingPVC \in SUBSET Nat
            BY <2>2
        <3>2. y \in Commit
            BY Zenon, <1>1, <3>1, NewRecord
        <3>3. QED
            BY Zenon, <3>2
    <2>4. /\ X \in Local /\ X.pc = "createCommit" /\ X.cur = c.cur /\ X.cmt = y
          /\ X.listed = c.listed /\ X.todo = c.todo
        <3>1. c \in Local /\ "createCommit" \in PCs /\ y \in Commit
            BY Zenon, <1>1, <2>3
        <3>2. X = AtRecord(c, "createCommit", y)
            OBVIOUS
        <3> HIDE DEF c, y, X
        <3>3. QED
            BY <3>1, <3>2, RecordUpdate
    <2>5. LocalOK(X, pvc, rev, granted, pods)
        <3>1. c.cur.uid \in PVCIds
            BY ZenonT(40), <1>1 DEF Good, LocalOK
        <3> HIDE DEF X, y
        <3>2. lastToken + 1 # 0
            BY <2>2
        <3>3. QED
            BY ZenonT(40), <1>1, <2>3, <2>4, <3>1, <3>2, GoodFields DEF LocalOK, CommitPCs, CleanupPCs
    <2> HIDE DEF X, y
    <2>6. ctl'[w] = X /\ \A v \in Workers : v # w => ctl'[v] = ctl[v]
        BY <1>3, Zenon DEF Move, IInv, TypeOK
    <2>7. \A a \in Records' : a = y \/ a \in Records
        <3> SUFFICES ASSUME NEW a \in Records', a # y PROVE a \in Records
            BY Zenon
        <3>1. CASE a = NoCommit \/ a \in granted' \/ \E u \in PVCIds : a = commits'[u]
            BY <3>1, <2>1, RecordsMembers
        <3>2. CASE \E v \in Workers : a = ctl'[v].cmt \/ a \in ctl'[v].todo
            <4> PICK v \in Workers : a = ctl'[v].cmt \/ a \in ctl'[v].todo
                BY <3>2
            <4>1. CASE v = w
                BY ZenonT(40), <4>1, <2>4, <2>6, RecordsMembers, <1>1, GoodFields
            <4>2. CASE v # w
                BY ZenonT(40), <4>2, <2>6, RecordsMembers
            <4>3. QED
                BY <4>1, <4>2
        <3>3. QED
            BY <3>1, <3>2, NewRecordsMembers
    <2>8. RecordsOK'
        <3>1. \A a \in Records : a.token \in Nat /\ a.token <= lastToken /\ a.token # lastToken + 1
            <4>1. \A a \in Records : a.token \in Nat
                BY RecordsTyped DEF Commit
            <4>2. QED
                BY <4>1, <2>2 DEF IInv, RecordsOK
        <3>2. \A a, b \in Records' : a.token = b.token => a.pods = b.pods
            BY Zenon, <2>3, <2>7, <3>1 DEF IInv, RecordsOK
        <3>3. \A a \in Records' : (a = NoCommit \/ a.token # 0) /\ a.token <= lastToken'
            <4> lastToken \in Nat /\ lastToken' = lastToken + 1
                BY Zenon, <1>3, <2>2
            <4>1. lastToken + 1 # 0 /\ lastToken + 1 <= lastToken'
                OBVIOUS
            <4>2. \A a \in Records : a = NoCommit \/ a.token # 0
                BY Zenon DEF IInv, RecordsOK
            <4>3. \A a \in Records : a.token <= lastToken'
                BY <3>1
            <4>4. QED
                BY ZenonT(40), <2>3, <2>7, <4>1, <4>2, <4>3
        <3>4. \A a \in Records' : \A p \in a.pods : p \in PodIds /\ pods'[p].st # "none"
            BY <2>1, <2>2, <2>3, <2>7, ZenonT(40) DEF IInv, RecordsOK
        <3>5. QED
            BY ZenonT(40), <3>2, <3>3, <3>4 DEF RecordsOK, NoCommit, NoRequest, PodIds
    <2>9. TypeOK'
        BY <1>3, <2>1, <2>2, <2>4 DEF IInv, TypeOK, Move
    <2>10. \A v \in Workers : LocalOK(ctl'[v], pvc', rev', granted', pods')
        BY ZenonT(40), <2>1, <2>5, <2>6 DEF IInv
    <2>11. Snap(pvc', pvc', rev', granted') /\ (pvc'.uid # 0 => pvc'.rv # 0)
               /\ OnlyRecordedPodsKilled'
        BY ZenonT(40), <2>1 DEF IInv, OnlyRecordedPodsKilled
    <2>12. QED
        BY ZenonT(40), <2>8, <2>9, <2>10, <2>11 DEF IInv
<1>4. QED
    BY <1>2, <1>3 DEF ListPods

\* A local state with a record at hand but nothing else checked.
LEMMA HasRecordGood ==
    ASSUME IInv, NEW c, Good(c), NEW X \in Local, X.pc \in CommitPCs \ (CleanupPCs \union
               {"createCommit", "fenceNode", "finalize"}),
           X.cmt \in Records, X.cmt.token # 0, X.cur \in {c.cur, pvc}, X.listed = c.listed,
           X.todo = c.todo
    PROVE  Good(X)
<1>1. Snap(X.cur, pvc, rev, granted) /\ Snap(X.listed, pvc, rev, granted)
    BY PVCGood, GoodFields, Zenon
<1>2. X.todo \subseteq Records /\ NoCommit \notin X.todo
    BY GoodFields
<1>3. QED
    BY Zenon, <1>1, <1>2 DEF Good, LocalOK, CommitPCs, CleanupPCs

\* A created record is the one at hand, an adopted one is stored.
LEMMA CreateOrAdoptStep ==
    ASSUME IInv, NEW w \in Workers, createOrAdoptDeletionCommit(w)
    PROVE  IInv'
<1> DEFINE c == ctl[w]
           old == commits[c.cmt.pvc]
<1>1. Good(c) /\ Good(Idle) /\ c \in Local /\ c.cmt \in Commit /\ c.cmt \in Records
          /\ c.pc = "createCommit" /\ "readCurrent" \in PCs /\ "readAdopted" \in PCs
    BY ZenonT(40), WorkerGood, IdleGood, GoodFields DEF PCs, createOrAdoptDeletionCommit
<1>2. c.cmt.pvc \in PVCIds /\ c.cmt.token # 0
    BY ZenonT(40), <1>1 DEF Good, LocalOK, CommitPCs
<1>3. commits \in [PVCIds -> Commit] /\ old \in Commit /\ old \in Records
    BY <1>2, RecordsMembers DEF IInv, TypeOK
<1>4. old.phase # "absent" => old.token # 0
    <2>1. old = NoCommit \/ old.token # 0
        BY ZenonT(40), <1>3 DEF IInv, RecordsOK
    <2>2. NoCommit.phase = "absent"
        BY Zenon DEF NoCommit
    <2>3. QED
        BY Zenon, <2>1, <2>2
<1>5. Good(At(c, "readCurrent"))
    BY <1>1, <1>2, PcUpdate, HasRecordGood DEF CommitPCs, CleanupPCs
<1>6. ASSUME old.phase # "absent", NEW q \in {"readCurrent", "readAdopted"}
      PROVE  Good(AtRecord(c, q, old))
    <2>1. q \in PCs /\ q \in CommitPCs \ (CleanupPCs \union {"createCommit", "fenceNode", "finalize"})
        BY <1>1, <1>6 DEF CommitPCs, CleanupPCs
    <2> DEFINE X == AtRecord(c, q, old)
    <2>2. /\ X \in Local /\ X.pc = q /\ X.cur = c.cur /\ X.cmt = old /\ X.listed = c.listed
          /\ X.todo = c.todo
        <3> HIDE DEF old
        <3> QED
            BY ZenonT(40), <1>1, <1>3, <2>1, RecordUpdate
    <2>3. Good(X)
        <3> HIDE DEF X, old
        <3> QED
            BY <1>1, <1>3, <1>4, <1>6, <2>1, <2>2, HasRecordGood
    <2>4. QED
        BY <2>3, Zenon
<1>7. commits' \in [PVCIds -> Commit] /\ \A u \in PVCIds : commits'[u] \in {commits[u], c.cmt}
    BY Zenon, <1>1, <1>3 DEF createOrAdoptDeletionCommit
<1>8. \A u \in PVCIds : Kept(commits'[u])
    BY ZenonT(40), <1>1, <1>7, RecordsMembers DEF Kept
<1>9. PICK X : Good(X) /\ Move(w, X)
    <2>1. \/ Move(w, At(c, "readCurrent"))
          \/ old.phase = "prepared" /\ Move(w, AtRecord(c, "readCurrent", old))
          \/ old.phase = "committed" /\ Move(w, AtRecord(c, "readAdopted", old))
          \/ Move(w, Idle)
        BY ZenonT(40) DEF createOrAdoptDeletionCommit, Return
    <2> HIDE DEF old
    <2>2. QED
        BY <1>1, <1>5, <1>6, <2>1
<1>10. QED
    BY ZenonT(40), <1>7, <1>8, <1>9, GoodCommits DEF createOrAdoptDeletionCommit

\* A re-read claim that carries the finalized token lets the cleanup start.
LEMMA ResumeReadGood ==
    ASSUME IInv, NEW c, Good(c), c.cmt.token # 0
    PROVE  Good(ResumeRead(c, pvc))
<1> DEFINE X == AtWith(c, "listUsers", pvc)
<1>1. c \in Local /\ pvc \in PVC /\ "listUsers" \in PCs
    BY GoodFields, PVCGood DEF PCs
<1>2. /\ X \in Local /\ X.pc = "listUsers" /\ X.cur = pvc /\ X.cmt = c.cmt
      /\ X.listed = c.listed /\ X.todo = c.todo
    BY <1>1, PcCurUpdate
<1>3. ASSUME finalizedCommitMatchesPVC(pvc, c.cmt)
      PROVE  Good(X)
    <2>1. HasGrant(granted, c.cmt.pvc, c.cmt.token)
        BY ZenonT(40), <1>3, PVCGood, FinalizedIsGranted
    <2> HIDE DEF X
    <2>2. QED
        BY ZenonT(40), <1>2, <1>3, <2>1, PVCGood, GoodFields DEF Good, LocalOK, CommitPCs, CleanupPCs
<1>4. QED
    BY Zenon, <1>3, IdleGood DEF ResumeRead

\* Re-reading the claim of a committed record, adopted or just promoted.
LEMMA ReadAdoptedStep ==
    ASSUME IInv, NEW w \in Workers, ReadAdopted(w) \/ Reread(w)
    PROVE  IInv'
<1> DEFINE c == ctl[w]
<1>1. Good(c) /\ c.cmt.token # 0
    BY ZenonT(40), WorkerGood DEF Good, LocalOK, CommitPCs, ReadAdopted, Reread
<1>2. Good(At(c, "drop")) /\ Good(ResumeRead(c, pvc))
    BY Zenon, <1>1, QuietPc, ResumeReadGood DEF QuietPCs, PCs, CommitPCs
<1>3. QED
    BY <1>2, GoodMove DEF ReadAdopted, Reread

\* ensureProvisionalMarker reads the claim before it marks it.
LEMMA ReadCurrentStep ==
    ASSUME IInv, NEW w \in Workers, ReadCurrent(w)
    PROVE  IInv'
<1> DEFINE c == ctl[w]
<1>1. Good(c) /\ c.cmt.token # 0
    BY WorkerGood DEF Good, LocalOK, CommitPCs, ReadCurrent
<1>2. c \in Local /\ pvc \in PVC /\ c.cmt \in Records /\ "mark" \in PCs /\ "fenceSnr" \in PCs
    BY ZenonT(40), <1>1, GoodFields, PVCGood DEF PCs
<1>3. Good(AtWith(c, "fenceSnr", pvc))
    BY SMTT(60), <1>1, <1>2, PcCurUpdate, HasRecordGood DEF CommitPCs, CleanupPCs
<1>4. Good(At(c, "mark"))
    BY <1>1, <1>2, PcUpdate, HasRecordGood DEF CommitPCs, CleanupPCs
<1>5. Good(At(c, "drop"))
    BY <1>1, QuietPc DEF QuietPCs, PCs, CommitPCs
<1>6. PICK Y : Good(Y) /\ Move(w, Y)
    BY <1>3, <1>4, <1>5, Zenon DEF ReadCurrent
<1>7. QED
    BY <1>6, GoodMove DEF ReadCurrent

\* Spending keeps the budget a budget.
LEMMA BudgetType ==
    ASSUME IInv, NEW k \in EventKinds, Spend(k)
    PROVE  budget' \in [EventKinds -> Nat]
BY DEF Spend, IInv, TypeOK

\* The claim is written, or the write is refused, and the worker goes on with
\* the record it has.
LEMMA ConditionalWriteStep ==
    ASSUME IInv, NEW w \in Workers, NEW new \in PVC, NEW a \in PCs, NEW b \in PCs,
           {a, b} \subseteq {"confirmMark", "markFailed", "confirmFinal", "finalizeFailed"},
           ConditionalWrite(w, new, a, b), OnlyPVC, ctl[w].cmt.token # 0,
           granted \subseteq granted', granted' \subseteq granted \union {ctl[w].cmt},
           new.final # 0 /\ pvc.uid # 0 /\ pvc.rv = ctl[w].cur.rv =>
               HasGrant(granted', new.uid, new.final)
    PROVE  IInv'
<1> DEFINE c == ctl[w]
<1>1. Good(c) /\ c \in Local /\ c.cmt \in Records /\ c.cmt \in Commit
    BY ZenonT(40), WorkerGood, GoodFields
<1>2. Good(At(c, a)) /\ Good(At(c, b))
    BY SMTT(60), <1>1, PcUpdate, HasRecordGood DEF CommitPCs, CleanupPCs
<1>3. PICK X : Good(X) /\ Move(w, X)
    BY Zenon, <1>2 DEF ConditionalWrite
<1>4. UNCHANGED <<lastPVC, commits, pods, node, snrs, deps, crs, cache, lastToken, killed>>
    BY ZenonT(40) DEF OnlyPVC
<1>5. budget' \in [EventKinds -> Nat]
    <2>1. budget \in [EventKinds -> Nat] /\ "crash" \in EventKinds
        BY ZenonT(40) DEF EventKinds, IInv, TypeOK
    <2>2. QED
        BY ZenonT(40), <2>1, BudgetType DEF ConditionalWrite
<1>6. ClusterStep /\ pvc' \in PVC /\ rev' \in Nat
    <2>1. CASE pvc.uid # 0 /\ pvc.rv = c.cur.rv /\ WritePVC(new)
        BY ZenonT(40), <2>1, <1>4, WriteStep
    <2>2. CASE UNCHANGED <<pvc, rev>>
        <3>1. Snap(pvc, pvc, rev, granted')
            BY ZenonT(40) DEF IInv, Snap, HasGrant
        <3>2. QED
            BY ZenonT(40), <2>2, <1>4, <3>1 DEF IInv, TypeOK, ClusterStep
    <2>3. QED
        BY Zenon, <2>1, <2>2 DEF ConditionalWrite
<1>7. granted' \in SUBSET Commit
    BY ZenonT(40), <1>1 DEF IInv, TypeOK
<1>8. TypeOK'
    BY ZenonT(40), <1>3, <1>4, <1>5, <1>6, <1>7 DEF IInv, TypeOK, Move, Good
<1>9. OnlyRecordedPodsKilled'
    BY ZenonT(40), <1>4 DEF IInv, OnlyRecordedPodsKilled
<1>10. (\A u \in PVCIds : Kept(commits'[u])) /\ \A g \in granted' : Kept(g)
    BY ZenonT(40), <1>1, <1>4, RecordsMembers DEF Kept
<1>11. LocalOK(X, pvc', rev', granted', pods')
    BY ZenonT(40), <1>3, <1>6, LocalStable DEF Good
<1>12. QED
    BY ZenonT(40), <1>3, <1>4, <1>6, <1>8, <1>9, <1>10, <1>11, WorkerStep DEF Good, Kept

\* The provisional marker brings in no finalized token.
LEMMA MarkStep ==
    ASSUME IInv, NEW w \in Workers, Mark(w)
    PROVE  IInv'
<1> DEFINE c == ctl[w]
           new == [c.cur EXCEPT !.marker = c.cmt.owner, !.token = c.cmt.token]
<1>1. Good(c) /\ c.cmt.token # 0 /\ c.cur \in PVC /\ c.cmt \in Commit
          /\ Snap(c.cur, pvc, rev, granted)
    BY WorkerGood, GoodFields DEF Good, LocalOK, CommitPCs, Mark
<1>2. c.cmt.owner \in Owner /\ c.cmt.token \in Nat
    BY Zenon, <1>1 DEF Commit
<1>3. new \in PVC
    BY <1>1, <1>2, Zenon DEF PVC
<1>4. new.final = c.cur.final /\ new.uid = c.cur.uid
    BY <1>1 DEF PVC
<1>5. new.final # 0 => HasGrant(granted, new.uid, new.final)
    BY <1>1, <1>4 DEF Snap
<1>6. ConditionalWrite(w, new, "confirmMark", "markFailed") /\ OnlyPVC /\ granted' = granted
    BY ZenonT(40) DEF Mark
<1>7. QED
    <2> HIDE DEF new
    <2> QED
        BY ZenonT(40), <1>1, <1>3, <1>5, <1>6, ConditionalWriteStep DEF PCs

\* A prepared record may be rejected from the claim as last read.
LEMMA RejectGood ==
    ASSUME IInv, NEW c, Good(c), NEW p \in {c.cur, pvc}
    PROVE  Good(rejectPreparedDeletionCommit(c, p))
BY ZenonT(40), QuietPc DEF rejectPreparedDeletionCommit, QuietPCs, PCs, CommitPCs

\* The marker is read back.
LEMMA ConfirmMarkStep ==
    ASSUME IInv, NEW w \in Workers, ConfirmMark(w)
    PROVE  IInv'
<1> DEFINE c == ctl[w]
<1>1. Good(c) /\ c.cmt.token # 0 /\ Good(Idle)
    BY Zenon, WorkerGood, IdleGood DEF Good, LocalOK, CommitPCs, ConfirmMark
<1>2. c \in Local /\ pvc \in PVC /\ c.cmt \in Records /\ "fenceSnr" \in PCs
    BY Zenon, <1>1, GoodFields, PVCGood DEF PCs
<1>3. Good(AtWith(c, "fenceSnr", pvc))
    BY <1>1, <1>2, PcCurUpdate, HasRecordGood DEF CommitPCs, CleanupPCs
<1>4. Good(At(c, "drop"))
    BY <1>1, QuietPc DEF QuietPCs, PCs, CommitPCs
<1>5. QED
    BY <1>1, <1>3, <1>4, GoodMove DEF ConfirmMark

\* The finalized token was found, so the record was granted.
LEMMA PromoteGood ==
    ASSUME IInv, NEW c, Good(c), c.cmt.token # 0, NEW X \in Local, X.pc = "promote",
           X.cur \in {c.cur, pvc}, X.cmt = c.cmt, X.listed = c.listed, X.todo = c.todo,
           finalizedCommitMatchesPVC(X.cur, c.cmt)
    PROVE  Good(X)
<1>1. Snap(X.cur, pvc, rev, granted)
    BY ZenonT(40), GoodFields, PVCGood
<1>2. HasGrant(granted, c.cmt.pvc, c.cmt.token)
    BY Zenon, <1>1, FinalizedIsGranted
<1>3. QED
    BY ZenonT(40), <1>1, <1>2, GoodFields DEF Good, LocalOK, CommitPCs, CleanupPCs

\* Consent is checked on the copy that the final write will be bound to.
LEMMA FenceSnrStep ==
    ASSUME IInv, NEW w \in Workers, FenceSnr(w)
    PROVE  IInv'
<1> DEFINE c == ctl[w]
           X == AtSnr(c, "fenceNode", fencedSnr)
<1>1. Good(c) /\ c.cmt.token # 0
    BY ZenonT(40), WorkerGood DEF Good, LocalOK, CommitPCs, FenceSnr
<1>2. c \in Local /\ "promote" \in PCs /\ "fenceNode" \in PCs
    BY ZenonT(40), <1>1, GoodFields DEF PCs
<1>3. ASSUME finalizedCommitMatchesPVC(c.cur, c.cmt)
      PROVE  Good(At(c, "promote"))
    BY <1>1, <1>2, <1>3, PcUpdate, PromoteGood
<1>4. ASSUME preparedCommitMatchesPVC(c.cur, c.cmt),
             pvcDeletionConsentMatches(c.cur, c.cmt.owner, c.cmt.req)
      PROVE  Good(X)
    <2>1. /\ X \in Local /\ X.pc = "fenceNode" /\ X.cur = c.cur /\ X.cmt = c.cmt
          /\ X.listed = c.listed /\ X.todo = c.todo
        BY <1>2, FencedSnrType, SnrUpdate
    <2> HIDE DEF X
    <2>2. QED
        BY ZenonT(40), <1>1, <1>4, <2>1, GoodFields DEF Good, LocalOK, CommitPCs, CleanupPCs
<1>5. Good(rejectPreparedDeletionCommit(c, c.cur))
    BY ZenonT(40), <1>1, RejectGood
<1>6. PICK Y : Good(Y) /\ Move(w, Y)
    BY <1>3, <1>4, <1>5 DEF FenceSnr
<1>7. QED
    BY ZenonT(40), <1>6, GoodMove DEF FenceSnr

\* Checking the node keeps what was checked before.
LEMMA FenceNodeStep ==
    ASSUME IInv, NEW w \in Workers, FenceNode(w)
    PROVE  IInv'
<1> DEFINE c == ctl[w]
           X == At(c, "finalize")
<1>1. Good(c) /\ c \in Local /\ "finalize" \in PCs /\ c.pc = "fenceNode"
    BY Zenon, WorkerGood, GoodFields DEF PCs, FenceNode
<1>2. /\ X \in Local /\ X.pc = "finalize" /\ X.cur = c.cur /\ X.cmt = c.cmt
      /\ X.listed = c.listed /\ X.todo = c.todo
    BY <1>1, PcUpdate
<1>3. Good(X)
    <2> HIDE DEF X
    <2> QED
        BY Zenon, <1>1, <1>2, GoodFields DEF Good, LocalOK, CommitPCs, CleanupPCs
<1>4. Good(rejectPreparedDeletionCommit(c, c.cur))
    BY ZenonT(40), <1>1, RejectGood
<1>5. PICK Y : Good(Y) /\ Move(w, Y)
    BY <1>3, <1>4 DEF FenceNode
<1>6. QED
    BY ZenonT(40), <1>5, GoodMove DEF FenceNode

\* The finalized token and the grant of its record come together.
LEMMA FinalizeStep ==
    ASSUME IInv, NEW w \in Workers, Finalize(w)
    PROVE  IInv'
<1> DEFINE c == ctl[w]
           new == [c.cur EXCEPT !.final = c.cmt.token]
<1>1. /\ Good(c) /\ c.cmt.token # 0 /\ c.cur \in PVC /\ c.cmt \in Commit
      /\ preparedCommitMatchesPVC(c.cur, c.cmt)
    BY WorkerGood, GoodFields DEF Good, LocalOK, CommitPCs, Finalize
<1>2. new \in PVC /\ new.final = c.cmt.token /\ new.uid = c.cmt.pvc
    BY <1>1 DEF PVC, Commit, preparedCommitMatchesPVC
<1>3. /\ granted \subseteq granted' /\ granted' \subseteq granted \union {c.cmt}
      /\ pvc.uid # 0 /\ pvc.rv = c.cur.rv => c.cmt \in granted'
    BY DEF Finalize
<1>4. pvc.uid # 0 /\ pvc.rv = c.cur.rv => HasGrant(granted', new.uid, new.final)
    BY <1>2, <1>3 DEF HasGrant
<1>5. ConditionalWrite(w, new, "confirmFinal", "finalizeFailed") /\ OnlyPVC
    BY DEF Finalize
<1>6. QED
    <2> HIDE DEF new
    <2> QED
        BY ZenonT(40), <1>1, <1>2, <1>3, <1>4, <1>5, ConditionalWriteStep DEF PCs

\* A token that is read back was granted, whoever wrote it.
LEMMA ConfirmFinalStep ==
    ASSUME IInv, NEW w \in Workers, ConfirmFinal(w)
    PROVE  IInv'
<1> DEFINE c == ctl[w]
<1>1. Good(c) /\ c.cmt.token # 0 /\ Good(Idle)
    BY ZenonT(40), WorkerGood, IdleGood DEF Good, LocalOK, CommitPCs, ConfirmFinal
<1>2. c \in Local /\ pvc \in PVC /\ "promote" \in PCs
    BY ZenonT(40), <1>1, GoodFields, PVCGood DEF PCs
<1>3. ASSUME finalizedCommitMatchesPVC(pvc, c.cmt)
      PROVE  Good(AtWith(c, "promote", pvc))
    <2> DEFINE X == AtWith(c, "promote", pvc)
    <2>1. /\ X \in Local /\ X.pc = "promote" /\ X.cur = pvc /\ X.cmt = c.cmt
          /\ X.listed = c.listed /\ X.todo = c.todo
        BY <1>2, PcCurUpdate
    <2> HIDE DEF c, X
    <2> QED
        BY <1>1, <1>3, <2>1, PromoteGood, Zenon DEF X
<1>4. Good(rejectPreparedDeletionCommit(c, pvc))
    BY <1>1, RejectGood
<1>5. PICK Y : Good(Y) /\ Move(w, Y)
    BY <1>1, <1>3, <1>4 DEF ConfirmFinal
<1>6. QED
    BY <1>5, GoodMove DEF ConfirmFinal

---------------------------------------------------------------------------
(* The remaining steps                                                      *)

\* A step that leaves every worker where it is and takes nobody's record away
\* but the stored ones.
LEMMA QuietClusterStep ==
    ASSUME IInv, TypeOK', ClusterStep, UNCHANGED <<ctl, lastToken, granted, killed>>,
           \A u \in PVCIds : Kept(commits'[u])
    PROVE  IInv'
<1>1. \A a \in Records' : Kept(a)
    <2> SUFFICES ASSUME NEW a \in Records' PROVE Kept(a)
        OBVIOUS
    <2>1. CASE \E u \in PVCIds : a = commits'[u]
        BY <2>1
    <2>2. CASE ~ \E u \in PVCIds : a = commits'[u]
        BY ZenonT(40), <2>2, NewRecordsMembers, RecordsMembers DEF Kept
    <2>3. QED
        BY <2>1, <2>2
<1>2. RecordsOK'
    BY <1>1, RecordsStable
<1>3. \A w \in Workers : LocalOK(ctl'[w], pvc', rev', granted', pods')
    <2> SUFFICES ASSUME NEW w \in Workers PROVE LocalOK(ctl[w], pvc', rev', granted', pods')
        BY Zenon
    <2> QED
        BY WorkerGood, LocalStable DEF Good
<1>4. Snap(pvc', pvc', rev', granted') /\ (pvc'.uid # 0 => pvc'.rv # 0)
    BY DEF ClusterStep, IInv, TypeOK
<1>5. OnlyRecordedPodsKilled'
    BY DEF IInv, OnlyRecordedPodsKilled
<1>6. QED
    BY <1>2, <1>3, <1>4, <1>5 DEF IInv

\* A crash forgets everything local.
LEMMA CrashStep ==
    ASSUME IInv, NEW w \in Workers, Crash(w)
    PROVE  IInv'
<1>1. Good(Idle) /\ Move(w, Idle)
    BY IdleGood DEF Crash, Return
<1>2. UNCHANGED <<pvc, rev, lastPVC, commits, pods, node, snrs, deps, crs, cache,
                  lastToken, granted, killed>>
    BY DEF Crash, apiVars
<1>3. budget' \in [EventKinds -> Nat]
    <2>1. "crash" \in EventKinds
        BY Zenon DEF EventKinds
    <2>2. QED
        BY ZenonT(40), <2>1, BudgetType DEF Crash
<1>4. TypeOK'
    BY ZenonT(40), <1>1, <1>2, <1>3 DEF IInv, TypeOK, Move, Good
<1>5. ClusterStep /\ OnlyRecordedPodsKilled'
    BY ZenonT(40), <1>2 DEF IInv, ClusterStep, OnlyRecordedPodsKilled
<1>6. (\A u \in PVCIds : Kept(commits'[u])) /\ \A g \in granted' : Kept(g)
    BY <1>2, RecordsMembers DEF Kept
<1>7. LocalOK(Idle, pvc', rev', granted', pods')
    BY Zenon, <1>1, <1>2 DEF Good
<1>8. QED
    BY Zenon, <1>1, <1>2, <1>4, <1>5, <1>6, <1>7, WorkerStep DEF Good, Kept

\* The node, SNRs, dependencies and PodRemediators concern no conjunct but
\* their types.
LEMMA BystanderStep ==
    ASSUME IInv, UNCHANGED <<pvc, rev, lastPVC, commits, pods, ctl, lastToken, granted, killed>>,
           node' \in Node, snrs' \in [SnrIds -> Snr], deps' \in BOOLEAN,
           crs' \in [Remediators -> CR], cache' \in [Remediators -> CR],
           budget' \in [EventKinds -> Nat]
    PROVE  IInv'
<1>1. TypeOK' /\ ClusterStep
    BY DEF IInv, TypeOK, ClusterStep
<1>2. \A u \in PVCIds : Kept(commits'[u])
    BY Zenon, RecordsMembers DEF Kept
<1>3. QED
    BY <1>1, <1>2, QuietClusterStep, Zenon

\* Adding the finalizer concerns no record.
LEMMA AddFinalizerStep ==
    ASSUME IInv, NEW w \in Workers, NEW r \in Remediators, AddFinalizer(w, r)
    PROVE  IInv'
<1>1. crs' \in [Remediators -> CR]
    BY ZenonT(40) DEF AddFinalizer, IInv, TypeOK, CR
<1>2. QED
    BY <1>1, BystanderStep DEF AddFinalizer, IInv, TypeOK

\* The node fails, recovers, leaves or rejoins.
LEMMA NodeChangesStep ==
    ASSUME IInv, NEW st \in {"ready", "notReady", "absent"}, NodeChanges(st)
    PROVE  IInv'
<1>1. node' \in Node
    BY DEF NodeChanges, IInv, TypeOK, Node
<1>2. budget' \in [EventKinds -> Nat]
    BY BudgetType DEF NodeChanges, EventKinds
<1>3. QED
    BY Zenon, <1>1, <1>2, BystanderStep DEF NodeChanges, IInv, TypeOK

\* SNRs come, fence and go.
LEMMA SnrStep ==
    ASSUME IInv, NEW s \in SnrIds, SnrCreated(s) \/ SnrFences(s) \/ SnrRemoved(s)
    PROVE  IInv'
<1>1. snrs \in [SnrIds -> Snr] /\ node.uid \in Nat
    BY DEF IInv, TypeOK, Node
<1>2. snrs' \in [SnrIds -> Snr]
    <2>1. CASE SnrCreated(s)
        BY <1>1, <2>1 DEF SnrCreated, Snr
    <2>2. CASE SnrFences(s)
        BY <1>1, <2>2 DEF SnrFences, Snr
    <2>3. CASE SnrRemoved(s)
        BY <1>1, <2>3 DEF SnrRemoved, Snr
    <2>4. QED
        BY <2>1, <2>2, <2>3
<1>3. budget' \in [EventKinds -> Nat]
    BY ZenonT(40), BudgetType DEF SnrCreated, SnrFences, SnrRemoved, EventKinds, IInv, TypeOK
<1>4. QED
    BY <1>2, <1>3, BystanderStep DEF SnrCreated, SnrFences, SnrRemoved, IInv, TypeOK

\* PodRemediators come, change and go; the cache follows.
LEMMA CRStep ==
    ASSUME IInv, NEW r \in Remediators, CRCreated(r) \/ CRChanges(r) \/ CacheSync(r)
    PROVE  IInv'
<1>1. crs \in [Remediators -> CR] /\ cache \in [Remediators -> CR]
    BY DEF IInv, TypeOK
<1>2. crs' \in [Remediators -> CR] /\ cache' \in [Remediators -> CR]
    <2>1. CASE CRCreated(r)
        BY <1>1, <2>1 DEF CRCreated, CR
    <2>2. CASE CRChanges(r)
        <3>1. crs[r] \in CR
            BY <1>1
        <3>2. [crs[r] EXCEPT !.disabled = ~@] \in CR /\ [crs[r] EXCEPT !.paused = ~@] \in CR
            BY <3>1, Zenon DEF CR
        <3>3. \A st \in {"deleting", "gone"} : [crs[r] EXCEPT !.st = st] \in CR
            BY <3>1 DEF CR
        <3>4. \/ crs' = [crs EXCEPT ![r] = [crs[r] EXCEPT !.disabled = ~@]]
              \/ crs' = [crs EXCEPT ![r] = [crs[r] EXCEPT !.paused = ~@]]
              \/ \E st \in {"deleting", "gone"} : crs' = [crs EXCEPT ![r] = [crs[r] EXCEPT !.st = st]]
            BY <2>2, Zenon DEF CRChanges
        <3>5. \E v \in CR : crs' = [crs EXCEPT ![r] = v]
            BY <3>2, <3>3, <3>4, Zenon
        <3>6. QED
            BY <1>1, <2>2, <3>5 DEF CRChanges
    <2>3. CASE CacheSync(r)
        BY <1>1, <2>3 DEF CacheSync
    <2>4. QED
        BY <2>1, <2>2, <2>3
<1>3. budget' \in [EventKinds -> Nat]
    BY ZenonT(40), BudgetType DEF CRCreated, CRChanges, CacheSync, EventKinds, IInv, TypeOK
<1>4. QED
    BY <1>2, <1>3, BystanderStep, ZenonT(40) DEF CRCreated, CRChanges, CacheSync, IInv, TypeOK

\* The dependencies come and go.
LEMMA DepsChangeStep ==
    ASSUME IInv, DepsChange
    PROVE  IInv'
<1>1. budget' \in [EventKinds -> Nat]
    BY BudgetType DEF DepsChange, EventKinds
<1>2. deps' \in BOOLEAN
    BY DEF DepsChange
<1>3. QED
    BY ZenonT(40), <1>1, <1>2, BystanderStep DEF DepsChange, IInv, TypeOK

\* Pods move forward in their life; none that is gone returns.
LEMMA PodStep ==
    ASSUME IInv, NEW p \in PodIds,
           \/ PodCreated(p) \/ PodEvicted(p) \/ PodGone(p)
           \/ \E loc \in {"here", "elsewhere"} : PodScheduled(p, loc)
    PROVE  IInv'
<1>1. pods \in [PodIds -> Pod]
    BY DEF IInv, TypeOK
<1>2. UNCHANGED <<pvc, rev, lastPVC, commits, node, snrs, deps, crs, cache, ctl,
                  lastToken, granted, killed>>
    BY ZenonT(40) DEF PodCreated, PodEvicted, PodGone, PodScheduled
<1>3. budget' \in [EventKinds -> Nat]
    BY ZenonT(40), BudgetType DEF PodCreated, PodEvicted, PodGone, PodScheduled, EventKinds, IInv, TypeOK
<1>4. /\ pods' \in [PodIds -> Pod]
      /\ \A q \in PodIds : /\ pods[q].st = "gone" => pods'[q].st = "gone"
                           /\ pods[q].st # "none" => pods'[q].st # "none"
    <2>1. CASE PodCreated(p)
        BY <1>1, <2>1 DEF PodCreated, Pod
    <2>2. CASE PodEvicted(p)
        BY <1>1, <2>2 DEF PodEvicted, Pod
    <2>3. CASE PodGone(p)
        BY <1>1, <2>3 DEF PodGone, Pod
    <2>4. CASE \E loc \in {"here", "elsewhere"} : PodScheduled(p, loc)
        BY ZenonT(40), <1>1, <2>4 DEF PodScheduled, Pod
    <2>5. QED
        BY ZenonT(40), <2>1, <2>2, <2>3, <2>4
<1>5. TypeOK' /\ ClusterStep
    BY ZenonT(40), <1>2, <1>3, <1>4 DEF IInv, TypeOK, ClusterStep
<1>6. \A u \in PVCIds : Kept(commits'[u])
    BY ZenonT(40), <1>2, RecordsMembers DEF Kept
<1>7. QED
    BY <1>2, <1>5, <1>6, QuietClusterStep, Zenon

\* Somebody writes the claim, keeping its UID and bringing in no token.
LEMMA ForeignWriteStep ==
    ASSUME IInv, NEW new \in PVC, WritePVC(new), new.uid = pvc.uid, new.final \in {0, pvc.final},
           UNCHANGED <<lastPVC, commits, pods, node, snrs, deps, crs, cache, ctl,
                       lastToken, granted, killed>>,
           budget' \in [EventKinds -> Nat]
    PROVE  IInv'
<1>1. ClusterStep /\ pvc' \in PVC /\ rev' \in Nat
    BY ZenonT(40), WriteStep DEF IInv, Snap
<1>2. TypeOK'
    BY <1>1 DEF IInv, TypeOK
<1>3. \A u \in PVCIds : Kept(commits'[u])
    BY ZenonT(40), RecordsMembers DEF Kept
<1>4. UNCHANGED <<ctl, lastToken, granted, killed>>
    OBVIOUS
<1>5. QED
    BY <1>1, <1>2, <1>3, <1>4, QuietClusterStep, Zenon

\* Consent is given or withdrawn.
LEMMA ConsentChangesStep ==
    ASSUME IInv, NEW c \in {pvc.req, NoRequest}, ConsentChanges(c)
    PROVE  IInv'
<1> DEFINE new == [pvc EXCEPT !.consent = c]
<1>1. pvc \in PVC /\ c \in Request
    BY DEF IInv, TypeOK, PVC, NoRequest, Request, Owner
<1>2. new \in PVC /\ new.uid = pvc.uid /\ new.final = pvc.final
    BY <1>1 DEF PVC
<1>3. budget' \in [EventKinds -> Nat]
    BY BudgetType DEF ConsentChanges, EventKinds
<1>4. WritePVC(new)
    BY DEF ConsentChanges
<1>5. QED
    <2> HIDE DEF new
    <2> QED
        BY ZenonT(40), <1>2, <1>3, <1>4, ForeignWriteStep DEF ConsentChanges

\* Others edit the claim, and may remove tokens.
LEMMA PVCEditedStep ==
    ASSUME IInv, PVCEdited
    PROVE  IInv'
<1>1. pvc \in PVC /\ NoRemediator \in Owner
    BY DEF IInv, TypeOK, Owner
<1>2. budget' \in [EventKinds -> Nat]
    BY BudgetType DEF PVCEdited, EventKinds
<1>3. ASSUME NEW new \in PVC, new.uid = pvc.uid, new.final \in {0, pvc.final}, WritePVC(new)
      PROVE  IInv'
    BY <1>2, <1>3, ForeignWriteStep DEF PVCEdited
<1>4. CASE WritePVC(pvc)
    BY <1>1, <1>3, <1>4
<1>5. CASE WritePVC([pvc EXCEPT !.deleting = TRUE])
    <2> DEFINE new == [pvc EXCEPT !.deleting = TRUE]
    <2>1. new \in PVC /\ new.uid = pvc.uid /\ new.final = pvc.final
        BY Zenon, <1>1 DEF PVC
    <2>2. WritePVC(new)
        BY <1>5
    <2> HIDE DEF new
    <2>3. QED
        BY <1>3, <2>1, <2>2
<1>6. CASE WritePVC([pvc EXCEPT !.marker = NoRemediator])
    <2> DEFINE new == [pvc EXCEPT !.marker = NoRemediator]
    <2>1. new \in PVC /\ new.uid = pvc.uid /\ new.final = pvc.final
        BY <1>1 DEF PVC
    <2>2. WritePVC(new)
        BY <1>6
    <2> HIDE DEF new
    <2>3. QED
        BY <1>3, <2>1, <2>2
<1>7. CASE WritePVC([pvc EXCEPT !.marker = NoRemediator, !.token = 0, !.final = 0])
    <2> DEFINE new == [pvc EXCEPT !.marker = NoRemediator, !.token = 0, !.final = 0]
    <2>1. 0 \in Nat
        OBVIOUS
    <2>2. new \in PVC
        BY <1>1, <2>1, Zenon DEF PVC
    <2>3. new.uid = pvc.uid /\ new.final = 0
        BY <1>1 DEF PVC
    <2>4. WritePVC(new)
        BY ZenonT(40), <1>7
    <2> HIDE DEF new
    <2>5. QED
        BY <1>3, <2>2, <2>3, <2>4
<1>8. QED
    BY <1>4, <1>5, <1>6, <1>7, Zenon DEF PVCEdited

\* A claim without annotations.
LEMMA BarePVCType ==
    ASSUME NEW u \in 0..MaxPVC, NEW v \in Nat, NEW home \in {"direct", "hostname", "elsewhere"}
    PROVE  LET b == BarePVC(u, v, home) IN
           b \in PVC /\ b.uid = u /\ b.rv = v /\ b.final = 0
<1>1. NoRequest \in Request /\ NoRemediator \in Owner
    BY DEF NoRequest, Request, Owner
<1>2. QED
    BY <1>1 DEF BarePVC, PVC

\* The claim disappears.
LEMMA PVCRemovedStep ==
    ASSUME IInv, PVCRemoved
    PROVE  IInv'
<1>1. NoPVC \in PVC /\ NoPVC.uid = 0 /\ NoPVC.rv = 0 /\ NoPVC.final = 0
    <2>1. 0 \in 0..MaxPVC
        BY ClusterAssumptions
    <2>2. QED
        BY ZenonT(40), <2>1, BarePVCType DEF NoPVC
<1>2. pvc' = NoPVC /\ UNCHANGED <<rev, lastPVC, commits, pods, node, snrs, deps, crs, cache, ctl,
                                  lastToken, budget, granted, killed>>
    BY ZenonT(40) DEF PVCRemoved
<1>3. TypeOK'
    BY <1>1, <1>2 DEF IInv, TypeOK
<1>4. ClusterStep
    <2>1. 0 <= rev
        BY DEF IInv, TypeOK
    <2>2. Snap(pvc', pvc', rev', granted')
        BY ZenonT(40), <1>1, <1>2, <2>1 DEF Snap
    <2>3. QED
        BY ZenonT(40), <1>1, <1>2, <2>2 DEF ClusterStep
<1>5. \A u \in PVCIds : Kept(commits'[u])
    BY ZenonT(40), <1>2, RecordsMembers DEF Kept
<1>6. QED
    BY <1>2, <1>3, <1>4, <1>5, QuietClusterStep

\* The claim is created anew, without a token.
LEMMA PVCCreatedStep ==
    ASSUME IInv, NEW home \in Homes, PVCCreated(home)
    PROVE  IInv'
<1>1. rev \in Nat /\ lastPVC + 1 \in 0..MaxPVC /\ home \in {"direct", "hostname", "elsewhere"}
    BY ClusterAssumptions DEF IInv, TypeOK, PVCCreated
<1>2. /\ pvc' = BarePVC(lastPVC + 1, rev + 1, home) /\ rev' = rev + 1 /\ lastPVC' = lastPVC + 1
      /\ UNCHANGED <<commits, pods, node, snrs, deps, crs, cache, ctl,
                     lastToken, budget, granted, killed>>
    BY ZenonT(40) DEF PVCCreated
<1>3. pvc' \in PVC /\ pvc'.rv = rev + 1 /\ pvc'.final = 0
    BY <1>1, <1>2, BarePVCType
<1>4. TypeOK'
    BY <1>1, <1>2, <1>3 DEF IInv, TypeOK
<1>5. ClusterStep
    <2>1. rev + 1 <= rev + 1
        BY <1>1
    <2>2. Snap(pvc', pvc', rev', granted')
        BY Zenon, <1>2, <1>3, <2>1 DEF Snap
    <2>3. QED
        BY ZenonT(40), <1>2, <1>3, <2>2 DEF ClusterStep
<1>6. \A u \in PVCIds : Kept(commits'[u])
    BY Zenon, <1>2, RecordsMembers DEF Kept
<1>7. QED
    BY ZenonT(40), <1>2, <1>4, <1>5, <1>6, QuietClusterStep

\* Others damage or remove a record.
LEMMA CommitEditedStep ==
    ASSUME IInv, NEW u \in PVCIds, CommitEdited(u)
    PROVE  IInv'
<1> DEFINE y == [commits[u] EXCEPT !.phase = "damaged"]
<1>1. commits \in [PVCIds -> Commit] /\ NoCommit \in Commit /\ NoCommit \in Records
    BY ZenonT(40), IdleOK, RecordsMembers DEF IInv, TypeOK, Local, Idle
<1>2. /\ y \in Commit /\ y.token = commits[u].token /\ y.pods = commits[u].pods
      /\ commits[u] \in Records
    BY <1>1, RecordsMembers DEF Commit
<1>3. commits[u].token # 0
    BY <1>2 DEF CommitEdited, IInv, RecordsOK, NoCommit
<1>4. Kept(y) /\ Kept(NoCommit) /\ \A v \in PVCIds : Kept(commits[v])
    BY <1>1, <1>2, <1>3, RecordsMembers DEF Kept
<1>5. commits' \in {[commits EXCEPT ![u] = NoCommit], [commits EXCEPT ![u] = y]}
    BY DEF CommitEdited
<1>6. commits' \in [PVCIds -> Commit] /\ \A v \in PVCIds : Kept(commits'[v])
    <2> HIDE DEF y
    <2>1. commits' \in [PVCIds -> Commit] /\ \A v \in PVCIds : commits'[v] \in {commits[v], y, NoCommit}
        BY <1>1, <1>2, <1>5
    <2>2. QED
        BY <1>4, <2>1
<1>7. budget' \in [EventKinds -> Nat]
    BY BudgetType DEF CommitEdited, EventKinds
<1>8. UNCHANGED <<pvc, rev, lastPVC, pods, node, snrs, deps, crs, cache, ctl,
                  lastToken, granted, killed>>
    BY ZenonT(40) DEF CommitEdited
<1>9. TypeOK' /\ ClusterStep
    BY <1>6, <1>7, <1>8, ZenonT(40) DEF IInv, TypeOK, ClusterStep
<1>10. QED
    BY <1>6, <1>8, <1>9, QuietClusterStep

---------------------------------------------------------------------------
(* The invariant                                                            *)

\* The invariant holds at the start.
LEMMA InitIInv == Init => IInv
<1> SUFFICES ASSUME Init PROVE IInv
    OBVIOUS
<1>1. NoRequest \in Request /\ LegacyConsent \in Request /\ NoRemediator \in Owner
    BY DEF NoRequest, LegacyConsent, Request, Owner
<1>2. PICK home \in Homes :
          \/ pvc = BarePVC(1, 1, home)
          \/ pvc = [BarePVC(1, 1, home) EXCEPT !.stuck = TRUE]
          \/ pvc = [BarePVC(1, 1, home) EXCEPT !.consent = LegacyConsent]
    BY DEF Init
<1>3. BarePVC(1, 1, home) \in PVC /\ BarePVC(1, 1, home).uid = 1 /\ BarePVC(1, 1, home).rv = 1
          /\ BarePVC(1, 1, home).final = 0
    BY ClusterAssumptions, BarePVCType
<1>4. pvc \in PVC /\ pvc.uid = 1 /\ pvc.rv = 1 /\ pvc.final = 0
    BY ZenonT(40), <1>1, <1>2, <1>3 DEF PVC
<1>5. /\ NoPVC \in PVC /\ NoPVC.rv = 0 /\ NoPVC.final = 0
      /\ NoCommit \in Commit /\ NoCommit.token = 0 /\ NoCommit.pods = {}
    BY SMTT(60), <1>1, ClusterAssumptions, BarePVCType DEF NoPVC, NoCommit, Commit
<1>6. /\ Idle \in Local /\ Idle.pc = "idle" /\ Idle.cur = NoPVC /\ Idle.listed = NoPVC
      /\ Idle.cmt = NoCommit /\ Idle.todo = {}
    BY Zenon, <1>5 DEF Idle, Local, PCs, CR, Node, Owner
<1>7. TypeOK
    BY <1>4, <1>5, <1>6, ClusterAssumptions DEF Init, TypeOK, Pod, Node, Snr, CR
<1>8. \A a \in Records : a = NoCommit
    BY <1>6, RecordsMembers, Zenon DEF Init
<1>9. RecordsOK
    BY <1>5, <1>8 DEF RecordsOK, Init
<1>10. Snap(pvc, pvc, rev, granted) /\ Snap(NoPVC, pvc, rev, granted)
    BY <1>4, <1>5 DEF Snap, Init
<1>11. \A w \in Workers : ctl[w] = Idle
    BY DEF Init
<1>12. LocalOK(Idle, pvc, rev, granted, pods)
    BY Zenon, <1>6, <1>10 DEF LocalOK, CommitPCs, CleanupPCs
<1>13. OnlyRecordedPodsKilled
    BY Zenon DEF Init, OnlyRecordedPodsKilled
<1>14. QED
    BY <1>4, <1>7, <1>9, <1>10, <1>11, <1>12, <1>13, ZenonT(40) DEF IInv

\* The environment keeps the invariant.
LEMMA EnvironmentIInv ==
    ASSUME IInv, Environment
    PROVE  IInv'
BY NodeChangesStep, SnrStep, ConsentChangesStep, PodStep, PVCRemovedStep, PVCEditedStep,
   PVCCreatedStep, CommitEditedStep, CRStep, DepsChangeStep, Zenon DEF Environment

\* Every step of a worker keeps the invariant.
LEMMA StepIInv ==
    ASSUME IInv, NEW w \in Workers, Step(w)
    PROVE  IInv'
<1>1. CASE \E r \in Remediators : AddFinalizer(w, r) \/ Reconcile(w, r)
    BY <1>1, AddFinalizerStep, ReconcileStep
<1>2. CASE ListPVCs(w) \/ ListCommits(w) \/ ResumeScrub(w) \/ Drop(w) \/ Clear(w)
    BY ZenonT(40), <1>2, ListPVCsStep, ListCommitsStep, ResumeScrubStep, DropStep, ClearStep
<1>3. CASE \E x \in ctl[w].todo : ResumeDamaged(w, x) \/ ResumeForeign(w, x) \/ ResumeOwn(w, x)
    BY <1>3, ResumeDamagedStep, ResumeForeignStep, ResumeOwnStep
<1>4. CASE \/ promotePreparedDeletionCommit(w) \/ ListUsers(w) \/ ListRemaining(w)
           \/ DeletePVC(w) \/ ConfirmGone(w) \/ \E x \in ctl[w].seen : DeletePod(w, x)
    BY Zenon, <1>4, PromoteStep, ListUsersStep, DeletePodStep, ListRemainingStep, DeletePVCStep,
       ConfirmGoneStep
<1>5. CASE CleanupList(w) \/ CleanupPatch(w) \/ RemoveFinalizer(w)
    BY <1>5, CleanupListStep, CleanupPatchStep, RemoveFinalizerStep
<1>6. CASE CheckDeps(w) \/ ScanNodes(w) \/ ScanSnrs(w) \/ ScanPVC(w)
    BY ZenonT(40), <1>6, CheckDepsStep, ScanNodesStep, ScanSnrsStep, ScanPVCStep
<1>7. CASE ClearRecovered(w) \/ DropOrphanedConsent(w) \/ startRequest(w)
    BY <1>7, ClearRecoveredStep, DropOrphanedConsentStep, StartRequestStep
<1>8. CASE isRemediationPaused(w) \/ ListPods(w) \/ createOrAdoptDeletionCommit(w)
    BY <1>8, IsRemediationPausedStep, ListPodsStep, CreateOrAdoptStep
<1>9. CASE ReadAdopted(w) \/ Reread(w) \/ ReadCurrent(w) \/ Mark(w) \/ ConfirmMark(w)
    BY <1>9, ReadAdoptedStep, ReadCurrentStep, MarkStep, ConfirmMarkStep, Zenon
<1>10. CASE FenceSnr(w) \/ FenceNode(w) \/ Finalize(w) \/ ConfirmFinal(w)
    BY <1>10, FenceSnrStep, FenceNodeStep, FinalizeStep, ConfirmFinalStep
<1>11. QED
    BY Zenon, <1>1, <1>2, <1>3, <1>4, <1>5, <1>6, <1>7, <1>8, <1>9, <1>10 DEF Step

\* Nothing happens.
LEMMA StutterIInv ==
    ASSUME IInv, UNCHANGED vars
    PROVE  IInv'
<1>1. TypeOK' /\ ClusterStep
    BY Zenon DEF IInv, TypeOK, ClusterStep, vars
<1>2. \A u \in PVCIds : Kept(commits'[u])
    BY RecordsMembers DEF Kept, vars
<1>3. QED
    BY ZenonT(40), <1>1, <1>2, QuietClusterStep DEF vars

\* The invariant always holds.
LEMMA InductiveInvariant == Spec => []IInv
<1>1. IInv /\ [Next]_vars => IInv'
    BY EnvironmentIInv, StepIInv, CrashStep, StutterIInv DEF Next
<1>2. QED
    BY <1>1, InitIInv, PTL DEF Spec

===============================================================================
