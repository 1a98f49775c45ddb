--------------------- MODULE PodRemediatorFinalizerProofs ---------------------
(***************************************************************************)
(* What the finalizer of a PodRemediator stands for, with one worker, any  *)
(* number of PodRemediators, claim incarnations, edits and crashes.        *)
(*                                                                         *)
(* reconcileDelete works from a cached object, lists records in one call   *)
(* and resolves them one by one in others, and the invariant accounts for  *)
(* each: a record of a deleted PodRemediator is held, still in the list,   *)
(* or the one at hand, until the pass ends with none.  What keeps new ones *)
(* from appearing is that requests and records are written only for a      *)
(* PodRemediator whose copy has no deletion timestamp, and that only the   *)
(* worker itself could have removed the finalizer since.                   *)
(***************************************************************************)
EXTENDS PodRemediatorStepProofs

---------------------------------------------------------------------------
(* A PodRemediator that is gone left nothing behind                         *)

\* The claims that a usable record of PodRemediator r is stored for.
Owned(r, C) == {u \in PVCIds : C[u].owner = r /\ C[u].phase \in {"prepared", "committed"}}

\* Neither a request q on the claim nor a usable record among C is of r.
Clean(r, q, C) == q.cr # r /\ Owned(r, C) = {}

ResumePCs == {"resume", "drop", "dropClear", "clear", "promote", "listUsers", "deletePods",
              "deletePVC", "confirmGone"}
CleaningPCs == {"cleanupList", "cleanupPatch", "removeFinalizer"}

\* The worker reconciles a PodRemediator that it saw being deleted.
Ending(c) == c.pc # "idle" /\ c.inst.st = "deleting"

\* What a worker's copy of its PodRemediator says of the resources R and of
\* the cache K.  A copy without deletion timestamp may be stale, but only this
\* worker could have removed the finalizer since.
IdentityOK(c, R, K) ==
    c.pc # "idle" =>
        /\ c.me \in Remediators /\ c.inst.st \in {"live", "deleting"}
        /\ c.inst.st = "live" => R[c.me].st \in {"live", "deleting"} /\ R[c.me].fin
        /\ c.inst.st = "deleting" => K[c.me].st \in {"deleting", "gone"}

\* Where the record at hand comes from, and where a deleted PodRemediator leads.
ShapeOK(c) ==
    /\ c.pc \in {"listPVCs", "listCommits", "resume"} => c.cmt = NoCommit
    /\ c.pc \in {"listPVCs", "listCommits"} => c.stage = "resume"
    /\ c.pc = "createCommit" => c.cmt.owner = c.me
    /\ c.pc \in PreparingPCs \union {"createCommit"} => c.cmt.phase = "prepared"
    /\ c.pc = "removeFinalizer" => c.inst.st = "deleting"
    /\ Ending(c) => c.pc \in {"listPVCs", "listCommits"} \union ResumePCs \union CleaningPCs

\* The resume pass accounts for every record of a deleted PodRemediator: it is
\* held, still to be resumed, or the one at hand.  Past the pass there is none.
WorkOK(c, q, C) ==
    Ending(c) =>
        /\ c.pc \in ResumePCs =>
              /\ c.stage = "resume"
              /\ \A u \in Owned(c.me, C) : u \in c.held \/ C[u] \in c.todo \/ u = c.cmt.pvc
        /\ c.pc = "clear" => c.cmt.pvc \notin Owned(c.me, C)
        /\ c.pc \in CleaningPCs => Owned(c.me, C) = {}
        /\ c.pc = "removeFinalizer" => q.cr # c.me

FinalOK(c, q, C, R, K) == IdentityOK(c, R, K) /\ ShapeOK(c) /\ WorkOK(c, q, C)

\* The resources and the cache, which lags behind but never goes back.
ResourcesOK(q, C, R, K) ==
    \A r \in Remediators :
        /\ ~R[r].fin => Clean(r, q, C)
        /\ R[r].st \in {"none", "gone"} => ~R[r].fin
        /\ K[r].st = "gone" => R[r].st = "gone"
        /\ K[r].st = "deleting" => R[r].st \in {"deleting", "gone"}
        /\ K[r].st \in {"none", "live"} /\ K[r].fin => R[r].fin /\ R[r].st \in {"live", "deleting"}

RecordsNamed(C) ==
    \A u \in PVCIds : C[u] = NoCommit \/ (C[u].pvc = u /\ C[u].phase # "absent")

FinInv ==
    /\ ResourcesOK(pvc.req, commits, crs, cache)
    /\ RecordsNamed(commits)
    /\ pvc.uid = 0 => pvc.req = NoRequest
    /\ \A w \in Workers : FinalOK(ctl[w], pvc.req, commits, crs, cache)

\* What is known of a worker at the start of a step.
LEMMA FinFacts ==
    ASSUME IInv, FinInv, NEW w \in Workers
    PROVE  /\ ctl[w] \in Local /\ IdentityOK(ctl[w], crs, cache) /\ ShapeOK(ctl[w])
           /\ WorkOK(ctl[w], pvc.req, commits)
           /\ commits \in [PVCIds -> Commit] /\ pvc \in PVC
BY DEF IInv, TypeOK, FinInv, FinalOK

\* The values that stand for nothing name nobody.
LEMMA Nothing ==
    /\ NoCommit.pvc = 0 /\ NoCommit.phase = "absent" /\ NoRequest.cr = NoRemediator
    /\ 0 \notin PVCIds /\ NoRemediator \notin Remediators
    /\ NoCommit.owner = NoRemediator
BY ClusterAssumptions DEF NoCommit, NoRequest, PVCIds

\* The idle worker has nothing to keep.
LEMMA IdleFin ==
    ASSUME NEW q, NEW C, NEW R, NEW K
    PROVE  FinalOK(Idle, q, C, R, K)
BY Zenon DEF FinalOK, IdentityOK, ShapeOK, WorkOK, Idle, Ending, PreparingPCs

\* A request that disappears disturbs nothing.
LEMMA RequestStable ==
    ASSUME NEW q, NEW p, NEW C, NEW R, NEW K, p = q \/ p = NoRequest
    PROVE  /\ ResourcesOK(q, C, R, K) => ResourcesOK(p, C, R, K)
           /\ \A c : FinalOK(c, q, C, R, K) => FinalOK(c, p, C, R, K)
<1>1. ResourcesOK(q, C, R, K) => ResourcesOK(p, C, R, K)
    BY Nothing DEF ResourcesOK, Clean
<1>2. ASSUME NEW c, FinalOK(c, q, C, R, K) PROVE FinalOK(c, p, C, R, K)
    <2>1. WorkOK(c, p, C)
        BY <1>2, Nothing DEF FinalOK, WorkOK, IdentityOK, Ending
    <2> QED
        BY <1>2, <2>1 DEF FinalOK
<1> QED
    BY <1>1, <1>2

\* Records only disappear or become unusable.
Shrinks(C, D) == \A r \in Remediators : \A u \in Owned(r, D) : u \in Owned(r, C) /\ D[u] = C[u]

\* That leaves less to account for.
LEMMA ShrinkStable ==
    ASSUME NEW C, NEW D, Shrinks(C, D)
    PROVE  /\ \A c, q, R, K : IdentityOK(c, R, K) /\ WorkOK(c, q, C) => WorkOK(c, q, D)
           /\ \A q, R, K : ResourcesOK(q, C, R, K) => ResourcesOK(q, D, R, K)
<1>1. ASSUME NEW c, NEW q, NEW R, NEW K, IdentityOK(c, R, K), WorkOK(c, q, C) PROVE WorkOK(c, q, D)
    <2>1. Ending(c) => c.me \in Remediators
        BY <1>1 DEF IdentityOK, Ending
    <2>2. Ending(c) => \A u \in Owned(c.me, D) : u \in Owned(c.me, C) /\ D[u] = C[u]
        BY <2>1 DEF Shrinks
    <2> QED
        BY <1>1, <2>2 DEF WorkOK
<1>2. ASSUME NEW q, NEW R, NEW K, ResourcesOK(q, C, R, K) PROVE ResourcesOK(q, D, R, K)
    <2>1. \A r \in Remediators : Clean(r, q, C) => Clean(r, q, D)
        BY DEF Shrinks, Clean
    <2> QED
        BY <1>2, <2>1 DEF ResourcesOK
<1> QED
    BY <1>1, <1>2

\* The environment makes no request and no record, and takes no finalizer away.
LEMMA EnvironmentFin ==
    ASSUME IInv, FinInv, Environment
    PROVE  FinInv'
<1>a. ctl' = ctl
    BY EnvironmentChanges
<1>b. pvc'.req = pvc.req \/ pvc'.req = NoRequest
    BY EnvironmentRequests
<1>c. pvc'.uid = 0 => pvc'.req = NoRequest
    BY EnvironmentRequests, Zenon DEF FinInv
<1>1. ASSUME UNCHANGED <<commits, crs, cache>> PROVE FinInv'
    <2>1. ResourcesOK(pvc'.req, commits, crs, cache)
        BY <1>b, RequestStable, Zenon DEF FinInv
    <2>2. \A w \in Workers : FinalOK(ctl[w], pvc'.req, commits, crs, cache)
        BY <1>b, RequestStable DEF FinInv
    <2> QED
        BY <1>1, <1>a, <1>c, <2>1, <2>2, Zenon DEF FinInv
<1>2. ASSUME NEW u \in PVCIds, CommitEdited(u) PROVE FinInv'
    <2>0. UNCHANGED <<pvc, crs, cache, ctl>>
        BY <1>2 DEF CommitEdited
    <2>1. commits \in [PVCIds -> Commit] /\ RecordsNamed(commits) /\ commits[u].phase # "absent"
        BY <1>2 DEF IInv, TypeOK, FinInv, CommitEdited
    <2>2. commits'[u] = NoCommit \/ (commits'[u].pvc = u /\ commits'[u].phase = "damaged")
        <3>1. commits[u] \in Commit /\ commits[u].pvc = u
            BY <2>1, Nothing DEF RecordsNamed
        <3> QED
            BY <1>2, <2>1, <3>1, Zenon DEF CommitEdited, Commit
    <2>3. \A v \in PVCIds : v # u => commits'[v] = commits[v]
        BY <1>2, <2>1, Zenon DEF CommitEdited
    <2>4. RecordsNamed(commits') /\ Shrinks(commits, commits')
        BY <2>1, <2>2, <2>3, Nothing, Zenon DEF RecordsNamed, Shrinks, Owned
    <2>5. ResourcesOK(pvc.req, commits', crs, cache)
        BY <2>4, ShrinkStable, Zenon DEF FinInv
    <2>6. \A w \in Workers : FinalOK(ctl[w], pvc.req, commits', crs, cache)
        BY <2>4, ShrinkStable, Zenon DEF FinInv, FinalOK
    <2> QED
        BY <1>c, <2>0, <2>4, <2>5, <2>6, Zenon DEF FinInv
<1>3. ASSUME NEW r \in Remediators, CRCreated(r) \/ CRChanges(r) PROVE FinInv'
    <2>0. UNCHANGED <<pvc, commits, cache, ctl>>
        BY <1>3 DEF CRCreated, CRChanges
    <2>1. crs \in [Remediators -> CR]
        BY DEF IInv, TypeOK
    <2>2. \A s \in Remediators : /\ crs'[s].fin <=> crs[s].fin
                                 /\ \/ crs'[s].st = crs[s].st
                                    \/ crs[s].st = "none" /\ crs'[s].st = "live"
                                    \/ crs[s].st = "live" /\ crs'[s].st = (IF crs[s].fin THEN "deleting" ELSE "gone")
        BY <1>3, <2>1 DEF CRCreated, CRChanges, CR
    <2>3. ResourcesOK(pvc.req, commits, crs, cache)
        BY DEF FinInv
    <2>4. ResourcesOK(pvc.req, commits, crs', cache)
        BY <2>2, <2>3 DEF ResourcesOK
    <2>5. ASSUME NEW w \in Workers PROVE FinalOK(ctl[w], pvc.req, commits, crs', cache)
        BY <2>2, Zenon DEF FinInv, FinalOK, IdentityOK
    <2> QED
        BY <1>c, <2>0, <2>4, <2>5, Zenon DEF FinInv
<1>4. ASSUME NEW r \in Remediators, CacheSync(r) PROVE FinInv'
    <2>0. UNCHANGED <<pvc, commits, crs, ctl>>
        BY <1>4 DEF CacheSync
    <2>1. crs \in [Remediators -> CR] /\ cache \in [Remediators -> CR]
        BY DEF IInv, TypeOK
    <2>2. \A s \in Remediators : cache'[s] = IF s = r THEN crs[r] ELSE cache[s]
        BY <1>4, <2>1 DEF CacheSync
    <2>3. ResourcesOK(pvc.req, commits, crs, cache)
        BY DEF FinInv
    <2>6. \A s \in Remediators : crs[s].st \in {"none", "live", "deleting", "gone"}
        BY <2>1, Zenon DEF CR
    <2>4. ResourcesOK(pvc.req, commits, crs, cache')
        BY <2>2, <2>3, <2>6 DEF ResourcesOK
    <2>5. ASSUME NEW w \in Workers PROVE FinalOK(ctl[w], pvc.req, commits, crs, cache')
        BY <2>2, <2>3, Zenon DEF FinInv, FinalOK, IdentityOK, ResourcesOK
    <2> QED
        BY <1>c, <2>0, <2>4, <2>5, Zenon DEF FinInv
<1>5. \/ UNCHANGED <<commits, crs, cache>>
      \/ \E u \in PVCIds : CommitEdited(u)
      \/ \E r \in Remediators : CRCreated(r) \/ CRChanges(r) \/ CacheSync(r)
    BY EnvironmentChanges, Zenon
<1> QED
    BY <1>1, <1>2, <1>3, <1>4, <1>5, Zenon

\* No PodRemediator is gone, or has a finalizer, to start with.
LEMMA FinInit ==
    ASSUME Init
    PROVE  FinInv
<1>1. pvc.uid = 1 /\ pvc.req = NoRequest
    <2>1. PICK home \in Homes :
              \/ pvc = BarePVC(1, 1, home)
              \/ pvc = [BarePVC(1, 1, home) EXCEPT !.stuck = TRUE]
              \/ pvc = [BarePVC(1, 1, home) EXCEPT !.consent = LegacyConsent]
        BY DEF Init
    <2> QED
        BY <2>1 DEF BarePVC
<1>2. \A w \in Workers : ctl[w] = Idle
    BY DEF Init
<1>3. \A u \in PVCIds : commits[u] = NoCommit
    BY DEF Init
<1>4. \A r \in Remediators : ~crs[r].fin /\ crs[r].st \in {"none", "live"} /\ ~cache[r].fin /\ cache[r].st = "none"
    BY DEF Init
<1>5. \A r \in Remediators : Clean(r, pvc.req, commits)
    BY <1>1, <1>3, Nothing, Zenon DEF Clean, Owned
<1>6. ResourcesOK(pvc.req, commits, crs, cache)
    BY <1>4, <1>5, Zenon DEF ResourcesOK
<1> QED
    BY <1>1, <1>2, <1>3, <1>6, IdleFin DEF FinInv, RecordsNamed

\* The only worker moves on, and starts no request.
LEMMA FinMove ==
    ASSUME IInv, FinInv, OneWorker, NEW w \in Workers, Step(w), ctl[w].pc # "startRequest",
           NEW X, Move(w, X), UNCHANGED <<commits, crs, cache>>,
           FinalOK(X, pvc.req, commits, crs, cache) \/ FinalOK(X, pvc'.req, commits, crs, cache)
    PROVE  FinInv'
<1>1. ctl'[w] = X /\ \A v \in Workers : v = w
    BY MoveFacts, Zenon DEF OneWorker
<1>2. pvc'.req = pvc.req \/ pvc'.req = NoRequest
    BY RequestChanges, Zenon
<1>3. pvc'.uid = 0 => pvc'.req = NoRequest
    BY <1>2, StepKeepsClaim, Zenon DEF FinInv
<1>4. ResourcesOK(pvc'.req, commits, crs, cache) /\ FinalOK(X, pvc'.req, commits, crs, cache)
    BY <1>2, RequestStable, Zenon DEF FinInv
<1> QED
    BY <1>1, <1>3, <1>4 DEF FinInv

\* The resume pass goes on within the reconcile.
LEMMA ResumeOn ==
    ASSUME NEW c, NEW X, NEW q, NEW C, NEW R, NEW K,
           IdentityOK(c, R, K), WorkOK(c, q, C), c.pc \in ResumePCs, SameReconcile(X, c),
           X.pc \in ResumePCs \ {"clear"}, X.pc = "resume" => X.cmt = NoCommit,
           X.pc = "promote" => X.cmt.phase = "prepared",
           Ending(c) => \A u \in Owned(c.me, C) : u \in X.held \/ C[u] \in X.todo \/ u = X.cmt.pvc
    PROVE  FinalOK(X, q, C, R, K)
<1>1. X.pc # "idle" /\ c.pc # "idle" /\ (Ending(X) <=> Ending(c))
    BY Zenon DEF ResumePCs, Ending, SameReconcile
<1>2. IdentityOK(X, R, K)
    BY <1>1, Zenon DEF IdentityOK, SameReconcile
<1>3. ShapeOK(X)
    BY Zenon DEF ShapeOK, ResumePCs, PreparingPCs
<1>4. WorkOK(X, q, C)
    BY <1>1, Zenon DEF WorkOK, SameReconcile, ResumePCs, CleaningPCs
<1> QED
    BY <1>2, <1>3, <1>4, Zenon DEF FinalOK

\* Past the resume pass, a PodRemediator that is not being deleted.
LEMMA ScanOn ==
    ASSUME NEW c, NEW X, NEW q, NEW C, NEW R, NEW K,
           IdentityOK(c, R, K), c.pc # "idle", ~Ending(c), X.me = c.me, X.inst = c.inst,
           X.pc \notin {"listPVCs", "listCommits", "resume", "removeFinalizer"},
           X.pc = "createCommit" => X.cmt.owner = c.me,
           X.pc \in PreparingPCs \union {"createCommit"} => X.cmt.phase = "prepared"
    PROVE  FinalOK(X, q, C, R, K)
<1>1. ~Ending(X)
    BY DEF Ending
<1> QED
    BY <1>1 DEF FinalOK, IdentityOK, ShapeOK, WorkOK

\* The reconcile starts and reads its lists.
LEMMA StartFin ==
    ASSUME IInv, FinInv, OneWorker, NEW w \in Workers, Step(w),
           \/ ListPVCs(w) \/ ListCommits(w)
           \/ \E r \in Remediators : AddFinalizer(w, r) \/ Reconcile(w, r)
    PROVE  FinInv'
<1> DEFINE c == ctl[w]
<1>a. /\ c \in Local /\ IdentityOK(c, crs, cache) /\ ShapeOK(c) /\ WorkOK(c, pvc.req, commits)
    BY FinFacts
<1>b. c = ctl[w]
    OBVIOUS
<1> HIDE DEF c
<1>1. CASE ListPVCs(w)
    <2> DEFINE X == [c EXCEPT !.pc = "listCommits", !.listed = pvc]
    <2>1. X.pc = "listCommits" /\ SameReconcile(X, c) /\ X.cmt = c.cmt
        BY <1>a DEF Local, SameReconcile
    <2>2. /\ Move(w, X) /\ c.pc = "listPVCs" /\ UNCHANGED <<commits, crs, cache>>
        BY <1>1, <1>b, Zenon DEF ListPVCs, ClusterUnchanged, apiVars
    <2> HIDE DEF X
    <2>3. FinalOK(X, pvc.req, commits, crs, cache)
        BY <1>a, <2>1, <2>2, Zenon DEF FinalOK, IdentityOK, ShapeOK, WorkOK, Ending, SameReconcile,
                                ResumePCs, CleaningPCs, PreparingPCs
    <2> QED
        BY <1>b, <2>2, <2>3, FinMove
<1>2. CASE ListCommits(w)
    <2> DEFINE S == {commits[u] : u \in PVCIds} \ {NoCommit}
               X == [c EXCEPT !.pc = "resume", !.todo = S]
    <2>1. X.pc = "resume" /\ SameReconcile(X, c) /\ X.cmt = c.cmt /\ X.todo = S
        BY <1>a DEF Local, SameReconcile
    <2>2. /\ Move(w, X) /\ c.pc = "listCommits" /\ UNCHANGED <<commits, crs, cache>>
        BY <1>2, <1>b DEF ListCommits, ClusterUnchanged, apiVars
    <2>3. \A u \in Owned(c.me, commits) : commits[u] \in S
        BY Nothing, Zenon DEF Owned
    <2> HIDE DEF X, S
    <2>4. FinalOK(X, pvc.req, commits, crs, cache)
        BY <1>a, <2>1, <2>2, <2>3, Zenon DEF FinalOK, IdentityOK, ShapeOK, WorkOK, Ending, SameReconcile,
                                ResumePCs, CleaningPCs, PreparingPCs
    <2> QED
        BY <1>b, <2>2, <2>4, FinMove, Zenon
<1>3. ASSUME NEW r \in Remediators, AddFinalizer(w, r) PROVE FinInv'
    <2>0. UNCHANGED <<pvc, commits, cache, ctl>> /\ c.pc = "idle" /\ crs[r].st = "live"
        BY <1>3, <1>b DEF AddFinalizer
    <2>1. crs' = [crs EXCEPT ![r].fin = TRUE]
        BY <1>3, Zenon DEF AddFinalizer
    <2>2. crs \in [Remediators -> CR]
        BY DEF IInv, TypeOK
    <2>3. \A s \in Remediators : crs'[s].st = crs[s].st /\ ((crs'[s].fin <=> crs[s].fin) \/ (s = r /\ crs'[s].fin))
        BY <2>1, <2>2, Zenon DEF CR
    <2>4. ResourcesOK(pvc.req, commits, crs', cache)
        BY <2>0, <2>3, Zenon DEF FinInv, ResourcesOK
    <2>5. \A v \in Workers : FinalOK(ctl[v], pvc.req, commits, crs', cache)
        BY <1>b, <2>0, Zenon DEF OneWorker, FinInv, FinalOK, IdentityOK
    <2> QED
        BY <2>0, <2>4, <2>5, Zenon DEF FinInv
<1>4. ASSUME NEW r \in Remediators, Reconcile(w, r) PROVE FinInv'
    <2> DEFINE X == [Idle EXCEPT !.pc = "listPVCs", !.me = r, !.inst = cache[r]]
    <2>1. X.pc = "listPVCs" /\ X.cmt = NoCommit /\ X.stage = "resume" /\ X.me = r /\ X.inst = cache[r]
        BY DEF Idle
    <2>2. cache[r].fin /\ cache[r].st \in {"live", "deleting"}
        BY <1>4, Zenon DEF Reconcile
    <2>0. /\ Move(w, X)
          /\ c.pc = "idle" /\ UNCHANGED <<commits, crs, cache>>
        BY <1>4, <1>b, Zenon DEF Reconcile, ClusterUnchanged, apiVars
    <2> HIDE DEF X
    <2>3. FinalOK(X, pvc.req, commits, crs, cache)
        BY <2>0, <2>1, <2>2, Zenon DEF FinInv, ResourcesOK, FinalOK, IdentityOK, ShapeOK, WorkOK, Ending,
                          ResumePCs, CleaningPCs, PreparingPCs
    <2> QED
        BY <1>b, <2>0, <2>3, FinMove
<1> QED
    BY <1>1, <1>2, <1>3, <1>4, Zenon

\* The resume loop decides about one record.
LEMMA ResumeFin ==
    ASSUME IInv, FinInv, OneWorker, NEW w \in Workers, Step(w), NEW x \in ctl[w].todo,
           ResumeDamaged(w, x) \/ ResumeForeign(w, x) \/ ResumeOwn(w, x)
    PROVE  FinInv'
<1> DEFINE c == ctl[w]
           Mine == Owned(c.me, commits)
           OK(X) == FinalOK(X, pvc.req, commits, crs, cache)
<1>a. /\ c \in Local /\ IdentityOK(c, crs, cache) /\ ShapeOK(c) /\ WorkOK(c, pvc.req, commits)
    BY FinFacts, Zenon
<1>b. c.pc = "resume" /\ c.cmt = NoCommit /\ c.pc \in ResumePCs
    BY <1>a, Zenon DEF ResumeDamaged, ResumeForeign, ResumeOwn, ShapeOK, ResumePCs
<1>c. Ending(c) => \A u \in Mine : u \in c.held \/ commits[u] \in c.todo
    <2>1. \A u \in Mine : u # c.cmt.pvc
        BY <1>b, Nothing, Zenon DEF Owned
    <2> QED
        BY <1>a, <1>b, <2>1, Zenon DEF WorkOK
<1>d. UNCHANGED <<commits, crs, cache>>
    BY Zenon DEF ResumeDamaged, ResumeForeign, ResumeOwn, ClusterUnchanged, apiVars
<1>e. \A u \in Mine : /\ commits[u].pvc = u /\ commits[u].owner = c.me
                      /\ commits[u].phase \in {"prepared", "committed"}
    BY Nothing, Zenon DEF Owned, FinInv, RecordsNamed
<1>0. c = ctl[w] /\ Mine = Owned(c.me, commits)
    BY Zenon
<1> HIDE DEF c, Mine, OK
<1>f. ASSUME NEW X, SameReconcile(X, c), X.todo = c.todo \ {x}, c.held \subseteq X.held,
             \A u \in Mine : commits[u] = x => u \in X.held \/ u = X.cmt.pvc,
             X.pc \in ResumePCs \ {"clear"}, X.pc = "resume" => X.cmt = NoCommit,
             X.pc = "promote" => X.cmt.phase = "prepared"
      PROVE  OK(X)
    <2>1. Ending(c) => \A u \in Owned(c.me, commits) : u \in X.held \/ commits[u] \in X.todo \/ u = X.cmt.pvc
        BY <1>0, <1>c, <1>f, Zenon
    <2> QED
        BY <1>a, <1>b, <1>f, <2>1, ResumeOn, Zenon DEF OK
<1>g. ASSUME NEW X, Move(w, X), OK(X) PROVE FinInv'
    BY <1>0, <1>b, <1>d, <1>g, FinMove, Zenon DEF OK
<1>1. ASSUME ResumeDamaged(w, x) \/ ResumeForeign(w, x) PROVE FinInv'
    <2>1. \A u \in Mine : commits[u] # x
        BY <1>0, <1>1, <1>e, Zenon DEF ResumeDamaged, ResumeForeign
    <2>2. /\ OK(Skip(c, x)) /\ OK(Account(c, x)) /\ OK(Hold(c, x))
          /\ \A p : OK(Abort(c, x, p, "dropClear"))
        <3>1. ASSUME NEW X, SameReconcile(X, c), X.todo = c.todo \ {x}, c.held \subseteq X.held,
                     (X.pc = "resume" /\ X.cmt = c.cmt) \/ X.pc = "dropClear"
              PROVE  OK(X)
            BY <3>1, <2>1, <1>b, <1>f, Zenon DEF ResumePCs
        <3>2. OK(Skip(c, x)) /\ OK(Account(c, x))
            <4>1. /\ Skip(c, x).pc = c.pc /\ SameReconcile(Skip(c, x), c) /\ Skip(c, x).cmt = c.cmt
                  /\ Skip(c, x).todo = c.todo \ {x} /\ c.held \subseteq Skip(c, x).held
                BY <1>a, SkipMove, Zenon
            <4>2. /\ Account(c, x).pc = c.pc /\ SameReconcile(Account(c, x), c) /\ Account(c, x).cmt = c.cmt
                  /\ Account(c, x).todo = c.todo \ {x} /\ c.held \subseteq Account(c, x).held
                BY <1>a, AccountMove, Zenon
            <4> QED
                BY <1>b, <3>1, <4>1, <4>2, Zenon
        <3>3. OK(Hold(c, x))
            <4>1. /\ Hold(c, x).pc = c.pc /\ SameReconcile(Hold(c, x), c) /\ Hold(c, x).cmt = c.cmt
                  /\ Hold(c, x).todo = c.todo \ {x} /\ c.held \subseteq Hold(c, x).held
                BY <1>a, HoldMove, ZenonT(40)
            <4> QED
                BY <1>b, <3>1, <4>1, Zenon
        <3>4. ASSUME NEW p PROVE OK(Abort(c, x, p, "dropClear"))
            BY <1>a, <3>1, AbortMove
        <3> QED
            BY <3>2, <3>3, <3>4, Zenon
    <2>3. OK(DamagedDecision(c, x))
        BY <2>2, Zenon DEF DamagedDecision
    <2> QED
        BY <1>0, <1>1, <1>g, <2>2, <2>3, Zenon DEF ResumeDamaged, ResumeForeign
<1>2. ASSUME ResumeOwn(w, x) PROVE FinInv'
    <2>1. \A u \in Mine : commits[u] = x => u = x.pvc
        BY <1>e
    <2>2. OK(Hold(c, x))
        <3> DEFINE X == Hold(c, x)
        <3>1. /\ X.pc = "resume" /\ SameReconcile(X, c) /\ X.cmt = NoCommit
              /\ X.todo = c.todo \ {x} /\ X.held = c.held \union {x.pvc}
            BY <1>a, <1>b, HoldMove
        <3> HIDE DEF X
        <3>2. OK(X)
            BY <2>1, <3>1, <1>f, Zenon DEF ResumePCs
        <3> QED
            BY <3>2, Zenon DEF X
    <2>3. ASSUME NEW X, SameReconcile(X, c), X.todo = c.todo \ {x}, X.held = c.held, X.cmt = x,
                 X.pc \in {"drop", "dropClear", "promote", "listUsers"},
                 X.pc = "promote" => x.phase = "prepared"
          PROVE  OK(X)
        BY <2>1, <2>3, <1>f, Zenon DEF ResumePCs
    <2>4. /\ OK(Discard(c, x))
          /\ \A p : \A q \in {"drop", "dropClear"} : OK(Abort(c, x, p, q))
          /\ \A p : OK(TakeUp(c, x, p, IF x.phase = "prepared" THEN "promote" ELSE "listUsers"))
        BY <1>a, <2>3, TakeUpMove, AbortMove, DiscardMove
    <2>5. OK(ResumeDecision(c, x, pvc))
        BY <2>2, <2>4 DEF ResumeDecision
    <2> QED
        BY <1>0, <1>2, <1>g, <2>5, Zenon DEF ResumeOwn
<1> QED
    BY <1>1, <1>2, Zenon

\* Record y may be stored for claim u: nothing, or one of a PodRemediator that
\* has a record there already, or still holds its finalizer.
MayStore(u, y) ==
    y = NoCommit \/ /\ y.pvc = u /\ y.phase \in {"prepared", "committed"}
                    /\ \/ u \notin PVCIds \/ u \in Owned(y.owner, commits)
                       \/ y.owner \in Remediators /\ crs[y.owner].fin

\* The only worker writes or removes a record.
LEMMA FinStore ==
    ASSUME IInv, FinInv, OneWorker, NEW w \in Workers, NEW X, Move(w, X), OnlyCommits,
           NEW u, NEW y, commits' = [commits EXCEPT ![u] = y], MayStore(u, y),
           FinalOK(X, pvc.req, commits', crs, cache)
    PROVE  FinInv'
<1>1. ctl'[w] = X /\ \A v \in Workers : v = w
    BY MoveFacts DEF OneWorker
<1>2. pvc' = pvc /\ crs' = crs /\ cache' = cache
    BY DEF OnlyCommits
<1>3. \A v \in PVCIds : commits'[v] = IF v = u THEN y ELSE commits[v]
    BY DEF IInv, TypeOK
<1>4. RecordsNamed(commits')
    BY <1>3, Nothing DEF FinInv, RecordsNamed, MayStore
<1>5. \A r \in Remediators : ~crs[r].fin /\ Clean(r, pvc.req, commits) => Clean(r, pvc.req, commits')
    BY <1>3, Nothing DEF Clean, Owned, MayStore
<1>6. ResourcesOK(pvc.req, commits', crs, cache)
    BY <1>5, Zenon DEF FinInv, ResourcesOK
<1> QED
    BY <1>1, <1>2, <1>4, <1>6, Zenon DEF FinInv

\* A record is removed, and its claim's annotations are cleared; the pass ends.
LEMMA RemoveFin ==
    ASSUME IInv, FinInv, OneWorker, NEW w \in Workers, Step(w), ResumeScrub(w) \/ Drop(w) \/ Clear(w)
    PROVE  FinInv'
<1> DEFINE c == ctl[w]
           u == c.cmt.pvc
<1>a. /\ c \in Local /\ IdentityOK(c, crs, cache) /\ ShapeOK(c) /\ WorkOK(c, pvc.req, commits)
      /\ commits \in [PVCIds -> Commit]
    BY FinFacts, Zenon
<1>b. c.pc \in ResumePCs /\ c.pc # "idle" /\ c.pc # "startRequest"
    BY DEF ResumeScrub, Drop, Clear, ResumePCs
<1>c. FinalOK(Idle, pvc.req, commits, crs, cache)
    BY IdleFin
<1>0. c = ctl[w]
    BY Zenon
<1> HIDE DEF c
<1>d. ASSUME NEW X, Move(w, X), UNCHANGED <<commits, crs, cache>>, FinalOK(X, pvc.req, commits, crs, cache)
      PROVE  FinInv'
    BY <1>0, <1>b, <1>d, FinMove, Zenon
<1>e. ASSUME NEW p, NEW new, NEW X, PatchPVC(w, p, new, X), FinalOK(X, pvc.req, commits, crs, cache)
      PROVE  FinInv'
    <2>1. UNCHANGED <<commits, crs, cache>> /\ (Move(w, X) \/ Move(w, Idle))
        BY <1>e DEF PatchPVC, OnlyPVC, Return
    <2> QED
        BY <1>c, <1>d, <1>e, <2>1, Zenon
<1>1. CASE ResumeScrub(w)
    <2> DEFINE X == AfterResume(c)
    <2>1. c.pc = "resume" /\ c.todo = {} /\ c.cmt = NoCommit
        BY <1>0, <1>1, <1>a, Zenon DEF ResumeScrub, ShapeOK
    <2>2. Ending(c) /\ c.held = {} => Owned(c.me, commits) = {}
        <3>1. \A v \in Owned(c.me, commits) : v # c.cmt.pvc
            BY <2>1, Nothing, Zenon DEF Owned
        <3> QED
            BY <1>a, <1>b, <2>1, <3>1, Zenon DEF WorkOK
    <2>3. \/ X = Idle
          \/ /\ X.pc \in {"cleanupList", "deps"} /\ X.me = c.me /\ X.inst = c.inst
             /\ c.inst.st = "deleting" => X.pc = "cleanupList" /\ c.held = {}
        BY <1>a, IdleMove, AfterResumeMove, Zenon
    <2> HIDE DEF X
    <2>4. FinalOK(X, pvc.req, commits, crs, cache)
        <3>1. CASE X # Idle /\ ~Ending(c)
            BY <1>a, <1>b, <2>3, <3>1, ScanOn, Zenon DEF PreparingPCs
        <3>2. CASE X # Idle /\ Ending(c)
            <4>1. X.pc = "cleanupList" /\ X.me = c.me /\ X.inst = c.inst /\ Owned(c.me, commits) = {}
                BY <2>2, <2>3, <3>2, Zenon DEF Ending
            <4> QED
                BY <1>a, <1>b, <4>1, Zenon DEF FinalOK, IdentityOK, ShapeOK, WorkOK, ResumePCs, CleaningPCs, PreparingPCs
        <3> QED
            BY <1>c, <3>1, <3>2, Zenon
    <2>5. \/ Move(w, X) /\ ClusterUnchanged
          \/ PatchPVC(w, c.listed, clearAllAnnotations(c.listed), X)
        BY <1>0, <1>1, Zenon DEF ResumeScrub, X
    <2> QED
        BY <1>d, <1>e, <2>4, <2>5 DEF ClusterUnchanged, apiVars
<1>2. CASE Clear(w)
    <2> DEFINE X == Handled(c)
    <2>1. c.pc = "clear"
        BY <1>0, <1>2, Zenon DEF Clear
    <2>2. \/ X = Idle
          \/ /\ X.pc = "resume" /\ SameReconcile(X, c) /\ X.cmt = NoCommit
             /\ X.todo = c.todo /\ X.held = c.held
        BY <1>a, IdleMove, HandledMove, Zenon
    <2>3. Ending(c) => \A v \in Owned(c.me, commits) : v \in c.held \/ commits[v] \in c.todo
        BY <1>a, <1>b, <2>1, Zenon DEF WorkOK
    <2> HIDE DEF X
    <2>4. FinalOK(X, pvc.req, commits, crs, cache)
        BY <1>a, <1>b, <1>c, <2>2, <2>3, ResumeOn, Zenon DEF ResumePCs
    <2>5. \/ Move(w, X) /\ ClusterUnchanged
          \/ PatchPVC(w, c.cur, clearAllAnnotations(c.cur), X)
        BY <1>0, <1>2, Zenon DEF Clear, X
    <2> QED
        BY <1>d, <1>e, <2>4, <2>5, Zenon DEF ClusterUnchanged, apiVars
<1>3. CASE Drop(w)
    <2>1. c.pc \in {"drop", "dropClear"} /\ OnlyCommits
        BY <1>0, <1>3, Zenon DEF Drop
    <2>2. CASE Move(w, Idle) /\ commits' = commits
        BY <1>c, <1>d, <2>1, <2>2, Zenon DEF OnlyCommits
    <2>3. ASSUME commits' = [commits EXCEPT ![u] = NoCommit], NEW X, X = Handled(c) \/ X = At(c, "clear"), Move(w, X)
          PROVE  FinInv'
        <3>1. \A v \in PVCIds : commits'[v] = IF v = u THEN NoCommit ELSE commits[v]
            BY <1>a, <2>3, Zenon
        <3>2. /\ Shrinks(commits, commits')
              /\ \A r \in Remediators : u \notin Owned(r, commits')
            BY <3>1, Nothing, Zenon DEF Shrinks, Owned
        <3>3. WorkOK(c, pvc.req, commits')
            BY <1>a, <3>2, ShrinkStable, Zenon
        <3>4. Ending(c) => c.me \in Remediators
            BY <1>a, Zenon DEF IdentityOK, Ending
        <3>5. Ending(c) => \A v \in Owned(c.me, commits') : v \in c.held \/ commits'[v] \in c.todo
            BY <1>b, <3>2, <3>3, <3>4, Zenon DEF WorkOK
        <3>6. FinalOK(Handled(c), pvc.req, commits', crs, cache)
            <4> DEFINE Y == Handled(c)
            <4>1. \/ Y = Idle
                  \/ /\ Y.pc = "resume" /\ SameReconcile(Y, c) /\ Y.cmt = NoCommit
                     /\ Y.todo = c.todo /\ Y.held = c.held
                BY <1>a, IdleMove, HandledMove
            <4>2. FinalOK(Idle, pvc.req, commits', crs, cache)
                BY IdleFin, Zenon
            <4> HIDE DEF Y
            <4>3. FinalOK(Y, pvc.req, commits', crs, cache)
                BY <1>a, <1>b, <3>3, <3>5, <4>1, <4>2, ResumeOn, Zenon DEF ResumePCs
            <4> QED
                BY <4>3, Zenon DEF Y
        <3>7. FinalOK(At(c, "clear"), pvc.req, commits', crs, cache)
            <4> DEFINE Y == At(c, "clear")
            <4>1. /\ Y.pc = "clear" /\ SameReconcile(Y, c) /\ Y.cmt = c.cmt
                  /\ Y.todo = c.todo /\ Y.held = c.held
                BY <1>a, Zenon DEF At, Local, SameReconcile
            <4> HIDE DEF Y
            <4>2. IdentityOK(Y, crs, cache) /\ (Ending(Y) <=> Ending(c))
                BY <1>a, <1>b, <4>1, Zenon DEF IdentityOK, SameReconcile, Ending
            <4>3. ShapeOK(Y)
                BY <4>1, Zenon DEF ShapeOK, PreparingPCs, ResumePCs
            <4>4. WorkOK(Y, pvc.req, commits')
                BY <1>b, <3>2, <3>3, <3>4, <3>5, <4>1, <4>2, Zenon DEF WorkOK, SameReconcile, ResumePCs, CleaningPCs
            <4> QED
                BY <4>2, <4>3, <4>4 DEF FinalOK, Y
        <3>8. MayStore(u, NoCommit)
            BY DEF MayStore
        <3>9. FinalOK(X, pvc.req, commits', crs, cache)
            BY <2>3, <3>6, <3>7, Zenon
        <3> QED
            BY <2>1, <2>3, <3>8, <3>9, FinStore, Zenon
    <2> QED
        BY <1>0, <1>3, <2>2, <2>3, Zenon DEF Drop, Return
<1> QED
    BY <1>1, <1>2, <1>3

\* Promotion changes no record's owner.
LEMMA PromoteFin ==
    ASSUME IInv, FinInv, OneWorker, NEW w \in Workers, Step(w), promotePreparedDeletionCommit(w)
    PROVE  FinInv'
<1> DEFINE c == ctl[w]
           u == c.cmt.pvc
           y == [c.cmt EXCEPT !.phase = "committed"]
           q == IF c.stage = "scan" THEN "reread" ELSE "listUsers"
           X == AtRecord(c, q, y)
<1>a. /\ c \in Local /\ IdentityOK(c, crs, cache) /\ ShapeOK(c) /\ WorkOK(c, pvc.req, commits)
      /\ commits \in [PVCIds -> Commit]
    BY FinFacts
<1>b. c.pc = "promote" /\ OnlyCommits
    BY Zenon DEF promotePreparedDeletionCommit
<1>c. c.cmt.phase = "prepared" /\ c.cmt \in Commit
    BY <1>a, <1>b, WorkerHolds, Zenon DEF ShapeOK, PreparingPCs
<1>d. y.pvc = u /\ y.phase = "committed" /\ y.owner = c.cmt.owner
    BY <1>c, Zenon DEF Commit
<1>e. c.pc \in ResumePCs /\ c.pc # "idle" /\ c.pc # "startRequest"
    BY <1>b, Zenon DEF ResumePCs
<1>f. X.pc = q /\ SameReconcile(X, c) /\ X.cmt = y /\ X.todo = c.todo /\ X.held = c.held
    BY <1>a, Zenon DEF AtRecord, Local, SameReconcile
<1>1. CASE Move(w, Idle) /\ commits' = commits
    <2>1. UNCHANGED <<commits, crs, cache>>
        BY <1>1, <1>b DEF OnlyCommits
    <2> QED
        BY <1>1, <1>e, <2>1, FinMove, IdleFin, Zenon
<1>2. CASE commits[u] \in {c.cmt, y} /\ commits' = [commits EXCEPT ![u] = y] /\ Move(w, X)
    <2> HIDE DEF c, y, X
    <2>1. \A v \in PVCIds : commits'[v] = IF v = u THEN y ELSE commits[v]
        BY <1>2, <1>a, Zenon
    <2>2. u \in PVCIds => u \in Owned(y.owner, commits)
        BY <1>2, <1>c, <1>d, Zenon DEF Owned
    <2>3. MayStore(u, y)
        BY <1>d, <2>2, Zenon DEF MayStore
    <2>4. Ending(c) => /\ q = "listUsers"
                       /\ \A v \in Owned(c.me, commits') : v \in c.held \/ commits'[v] \in c.todo \/ v = u
        <3>1. \A v \in Owned(c.me, commits') : v = u \/ (v \in Owned(c.me, commits) /\ commits'[v] = commits[v])
            BY <2>1, Zenon DEF Owned
        <3>2. Ending(c) => c.stage = "resume" /\ \A v \in Owned(c.me, commits) : v \in c.held \/ commits[v] \in c.todo \/ v = u
            BY <1>a, <1>e, Zenon DEF WorkOK
        <3> QED
            BY <3>1, <3>2, Zenon
    <2>5. WorkOK(c, pvc.req, commits')
        BY <1>a, <1>b, <2>4, Zenon DEF WorkOK, CleaningPCs
    <2>6. q \in {"reread", "listUsers"}
        BY Zenon
    <2> HIDE DEF q
    <2>7. FinalOK(X, pvc.req, commits', crs, cache)
        <3>1. CASE Ending(c)
            BY <1>a, <1>d, <1>e, <1>f, <2>4, <2>5, <3>1, ResumeOn, Zenon DEF ResumePCs
        <3>2. CASE ~Ending(c)
            BY <1>a, <1>e, <1>f, <2>6, <3>2, ScanOn, Zenon DEF SameReconcile, PreparingPCs
        <3> QED
            BY <3>1, <3>2, Zenon
    <2> QED
        BY <1>2, <1>b, <2>3, <2>7, FinStore, Zenon
<1> QED
    BY <1>1, <1>2, Zenon DEF promotePreparedDeletionCommit, Return

\* A committed record is worked on.
LEMMA CommittedFin ==
    ASSUME IInv, FinInv, OneWorker, NEW w \in Workers, Step(w),
           \/ ListUsers(w) \/ ListRemaining(w) \/ ConfirmGone(w) \/ DeletePVC(w)
           \/ \E x \in ctl[w].seen : DeletePod(w, x)
    PROVE  FinInv'
<1> DEFINE c == ctl[w]
           OK(X) == FinalOK(X, pvc.req, commits, crs, cache)
<1>a. /\ c \in Local /\ IdentityOK(c, crs, cache) /\ WorkOK(c, pvc.req, commits)
    BY FinFacts, Zenon
<1>b. /\ c.pc \in {"listUsers", "deletePods", "deletePVC", "confirmGone"}
      /\ UNCHANGED <<commits, crs, cache>>
    <2>1. CASE ListUsers(w) \/ ListRemaining(w) \/ ConfirmGone(w) \/ DeletePVC(w)
        BY <2>1, Zenon DEF ListUsers, ListRemaining, ConfirmGone, DeletePVC, ClusterUnchanged, apiVars, PatchPVC, OnlyPVC
    <2>2. ASSUME NEW x \in ctl[w].seen, DeletePod(w, x)
          PROVE  c.pc = "deletePods" /\ UNCHANGED <<commits, crs, cache>>
        BY <2>2, Zenon DEF DeletePod
    <2> QED
        BY <2>1, <2>2, Zenon
<1>0. c = ctl[w]
    BY Zenon
<1> HIDE DEF c, OK
<1>d. c.pc \in ResumePCs
    BY <1>b, Zenon DEF ResumePCs
<1>e. ASSUME NEW X, Move(w, X), OK(X) PROVE FinInv'
    BY <1>0, <1>b, <1>e, FinMove, Zenon DEF OK
<1>f. OK(Idle)
    BY IdleFin, Zenon DEF OK
<1>g. ASSUME NEW X, SameReconcile(X, c), X.todo = c.todo, X.held = c.held, X.cmt = c.cmt,
             X.pc \in {"drop", "dropClear", "deletePods", "deletePVC", "confirmGone"}
      PROVE  OK(X)
    <2>1. Ending(c) => \A u \in Owned(c.me, commits) : u \in X.held \/ commits[u] \in X.todo \/ u = X.cmt.pvc
        BY <1>a, <1>d, <1>g, Zenon DEF WorkOK
    <2> QED
        BY <1>a, <1>d, <1>g, <2>1, ResumeOn, Zenon DEF OK, ResumePCs
<1>h. OK(Pending(c))
    <2> DEFINE X == Pending(c)
    <2>1. \/ X = Idle
          \/ /\ X.pc = "resume" /\ SameReconcile(X, c) /\ X.cmt = NoCommit
             /\ X.todo = c.todo /\ X.held = c.held \union {c.cmt.pvc}
        BY <1>a, IdleMove, PendingMove, Zenon
    <2> HIDE DEF X
    <2>2. X # Idle => (Ending(c) => \A u \in Owned(c.me, commits) : u \in X.held \/ commits[u] \in X.todo \/ u = X.cmt.pvc)
        BY <1>a, <1>d, <2>1, Zenon DEF WorkOK
    <2>3. X # Idle => OK(X)
        BY <1>a, <1>d, <2>1, <2>2, ResumeOn, Zenon DEF OK, ResumePCs
    <2> QED
        BY <1>f, <2>3 DEF X
<1>i. /\ OK(Undo(c)) /\ \A S : OK(AtPods(c, "deletePods", S))
      /\ \A q \in {"drop", "deletePVC", "confirmGone"} : OK(At(c, q))
    <2>1. OK(Undo(c))
        BY <1>a, <1>g, Zenon DEF Undo, Local, SameReconcile
    <2>2. ASSUME NEW S PROVE OK(AtPods(c, "deletePods", S))
        BY <1>a, <1>g, Zenon DEF AtPods, Local, SameReconcile
    <2>3. ASSUME NEW q \in {"drop", "deletePVC", "confirmGone"} PROVE OK(At(c, q))
        BY <1>a, <1>g, Zenon DEF At, Local, SameReconcile
    <2> QED
        BY <2>1, <2>2, <2>3, Zenon
<1>1. CASE ListUsers(w)
    BY <1>0, <1>1, <1>e, <1>h, <1>i, Zenon DEF ListUsers
<1>2. CASE ListRemaining(w)
    BY <1>0, <1>2, <1>e, <1>h, <1>i, Zenon DEF ListRemaining
<1>3. CASE ConfirmGone(w)
    BY <1>0, <1>3, <1>e, <1>h, <1>i, Zenon DEF ConfirmGone
<1>4. CASE DeletePVC(w)
    BY <1>0, <1>4, <1>e, <1>f, <1>i, Zenon DEF DeletePVC, PatchPVC, Return
<1>5. ASSUME NEW x \in ctl[w].seen, DeletePod(w, x) PROVE FinInv'
    <2> DEFINE X == [c EXCEPT !.seen = @ \ {x}]
    <2>1. X.pc = c.pc /\ SameReconcile(X, c) /\ X.todo = c.todo /\ X.held = c.held /\ X.cmt = c.cmt
        BY <1>a, Zenon DEF Local, SameReconcile
    <2>2. c.pc = "deletePods" /\ (Move(w, X) \/ Move(w, Idle))
        BY <1>0, <1>5, Zenon DEF DeletePod, Return
    <2> HIDE DEF X
    <2> QED
        BY <1>e, <1>f, <1>g, <2>1, <2>2, Zenon
<1> QED
    BY <1>1, <1>2, <1>3, <1>4, <1>5, Zenon

\* The annotations of a deleted PodRemediator are cleaned up, and the finalizer
\* is removed.
LEMMA CleanupFin ==
    ASSUME IInv, FinInv, OneWorker, NEW w \in Workers, Step(w),
           CleanupList(w) \/ CleanupPatch(w) \/ RemoveFinalizer(w)
    PROVE  FinInv'
<1> DEFINE c == ctl[w]
<1>a. /\ c \in Local /\ IdentityOK(c, crs, cache) /\ ShapeOK(c) /\ WorkOK(c, pvc.req, commits)
    BY FinFacts, Zenon
<1>b. c.pc \in CleaningPCs /\ c.pc # "idle" /\ c.pc # "startRequest"
    BY Zenon DEF CleanupList, CleanupPatch, RemoveFinalizer, CleaningPCs
<1>0. c = ctl[w]
    OBVIOUS
<1> HIDE DEF c
<1>c. Ending(c) => Owned(c.me, commits) = {} /\ c.me \in Remediators
    BY <1>a, <1>b, Zenon DEF WorkOK, IdentityOK
<1>d. ASSUME NEW q, Ending(c) => q.cr # c.me
      PROVE  FinalOK(AfterCleanup(c), q, commits, crs, cache)
    <2> DEFINE X == AfterCleanup(c)
    <2>1. X = Idle \/ (X.pc = "removeFinalizer" /\ c.inst.st = "deleting" /\ SameReconcile(X, c))
        BY <1>a, IdleMove, AfterCleanupMove, Zenon
    <2>2. FinalOK(Idle, q, commits, crs, cache)
        BY IdleFin, Zenon
    <2> HIDE DEF X
    <2>3. X # Idle => FinalOK(X, q, commits, crs, cache)
        <3> SUFFICES ASSUME X # Idle PROVE FinalOK(X, q, commits, crs, cache)
            OBVIOUS
        <3>1. Ending(c)
            BY <1>b, <2>1, Zenon DEF Ending
        <3>2. IdentityOK(X, crs, cache)
            BY <1>a, <1>b, <2>1, Zenon DEF IdentityOK, SameReconcile
        <3>3. ShapeOK(X)
            BY <2>1, Zenon DEF ShapeOK, SameReconcile, PreparingPCs, CleaningPCs
        <3>4. WorkOK(X, q, commits)
            BY <1>c, <1>d, <2>1, <3>1, Zenon DEF WorkOK, SameReconcile, ResumePCs
        <3> QED
            BY <3>2, <3>3, <3>4, Zenon DEF FinalOK
    <2> QED
        BY <2>2, <2>3 DEF X
<1>1. CASE CleanupList(w)
    <2>1. UNCHANGED <<commits, crs, cache>>
        BY <1>1, Zenon DEF CleanupList, ClusterUnchanged, apiVars
    <2>2. FinalOK(AtWith(c, "cleanupPatch", pvc), pvc.req, commits, crs, cache)
        <3> DEFINE X == AtWith(c, "cleanupPatch", pvc)
        <3>1. X.pc = "cleanupPatch" /\ SameReconcile(X, c)
            BY <1>a DEF AtWith, Local, SameReconcile
        <3> HIDE DEF X
        <3>2. IdentityOK(X, crs, cache)
            BY <1>a, <1>b, <3>1, Zenon DEF IdentityOK, SameReconcile
        <3>3. ShapeOK(X)
            BY <3>1, Zenon DEF ShapeOK, PreparingPCs, CleaningPCs
        <3>4. Ending(X) <=> Ending(c)
            BY <1>b, <3>1, Zenon DEF Ending, SameReconcile
        <3>5. WorkOK(X, pvc.req, commits)
            BY <1>c, <3>1, <3>4, Zenon DEF WorkOK, SameReconcile, ResumePCs
        <3> QED
            BY <3>2, <3>3, <3>5 DEF FinalOK, X
    <2>3. \/ Move(w, AtWith(c, "cleanupPatch", pvc))
          \/ /\ Move(w, AfterCleanup(c))
             /\ pvc.uid = 0 \/ pvc.req.cr \notin {c.me, NoRemediator} \/ ~hasRemediationAnnotations(pvc)
        BY <1>0, <1>1, Zenon DEF CleanupList
    <2>4. CASE Move(w, AtWith(c, "cleanupPatch", pvc))
        BY <1>0, <1>b, <2>1, <2>2, <2>4, FinMove, Zenon
    <2>5. CASE /\ Move(w, AfterCleanup(c))
               /\ pvc.uid = 0 \/ pvc.req.cr \notin {c.me, NoRemediator} \/ ~hasRemediationAnnotations(pvc)
        <3>1. pvc.req = NoRequest \/ pvc.req.cr # c.me
            BY <2>5, Zenon DEF FinInv, hasRemediationAnnotations
        <3>2. Ending(c) => pvc.req.cr # c.me
            BY <1>c, <3>1, Nothing, Zenon
        <3> QED
            BY <1>0, <1>b, <1>d, <2>1, <2>5, <3>2, FinMove, Zenon
    <2> QED
        BY <2>3, <2>4, <2>5, Zenon
<1>2. CASE CleanupPatch(w)
    <2> DEFINE new == clearRemediationAnnotations(c.cur)
    <2>1. PatchPVC(w, c.cur, new, AfterCleanup(c))
        BY <1>0, <1>2, Zenon DEF CleanupPatch
    <2>2. UNCHANGED <<commits, crs, cache>>
        BY <2>1 DEF PatchPVC, OnlyPVC
    <2>3. WritePVC(new) => pvc'.req = NoRequest
        <3>1. c.cur \in PVC /\ rev \in Nat
            BY <1>0, WorkerHolds
        <3> QED
            BY <3>1, Zenon DEF WritePVC, clearRemediationAnnotations, PVC
    <2>4. Move(w, Idle) \/ (Move(w, AfterCleanup(c)) /\ pvc'.req = NoRequest)
        BY <2>1, <2>3, Zenon DEF PatchPVC, Return, FinInv
    <2>5. FinalOK(AfterCleanup(c), NoRequest, commits, crs, cache)
        BY <1>c, <1>d, Nothing, Zenon
    <2> QED
        BY <1>0, <1>b, <2>2, <2>4, <2>5, FinMove, IdleFin, Zenon
<1>3. CASE RemoveFinalizer(w)
    <2>1. /\ c.pc = "removeFinalizer" /\ Move(w, Idle) /\ pvc' = pvc /\ commits' = commits /\ cache' = cache
          /\ crs' = [crs EXCEPT ![c.me].st = "gone", ![c.me].fin = FALSE]
        BY <1>0, <1>3 DEF RemoveFinalizer, Return
    <2>2. Ending(c) /\ c.me \in Remediators /\ pvc.req.cr # c.me /\ cache[c.me].st \in {"deleting", "gone"}
        BY <1>a, <1>b, <2>1, Zenon DEF ShapeOK, Ending, WorkOK, IdentityOK
    <2>3. Clean(c.me, pvc.req, commits)
        BY <1>c, <2>2, Zenon DEF Clean
    <2>4. crs \in [Remediators -> CR]
        BY DEF IInv, TypeOK
    <2>5. /\ crs'[c.me].st = "gone" /\ ~crs'[c.me].fin
          /\ \A r \in Remediators : r # c.me => crs'[r] = crs[r]
        BY <2>1, <2>2, <2>4, Zenon DEF CR
    <2>6. ResourcesOK(pvc.req, commits, crs, cache)
        BY DEF FinInv
    <2>7. ResourcesOK(pvc.req, commits, crs', cache)
        BY <2>2, <2>3, <2>5, <2>6, Zenon DEF ResourcesOK
    <2>8. ctl'[w] = Idle /\ (\A v \in Workers : v = w) /\ FinalOK(Idle, pvc.req, commits, crs', cache)
        BY <2>1, MoveFacts, IdleFin, Zenon DEF OneWorker
    <2>9. UNCHANGED <<pvc, commits, cache>>
        BY <2>1, Zenon
    <2> QED
        BY <2>7, <2>8, <2>9, Zenon DEF FinInv
<1> QED
    BY <1>1, <1>2, <1>3

\* The patches of the scan end the reconcile.
LEMMA HandshakeFin ==
    ASSUME IInv, FinInv, OneWorker, NEW w \in Workers, Step(w),
           ClearRecovered(w) \/ DropOrphanedConsent(w) \/ startRequest(w)
    PROVE  FinInv'
<1> DEFINE c == ctl[w]
<1>1. UNCHANGED <<commits, crs, cache>> /\ Move(w, Idle)
    BY Zenon DEF ClearRecovered, DropOrphanedConsent, startRequest, PatchPVC, OnlyPVC, Return
<1>2. CASE ClearRecovered(w) \/ DropOrphanedConsent(w)
    <2>1. c.pc # "startRequest"
        BY <1>2 DEF ClearRecovered, DropOrphanedConsent
    <2> QED
        BY <1>1, <2>1, FinMove, IdleFin, Zenon
<1>3. CASE startRequest(w)
    <2> DEFINE new == [c.cur EXCEPT !.stuck = TRUE, !.req = [cr |-> c.me, snr |-> c.snrSeen],
                                    !.nodeUID = c.nodeSeen.uid, !.consent = NoRequest]
    <2>1. c.pc = "startRequest" /\ (pvc' = pvc \/ WritePVC(new))
        BY <1>3, Zenon DEF startRequest, PatchPVC
    <2>2. c.cur \in PVC /\ rev \in Nat
        BY WorkerHolds
    <2>3. pvc'.req = pvc.req \/ pvc'.req.cr = c.me
        <3> HIDE DEF c
        <3>1. WritePVC(new) => pvc'.req.cr = c.me
            BY <2>2 DEF WritePVC, PVC
        <3> QED
            BY <2>1, <3>1
    <2>4. IdentityOK(c, crs, cache) /\ ShapeOK(c)
        BY FinFacts, Zenon
    <2>5. c.me \in Remediators /\ crs[c.me].fin
        BY <2>1, <2>4 DEF IdentityOK, ShapeOK, Ending, ResumePCs, CleaningPCs
    <2>6. ResourcesOK(pvc'.req, commits, crs, cache)
        BY <2>3, <2>5, Zenon DEF FinInv, ResourcesOK, Clean
    <2>7. pvc'.uid = 0 => pvc'.req = NoRequest
        BY StepKeepsClaim, Zenon DEF FinInv
    <2>8. ctl'[w] = Idle /\ (\A v \in Workers : v = w) /\ FinalOK(Idle, pvc'.req, commits, crs, cache)
        BY <1>1, MoveFacts, IdleFin, Zenon DEF OneWorker
    <2> QED
        BY <1>1, <2>6, <2>7, <2>8, Zenon DEF FinInv
<1> QED
    BY <1>2, <1>3

\* The scan and the transaction run only for a PodRemediator that is not being
\* deleted.
LEMMA ScanFin ==
    ASSUME IInv, FinInv, OneWorker, NEW w \in Workers, Step(w),
           \/ CheckDeps(w) \/ ScanNodes(w) \/ ScanSnrs(w) \/ ScanPVC(w)
           \/ isRemediationPaused(w) \/ ListPods(w)
    PROVE  FinInv'
<1> DEFINE c == ctl[w]
           OK(X) == FinalOK(X, pvc.req, commits, crs, cache)
<1>a. c \in Local /\ IdentityOK(c, crs, cache) /\ ShapeOK(c)
    BY FinFacts, Zenon
<1>b. c.pc \in {"deps", "scanNodes", "scanSnrs", "scanPVC", "checkPause", "listPods"}
    BY Zenon DEF CheckDeps, ScanNodes, ScanSnrs, ScanPVC, isRemediationPaused, ListPods
<1>c. UNCHANGED <<commits, crs, cache>>
    BY Zenon DEF CheckDeps, ScanNodes, ScanSnrs, ScanPVC, isRemediationPaused, ListPods, ClusterUnchanged, apiVars
<1>d. ~Ending(c) /\ c.pc # "idle" /\ c.pc # "startRequest"
    BY <1>a, <1>b, Zenon DEF ShapeOK, ResumePCs, CleaningPCs
<1>0. c = ctl[w]
    OBVIOUS
<1> HIDE DEF c, OK
<1>e. ASSUME NEW X, Move(w, X), OK(X) PROVE FinInv'
    BY <1>0, <1>c, <1>d, <1>e, FinMove, Zenon DEF OK
<1>f. OK(Idle)
    BY IdleFin, Zenon DEF OK
<1>g. ASSUME NEW X, X.me = c.me, X.inst = c.inst,
             X.pc \in {"scanNodes", "scanSnrs", "scanPVC", "clearRecovered", "startRequest", "dropOrphan",
                       "checkPause", "listPods", "clear"}
      PROVE  OK(X)
    BY <1>a, <1>d, <1>g, ScanOn, Zenon DEF OK, PreparingPCs
<1>1. CASE CheckDeps(w)
    <2>1. OK(At(c, "scanNodes"))
        BY <1>a, <1>g DEF At, Local
    <2> QED
        BY <1>0, <1>1, <1>e, <1>f, <2>1, Zenon DEF CheckDeps
<1>2. CASE ScanNodes(w)
    <2> DEFINE X == [c EXCEPT !.pc = "scanSnrs", !.nodeSeen = node]
    <2>1. X.pc = "scanSnrs" /\ X.me = c.me /\ X.inst = c.inst
        BY <1>a DEF Local
    <2>2. Move(w, X)
        BY <1>0, <1>2 DEF ScanNodes
    <2> HIDE DEF X
    <2> QED
        BY <1>e, <1>g, <2>1, <2>2, Zenon
<1>3. CASE ScanSnrs(w)
    <2>1. ASSUME NEW s PROVE OK(AtSnr(c, "scanPVC", s))
        BY <1>a, <1>g, Zenon DEF AtSnr, Local
    <2> QED
        BY <1>0, <1>3, <1>e, <2>1, Zenon DEF ScanSnrs
<1>4. CASE ScanPVC(w)
    <2>1. ASSUME NEW q \in {"clearRecovered", "startRequest", "dropOrphan", "checkPause"}
          PROVE  OK(AtWith(c, q, pvc))
        BY <1>a, <1>g, Zenon DEF AtWith, Local
    <2>2. c.nodeSeen.st \in {"ready", "notReady", "absent"}
        BY <1>a DEF Local, Node
    <2>3. OK(processNewPVCHandshake(c, pvc)) /\ OK(processExistingPVCHandshake(c, pvc))
        BY <1>f, <2>1, <2>2, Zenon DEF processNewPVCHandshake, processExistingPVCHandshake
    <2>4. PICK X : Move(w, X) /\ OK(X)
        BY <1>0, <1>4, <1>f, <2>3, Zenon DEF ScanPVC
    <2> QED
        BY <1>e, <2>4
<1>5. CASE isRemediationPaused(w)
    <2>1. OK(At(c, "listPods"))
        BY <1>a, <1>g, Zenon DEF At, Local
    <2> QED
        BY <1>0, <1>5, <1>e, <1>f, <2>1, Zenon DEF isRemediationPaused
<1>6. CASE ListPods(w)
    <2>1. OK(At(c, "clear"))
        BY <1>a, <1>g DEF At, Local
    <2>2. ASSUME NEW y, y.phase = "prepared", y.owner = c.me
          PROVE  OK(AtRecord(c, "createCommit", y))
        <3> DEFINE X == AtRecord(c, "createCommit", y)
        <3>1. X.pc = "createCommit" /\ X.me = c.me /\ X.inst = c.inst /\ X.cmt = y
            BY <1>a DEF AtRecord, Local
        <3> HIDE DEF X
        <3>2. OK(X)
            BY <1>a, <1>d, <2>2, <3>1, ScanOn, Zenon DEF OK
        <3> QED
            BY <3>2, Zenon DEF X
    <2> DEFINE y == [phase |-> "prepared", pvc |-> c.cur.uid, rv |-> c.cur.rv, req |-> c.cur.req,
                     owner |-> c.me, token |-> lastToken + 1, pods |-> podsUsingPVC]
    <2>3. Move(w, At(c, "clear")) \/ Move(w, AtRecord(c, "createCommit", y))
        BY <1>0, <1>6, Zenon DEF ListPods
    <2>4. y.phase = "prepared" /\ y.owner = c.me
        OBVIOUS
    <2> HIDE DEF y
    <2> QED
        BY <1>e, <2>1, <2>2, <2>3, <2>4, Zenon
<1> QED
    BY <1>1, <1>2, <1>3, <1>4, <1>5, <1>6, Zenon

\* The record is created, or an earlier one is adopted.
LEMMA CreateFin ==
    ASSUME IInv, FinInv, OneWorker, NEW w \in Workers, Step(w), createOrAdoptDeletionCommit(w)
    PROVE  FinInv'
<1> DEFINE c == ctl[w]
           u == c.cmt.pvc
           old == commits[u]
           OK(X, C) == FinalOK(X, pvc.req, C, crs, cache)
<1>a. c \in Local /\ IdentityOK(c, crs, cache) /\ ShapeOK(c)
    BY FinFacts
<1>b. c.pc = "createCommit" /\ OnlyCommits
    BY Zenon DEF createOrAdoptDeletionCommit
<1>c. ~Ending(c) /\ c.pc # "idle" /\ c.pc # "startRequest"
    BY <1>a, <1>b, Zenon DEF ShapeOK, ResumePCs, CleaningPCs
<1>d. /\ c.me \in Remediators /\ crs[c.me].fin /\ c.cmt.owner = c.me /\ c.cmt.phase = "prepared"
    BY <1>a, <1>b, <1>c, Zenon DEF IdentityOK, ShapeOK, Ending
<1>0. c = ctl[w] /\ u = c.cmt.pvc
    OBVIOUS
<1> HIDE DEF c, OK
<1>e. ASSUME NEW X, X.me = c.me, X.inst = c.inst, X.pc \in {"readCurrent", "readAdopted"},
             X.pc = "readCurrent" => X.cmt.phase = "prepared", NEW C
      PROVE  OK(X, C)
    BY <1>a, <1>c, <1>e, ScanOn, Zenon DEF OK, PreparingPCs
<1>f. ASSUME NEW X, Move(w, X), OK(X, commits), commits' = commits PROVE FinInv'
    <2>1. UNCHANGED <<commits, crs, cache>>
        BY <1>b, <1>f DEF OnlyCommits
    <2> QED
        BY <1>0, <1>c, <1>f, <2>1, FinMove, Zenon DEF OK
<1>1. CASE commits' = [commits EXCEPT ![u] = c.cmt] /\ Move(w, At(c, "readCurrent"))
    <2> DEFINE X == At(c, "readCurrent")
    <2>1. X.pc = "readCurrent" /\ X.me = c.me /\ X.inst = c.inst /\ X.cmt = c.cmt
        BY <1>a, Zenon DEF At, Local
    <2> HIDE DEF X
    <2>2. OK(X, commits')
        BY <1>d, <1>e, <2>1, Zenon
    <2>3. MayStore(u, c.cmt)
        BY <1>0, <1>d, Zenon DEF MayStore
    <2>4. Move(w, X)
        BY <1>1 DEF X
    <2> QED
        BY <1>1, <1>b, <2>2, <2>3, <2>4, FinStore, Zenon DEF OK
<1>2. ASSUME NEW q,
             (q = "readCurrent" /\ old.phase = "prepared") \/ q = "readAdopted",
             Move(w, AtRecord(c, q, old)), commits' = commits
      PROVE  FinInv'
    <2> DEFINE X == AtRecord(c, q, old)
    <2>1. X.pc = q /\ X.me = c.me /\ X.inst = c.inst /\ X.cmt = old
        BY <1>a DEF AtRecord, Local
    <2> HIDE DEF X, old
    <2>2. OK(X, commits)
        BY <1>2, <1>e, <2>1, Zenon
    <2>3. Move(w, X)
        BY <1>2, Zenon DEF X
    <2> QED
        BY <1>2, <1>f, <2>2, <2>3, Zenon
<1>3. CASE Move(w, Idle) /\ commits' = commits
    BY <1>3, <1>f, IdleFin, Zenon DEF OK
<1>4. \/ commits' = [commits EXCEPT ![u] = c.cmt] /\ Move(w, At(c, "readCurrent"))
      \/ old.phase = "prepared" /\ Move(w, AtRecord(c, "readCurrent", old)) /\ commits' = commits
      \/ old.phase = "committed" /\ Move(w, AtRecord(c, "readAdopted", old)) /\ commits' = commits
      \/ Move(w, Idle) /\ commits' = commits
    BY <1>0, Zenon DEF createOrAdoptDeletionCommit, Return
<1>5. CASE old.phase = "prepared" /\ Move(w, AtRecord(c, "readCurrent", old)) /\ commits' = commits
    BY <1>2, <1>5, Zenon
<1>6. CASE old.phase = "committed" /\ Move(w, AtRecord(c, "readAdopted", old)) /\ commits' = commits
    BY <1>2, <1>6, Zenon
<1> QED
    BY <1>1, <1>3, <1>4, <1>5, <1>6, Zenon

\* The transaction goes on with the record at hand.
LEMMA TransactionFin ==
    ASSUME IInv, FinInv, OneWorker, NEW w \in Workers, Step(w),
           \/ ReadAdopted(w) \/ Reread(w) \/ ReadCurrent(w) \/ Mark(w) \/ ConfirmMark(w)
           \/ FenceSnr(w) \/ FenceNode(w) \/ Finalize(w) \/ ConfirmFinal(w)
    PROVE  FinInv'
<1> DEFINE c == ctl[w]
           OK(X) == FinalOK(X, pvc.req, commits, crs, cache)
<1>a. c \in Local /\ IdentityOK(c, crs, cache) /\ ShapeOK(c)
    BY FinFacts, Zenon
<1>b. c.pc \in (PreparingPCs \ {"promote"}) \union {"readAdopted", "reread"}
    BY Zenon DEF ReadAdopted, Reread, ReadCurrent, Mark, ConfirmMark, FenceSnr, FenceNode, Finalize, ConfirmFinal,
           PreparingPCs
<1>c. UNCHANGED <<commits, crs, cache>>
    BY DEF ReadAdopted, Reread, ReadCurrent, Mark, ConfirmMark, FenceSnr, FenceNode, Finalize, ConfirmFinal,
           ClusterUnchanged, OnlyPVC, apiVars
<1>d. ~Ending(c) /\ c.pc # "idle" /\ c.pc # "startRequest"
    BY <1>a, <1>b, Zenon DEF ShapeOK, ResumePCs, CleaningPCs, PreparingPCs
<1>0. c = ctl[w]
    OBVIOUS
<1> HIDE DEF c, OK
<1>e. ASSUME NEW X, Move(w, X), OK(X) PROVE FinInv'
    BY <1>0, <1>c, <1>d, <1>e, FinMove, Zenon DEF OK
<1>f. OK(Idle)
    BY IdleFin, Zenon DEF OK
<1>g. ASSUME NEW X, X.me = c.me, X.inst = c.inst, X.cmt = c.cmt,
             \/ X.pc \in {"drop", "dropClear", "listUsers"}
             \/ X.pc \in PreparingPCs /\ c.pc \in PreparingPCs
      PROVE  OK(X)
    <2>1. X.pc \notin {"listPVCs", "listCommits", "resume", "removeFinalizer", "createCommit"}
        BY <1>g, Zenon DEF PreparingPCs
    <2>2. X.pc \in PreparingPCs => X.cmt.phase = "prepared"
        BY <1>a, <1>g, Zenon DEF ShapeOK, PreparingPCs
    <2> QED
        BY <1>a, <1>d, <1>g, <2>1, <2>2, ScanOn, Zenon DEF OK
<1>h. /\ OK(At(c, "drop"))
      /\ \A q \in {"drop", "dropClear", "listUsers"} : \A p : OK(AtWith(c, q, p))
    <2>1. OK(At(c, "drop"))
        BY <1>a, <1>g DEF At, Local
    <2>2. ASSUME NEW q \in {"drop", "dropClear", "listUsers"}, NEW p PROVE OK(AtWith(c, q, p))
        BY <1>a, <1>g, Zenon DEF AtWith, Local
    <2> QED
        BY <2>1, <2>2, Zenon
<1>i. \A p : OK(rejectPreparedDeletionCommit(c, p)) /\ OK(ResumeRead(c, p))
    BY <1>f, <1>h, Zenon DEF rejectPreparedDeletionCommit, ResumeRead
<1>j. c.pc \in PreparingPCs => \A q \in PreparingPCs :
          OK(At(c, q)) /\ \A p : OK(AtWith(c, q, p)) /\ OK(AtSnr(c, q, p))
    <2> SUFFICES ASSUME c.pc \in PreparingPCs, NEW q \in PreparingPCs
                 PROVE  OK(At(c, q)) /\ \A p : OK(AtWith(c, q, p)) /\ OK(AtSnr(c, q, p))
        OBVIOUS
    <2>1. OK(At(c, q))
        BY <1>a, <1>g, Zenon DEF At, Local
    <2>2. ASSUME NEW p PROVE OK(AtWith(c, q, p))
        BY <1>a, <1>g, Zenon DEF AtWith, Local
    <2>3. ASSUME NEW p PROVE OK(AtSnr(c, q, p))
        BY <1>a, <1>g, Zenon DEF AtSnr, Local
    <2> QED
        BY <2>1, <2>2, <2>3, Zenon
<1>1. CASE ReadAdopted(w) \/ Reread(w)
    BY <1>0, <1>1, <1>e, <1>h, <1>i, Zenon DEF ReadAdopted, Reread
<1>2. CASE ~(ReadAdopted(w) \/ Reread(w))
    <2>1. c.pc \in PreparingPCs
        BY <1>0, <1>2, Zenon DEF ReadCurrent, Mark, ConfirmMark, FenceSnr, FenceNode, Finalize, ConfirmFinal, PreparingPCs
    <2>2. /\ \A q \in {"mark", "confirmMark", "markFailed", "promote", "finalize", "confirmFinal", "finalizeFailed"} : OK(At(c, q))
          /\ \A p : OK(AtWith(c, "fenceSnr", p)) /\ OK(AtWith(c, "promote", p)) /\ OK(AtSnr(c, "fenceNode", p))
        BY <1>j, <2>1, Zenon DEF PreparingPCs
    <2>3. CASE ReadCurrent(w)
        BY <2>3, <1>0, <1>e, <1>h, <2>2, Zenon DEF ReadCurrent
    <2>4. CASE Mark(w)
        BY <2>4, <1>0, <1>e, <2>2, Zenon DEF Mark, ConditionalWrite
    <2>5. CASE ConfirmMark(w)
        BY <2>5, <1>0, <1>e, <1>f, <1>h, <1>i, <2>2, Zenon DEF ConfirmMark
    <2>6. CASE FenceSnr(w)
        BY <2>6, <1>0, <1>e, <1>f, <1>i, <2>2, Zenon DEF FenceSnr
    <2>7. CASE FenceNode(w)
        BY <2>7, <1>0, <1>e, <1>i, <2>2, Zenon DEF FenceNode
    <2>8. CASE Finalize(w)
        BY <2>8, <1>0, <1>e, <2>2, Zenon DEF Finalize, ConditionalWrite
    <2>9. CASE ConfirmFinal(w)
        BY <2>9, <1>0, <1>e, <1>f, <1>i, <2>2, Zenon DEF ConfirmFinal
    <2> QED
        BY <1>2, <2>3, <2>4, <2>5, <2>6, <2>7, <2>8, <2>9, Zenon
<1> QED
    BY <1>1, <1>2, Zenon

\* Every step keeps what the finalizer stands for.
LEMMA FinStep ==
    ASSUME IInv, FinInv, OneWorker, [Next]_vars
    PROVE  FinInv'
<1>1. CASE UNCHANGED vars
    BY <1>1, Zenon DEF vars, FinInv
<1>2. ASSUME NEW w \in Workers, Crash(w) PROVE FinInv'
    <2>1. Move(w, Idle) /\ UNCHANGED <<pvc, commits, crs, cache>>
        BY <1>2, Zenon DEF Crash, Return, apiVars
    <2>2. ctl'[w] = Idle /\ \A v \in Workers : v = w
        BY <2>1, MoveFacts DEF OneWorker
    <2> QED
        BY <2>1, <2>2, IdleFin, Zenon DEF FinInv
<1>3. ASSUME NEW w \in Workers, Step(w) PROVE FinInv'
    <2>1. CASE \/ ListPVCs(w) \/ ListCommits(w)
               \/ \E r \in Remediators : AddFinalizer(w, r) \/ Reconcile(w, r)
        BY <1>3, <2>1, StartFin, Zenon
    <2>2. ASSUME NEW x \in ctl[w].todo, ResumeDamaged(w, x) \/ ResumeForeign(w, x) \/ ResumeOwn(w, x)
          PROVE  FinInv'
        BY <1>3, <2>2, ResumeFin, Zenon
    <2>3. CASE ResumeScrub(w) \/ Drop(w) \/ Clear(w) \/ promotePreparedDeletionCommit(w)
        BY <1>3, <2>3, RemoveFin, PromoteFin, Zenon
    <2>4. CASE \/ ListUsers(w) \/ ListRemaining(w) \/ ConfirmGone(w) \/ DeletePVC(w)
               \/ \E x \in ctl[w].seen : DeletePod(w, x)
        BY <1>3, <2>4, CommittedFin, Zenon
    <2>5. CASE \/ CleanupList(w) \/ CleanupPatch(w) \/ RemoveFinalizer(w)
               \/ ClearRecovered(w) \/ DropOrphanedConsent(w) \/ startRequest(w)
        BY <1>3, <2>5, CleanupFin, HandshakeFin, Zenon
    <2>6. CASE \/ CheckDeps(w) \/ ScanNodes(w) \/ ScanSnrs(w) \/ ScanPVC(w)
               \/ isRemediationPaused(w) \/ ListPods(w) \/ createOrAdoptDeletionCommit(w)
        BY <1>3, <2>6, ScanFin, CreateFin, Zenon
    <2>7. CASE \/ ReadAdopted(w) \/ Reread(w) \/ ReadCurrent(w) \/ Mark(w) \/ ConfirmMark(w)
               \/ FenceSnr(w) \/ FenceNode(w) \/ Finalize(w) \/ ConfirmFinal(w)
        BY <1>3, <2>7, TransactionFin, Zenon
    <2> QED
        BY <1>3, <2>1, <2>2, <2>3, <2>4, <2>5, <2>6, <2>7, Zenon DEF Step
<1> QED
    BY <1>1, <1>2, <1>3, EnvironmentFin, Zenon DEF Next

===============================================================================
