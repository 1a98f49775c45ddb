---------------------- MODULE PodRemediatorRecordProofs -----------------------
(***************************************************************************)
(* A requested deletion keeps its record, with one worker.                 *)
(*                                                                         *)
(* The invariant follows the record at hand through the reconcile, and     *)
(* shows that no path that drops one is reached while the claim is being   *)
(* deleted.                                                                *)
(***************************************************************************)
EXTENDS PodRemediatorStepProofs

---------------------------------------------------------------------------
(* A requested deletion keeps its record                                    *)

\* Nobody else deletes or edits the claim or its record.
NoForeignEdits == \A b \in Budgets : b["edit"] = 0

Stored(x, C) == x.pvc \in PVCIds /\ C[x.pvc] = x

\* The records still to be resumed are the stored ones, and none is the record
\* at hand.
TodoOK(c, C) ==
    \A x \in c.todo : /\ Stored(x, C) /\ x.pvc # c.cmt.pvc
                      /\ x.phase \in {"prepared", "committed"}

\* What a worker knows of the record at hand, the claim p, the records C and
\* the claim UIDs up to n.  A record is removed only while the claim it names
\* is not being deleted.
PlaceOK(c, p, C, n) ==
    /\ c.pc \in {"listPVCs", "listCommits"} => c.cmt = NoCommit
    /\ c.pc \in {"deps", "scanNodes", "scanSnrs", "scanPVC", "checkPause", "listPods", "createCommit"}
          => c.todo = {}
    /\ c.pc \in {"checkPause", "listPods", "createCommit"} => c.cur.uid \in 1..n
    /\ c.pc \in {"listPods", "createCommit", "readCurrent", "mark"} => c.cur.final = 0
    /\ c.pc = "createCommit" => c.cmt.phase = "prepared" /\ c.cmt.pvc = c.cur.uid
    /\ c.pc \in PreparingPCs => Stored(c.cmt, C) /\ c.cmt.phase = "prepared"
    /\ c.pc \in CommittedPCs => Stored(c.cmt, C) /\ c.cmt.phase = "committed"
    /\ c.pc \in {"listUsers", "deletePods", "deletePVC"} =>
          (p.uid = c.cmt.pvc /\ p.deleting => c.cur.deleting)
    /\ c.pc = "confirmGone" => c.cmt.pvc \in 1..n
    /\ c.pc \in {"drop", "dropClear"} =>
          c.cmt.pvc \in 1..n /\ (p.uid = c.cmt.pvc => ~p.deleting)

DeletionOK(c, p, C, n) == TodoOK(c, C) /\ PlaceOK(c, p, C, n)

\* The stored records, and the claim that is being deleted.
StoreOK(C, n) ==
    \A u \in PVCIds : C[u] = NoCommit \/ /\ u <= n /\ C[u].pvc = u
                                         /\ C[u].phase \in {"prepared", "committed"}
Recorded(p, C) == p.deleting => C[p.uid].phase = "committed" /\ finalizedCommitMatchesPVC(p, C[p.uid])

DelInv ==
    /\ Recorded(pvc, commits)
    /\ pvc.uid \in 0..lastPVC /\ (pvc.uid = 0 => ~pvc.deleting)
    /\ StoreOK(commits, lastPVC)
    /\ \A w \in Workers : DeletionOK(ctl[w], pvc, commits, lastPVC)
    /\ budget["edit"] = 0

\* A claim that takes no deletion timestamp the old one had not.
NoNewDeletion(p, q) ==
    q.deleting => /\ p.deleting /\ q.uid = p.uid
                  /\ q.marker = p.marker /\ q.token = p.token /\ q.final = p.final

\* The idle worker has nothing to keep.
LEMMA IdleDel ==
    ASSUME NEW p, NEW C, NEW n
    PROVE  DeletionOK(Idle, p, C, n)
BY DEF DeletionOK, TodoOK, PlaceOK, Idle, PreparingPCs, CommittedPCs

\* There is no record and no deletion to start with.
LEMMA DelInit ==
    ASSUME NoForeignEdits, Init
    PROVE  DelInv
<1>1. pvc.uid = 1 /\ ~pvc.deleting
    <2>1. PICK home \in Homes :
              \/ pvc = BarePVC(1, 1, home)
              \/ pvc = [BarePVC(1, 1, home) EXCEPT !.stuck = TRUE]
              \/ pvc = [BarePVC(1, 1, home) EXCEPT !.consent = LegacyConsent]
        BY DEF Init
    <2> QED
        BY <2>1 DEF BarePVC
<1>2. \A w \in Workers : ctl[w] = Idle
    BY DEF Init
<1>3. budget["edit"] = 0
    BY DEF Init, NoForeignEdits
<1>4. lastPVC = 1 /\ \A u \in PVCIds : commits[u] = NoCommit
    BY DEF Init
<1> QED
    BY <1>1, <1>2, <1>3, <1>4, IdleDel DEF DelInv, Recorded, StoreOK

\* A worker's knowledge outlives changes of the claim that start no deletion.
LEMMA DeletionStable ==
    ASSUME NEW c, NEW p, NEW q, NEW C, NEW n \in Nat, NEW m \in Nat, n <= m,
           NoNewDeletion(p, q), DeletionOK(c, p, C, n)
    PROVE  DeletionOK(c, q, C, m)
<1>1. PlaceOK(c, q, C, m)
    BY DEF NoNewDeletion, DeletionOK, PlaceOK
<1> QED
    BY <1>1, Zenon DEF DeletionOK

\* So does the record of a deletion.
LEMMA RecordedStable ==
    ASSUME NEW p, NEW q, NEW C, NoNewDeletion(p, q), Recorded(p, C)
    PROVE  Recorded(q, C)
BY DEF NoNewDeletion, Recorded, finalizedCommitMatchesPVC, preparedCommitMatchesPVC

\* The environment starts no deletion and touches no record, when nobody edits.
LEMMA EnvironmentDel ==
    ASSUME IInv, DelInv, Environment
    PROVE  DelInv'
<1>a. pvc \in PVC /\ rev \in Nat /\ lastPVC \in Nat
    BY DEF IInv, TypeOK
<1>b. ctl' = ctl
    BY EnvironmentChanges, Zenon
<1>c. budget \in [EventKinds -> Nat] /\ "edit" \in EventKinds /\ budget["edit"] = 0
    BY DEF IInv, TypeOK, EventKinds, DelInv
<1>d. ~Spend("edit")
    BY <1>c DEF Spend
<1>f. budget'["edit"] = 0
    BY <1>c, <1>d, EnvironmentChanges DEF Spend
<1>g. commits' = commits
    BY <1>d, EnvironmentChanges DEF CommitEdited, CRCreated, CRChanges, CacheSync
<1>h. \/ pvc' = pvc /\ lastPVC' = lastPVC
      \/ PVCRemoved \/ \E home \in Homes : PVCCreated(home)
      \/ \E c \in {pvc.req, NoRequest} : ConsentChanges(c)
    BY <1>d, EnvironmentChanges DEF PVCEdited
<1> DEFINE Fine == /\ lastPVC' \in Nat /\ lastPVC <= lastPVC' /\ pvc'.uid \in 0..lastPVC'
                   /\ NoNewDeletion(pvc, pvc') /\ (pvc'.uid = 0 => ~pvc'.deleting)
<1>1. ASSUME pvc' = pvc, lastPVC' = lastPVC PROVE Fine
    BY <1>1, <1>a DEF DelInv, NoNewDeletion
<1>2. ASSUME PVCRemoved PROVE Fine
    BY <1>2, <1>a DEF PVCRemoved, NoPVC, BarePVC, NoNewDeletion
<1>3. ASSUME NEW home \in Homes, PVCCreated(home) PROVE Fine
    BY <1>3, <1>a DEF PVCCreated, BarePVC, NoNewDeletion
<1>4. ASSUME NEW c \in {pvc.req, NoRequest}, ConsentChanges(c) PROVE Fine
    <2>1. /\ pvc'.uid = pvc.uid /\ pvc'.deleting = pvc.deleting /\ pvc'.marker = pvc.marker
          /\ pvc'.token = pvc.token /\ pvc'.final = pvc.final /\ lastPVC' = lastPVC
        BY <1>4, <1>a, Zenon DEF ConsentChanges, WritePVC, PVC
    <2> QED
        BY <2>1, <1>a DEF DelInv, NoNewDeletion
<1>5. Fine
    BY <1>h, <1>1, <1>2, <1>3, <1>4, Zenon
<1>6. Recorded(pvc', commits)
    BY <1>5, RecordedStable, Zenon DEF DelInv
<1>7. \A w \in Workers : DeletionOK(ctl[w], pvc', commits, lastPVC')
    BY <1>5, <1>a, DeletionStable, Zenon DEF DelInv
<1>8. StoreOK(commits, lastPVC')
    <2>1. \A u \in PVCIds : u \in Nat
        BY DEF PVCIds
    <2> QED
        BY <2>1, <1>5, <1>a DEF DelInv, StoreOK
<1> QED
    BY <1>b, <1>f, <1>g, <1>5, <1>6, <1>7, <1>8, Zenon DEF DelInv

\* The only worker moves on, with the records as they are.
LEMMA DelMove ==
    ASSUME IInv, DelInv, OneWorker, NEW w \in Workers, NEW X, Move(w, X),
           commits' = commits, lastPVC' = lastPVC, budget'["edit"] = 0,
           pvc'.uid = pvc.uid, NoNewDeletion(pvc, pvc'),
           DeletionOK(X, pvc, commits, lastPVC)
    PROVE  DelInv'
<1>1. ctl'[w] = X /\ \A v \in Workers : v = w
    BY MoveFacts, Zenon DEF OneWorker
<1>2. lastPVC \in Nat
    BY DEF IInv, TypeOK
<1>3. DeletionOK(X, pvc', commits, lastPVC)
    BY <1>2, DeletionStable
<1>4. Recorded(pvc', commits)
    BY RecordedStable, Zenon DEF DelInv
<1>5. pvc'.uid = 0 => ~pvc'.deleting
    BY DEF DelInv, NoNewDeletion
<1> QED
    BY <1>1, <1>3, <1>4, <1>5, Zenon DEF DelInv

\* The only worker moves on, and nothing else changes.
LEMMA DelRead ==
    ASSUME IInv, DelInv, OneWorker, NEW w \in Workers, NEW X, Move(w, X), ClusterUnchanged,
           DeletionOK(X, pvc, commits, lastPVC)
    PROVE  DelInv'
<1>1. /\ commits' = commits /\ lastPVC' = lastPVC /\ pvc' = pvc /\ budget' = budget
    BY DEF ClusterUnchanged, apiVars
<1>2. NoNewDeletion(pvc, pvc')
    BY <1>1 DEF NoNewDeletion
<1>3. budget'["edit"] = 0
    BY <1>1 DEF DelInv
<1> QED
    BY <1>1, <1>2, <1>3, DelMove

\* The only worker patches the claim.
LEMMA DelPatch ==
    ASSUME IInv, DelInv, OneWorker, NEW w \in Workers, NEW X, NEW p, NEW new \in PVC,
           PatchPVC(w, p, new, X), Snap(p, pvc, rev, granted),
           p = pvc => new.uid = pvc.uid /\ NoNewDeletion(pvc, new),
           DeletionOK(X, pvc, commits, lastPVC)
    PROVE  DelInv'
<1>1. /\ commits' = commits /\ lastPVC' = lastPVC /\ budget' = budget
    BY DEF PatchPVC, OnlyPVC
<1>2. budget'["edit"] = 0
    BY <1>1, Zenon DEF DelInv
<1>3. rev \in Nat
    BY DEF IInv, TypeOK
<1>4. WritePVC(new) => /\ pvc'.uid = new.uid /\ pvc'.deleting = new.deleting /\ pvc'.marker = new.marker
                       /\ pvc'.token = new.token /\ pvc'.final = new.final
    BY <1>3 DEF WritePVC, PVC
<1>5. CASE pvc.uid # 0 /\ pvc.rv = p.rv /\ WritePVC(new) /\ Move(w, X)
    <2>1. p = pvc
        BY <1>5, Zenon DEF Snap
    <2>2. pvc'.uid = pvc.uid /\ NoNewDeletion(pvc, pvc')
        BY <1>4, <1>5, <2>1, Zenon DEF NoNewDeletion
    <2> QED
        BY <1>1, <1>2, <1>5, <2>2, DelMove, Zenon
<1>6. CASE pvc' = pvc /\ (Move(w, X) \/ Move(w, Idle))
    <2>1. pvc'.uid = pvc.uid /\ NoNewDeletion(pvc, pvc')
        BY <1>6, Zenon DEF NoNewDeletion
    <2> QED
        BY <1>1, <1>2, <1>6, <2>1, DelMove, IdleDel, Zenon
<1> QED
    BY <1>5, <1>6, Zenon DEF PatchPVC, Return

\* What is known of the worker at the start of a step.
LEMMA DelFacts ==
    ASSUME IInv, DelInv, NEW w \in Workers
    PROVE  /\ ctl[w] \in Local /\ TodoOK(ctl[w], commits) /\ PlaceOK(ctl[w], pvc, commits, lastPVC)
           /\ lastPVC \in Nat /\ lastPVC <= MaxPVC /\ MaxPVC \in Nat /\ pvc \in PVC
           /\ NoCommit.pvc = 0 /\ NoCommit.phase = "absent"
           /\ commits \in [PVCIds -> Commit]
BY ClusterAssumptions DEF IInv, TypeOK, DelInv, DeletionOK, NoCommit

\* The records still to be resumed stay what they were.
LEMMA TodoKept ==
    ASSUME NEW c \in Local, NEW C, NEW X, TodoOK(c, C)
    PROVE  /\ X.todo = c.todo /\ X.cmt.pvc = c.cmt.pvc => TodoOK(X, C)
           /\ X.todo \subseteq c.todo /\ X.cmt.pvc = c.cmt.pvc => TodoOK(X, C)
           /\ X.todo \subseteq c.todo /\ X.cmt = NoCommit => TodoOK(X, C)
           /\ \A x \in c.todo : X.todo = c.todo \ {x} /\ X.cmt = x => TodoOK(X, C)
           /\ X.todo = {} => TodoOK(X, C)
<1>1. NoCommit.pvc = 0 /\ 0 \notin PVCIds
    BY DEF NoCommit, PVCIds
<1> QED
    BY <1>1 DEF TodoOK, Stored

\* A prepared record belongs to no deletion: its claim is not being deleted.
LEMMA PreparedNotDeleting ==
    ASSUME DelInv, NEW x, Stored(x, commits), x.phase = "prepared"
    PROVE  x.pvc \in 1..lastPVC /\ (pvc.uid = x.pvc => ~pvc.deleting)
<1>1. x # NoCommit
    BY DEF NoCommit
<1>2. x.pvc \in PVCIds /\ commits[x.pvc] = x /\ x.pvc <= lastPVC
    BY <1>1 DEF DelInv, StoreOK, Stored
<1> QED
    BY <1>2 DEF DelInv, Recorded, PVCIds

\* Nor is a claim that carries no finalized token.
LEMMA UnfinalizedNotDeleting ==
    ASSUME IInv, DelInv, pvc.final = 0
    PROVE  ~pvc.deleting
<1> SUFFICES ASSUME pvc.deleting PROVE FALSE
    OBVIOUS
<1>1. Recorded(pvc, commits) /\ pvc.uid \in 0..lastPVC /\ pvc.uid # 0
    BY Zenon DEF DelInv
<1>2. commits[pvc.uid].phase = "committed" /\ pvc.final = commits[pvc.uid].token
    BY <1>1, Zenon DEF Recorded, finalizedCommitMatchesPVC
<1>3. lastPVC \in Nat /\ lastPVC <= MaxPVC /\ MaxPVC \in Nat
    BY ClusterAssumptions DEF IInv, TypeOK
<1>4. pvc.uid \in PVCIds
    BY <1>1, <1>3 DEF PVCIds
<1>5. commits[pvc.uid] \in Records /\ commits[pvc.uid] # NoCommit
    BY <1>2, <1>4 DEF NoCommit, Records
<1>6. \A t \in Records : t = NoCommit \/ t.token # 0
    BY Zenon DEF IInv, RecordsOK
<1> QED
    BY <1>2, <1>5, <1>6, Zenon

\* The stored record names a claim that was created.
LEMMA StoredCreated ==
    ASSUME DelInv, NEW x, Stored(x, commits), x.phase # "absent"
    PROVE  x.pvc \in 1..lastPVC
BY DEF DelInv, StoreOK, Stored, NoCommit, PVCIds

\* The work on a record ends, or the reconcile does.
LEMMA EndDel ==
    ASSUME NEW c \in Local, NEW p, NEW C, NEW n, TodoOK(c, C)
    PROVE  /\ DeletionOK(Handled(c), p, C, n) /\ DeletionOK(Pending(c), p, C, n)
           /\ DeletionOK(AfterCleanup(c), p, C, n) /\ DeletionOK(AfterResume(c), p, C, n)
<1>1. ASSUME NEW X, X.pc \in {"resume", "removeFinalizer", "cleanupList"}, TodoOK(X, C)
      PROVE  DeletionOK(X, p, C, n)
    BY <1>1, Zenon DEF DeletionOK, PlaceOK, PreparingPCs, CommittedPCs
<1>2. ASSUME NEW X, X.pc = "deps", X.todo = {}
      PROVE  DeletionOK(X, p, C, n)
    BY <1>2, Zenon DEF DeletionOK, PlaceOK, PreparingPCs, CommittedPCs, TodoOK
<1>3. DeletionOK(Handled(c), p, C, n)
    BY <1>1, HandledMove, IdleDel, TodoKept
<1>4. DeletionOK(Pending(c), p, C, n)
    BY <1>1, PendingMove, IdleDel, TodoKept
<1>5. DeletionOK(AfterCleanup(c), p, C, n)
    BY <1>1, AfterCleanupMove, IdleDel, TodoKept
<1>6. DeletionOK(AfterResume(c), p, C, n)
    BY <1>1, <1>2, AfterResumeMove, IdleDel, TodoKept
<1> QED
    BY <1>3, <1>4, <1>5, <1>6, Zenon

\* The reconcile starts and reads its lists.
LEMMA StartDel ==
    ASSUME IInv, DelInv, OneWorker, NEW w \in Workers,
           \/ ListPVCs(w) \/ ListCommits(w)
           \/ \E r \in Remediators : AddFinalizer(w, r) \/ Reconcile(w, r)
    PROVE  DelInv'
<1> DEFINE c == ctl[w]
<1>a. /\ c \in Local /\ TodoOK(c, commits) /\ PlaceOK(c, pvc, commits, lastPVC)
    BY DelFacts
<1>1. CASE ListPVCs(w)
    <2> DEFINE X == [c EXCEPT !.pc = "listCommits", !.listed = pvc]
    <2>1. X.pc = "listCommits" /\ X.todo = c.todo /\ X.cmt = c.cmt
        BY <1>a DEF Local
    <2>2. c.cmt = NoCommit /\ Move(w, X) /\ ClusterUnchanged
        BY <1>1, <1>a, Zenon DEF ListPVCs, PlaceOK
    <2> HIDE DEF X
    <2>3. PlaceOK(X, pvc, commits, lastPVC)
        BY <2>1, <2>2, Zenon DEF PlaceOK, PreparingPCs, CommittedPCs
    <2>4. TodoOK(X, commits)
        BY <1>a, <2>1, TodoKept, Zenon
    <2> QED
        BY <2>2, <2>3, <2>4, DelRead DEF DeletionOK
<1>2. CASE ListCommits(w)
    <2> DEFINE S == {commits[u] : u \in PVCIds} \ {NoCommit}
               X == [c EXCEPT !.pc = "resume", !.todo = S]
    <2>1. X.pc = "resume" /\ X.todo = S /\ X.cmt = c.cmt
        BY <1>a, Zenon DEF Local
    <2>2. c.cmt = NoCommit /\ Move(w, X) /\ ClusterUnchanged
        BY <1>2, <1>a, Zenon DEF ListCommits, PlaceOK
    <2>3. \A x \in S : Stored(x, commits) /\ x.pvc # 0 /\ x.phase \in {"prepared", "committed"}
        BY DEF DelInv, StoreOK, Stored, PVCIds
    <2>4. NoCommit.pvc = 0
        BY DEF NoCommit
    <2> HIDE DEF X, S
    <2>5. PlaceOK(X, pvc, commits, lastPVC)
        BY <2>1, Zenon DEF PlaceOK, PreparingPCs, CommittedPCs
    <2>6. TodoOK(X, commits)
        BY <2>1, <2>2, <2>3, <2>4, Zenon DEF TodoOK
    <2> QED
        BY <2>2, <2>5, <2>6, DelRead DEF DeletionOK
<1>3. ASSUME NEW r \in Remediators, AddFinalizer(w, r) PROVE DelInv'
    <2>1. UNCHANGED <<pvc, commits, lastPVC, ctl, budget>>
        BY <1>3 DEF AddFinalizer
    <2> QED
        BY <2>1, Zenon DEF DelInv
<1>4. ASSUME NEW r \in Remediators, Reconcile(w, r) PROVE DelInv'
    <2> DEFINE X == [Idle EXCEPT !.pc = "listPVCs", !.me = r, !.inst = cache[r]]
    <2>1. X.pc = "listPVCs" /\ X.todo = {} /\ X.cmt = NoCommit
        BY DEF Idle
    <2>2. Move(w, X) /\ ClusterUnchanged
        BY <1>4, Zenon DEF Reconcile
    <2> HIDE DEF X
    <2>3. DeletionOK(X, pvc, commits, lastPVC)
        BY <2>1, Zenon DEF DeletionOK, TodoOK, PlaceOK, PreparingPCs, CommittedPCs
    <2> QED
        BY <2>2, <2>3, DelRead
<1> QED
    BY <1>1, <1>2, <1>3, <1>4, Zenon

\* The resume loop decides about one stored record.
LEMMA ResumeDel ==
    ASSUME IInv, DelInv, OneWorker, NEW w \in Workers, NEW x \in ctl[w].todo,
           ResumeDamaged(w, x) \/ ResumeForeign(w, x) \/ ResumeOwn(w, x)
    PROVE  DelInv'
<1> DEFINE c == ctl[w]
<1>a. /\ c \in Local /\ TodoOK(c, commits) /\ c.pc = "resume"
    BY DelFacts, Zenon DEF ResumeDamaged, ResumeForeign, ResumeOwn
<1>b. Stored(x, commits) /\ x.phase \in {"prepared", "committed"} /\ x.pvc \in 1..lastPVC
    BY <1>a, StoredCreated, Zenon DEF TodoOK
<1>c. c = ctl[w]
    OBVIOUS
<1>d. x \in c.todo
    BY Zenon
<1> HIDE DEF c
<1>1. ASSUME NEW X, X.pc = "resume", X.cmt = c.cmt, X.todo = c.todo \ {x}
      PROVE  DeletionOK(X, pvc, commits, lastPVC)
    <2>1. TodoOK(X, commits)
        BY <1>1, <1>a, TodoKept, Zenon
    <2> QED
        BY <1>1, <2>1, Zenon DEF DeletionOK, PlaceOK, PreparingPCs, CommittedPCs
<1>2. DeletionOK(Account(c, x), pvc, commits, lastPVC) /\ DeletionOK(Hold(c, x), pvc, commits, lastPVC)
    BY <1>1, <1>a, AccountMove, HoldMove
<1>3. ASSUME NEW X, X.todo = c.todo \ {x}, X.cmt = x PROVE TodoOK(X, commits)
    BY <1>3, <1>a, <1>d, TodoKept, Zenon
<1>4. ASSUME NEW X, X.todo = c.todo \ {x}, X.cmt = x, X.pc \in {"drop", "dropClear"},
             pvc.uid = x.pvc => ~pvc.deleting
      PROVE  DeletionOK(X, pvc, commits, lastPVC)
    <2>1. TodoOK(X, commits)
        BY <1>3, <1>4, Zenon
    <2> QED
        BY <1>4, <1>b, <2>1, Zenon DEF DeletionOK, PlaceOK, PreparingPCs, CommittedPCs
<1>5. ASSUME NEW X, X.todo = c.todo \ {x}, X.cmt = x, X.cur = pvc,
             X.pc = IF x.phase = "prepared" THEN "promote" ELSE "listUsers"
      PROVE  DeletionOK(X, pvc, commits, lastPVC)
    <2>1. TodoOK(X, commits)
        BY <1>3, <1>5, Zenon
    <2> QED
        BY <1>5, <1>b, <2>1, Zenon DEF DeletionOK, PlaceOK, PreparingPCs, CommittedPCs
<1>6. x.phase = "prepared" => (pvc.uid = x.pvc => ~pvc.deleting)
    BY <1>b, PreparedNotDeleting, Zenon
<1>7. DeletionOK(ResumeDecision(c, x, pvc), pvc, commits, lastPVC)
    <2>1. CASE pvc.uid # x.pvc
        BY <1>a, <1>4, <2>1, DiscardMove DEF ResumeDecision, finalizedCommitMatchesPVC, preparedCommitMatchesPVC
    <2>2. CASE finalizedCommitMatchesPVC(pvc, x)
        <3>1. ResumeDecision(c, x, pvc) = TakeUp(c, x, pvc, IF x.phase = "prepared" THEN "promote" ELSE "listUsers")
            BY <2>2, Zenon DEF ResumeDecision, finalizedCommitMatchesPVC, preparedCommitMatchesPVC
        <3> QED
            BY <1>a, <1>5, <3>1, TakeUpMove
    <2>3. CASE pvc.uid = x.pvc /\ ~finalizedCommitMatchesPVC(pvc, x) /\ x.phase = "prepared"
        <3>1. ResumeDecision(c, x, pvc) = Abort(c, x, pvc, IF hasDeletionCommitAnnotations(pvc) THEN "dropClear" ELSE "drop")
            BY <2>3, Zenon DEF ResumeDecision
        <3> QED
            BY <1>a, <1>4, <1>6, <2>3, <3>1, AbortMove
    <2>4. CASE pvc.uid = x.pvc /\ ~finalizedCommitMatchesPVC(pvc, x) /\ x.phase # "prepared"
        <3>1. ResumeDecision(c, x, pvc) = IF pvc.deleting \/ pvc.final # 0 THEN Hold(c, x)
                                          ELSE Abort(c, x, pvc, "dropClear")
            BY <2>4 DEF ResumeDecision
        <3> QED
            BY <1>a, <1>2, <1>4, <3>1, HoldMove, AbortMove
    <2> QED
        BY <2>1, <2>2, <2>3, <2>4
<1>8. ~ResumeDamaged(w, x)
    BY <1>b, Zenon DEF ResumeDamaged
<1>9. CASE ResumeForeign(w, x)
    BY <1>9, <1>c, <1>2, DelRead, Zenon DEF ResumeForeign
<1>10. CASE ResumeOwn(w, x)
    BY <1>10, <1>c, <1>7, DelRead, Zenon DEF ResumeOwn
<1> QED
    BY <1>8, <1>9, <1>10, Zenon

\* The only worker writes or removes the record of a claim that is not being
\* deleted.
LEMMA DelStore ==
    ASSUME IInv, DelInv, OneWorker, NEW w \in Workers, NEW X, Move(w, X), OnlyCommits,
           NEW u \in PVCIds, NEW y, commits' = [commits EXCEPT ![u] = y],
           y = NoCommit \/ (u <= lastPVC /\ y.pvc = u /\ y.phase \in {"prepared", "committed"}),
           pvc.uid = u => ~pvc.deleting,
           TodoOK(X, commits), \A x \in X.todo : x.pvc # u, PlaceOK(X, pvc, commits', lastPVC)
    PROVE  DelInv'
<1>1. ctl'[w] = X /\ \A v \in Workers : v = w
    BY MoveFacts DEF OneWorker
<1>2. pvc' = pvc /\ lastPVC' = lastPVC /\ budget' = budget
    BY DEF OnlyCommits
<1>3. commits \in [PVCIds -> Commit] /\ lastPVC \in Nat /\ lastPVC <= MaxPVC /\ MaxPVC \in Nat
    BY DelFacts
<1>4. commits'[u] = y /\ \A v \in PVCIds : v # u => commits'[v] = commits[v]
    BY <1>3, Zenon
<1>5. Recorded(pvc, commits')
    <2>1. pvc.deleting => pvc.uid \in PVCIds /\ pvc.uid # u
        BY <1>3 DEF DelInv, PVCIds
    <2> QED
        BY <1>4, <2>1, Zenon DEF DelInv, Recorded
<1>6. StoreOK(commits', lastPVC)
    BY <1>4, Zenon DEF DelInv, StoreOK
<1>7. TodoOK(X, commits')
    BY <1>4 DEF TodoOK, Stored
<1> QED
    BY <1>1, <1>2, <1>5, <1>6, <1>7, Zenon DEF DelInv, DeletionOK

\* A record is removed, and its claim's annotations are cleared.
LEMMA RemoveDel ==
    ASSUME IInv, DelInv, OneWorker, NEW w \in Workers, ResumeScrub(w) \/ Drop(w) \/ Clear(w)
    PROVE  DelInv'
<1> DEFINE c == ctl[w]
<1>a. /\ c \in Local /\ TodoOK(c, commits) /\ PlaceOK(c, pvc, commits, lastPVC)
      /\ lastPVC \in Nat /\ lastPVC <= MaxPVC /\ MaxPVC \in Nat
    BY DelFacts, Zenon
<1>b. /\ c.cur \in PVC /\ c.listed \in PVC
      /\ Snap(c.cur, pvc, rev, granted) /\ Snap(c.listed, pvc, rev, granted)
    BY WorkerHolds, Zenon
<1>c. /\ DeletionOK(Handled(c), pvc, commits, lastPVC)
      /\ DeletionOK(AfterResume(c), pvc, commits, lastPVC)
    BY <1>a, EndDel
<1>d. c = ctl[w]
    OBVIOUS
<1>e. ASSUME NEW p \in PVC, ~p.deleting
      PROVE  /\ clearAllAnnotations(p) \in PVC /\ clearAllAnnotations(p).uid = p.uid
             /\ ~clearAllAnnotations(p).deleting
    <2>1. ~clearAllAnnotations(p).deleting
        BY <1>e DEF clearAllAnnotations, clearRemediationAnnotations, PVC
    <2> QED
        BY <2>1, Scrubbed
<1>f. ASSUME NEW p \in PVC, ~p.deleting, Snap(p, pvc, rev, granted), NEW X,
             PatchPVC(w, p, clearAllAnnotations(p), X), DeletionOK(X, pvc, commits, lastPVC)
      PROVE  DelInv'
    <2>1. PICK new \in PVC : new = clearAllAnnotations(p) /\ new.uid = p.uid /\ ~new.deleting
        BY <1>e, <1>f
    <2>2. p = pvc => new.uid = pvc.uid /\ NoNewDeletion(pvc, new)
        BY <2>1 DEF NoNewDeletion
    <2> QED
        BY <1>f, <2>1, <2>2, DelPatch, Zenon
<1> HIDE DEF c
<1>1. CASE ResumeScrub(w)
    <2>1. \/ Move(w, AfterResume(c)) /\ ClusterUnchanged
          \/ ~c.listed.deleting /\ PatchPVC(w, c.listed, clearAllAnnotations(c.listed), AfterResume(c))
        BY <1>1, <1>d, Zenon DEF ResumeScrub
    <2> QED
        BY <2>1, <1>b, <1>c, <1>f, DelRead, Zenon
<1>2. CASE Clear(w)
    <2>1. \/ Move(w, Handled(c)) /\ ClusterUnchanged
          \/ ~c.cur.deleting /\ PatchPVC(w, c.cur, clearAllAnnotations(c.cur), Handled(c))
        BY <1>2, <1>d, Zenon DEF Clear
    <2> QED
        BY <2>1, <1>b, <1>c, <1>f, DelRead, Zenon
<1>3. CASE Drop(w)
    <2> DEFINE u == c.cmt.pvc
               X == IF c.pc = "drop" THEN Handled(c) ELSE At(c, "clear")
    <2>1. c.pc \in {"drop", "dropClear"} /\ OnlyCommits
        BY <1>3, <1>d DEF Drop
    <2>2. u \in 1..lastPVC /\ (pvc.uid = u => ~pvc.deleting)
        BY <1>a, <2>1, Zenon DEF PlaceOK
    <2>3. u \in PVCIds
        BY <1>a, <2>2 DEF PVCIds
    <2>4. TodoOK(Handled(c), commits) /\ PlaceOK(Handled(c), pvc, commits', lastPVC)
              /\ Handled(c).todo \subseteq c.todo
        <3>1. Handled(c).todo \subseteq c.todo
            BY <1>a, HandledMove, IdleMove, Zenon
        <3>2. Handled(c).pc \in {"idle", "resume"}
            BY <1>a, HandledMove, IdleMove
        <3> QED
            BY <1>c, <3>1, <3>2, Zenon DEF DeletionOK, PlaceOK, PreparingPCs, CommittedPCs
    <2>5. TodoOK(At(c, "clear"), commits) /\ PlaceOK(At(c, "clear"), pvc, commits', lastPVC)
              /\ At(c, "clear").todo = c.todo
        <3>1. At(c, "clear").pc = "clear" /\ At(c, "clear").todo = c.todo /\ At(c, "clear").cmt = c.cmt
            BY <1>a, Zenon DEF At, Local
        <3>2. TodoOK(At(c, "clear"), commits)
            BY <1>a, <3>1, TodoKept, Zenon
        <3> QED
            BY <3>1, <3>2, Zenon DEF PlaceOK, PreparingPCs, CommittedPCs
    <2>6. \A x \in c.todo : x.pvc # u
        BY <1>a, Zenon DEF TodoOK
    <2>7. TodoOK(X, commits) /\ PlaceOK(X, pvc, commits', lastPVC) /\ \A x \in X.todo : x.pvc # u
        BY <2>4, <2>5, <2>6
    <2>8. CASE commits' = [commits EXCEPT ![u] = NoCommit] /\ Move(w, X)
        <3> HIDE DEF X, u
        <3> QED
            BY <2>1, <2>2, <2>3, <2>7, <2>8, DelStore, Zenon
    <2>9. CASE Move(w, Idle) /\ commits' = commits
        <3>1. /\ lastPVC' = lastPVC /\ budget'["edit"] = 0 /\ pvc' = pvc
            BY <2>1, Zenon DEF OnlyCommits, DelInv
        <3>2. NoNewDeletion(pvc, pvc')
            BY <3>1 DEF NoNewDeletion
        <3> QED
            BY <2>9, <3>1, <3>2, DelMove, IdleDel, Zenon
    <2> QED
        BY <1>3, <1>d, <2>8, <2>9, Zenon DEF Drop, Return
<1> QED
    BY <1>1, <1>2, <1>3, Zenon

\* Promotion is of a prepared record, so no deletion was asked for yet.
LEMMA PromoteDel ==
    ASSUME IInv, DelInv, OneWorker, NEW w \in Workers, promotePreparedDeletionCommit(w)
    PROVE  DelInv'
<1> DEFINE c == ctl[w]
           u == c.cmt.pvc
           y == [c.cmt EXCEPT !.phase = "committed"]
           q == IF c.stage = "scan" THEN "reread" ELSE "listUsers"
           X == AtRecord(c, q, y)
<1>a. /\ c \in Local /\ TodoOK(c, commits) /\ PlaceOK(c, pvc, commits, lastPVC)
      /\ commits \in [PVCIds -> Commit]
    BY DelFacts
<1>b. c.pc = "promote" /\ OnlyCommits
    BY DEF promotePreparedDeletionCommit
<1>c. Stored(c.cmt, commits) /\ c.cmt.phase = "prepared" /\ c.cmt \in Commit
    BY <1>a, <1>b, WorkerHolds, Zenon DEF PlaceOK, PreparingPCs
<1>d. u \in 1..lastPVC /\ (pvc.uid = u => ~pvc.deleting) /\ u \in PVCIds
    BY <1>c, PreparedNotDeleting, Zenon DEF Stored
<1>e. y.pvc = u /\ y.phase = "committed"
    BY <1>c DEF Commit
<1>f. commits' = [commits EXCEPT ![u] = y] /\ Move(w, X)
    BY <1>c, Zenon DEF promotePreparedDeletionCommit, Stored
<1>g. q \in {"reread", "listUsers"}
    OBVIOUS
<1> HIDE DEF y, q
<1>1. X.pc = q /\ X.cmt = y /\ X.todo = c.todo /\ X.cur = c.cur
    BY <1>a DEF AtRecord, Local
<1>2. Stored(y, commits')
    BY <1>a, <1>d, <1>e, <1>f, Zenon DEF Stored
<1>3. TodoOK(X, commits) /\ \A x \in X.todo : x.pvc # u
    BY <1>a, <1>1, <1>e DEF TodoOK
<1> HIDE DEF X
<1>4. PlaceOK(X, pvc, commits', lastPVC)
    BY <1>1, <1>2, <1>e, <1>d, <1>g, Zenon DEF PlaceOK, PreparingPCs, CommittedPCs
<1>5. lastPVC \in Nat
    BY DelFacts
<1>6. u <= lastPVC
    BY <1>d, <1>5
<1> HIDE DEF u
<1> QED
    BY <1>b, <1>d, <1>e, <1>f, <1>3, <1>4, <1>6, DelStore, Zenon

\* Where a committed record is worked on.
LEMMA CommittedDel ==
    ASSUME IInv, DelInv, OneWorker, NEW w \in Workers,
           \/ ListUsers(w) \/ ListRemaining(w) \/ ConfirmGone(w)
           \/ \E x \in ctl[w].seen : DeletePod(w, x)
    PROVE  DelInv'
<1> DEFINE c == ctl[w]
<1>a. /\ c \in Local /\ TodoOK(c, commits) /\ PlaceOK(c, pvc, commits, lastPVC)
    BY DelFacts, Zenon
<1>b. DeletionOK(Pending(c), pvc, commits, lastPVC)
    BY <1>a, EndDel, Zenon
<1>c. c = ctl[w]
    BY Zenon
<1>d. c.pc \in CommittedPCs => c.cmt.pvc \in 1..lastPVC
    BY <1>a, StoredCreated, Zenon DEF PlaceOK
<1> HIDE DEF c
<1>e. ASSUME NEW q, q \in {"deletePVC", "confirmGone"}, c.pc = "deletePods"
      PROVE  DeletionOK(At(c, q), pvc, commits, lastPVC)
    <2> DEFINE X == At(c, q)
    <2>1. X.pc = q /\ X.todo = c.todo /\ X.cmt = c.cmt /\ X.cur = c.cur
        BY <1>a DEF At, Local
    <2> HIDE DEF X
    <2>2. TodoOK(X, commits)
        BY <1>a, <2>1, TodoKept, Zenon
    <2>3. PlaceOK(X, pvc, commits, lastPVC)
        BY <1>a, <1>d, <1>e, <2>1, Zenon DEF PlaceOK, PreparingPCs, CommittedPCs
    <2> QED
        BY <2>2, <2>3, Zenon DEF DeletionOK, X
<1>1. CASE ListUsers(w)
    <2>1. c.pc = "listUsers" /\ ClusterUnchanged
        BY <1>1, <1>c, Zenon DEF ListUsers
    <2>2. ASSUME NEW S PROVE DeletionOK(AtPods(c, "deletePods", S), pvc, commits, lastPVC)
        <3> DEFINE X == AtPods(c, "deletePods", S)
        <3>1. X.pc = "deletePods" /\ X.todo = c.todo /\ X.cmt = c.cmt /\ X.cur = c.cur
            BY <1>a DEF AtPods, Local
        <3> HIDE DEF X
        <3>2. TodoOK(X, commits)
            BY <1>a, <3>1, TodoKept, Zenon
        <3>3. PlaceOK(X, pvc, commits, lastPVC)
            BY <1>a, <2>1, <3>1, Zenon DEF PlaceOK, PreparingPCs, CommittedPCs
        <3> QED
            BY <3>2, <3>3, Zenon DEF DeletionOK, X
    <2>3. ~c.cur.deleting => DeletionOK(Undo(c), pvc, commits, lastPVC)
        <3>1. /\ Undo(c).pc = "dropClear" /\ Undo(c).todo = c.todo /\ Undo(c).cmt = c.cmt
              /\ Undo(c).cur = c.cur
            BY <1>a, Zenon DEF Undo, Local
        <3>2. TodoOK(Undo(c), commits)
            BY <1>a, <3>1, TodoKept
        <3>3. ~c.cur.deleting => PlaceOK(Undo(c), pvc, commits, lastPVC)
            BY <1>a, <1>d, <2>1, <3>1, Zenon DEF PlaceOK, PreparingPCs, CommittedPCs
        <3> QED
            BY <3>2, <3>3, Zenon DEF DeletionOK
    <2>4. PICK X : Move(w, X) /\ DeletionOK(X, pvc, commits, lastPVC)
        BY <1>1, <1>c, <1>b, <2>2, <2>3, Zenon DEF ListUsers
    <2> QED
        BY <2>1, <2>4, DelRead, Zenon
<1>2. CASE ListRemaining(w)
    <2>1. c.pc = "deletePods" /\ ClusterUnchanged
        BY <1>2, <1>c, Zenon DEF ListRemaining
    <2>2. PICK X : Move(w, X) /\ DeletionOK(X, pvc, commits, lastPVC)
        BY <1>2, <1>c, <1>b, <1>e, <2>1, Zenon DEF ListRemaining
    <2> QED
        BY <2>1, <2>2, DelRead, Zenon
<1>3. CASE ConfirmGone(w)
    <2>1. c.pc = "confirmGone" /\ ClusterUnchanged
        BY <1>3, <1>c, Zenon DEF ConfirmGone
    <2>2. pvc.uid = 0 => DeletionOK(At(c, "drop"), pvc, commits, lastPVC)
        <3> DEFINE X == At(c, "drop")
        <3>1. X.pc = "drop" /\ X.todo = c.todo /\ X.cmt = c.cmt
            BY <1>a DEF At, Local
        <3> HIDE DEF X
        <3>2. TodoOK(X, commits)
            BY <1>a, <3>1, TodoKept, Zenon
        <3>3. pvc.uid = 0 => PlaceOK(X, pvc, commits, lastPVC)
            BY <1>a, <2>1, <3>1 DEF PlaceOK, PreparingPCs, CommittedPCs
        <3> QED
            BY <3>2, <3>3, Zenon DEF DeletionOK, X
    <2>3. PICK X : Move(w, X) /\ DeletionOK(X, pvc, commits, lastPVC)
        BY <1>3, <1>c, <1>b, <2>2, Zenon DEF ConfirmGone
    <2> QED
        BY <2>1, <2>3, DelRead, Zenon
<1>4. ASSUME NEW x \in ctl[w].seen, DeletePod(w, x) PROVE DelInv'
    <2> DEFINE X == [c EXCEPT !.seen = @ \ {x}]
    <2>1. X.pc = c.pc /\ X.todo = c.todo /\ X.cmt = c.cmt /\ X.cur = c.cur
        BY <1>a, Zenon DEF Local
    <2>2. c.pc = "deletePods" /\ (Move(w, X) \/ Move(w, Idle))
        BY <1>4, <1>c, Zenon DEF DeletePod, Return
    <2> HIDE DEF X
    <2>3. TodoOK(X, commits)
        BY <1>a, <2>1, TodoKept, Zenon
    <2>4. PlaceOK(X, pvc, commits, lastPVC)
        BY <1>a, <2>1, <2>2, Zenon DEF PlaceOK, PreparingPCs, CommittedPCs
    <2>5. DeletionOK(X, pvc, commits, lastPVC)
        BY <2>3, <2>4, Zenon DEF DeletionOK
    <2>6. /\ commits' = commits /\ lastPVC' = lastPVC /\ budget'["edit"] = 0 /\ pvc' = pvc
        BY <1>4, Zenon DEF DeletePod, DelInv
    <2>7. NoNewDeletion(pvc, pvc')
        BY <2>6, Zenon DEF NoNewDeletion
    <2> QED
        BY <2>2, <2>5, <2>6, <2>7, DelMove, IdleDel, Zenon
<1> QED
    BY <1>1, <1>2, <1>3, <1>4, Zenon

\* The claim is deleted under its stored, committed record.
LEMMA DeletePVCDel ==
    ASSUME IInv, DelInv, OneWorker, NEW w \in Workers, DeletePVC(w)
    PROVE  DelInv'
<1> DEFINE c == ctl[w]
           new == [c.cur EXCEPT !.deleting = TRUE]
           X == At(c, "confirmGone")
<1>a. /\ c \in Local /\ TodoOK(c, commits) /\ PlaceOK(c, pvc, commits, lastPVC)
      /\ lastPVC \in Nat /\ commits \in [PVCIds -> Commit]
    BY DelFacts, Zenon
<1>b. c.cur \in PVC /\ Snap(c.cur, pvc, rev, granted) /\ rev \in Nat
    BY WorkerHolds
<1>c. c.pc = "deletePVC" /\ PatchPVC(w, c.cur, new, X)
    BY Zenon DEF DeletePVC
<1>d. finalizedCommitMatchesPVC(c.cur, c.cmt)
    BY <1>c, Zenon DEF IInv, LocalOK, CleanupPCs
<1>e. Stored(c.cmt, commits) /\ c.cmt.phase = "committed" /\ c.cmt.pvc \in 1..lastPVC
    BY <1>a, <1>c, StoredCreated DEF PlaceOK, CommittedPCs
<1>1. X.pc = "confirmGone" /\ X.todo = c.todo /\ X.cmt = c.cmt
    BY <1>a, Zenon DEF At, Local
<1>f. /\ commits' = commits /\ lastPVC' = lastPVC /\ budget'["edit"] = 0
    BY <1>c DEF PatchPVC, OnlyPVC, DelInv
<1>g. WritePVC(new) => /\ pvc'.uid = c.cur.uid /\ pvc'.deleting /\ pvc'.marker = c.cur.marker
                       /\ pvc'.token = c.cur.token /\ pvc'.final = c.cur.final
    BY <1>b DEF WritePVC, PVC
<1> HIDE DEF X, new
<1>2. TodoOK(X, commits) /\ \A p : PlaceOK(X, p, commits, lastPVC)
    BY <1>a, <1>e, <1>1, TodoKept, Zenon DEF PlaceOK, PreparingPCs, CommittedPCs
<1>3. CASE pvc.uid # 0 /\ pvc.rv = c.cur.rv /\ WritePVC(new) /\ Move(w, X)
    <2>1. c.cur = pvc
        BY <1>3, <1>b, Zenon DEF Snap
    <2>2. Recorded(pvc', commits)
        BY <1>3, <1>d, <1>e, <1>g, Zenon DEF Recorded, Stored, finalizedCommitMatchesPVC, preparedCommitMatchesPVC
    <2>3. pvc'.uid = pvc.uid /\ pvc'.uid # 0
        BY <1>3, <1>g, <2>1, Zenon
    <2>4. ctl'[w] = X /\ \A v \in Workers : v = w
        BY <1>3, MoveFacts, Zenon DEF OneWorker
    <2> QED
        BY <1>2, <1>f, <2>2, <2>3, <2>4, Zenon DEF DelInv, DeletionOK
<1>4. CASE pvc' = pvc /\ (Move(w, X) \/ Move(w, Idle))
    <2>1. NoNewDeletion(pvc, pvc')
        BY <1>4, Zenon DEF NoNewDeletion
    <2> QED
        BY <1>2, <1>4, <1>f, <2>1, DelMove, IdleDel, Zenon DEF DeletionOK
<1> QED
    BY <1>3, <1>4, <1>c, Zenon DEF PatchPVC, Return

\* Patches of the handshake annotations leave a deletion as it is.
LEMMA HandshakeDel ==
    ASSUME IInv, DelInv, OneWorker, NEW w \in Workers,
           \/ CleanupList(w) \/ CleanupPatch(w) \/ RemoveFinalizer(w)
           \/ ClearRecovered(w) \/ DropOrphanedConsent(w) \/ startRequest(w)
    PROVE  DelInv'
<1> DEFINE c == ctl[w]
<1>a. c \in Local /\ TodoOK(c, commits)
    BY DelFacts, Zenon
<1>b. /\ c.cur \in PVC /\ Snap(c.cur, pvc, rev, granted)
      /\ c.me \in Owner /\ c.snrSeen \in Nat /\ c.nodeSeen \in Node
    BY WorkerHolds, Zenon
<1>c. DeletionOK(AfterCleanup(c), pvc, commits, lastPVC) /\ DeletionOK(Idle, pvc, commits, lastPVC)
    BY <1>a, EndDel, IdleDel, Zenon
<1>d. c = ctl[w]
    OBVIOUS
<1>e. ASSUME NEW new \in PVC, new.uid = c.cur.uid, new.deleting = c.cur.deleting,
             new.marker = c.cur.marker, new.token = c.cur.token, new.final = c.cur.final,
             NEW X, PatchPVC(w, c.cur, new, X), DeletionOK(X, pvc, commits, lastPVC)
      PROVE  DelInv'
    <2>1. c.cur = pvc => new.uid = pvc.uid /\ NoNewDeletion(pvc, new)
        BY <1>e, Zenon DEF NoNewDeletion
    <2> QED
        BY <1>b, <1>e, <2>1, DelPatch, Zenon
<1> HIDE DEF c
<1>1. CASE CleanupList(w)
    <2> DEFINE X == AtWith(c, "cleanupPatch", pvc)
    <2>1. X.pc = "cleanupPatch" /\ X.todo = c.todo /\ X.cmt = c.cmt
        BY <1>a DEF AtWith, Local
    <2> HIDE DEF X
    <2>2. TodoOK(X, commits)
        BY <1>a, <2>1, TodoKept, Zenon
    <2>3. DeletionOK(X, pvc, commits, lastPVC)
        BY <2>1, <2>2, Zenon DEF DeletionOK, PlaceOK, PreparingPCs, CommittedPCs
    <2>4. (Move(w, X) \/ Move(w, AfterCleanup(c))) /\ ClusterUnchanged
        BY <1>1, <1>d, Zenon DEF CleanupList, X
    <2> QED
        BY <1>c, <2>3, <2>4, DelRead
<1>2. CASE CleanupPatch(w) \/ ClearRecovered(w)
    <2> DEFINE new == clearRemediationAnnotations(c.cur)
    <2>1. new \in PVC
        BY <1>b, Scrubbed, Zenon
    <2>2. /\ new.uid = c.cur.uid /\ new.deleting = c.cur.deleting
          /\ new.marker = c.cur.marker /\ new.token = c.cur.token /\ new.final = c.cur.final
        BY <1>b, Zenon DEF clearRemediationAnnotations, PVC
    <2>3. PatchPVC(w, c.cur, new, AfterCleanup(c)) \/ PatchPVC(w, c.cur, new, Idle)
        BY <1>2, <1>d, Zenon DEF CleanupPatch, ClearRecovered
    <2> HIDE DEF new
    <2> QED
        BY <1>c, <1>e, <2>1, <2>2, <2>3, Zenon
<1>3. CASE RemoveFinalizer(w)
    <2>1. /\ Move(w, Idle) /\ commits' = commits /\ lastPVC' = lastPVC /\ budget'["edit"] = 0
          /\ pvc' = pvc
        BY <1>3, Zenon DEF RemoveFinalizer, Return, DelInv
    <2>2. NoNewDeletion(pvc, pvc')
        BY <2>1, Zenon DEF NoNewDeletion
    <2> QED
        BY <1>c, <2>1, <2>2, DelMove, Zenon
<1>4. CASE DropOrphanedConsent(w)
    <2> DEFINE new == [c.cur EXCEPT !.consent = NoRequest]
    <2>1. NoRequest \in Request
        BY DEF NoRequest, Request, Owner
    <2>2. new \in PVC
        BY <1>b, <2>1, Zenon DEF PVC
    <2>3. /\ new.uid = c.cur.uid /\ new.deleting = c.cur.deleting
          /\ new.marker = c.cur.marker /\ new.token = c.cur.token /\ new.final = c.cur.final
        BY <1>b DEF PVC
    <2>4. PatchPVC(w, c.cur, new, Idle)
        BY <1>4, <1>d, Zenon DEF DropOrphanedConsent
    <2> HIDE DEF new
    <2> QED
        BY <1>c, <1>e, <2>2, <2>3, <2>4, Zenon
<1>5. CASE startRequest(w)
    <2> DEFINE r == [cr |-> c.me, snr |-> c.snrSeen]
               new == [c.cur EXCEPT !.stuck = TRUE, !.req = r, !.nodeUID = c.nodeSeen.uid,
                                    !.consent = NoRequest]
    <2>1. NoRequest \in Request /\ r \in Request /\ c.nodeSeen.uid \in Nat
        BY <1>b DEF NoRequest, Request, Owner, Node
    <2>2. new \in PVC
        <3> HIDE DEF r
        <3> QED
            BY <1>b, <2>1, Zenon DEF PVC
    <2>3. /\ new.uid = c.cur.uid /\ new.deleting = c.cur.deleting
          /\ new.marker = c.cur.marker /\ new.token = c.cur.token /\ new.final = c.cur.final
        BY <1>b DEF PVC
    <2>4. PatchPVC(w, c.cur, new, Idle)
        BY <1>5, <1>d, Zenon DEF startRequest
    <2> HIDE DEF new
    <2> QED
        BY <1>c, <1>e, <2>2, <2>3, <2>4
<1> QED
    BY <1>1, <1>2, <1>3, <1>4, <1>5, Zenon

\* The scan, up to the transaction.
LEMMA ScanDel ==
    ASSUME IInv, DelInv, OneWorker, NEW w \in Workers,
           \/ CheckDeps(w) \/ ScanNodes(w) \/ ScanSnrs(w) \/ ScanPVC(w)
           \/ isRemediationPaused(w) \/ ListPods(w)
    PROVE  DelInv'
<1> DEFINE c == ctl[w]
<1>a. c \in Local /\ TodoOK(c, commits) /\ PlaceOK(c, pvc, commits, lastPVC)
    BY DelFacts, Zenon
<1>b. c.pc \in {"deps", "scanNodes", "scanSnrs", "scanPVC", "checkPause", "listPods"}
    BY DEF CheckDeps, ScanNodes, ScanSnrs, ScanPVC, isRemediationPaused, ListPods
<1>c. c.todo = {}
    BY <1>a, <1>b, Zenon DEF PlaceOK
<1>d. c = ctl[w]
    OBVIOUS
<1> HIDE DEF c
<1>e. ASSUME NEW X, X.todo = {},
             X.pc \in {"scanNodes", "scanSnrs", "scanPVC", "clearRecovered", "startRequest", "dropOrphan", "clear"}
      PROVE  DeletionOK(X, pvc, commits, lastPVC)
    BY <1>e, Zenon DEF DeletionOK, TodoOK, PlaceOK, PreparingPCs, CommittedPCs
<1>1. CASE CheckDeps(w)
    <2>1. DeletionOK(At(c, "scanNodes"), pvc, commits, lastPVC)
        BY <1>a, <1>c, <1>e, Zenon DEF At, Local
    <2> QED
        BY <1>1, <1>d, <2>1, DelRead, IdleDel, Zenon DEF CheckDeps
<1>2. CASE ScanNodes(w)
    <2> DEFINE X == [c EXCEPT !.pc = "scanSnrs", !.nodeSeen = node]
    <2>1. X.pc = "scanSnrs" /\ X.todo = c.todo
        BY <1>a DEF Local
    <2>2. Move(w, X) /\ ClusterUnchanged
        BY <1>2, <1>d DEF ScanNodes
    <2> HIDE DEF X
    <2> QED
        BY <1>c, <1>e, <2>1, <2>2, DelRead
<1>3. CASE ScanSnrs(w)
    <2>1. ASSUME NEW s PROVE DeletionOK(AtSnr(c, "scanPVC", s), pvc, commits, lastPVC)
        BY <1>a, <1>c, <1>e, Zenon DEF AtSnr, Local
    <2> QED
        BY <1>3, <1>d, <2>1, DelRead, Zenon DEF ScanSnrs
<1>4. CASE ScanPVC(w)
    <2>1. ASSUME NEW q \in {"clearRecovered", "startRequest", "dropOrphan"}
          PROVE  DeletionOK(AtWith(c, q, pvc), pvc, commits, lastPVC)
        BY <1>a, <1>c, <1>e, Zenon DEF AtWith, Local
    <2>2. pvc.uid # 0 => DeletionOK(AtWith(c, "checkPause", pvc), pvc, commits, lastPVC)
        <3> DEFINE X == AtWith(c, "checkPause", pvc)
        <3>1. X.pc = "checkPause" /\ X.todo = {} /\ X.cur = pvc
            BY <1>a, <1>c, Zenon DEF AtWith, Local
        <3> HIDE DEF X
        <3>2. pvc.uid # 0 => pvc.uid \in 1..lastPVC
            BY DelFacts DEF DelInv
        <3>3. pvc.uid # 0 => DeletionOK(X, pvc, commits, lastPVC)
            BY <3>1, <3>2, Zenon DEF DeletionOK, TodoOK, PlaceOK, PreparingPCs, CommittedPCs
        <3> QED
            BY <3>3 DEF X
    <2>3. DeletionOK(Idle, pvc, commits, lastPVC)
        BY IdleDel, Zenon
    <2>4. c.nodeSeen.st \in {"ready", "notReady", "absent"}
        BY <1>a, Zenon DEF Local, Node
    <2>5. DeletionOK(processNewPVCHandshake(c, pvc), pvc, commits, lastPVC)
        BY <2>1, <2>3, Zenon DEF processNewPVCHandshake
    <2>6. pvc.uid # 0 => DeletionOK(processExistingPVCHandshake(c, pvc), pvc, commits, lastPVC)
        BY <2>1, <2>2, <2>3, <2>4, Zenon DEF processExistingPVCHandshake
    <2>7. PICK X : Move(w, X) /\ DeletionOK(X, pvc, commits, lastPVC)
        BY <1>4, <1>d, <2>3, <2>5, <2>6, Zenon DEF ScanPVC
    <2> QED
        BY <1>4, <2>7, DelRead, Zenon DEF ScanPVC
<1>5. CASE isRemediationPaused(w)
    <2> DEFINE X == At(c, "listPods")
    <2>1. X.pc = "listPods" /\ X.todo = {} /\ X.cur = c.cur
        BY <1>a, <1>c, Zenon DEF At, Local
    <2>2. c.pc = "checkPause" /\ ClusterUnchanged
        BY <1>5, <1>d, Zenon DEF isRemediationPaused
    <2> HIDE DEF X
    <2>3. c.cur.final = 0 => DeletionOK(X, pvc, commits, lastPVC)
        BY <1>a, <2>1, <2>2, Zenon DEF DeletionOK, TodoOK, PlaceOK, PreparingPCs, CommittedPCs
    <2>4. Move(w, Idle) \/ (Move(w, X) /\ c.cur.final = 0)
        BY <1>5, <1>d, Zenon DEF isRemediationPaused, hasDeletionCommitAnnotations, X
    <2> QED
        BY <2>2, <2>3, <2>4, DelRead, IdleDel, Zenon
<1>6. CASE ListPods(w)
    <2>1. /\ commits' = commits /\ lastPVC' = lastPVC /\ budget'["edit"] = 0 /\ pvc' = pvc
          /\ c.pc = "listPods"
        BY <1>6, <1>d, Zenon DEF ListPods, apiVars, DelInv
    <2>2. NoNewDeletion(pvc, pvc')
        BY <2>1 DEF NoNewDeletion
    <2>3. DeletionOK(At(c, "clear"), pvc, commits, lastPVC)
        BY <1>a, <1>c, <1>e, Zenon DEF At, Local
    <2>4. ASSUME NEW y, y.phase = "prepared", y.pvc = c.cur.uid
          PROVE  DeletionOK(AtRecord(c, "createCommit", y), pvc, commits, lastPVC)
        <3> DEFINE X == AtRecord(c, "createCommit", y)
        <3>1. X.pc = "createCommit" /\ X.todo = {} /\ X.cur = c.cur /\ X.cmt = y
            BY <1>a, <1>c DEF AtRecord, Local
        <3> HIDE DEF X
        <3>2. DeletionOK(X, pvc, commits, lastPVC)
            BY <1>a, <2>1, <2>4, <3>1, Zenon DEF DeletionOK, TodoOK, PlaceOK, PreparingPCs, CommittedPCs
        <3> QED
            BY <3>2 DEF X
    <2>5. \/ Move(w, At(c, "clear"))
          \/ \E y : y.phase = "prepared" /\ y.pvc = c.cur.uid /\ Move(w, AtRecord(c, "createCommit", y))
        BY <1>6, <1>d, Zenon DEF ListPods
    <2>6. PICK X : Move(w, X) /\ DeletionOK(X, pvc, commits, lastPVC)
        BY <2>3, <2>4, <2>5, Zenon
    <2> QED
        BY <2>1, <2>2, <2>6, DelMove, Zenon
<1> QED
    BY <1>1, <1>2, <1>3, <1>4, <1>5, <1>6, Zenon

\* The record is created, or the one found is adopted.
LEMMA CreateDel ==
    ASSUME IInv, DelInv, OneWorker, NEW w \in Workers, createOrAdoptDeletionCommit(w)
    PROVE  DelInv'
<1> DEFINE c == ctl[w]
           u == c.cmt.pvc
           old == commits[u]
<1>a. /\ c \in Local /\ TodoOK(c, commits) /\ PlaceOK(c, pvc, commits, lastPVC)
      /\ lastPVC \in Nat /\ lastPVC <= MaxPVC /\ MaxPVC \in Nat /\ commits \in [PVCIds -> Commit]
    BY DelFacts
<1>b. c.pc = "createCommit" /\ OnlyCommits
    BY Zenon DEF createOrAdoptDeletionCommit
<1>c. /\ c.todo = {} /\ c.cur.uid \in 1..lastPVC /\ c.cur.final = 0
      /\ c.cmt.phase = "prepared" /\ u = c.cur.uid
    BY <1>a, <1>b, Zenon DEF PlaceOK
<1>d. u \in PVCIds /\ u <= lastPVC
    BY <1>a, <1>c DEF PVCIds
<1>e. old.phase # "absent" => old.pvc = u /\ Stored(old, commits)
    BY <1>d DEF DelInv, StoreOK, Stored, NoCommit
<1>f. /\ pvc' = pvc /\ lastPVC' = lastPVC /\ budget'["edit"] = 0
    BY <1>b, Zenon DEF OnlyCommits, DelInv
<1>g. NoNewDeletion(pvc, pvc')
    BY <1>f DEF NoNewDeletion
<1>h. c = ctl[w]
    OBVIOUS
<1> HIDE DEF c
<1>1. CASE old.phase = "absent" /\ commits' = [commits EXCEPT ![u] = c.cmt] /\ Move(w, At(c, "readCurrent"))
    <2> DEFINE X == At(c, "readCurrent")
    <2>1. X.pc = "readCurrent" /\ X.todo = {} /\ X.cur = c.cur /\ X.cmt = c.cmt
        BY <1>a, <1>c DEF At, Local
    <2>2. pvc.uid = u => ~pvc.deleting
        BY <1>1, Zenon DEF DelInv, Recorded
    <2>3. Stored(c.cmt, commits')
        BY <1>a, <1>d, <1>1, Zenon DEF Stored
    <2> HIDE DEF X
    <2>4. TodoOK(X, commits) /\ (\A x \in X.todo : x.pvc # u) /\ PlaceOK(X, pvc, commits', lastPVC)
        BY <1>c, <2>1, <2>3, Zenon DEF TodoOK, PlaceOK, PreparingPCs, CommittedPCs
    <2>5. Move(w, X) /\ c.cmt.pvc = u
        BY <1>1, Zenon DEF X
    <2> HIDE DEF u, old
    <2> QED
        BY <1>1, <1>b, <1>c, <1>d, <2>2, <2>4, <2>5, DelStore, Zenon
<1>2. ASSUME NEW q,
             (q = "readCurrent" /\ old.phase = "prepared") \/ (q = "readAdopted" /\ old.phase = "committed"),
             Move(w, AtRecord(c, q, old)), commits' = commits
      PROVE  DelInv'
    <2> DEFINE X == AtRecord(c, q, old)
    <2>1. X.pc = q /\ X.todo = {} /\ X.cur = c.cur /\ X.cmt = old
        BY <1>a, <1>c DEF AtRecord, Local
    <2>2. Stored(old, commits)
        BY <1>2, <1>e, Zenon
    <2> HIDE DEF X, old
    <2>3. DeletionOK(X, pvc, commits, lastPVC)
        BY <1>2, <1>c, <2>1, <2>2, Zenon DEF DeletionOK, TodoOK, PlaceOK, PreparingPCs, CommittedPCs
    <2> QED
        BY <1>2, <1>f, <1>g, <2>3, DelMove, Zenon DEF X
<1>3. CASE Move(w, Idle) /\ commits' = commits
    BY <1>3, <1>f, <1>g, DelMove, IdleDel, Zenon
<1>4. \/ old.phase = "absent" /\ commits' = [commits EXCEPT ![u] = c.cmt] /\ Move(w, At(c, "readCurrent"))
      \/ old.phase = "prepared" /\ Move(w, AtRecord(c, "readCurrent", old)) /\ commits' = commits
      \/ old.phase = "committed" /\ Move(w, AtRecord(c, "readAdopted", old)) /\ commits' = commits
      \/ Move(w, Idle) /\ commits' = commits
    BY <1>h, Zenon DEF createOrAdoptDeletionCommit, Return
<1>5. CASE old.phase = "prepared" /\ Move(w, AtRecord(c, "readCurrent", old)) /\ commits' = commits
    BY <1>2, <1>5, Zenon
<1>6. CASE old.phase = "committed" /\ Move(w, AtRecord(c, "readAdopted", old)) /\ commits' = commits
    BY <1>2, <1>6
<1> QED
    BY <1>1, <1>3, <1>4, <1>5, <1>6, Zenon

\* The worker goes on with the prepared record at hand, or rejects it.
LEMMA PreparedPlaces ==
    ASSUME IInv, DelInv, NEW w \in Workers, ctl[w].pc \in PreparingPCs
    PROVE  LET c == ctl[w] IN
           /\ \A q \in {"drop", "dropClear"} : DeletionOK(At(c, q), pvc, commits, lastPVC)
           /\ \A q \in {"drop", "dropClear"} : \A p : DeletionOK(AtWith(c, q, p), pvc, commits, lastPVC)
           /\ \A p : DeletionOK(rejectPreparedDeletionCommit(c, p), pvc, commits, lastPVC)
           /\ \A q \in PreparingPCs \ {"readCurrent", "mark"} :
                 /\ DeletionOK(At(c, q), pvc, commits, lastPVC)
                 /\ \A p : /\ DeletionOK(AtWith(c, q, p), pvc, commits, lastPVC)
                           /\ DeletionOK(AtSnr(c, q, p), pvc, commits, lastPVC)
<1> DEFINE c == ctl[w]
<1>a. c \in Local /\ TodoOK(c, commits) /\ PlaceOK(c, pvc, commits, lastPVC)
    BY DelFacts, Zenon
<1>b. Stored(c.cmt, commits) /\ c.cmt.phase = "prepared"
    BY <1>a, Zenon DEF PlaceOK
<1>c. c.cmt.pvc \in 1..lastPVC /\ (pvc.uid = c.cmt.pvc => ~pvc.deleting)
    BY <1>b, PreparedNotDeleting, Zenon
<1> HIDE DEF c
<1>1. ASSUME NEW X, X.todo = c.todo, X.cmt = c.cmt, X.pc \in {"drop", "dropClear"}
      PROVE  DeletionOK(X, pvc, commits, lastPVC)
    <2>1. TodoOK(X, commits)
        BY <1>a, <1>1, TodoKept, Zenon
    <2> QED
        BY <1>1, <1>c, <2>1, Zenon DEF DeletionOK, PlaceOK, PreparingPCs, CommittedPCs
<1>2. ASSUME NEW X, X.todo = c.todo, X.cmt = c.cmt, X.pc \in PreparingPCs \ {"readCurrent", "mark"}
      PROVE  DeletionOK(X, pvc, commits, lastPVC)
    <2>1. TodoOK(X, commits)
        BY <1>a, <1>2, TodoKept, Zenon
    <2> QED
        BY <1>2, <1>b, <2>1, Zenon DEF DeletionOK, PlaceOK, PreparingPCs, CommittedPCs
<1>3. \A q \in {"drop", "dropClear"} : DeletionOK(At(c, q), pvc, commits, lastPVC)
    BY <1>a, <1>1 DEF At, Local
<1>4. \A q \in {"drop", "dropClear"} : \A p : DeletionOK(AtWith(c, q, p), pvc, commits, lastPVC)
    BY <1>a, <1>1, Zenon DEF AtWith, Local
<1>5. \A p : DeletionOK(rejectPreparedDeletionCommit(c, p), pvc, commits, lastPVC)
    BY <1>4, Zenon DEF rejectPreparedDeletionCommit
<1>6. \A q \in PreparingPCs \ {"readCurrent", "mark"} :
          /\ DeletionOK(At(c, q), pvc, commits, lastPVC)
          /\ \A p : /\ DeletionOK(AtWith(c, q, p), pvc, commits, lastPVC)
                    /\ DeletionOK(AtSnr(c, q, p), pvc, commits, lastPVC)
    <2> SUFFICES ASSUME NEW q \in PreparingPCs \ {"readCurrent", "mark"}
                 PROVE  /\ DeletionOK(At(c, q), pvc, commits, lastPVC)
                        /\ \A p : /\ DeletionOK(AtWith(c, q, p), pvc, commits, lastPVC)
                                  /\ DeletionOK(AtSnr(c, q, p), pvc, commits, lastPVC)
        OBVIOUS
    <2>1. DeletionOK(At(c, q), pvc, commits, lastPVC)
        BY <1>a, <1>2 DEF At, Local
    <2>2. ASSUME NEW p PROVE DeletionOK(AtWith(c, q, p), pvc, commits, lastPVC)
        BY <1>a, <1>2, Zenon DEF AtWith, Local
    <2>3. ASSUME NEW p PROVE DeletionOK(AtSnr(c, q, p), pvc, commits, lastPVC)
        BY <1>a, <1>2, Zenon DEF AtSnr, Local
    <2> QED
        BY <2>1, <2>2, <2>3, Zenon
<1> QED
    BY <1>3, <1>4, <1>5, <1>6, Zenon DEF c

\* The reads between the writes of the transaction.
LEMMA TransactionReadsDel ==
    ASSUME IInv, DelInv, OneWorker, NEW w \in Workers,
           \/ ReadAdopted(w) \/ Reread(w) \/ ReadCurrent(w) \/ ConfirmMark(w)
           \/ FenceSnr(w) \/ FenceNode(w) \/ ConfirmFinal(w)
    PROVE  DelInv'
<1> DEFINE c == ctl[w]
           OK(X) == DeletionOK(X, pvc, commits, lastPVC)
<1>a. c \in Local /\ TodoOK(c, commits) /\ PlaceOK(c, pvc, commits, lastPVC)
    BY DelFacts
<1>b. c = ctl[w]
    BY Zenon
<1>c. ClusterUnchanged
    BY DEF ReadAdopted, Reread, ReadCurrent, ConfirmMark, FenceSnr, FenceNode, ConfirmFinal
<1>d. OK(Idle)
    BY IdleDel
<1>e. c.pc \in PreparingPCs =>
          /\ \A q \in {"drop", "dropClear"} : OK(At(c, q))
          /\ \A p : OK(rejectPreparedDeletionCommit(c, p))
          /\ \A q \in PreparingPCs \ {"readCurrent", "mark"} :
                OK(At(c, q)) /\ \A p : OK(AtWith(c, q, p)) /\ OK(AtSnr(c, q, p))
    BY PreparedPlaces, Zenon
<1>f. ASSUME NEW X, Move(w, X), OK(X) PROVE DelInv'
    BY <1>c, <1>f, DelRead, Zenon
<1> HIDE DEF c
<1>1. CASE ReadAdopted(w) \/ Reread(w)
    <2>1. c.pc \in CommittedPCs
        BY <1>1, <1>b, Zenon DEF ReadAdopted, Reread, CommittedPCs
    <2>2. Stored(c.cmt, commits) /\ c.cmt.phase = "committed" /\ c.cmt.pvc \in 1..lastPVC
        BY <1>a, <2>1, StoredCreated, Zenon DEF PlaceOK
    <2>3. pvc.uid # c.cmt.pvc => OK(At(c, "drop"))
        <3> DEFINE X == At(c, "drop")
        <3>1. X.pc = "drop" /\ X.todo = c.todo /\ X.cmt = c.cmt
            BY <1>a, Zenon DEF At, Local
        <3> HIDE DEF X
        <3>2. TodoOK(X, commits)
            BY <1>a, <3>1, TodoKept, Zenon
        <3>3. pvc.uid # c.cmt.pvc => OK(X)
            BY <2>2, <3>1, <3>2, Zenon DEF DeletionOK, PlaceOK, PreparingPCs, CommittedPCs
        <3> QED
            BY <3>3 DEF X
    <2>4. OK(AtWith(c, "listUsers", pvc))
        <3> DEFINE X == AtWith(c, "listUsers", pvc)
        <3>1. X.pc = "listUsers" /\ X.todo = c.todo /\ X.cmt = c.cmt /\ X.cur = pvc
            BY <1>a DEF AtWith, Local
        <3> HIDE DEF X
        <3>2. TodoOK(X, commits)
            BY <1>a, <3>1, TodoKept, Zenon
        <3>3. OK(X)
            BY <2>2, <3>1, <3>2, Zenon DEF DeletionOK, PlaceOK, PreparingPCs, CommittedPCs
        <3> QED
            BY <3>3 DEF X
    <2>5. pvc.uid = 0 => pvc.uid # c.cmt.pvc
        BY <2>2
    <2> HIDE DEF OK
    <2>6. PICK X : Move(w, X) /\ OK(X)
        BY <1>1, <1>b, <1>d, <2>3, <2>4, <2>5, Zenon DEF ReadAdopted, Reread, ResumeRead
    <2> QED
        BY <1>f, <2>6, Zenon
<1>2. CASE ReadCurrent(w)
    <2>1. c.pc = "readCurrent" /\ c.pc \in PreparingPCs
        BY <1>2, <1>b, Zenon DEF ReadCurrent, PreparingPCs
    <2>2. OK(At(c, "drop")) /\ OK(AtWith(c, "fenceSnr", pvc))
        BY <1>e, <2>1, Zenon DEF PreparingPCs
    <2>3. OK(At(c, "mark"))
        <3> DEFINE X == At(c, "mark")
        <3>1. X.pc = "mark" /\ X.todo = c.todo /\ X.cmt = c.cmt /\ X.cur = c.cur
            BY <1>a, Zenon DEF At, Local
        <3> HIDE DEF X
        <3>2. TodoOK(X, commits)
            BY <1>a, <3>1, TodoKept, Zenon
        <3>3. OK(X)
            BY <1>a, <2>1, <3>1, <3>2, Zenon DEF DeletionOK, PlaceOK, PreparingPCs, CommittedPCs
        <3> QED
            BY <3>3 DEF X
    <2> HIDE DEF OK
    <2>4. PICK X : Move(w, X) /\ OK(X)
        BY <1>2, <1>b, <2>2, <2>3, Zenon DEF ReadCurrent
    <2> QED
        BY <1>f, <2>4
<1>3. CASE ConfirmMark(w) \/ FenceSnr(w) \/ FenceNode(w) \/ ConfirmFinal(w)
    <2>1. c.pc \in PreparingPCs
        BY <1>3, <1>b, Zenon DEF ConfirmMark, FenceSnr, FenceNode, ConfirmFinal, PreparingPCs
    <2>2. /\ OK(At(c, "drop")) /\ OK(At(c, "promote")) /\ OK(At(c, "finalize"))
          /\ \A p : /\ OK(rejectPreparedDeletionCommit(c, p)) /\ OK(AtWith(c, "fenceSnr", p))
                    /\ OK(AtWith(c, "promote", p)) /\ OK(AtSnr(c, "fenceNode", p))
        BY <1>e, <2>1 DEF PreparingPCs
    <2> HIDE DEF OK
    <2>3. CASE ConfirmMark(w)
        BY <2>3, <1>b, <1>d, <1>f, <2>2, Zenon DEF ConfirmMark
    <2>4. CASE FenceSnr(w)
        BY <2>4, <1>b, <1>d, <1>f, <2>2, Zenon DEF FenceSnr
    <2>5. CASE FenceNode(w)
        BY <2>5, <1>b, <1>d, <1>f, <2>2, Zenon DEF FenceNode
    <2>6. CASE ConfirmFinal(w)
        BY <2>6, <1>b, <1>d, <1>f, <2>2, Zenon DEF ConfirmFinal
    <2> QED
        BY <1>3, <2>3, <2>4, <2>5, <2>6, Zenon
<1> QED
    BY <1>1, <1>2, <1>3, Zenon

\* Marker and token are written to a claim that is not being deleted.
LEMMA TransactionWritesDel ==
    ASSUME IInv, DelInv, OneWorker, NEW w \in Workers, Mark(w) \/ Finalize(w)
    PROVE  DelInv'
<1> DEFINE c == ctl[w]
<1>a. c \in Local /\ TodoOK(c, commits) /\ PlaceOK(c, pvc, commits, lastPVC)
    BY DelFacts, Zenon
<1>b. c.cur \in PVC /\ Snap(c.cur, pvc, rev, granted) /\ rev \in Nat
    BY WorkerHolds
<1>c. c.pc \in {"mark", "finalize"} /\ c.pc \in PreparingPCs
    BY DEF Mark, Finalize, PreparingPCs
<1>d. c = ctl[w]
    OBVIOUS
<1>e. \A q \in {"confirmMark", "markFailed", "confirmFinal", "finalizeFailed"} :
          DeletionOK(At(c, q), pvc, commits, lastPVC)
    BY <1>c, PreparedPlaces, Zenon DEF PreparingPCs
<1>f. Stored(c.cmt, commits) /\ c.cmt.phase = "prepared"
    BY <1>a, <1>c, Zenon DEF PlaceOK
<1>g. c.pc = "finalize" => c.cur.uid = c.cmt.pvc
    BY Zenon DEF IInv, LocalOK, preparedCommitMatchesPVC
<1>i. pvc.uid # 0 /\ pvc.rv = c.cur.rv => c.cur = pvc /\ ~pvc.deleting
    <2> SUFFICES ASSUME pvc.uid # 0, pvc.rv = c.cur.rv PROVE c.cur = pvc /\ ~pvc.deleting
        BY Zenon
    <2>1. c.cur = pvc
        BY <1>b, Zenon DEF Snap
    <2>2. CASE c.pc = "finalize"
        BY <1>f, <1>g, <2>1, <2>2, PreparedNotDeleting
    <2>3. CASE c.pc = "mark"
        <3>1. pvc.final = 0
            BY <1>a, <2>1, <2>3, Zenon DEF PlaceOK
        <3> QED
            BY <2>1, <3>1, UnfinalizedNotDeleting, Zenon
    <2> QED
        BY <1>c, <2>2, <2>3, Zenon
<1>j. /\ WritePVC([c.cur EXCEPT !.marker = c.cmt.owner, !.token = c.cmt.token])
            => pvc'.uid = c.cur.uid /\ pvc'.deleting = c.cur.deleting
      /\ WritePVC([c.cur EXCEPT !.final = c.cmt.token])
            => pvc'.uid = c.cur.uid /\ pvc'.deleting = c.cur.deleting
    BY <1>b, Zenon DEF WritePVC, PVC
<1> HIDE DEF c
<1>1. commits' = commits /\ lastPVC' = lastPVC
    BY DEF Mark, Finalize, OnlyPVC
<1>2. budget'["edit"] = 0
    <2>1. budget \in [EventKinds -> Nat] /\ "edit" \in EventKinds /\ budget["edit"] = 0
        BY DEF IInv, TypeOK, EventKinds, DelInv
    <2>2. budget' = budget \/ Spend("crash")
        BY Zenon DEF Mark, Finalize, ConditionalWrite
    <2> QED
        BY <2>1, <2>2, Zenon DEF Spend
<1>3. pvc' = pvc \/ (pvc'.uid = pvc.uid /\ ~pvc'.deleting)
    BY <1>d, <1>i, <1>j, Zenon DEF Mark, Finalize, ConditionalWrite
<1>4. pvc'.uid = pvc.uid /\ NoNewDeletion(pvc, pvc')
    BY <1>3, Zenon DEF NoNewDeletion
<1>5. PICK X : Move(w, X) /\ DeletionOK(X, pvc, commits, lastPVC)
    BY <1>d, <1>e, Zenon DEF Mark, Finalize, ConditionalWrite
<1> QED
    BY <1>1, <1>2, <1>4, <1>5, DelMove, Zenon

\* Every step keeps the records of deletions.
LEMMA DelStep ==
    ASSUME IInv, DelInv, OneWorker, [Next]_vars
    PROVE  DelInv'
<1>1. CASE UNCHANGED vars
    BY <1>1, Zenon DEF vars, DelInv
<1>2. ASSUME NEW w \in Workers, Crash(w) PROVE DelInv'
    <2>1. /\ Move(w, Idle) /\ commits' = commits /\ lastPVC' = lastPVC /\ pvc' = pvc /\ Spend("crash")
        BY <1>2, Zenon DEF Crash, Return, apiVars
    <2>2. budget \in [EventKinds -> Nat] /\ "edit" \in EventKinds /\ budget["edit"] = 0
        BY DEF IInv, TypeOK, EventKinds, DelInv
    <2>3. budget'["edit"] = 0
        BY <2>1, <2>2, Zenon DEF Spend
    <2>4. NoNewDeletion(pvc, pvc')
        BY <2>1 DEF NoNewDeletion
    <2> QED
        BY <2>1, <2>3, <2>4, DelMove, IdleDel, Zenon
<1>3. ASSUME NEW w \in Workers, Step(w) PROVE DelInv'
    BY Zenon, <1>3, StartDel, ResumeDel, RemoveDel, PromoteDel, CommittedDel, DeletePVCDel, HandshakeDel,
       ScanDel, CreateDel, TransactionReadsDel, TransactionWritesDel DEF Step
<1> QED
    BY <1>1, <1>2, <1>3, EnvironmentDel, Zenon DEF Next

===============================================================================
