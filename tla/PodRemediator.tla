------------------------------ MODULE PodRemediator ------------------------------
(***************************************************************************)
(* The PodRemediator controller: fencing handshake on a stuck claim, and   *)
(* the durable transaction that force-deletes the recorded pods and then   *)
(* the claim (internal/controller/remediation).                            *)
(*                                                                         *)
(* A reconcile is cut at its API calls: each action performs one call and  *)
(* the local computation that follows it, so anything may happen in the    *)
(* cluster between two calls.  Crash ends a reconcile anywhere; it also    *)
(* stands for every API failure the code answers by returning an error.    *)
(***************************************************************************)
EXTENDS RemediationCluster

\* Local state of a worker.  "me" and "inst" are the PodRemediator being
\* reconciled and its cached copy, "cur" the claim as last read, "cmt" the
\* commit record at hand, "seen" the pods as listed.  "listed" and "todo" are
\* the resume pass's lists; "active", "held" (pending or blocked) and
\* "aborted" its bookkeeping.  "nodeSeen" and "snrSeen" are the scan's
\* snapshot.  "stage" tells which caller a commit is handled for.
Idle == [pc |-> "idle", stage |-> "resume", me |-> NoRemediator,
         inst |-> [st |-> "none", fin |-> FALSE, disabled |-> FALSE, paused |-> FALSE],
         listed |-> NoPVC, todo |-> {}, active |-> {}, held |-> {}, aborted |-> {},
         cur |-> NoPVC, cmt |-> NoCommit, seen |-> {},
         nodeSeen |-> [uid |-> 0, st |-> "absent"], snrSeen |-> 0]

PCs == {"idle", "listPVCs", "listCommits", "resume", "drop", "dropClear", "clear",
        "promote", "listUsers", "deletePods", "deletePVC", "confirmGone",
        "cleanupList", "cleanupPatch", "removeFinalizer", "deps", "scanNodes", "scanSnrs",
        "scanPVC", "clearRecovered", "dropOrphan", "startRequest", "checkPause", "listPods",
        "createCommit", "readAdopted", "readCurrent", "mark", "confirmMark", "markFailed",
        "fenceSnr", "fenceNode", "finalize", "confirmFinal", "finalizeFailed", "reread"}

Local == [pc: PCs, stage: {"resume", "scan"}, me: Owner, inst: CR, listed: PVC,
          todo: SUBSET Commit, active: SUBSET Nat, held: SUBSET Nat, aborted: SUBSET Nat,
          cur: PVC, cmt: Commit, seen: SUBSET (Nat \X Pod), nodeSeen: Node, snrSeen: Nat]

Init ==
    /\ rev = 1 /\ lastPVC = 1
    /\ \E home \in Homes :
          \/ pvc = BarePVC(1, 1, home)
          \/ pvc = [BarePVC(1, 1, home) EXCEPT !.stuck = TRUE]
          \/ pvc = [BarePVC(1, 1, home) EXCEPT !.consent = LegacyConsent]
    /\ commits = [u \in PVCIds |-> NoCommit]
    /\ pods = [p \in PodIds |-> [st |-> IF p = 1 THEN "running" ELSE "none",
                                 loc |-> IF p = 1 THEN "here" ELSE "pending"]]
    /\ node = [uid |-> 1, st |-> "ready"]
    /\ snrs = [s \in SnrIds |-> [st |-> "none", born |-> 0]]
    /\ deps = TRUE
    /\ crs = [r \in Remediators |-> [st |-> "none", fin |-> FALSE,
                                     disabled |-> FALSE, paused |-> FALSE]]
    /\ cache = crs
    /\ ctl = [w \in Workers |-> Idle]
    /\ lastToken = 0
    /\ budget \in Budgets
    /\ granted = {} /\ killed = {}

---------------------------------------------------------------------------
(* Steps of one worker, whose local state is c == ctl[w].                   *)

Move(w, next) == ctl' = [ctl EXCEPT ![w] = next]

\* The worker's next place, with the claim, the record, the pods or the SNR it
\* has just read.
At(c, q) == [c EXCEPT !.pc = q]
AtWith(c, q, p) == [c EXCEPT !.pc = q, !.cur = p]
AtRecord(c, q, x) == [c EXCEPT !.pc = q, !.cmt = x]
AtPods(c, q, S) == [c EXCEPT !.pc = q, !.seen = S]
AtSnr(c, q, s) == [c EXCEPT !.pc = q, !.snrSeen = s]

\* The reconcile ends, normally or with an error; a requeue follows.
Return(w) == Move(w, Idle)

ClusterUnchanged == UNCHANGED <<apiVars, lastToken, budget, histVars>>
OnlyPVC == UNCHANGED <<lastPVC, commits, pods, node, snrs, deps, crs, cache, lastToken, killed>>
OnlyCommits == UNCHANGED <<pvc, rev, lastPVC, pods, node, snrs, deps, crs, cache,
                           lastToken, budget, granted, killed>>

\* A patch of the claim under the optimistic lock of the copy p the worker
\* read: written if nobody wrote since, a conflict otherwise; a claim that is
\* gone is tolerated.  Either way but the conflict, the worker moves on.
PatchPVC(w, p, new, next) ==
    /\ \/ pvc.uid # 0 /\ pvc.rv = p.rv /\ WritePVC(new) /\ Move(w, next)
       \/ pvc.uid = 0 /\ Move(w, next) /\ UNCHANGED <<pvc, rev>>
       \/ pvc.uid # 0 /\ pvc.rv # p.rv /\ Return(w) /\ UNCHANGED <<pvc, rev>>
    /\ OnlyPVC /\ UNCHANGED <<budget, granted>>

\* The commit at hand is dealt with: back to the resume loop, or, when the
\* scan was deleting the claim, to the end of the reconcile.
Handled(c) ==
    IF c.stage = "scan" THEN Idle
    ELSE [c EXCEPT !.pc = "resume", !.cur = NoPVC, !.cmt = NoCommit, !.seen = {}]

\* The claim at hand is pending or blocked for the rest of the reconcile; the
\* transaction at hand is undone.
Pending(c) == Handled([c EXCEPT !.held = @ \union {c.cmt.pvc}])
Undo(c) == [c EXCEPT !.pc = "dropClear", !.aborted = @ \union {c.cmt.pvc}]

\* Reconcile: the resource comes from the informer cache.  A missing
\* finalizer is added first, in a reconcile of its own.
AddFinalizer(w, r) ==
    /\ ctl[w].pc = "idle"
    /\ cache[r].st = "live" /\ ~cache[r].fin
    /\ crs[r].st = "live"
    /\ crs' = [crs EXCEPT ![r].fin = TRUE]
    /\ UNCHANGED <<pvc, rev, lastPVC, commits, pods, node, snrs, deps, cache, ctl,
                   lastToken, budget, granted, killed>>

Reconcile(w, r) ==
    /\ ctl[w].pc = "idle"
    /\ cache[r].fin /\ cache[r].st \in {"live", "deleting"}
    /\ Move(w, [Idle EXCEPT !.pc = "listPVCs", !.me = r, !.inst = cache[r]])
    /\ ClusterUnchanged

---------------------------------------------------------------------------
(* resumeCommittedPVCDeletions                                              *)

ListPVCs(w) == LET c == ctl[w] IN
    /\ c.pc = "listPVCs"
    /\ Move(w, [c EXCEPT !.pc = "listCommits", !.listed = pvc])
    /\ ClusterUnchanged

ListCommits(w) == LET c == ctl[w] IN
    /\ c.pc = "listCommits"
    /\ Move(w, [c EXCEPT !.pc = "resume",
                         !.todo = {commits[u] : u \in PVCIds} \ {NoCommit}])
    /\ ClusterUnchanged

\* The loop goes on without record x; x.pvc is accounted for; x.pvc is left
\* alone for this reconcile; x is worked on, with claim p at hand; the same,
\* to undo it; x is removed.
Skip(c, x) == [c EXCEPT !.todo = @ \ {x}]
Account(c, x) == [Skip(c, x) EXCEPT !.active = @ \union {x.pvc}]
Hold(c, x) == [Account(c, x) EXCEPT !.held = @ \union {x.pvc}]
TakeUp(c, x, p, next) == [Account(c, x) EXCEPT !.pc = next, !.cur = p, !.cmt = x]
Abort(c, x, p, next) == [TakeUp(c, x, p, next) EXCEPT !.aborted = @ \union {x.pvc}]
Discard(c, x) == AtRecord(Skip(c, x), "drop", x)

\* A record that does not decode is matched to a listed claim by its name.
DamagedDecision(c, x) ==
    CASE c.listed.uid # x.pvc -> Skip(c, x)
      [] c.listed.uid = x.pvc /\ c.listed.req.cr \notin {NoRemediator, c.me} -> Account(c, x)
      [] OTHER -> IF c.listed.deleting \/ c.listed.final # 0 THEN Hold(c, x)
                  ELSE Abort(c, x, c.listed, "dropClear")

ResumeDamaged(w, x) == LET c == ctl[w] IN
    /\ c.pc = "resume" /\ x \in c.todo
    /\ x.phase = "damaged"
    /\ Move(w, DamagedDecision(c, x))
    /\ ClusterUnchanged

\* Another PodRemediator's record: leave it, and its claim, alone.
ResumeForeign(w, x) == LET c == ctl[w] IN
    /\ c.pc = "resume" /\ x \in c.todo
    /\ x.phase # "damaged" /\ x.owner # c.me
    /\ Move(w, Account(c, x))
    /\ ClusterUnchanged

\* Mutant: the provisional marker is taken for the commit boundary.
ResumeDecisionTrustsMarker(c, x, p) ==
    IF preparedCommitMatchesPVC(p, x)
    THEN TakeUp(c, x, p, IF x.phase = "prepared" THEN "promote" ELSE "listUsers")
    ELSE Discard(c, x)

\* Mutant: a record that was only prepared blocks instead of being rejected.
ResumeDecisionKeepsPrepared(c, x, p) ==
    CASE p.uid # x.pvc -> Discard(c, x)
      [] finalizedCommitMatchesPVC(p, x) ->
           TakeUp(c, x, p, IF x.phase = "prepared" THEN "promote" ELSE "listUsers")
      [] OTHER -> Hold(c, x)

\* Mutant: a record whose claim is gone is skipped instead of removed.
ResumeDecisionSkipsGone(c, x, p) ==
    CASE p.uid # x.pvc -> Skip(c, x)
      [] finalizedCommitMatchesPVC(p, x) ->
           TakeUp(c, x, p, IF x.phase = "prepared" THEN "promote" ELSE "listUsers")
      [] OTHER -> Abort(c, x, p, "dropClear")

\* What to do with an own record, from the claim as read now.
ResumeDecision(c, x, p) ==
    CASE p.uid # x.pvc -> Discard(c, x)
      [] finalizedCommitMatchesPVC(p, x) ->
           TakeUp(c, x, p, IF x.phase = "prepared" THEN "promote" ELSE "listUsers")
      [] p.uid = x.pvc /\ ~finalizedCommitMatchesPVC(p, x) /\ x.phase = "prepared" ->
           Abort(c, x, p, IF hasDeletionCommitAnnotations(p) THEN "dropClear" ELSE "drop")
      [] OTHER -> IF p.deleting \/ p.final # 0 THEN Hold(c, x)
                  ELSE Abort(c, x, p, "dropClear")

ResumeOwn(w, x) == LET c == ctl[w] IN
    /\ c.pc = "resume" /\ x \in c.todo
    /\ x.phase # "damaged" /\ x.owner = c.me
    /\ Move(w, ResumeDecision(c, x, pvc))
    /\ ClusterUnchanged

\* Mutant: a deleted PodRemediator does not wait for committed deletions.
AfterResumeIgnoresHeld(c) ==
    LET done == [Idle EXCEPT !.me = c.me, !.inst = c.inst, !.stage = "scan",
                             !.held = c.held, !.aborted = c.aborted] IN
    At(done, IF c.inst.st = "deleting" \/ c.inst.disabled THEN "cleanupList" ELSE "deps")

\* Where the reconcile goes once the resume pass is over.
AfterResume(c) ==
    LET done == [Idle EXCEPT !.me = c.me, !.inst = c.inst, !.stage = "scan",
                             !.held = c.held, !.aborted = c.aborted] IN
    IF c.inst.st = "deleting"
    THEN IF c.held # {} THEN Idle ELSE At(done, "cleanupList")
    ELSE At(done, IF c.inst.disabled THEN "cleanupList" ELSE "deps")

\* The loop's end: scrub commit annotations no record accounts for.
ResumeScrub(w) ==
    LET c == ctl[w]
        p == c.listed
    IN
    /\ c.pc = "resume" /\ c.todo = {}
    /\ IF hasDeletionCommitAnnotations(p) /\ p.uid \notin c.active /\ ~p.deleting
       THEN PatchPVC(w, p, clearAllAnnotations(p), AfterResume(c))
       ELSE Move(w, AfterResume(c)) /\ ClusterUnchanged

\* deleteCommit, bound to the record as read.
Drop(w) ==
    LET c == ctl[w]
        u == c.cmt.pvc
    IN
    /\ c.pc \in {"drop", "dropClear"}
    /\ IF commits[u] \in {c.cmt, NoCommit}
       THEN /\ commits' = [commits EXCEPT ![u] = NoCommit]
            /\ Move(w, IF c.pc = "drop" THEN Handled(c) ELSE At(c, "clear"))
       ELSE Return(w) /\ UNCHANGED commits
    /\ OnlyCommits

\* clearAbortedPVC: a deleting claim keeps its annotations.
Clear(w) == LET c == ctl[w] IN
    /\ c.pc = "clear"
    /\ IF c.cur.deleting
       THEN Move(w, Handled(c)) /\ ClusterUnchanged
       ELSE PatchPVC(w, c.cur, clearAllAnnotations(c.cur), Handled(c))

---------------------------------------------------------------------------
(* resumeCommittedPVCDeletion                                               *)

promotePreparedDeletionCommit(w) ==
    LET c == ctl[w]
        u == c.cmt.pvc
        promoted == [c.cmt EXCEPT !.phase = "committed"]
        next == IF c.stage = "scan" THEN "reread" ELSE "listUsers"
    IN
    /\ c.pc = "promote"
    /\ IF commits[u] \in {c.cmt, promoted}
       THEN /\ commits' = [commits EXCEPT ![u] = promoted]
            /\ Move(w, AtRecord(c, next, promoted))
       ELSE Return(w) /\ UNCHANGED commits
    /\ OnlyCommits

\* Mutant: a pod that was scheduled elsewhere since it was recorded is not
\* noticed.
foreignUsersIgnoresNode(cmt) == {p \in podsUsingPVC : p \notin cmt.pods}

\* Users of the claim that the record does not cover.
foreignUsers(cmt) == {p \in podsUsingPVC : pods[p].loc = "elsewhere" \/ p \notin cmt.pods}

\* Mutant: pods that are already terminating are left to finish by themselves.
ListUsersSkipsTerminating(w) == LET c == ctl[w] IN
    /\ c.pc = "listUsers"
    /\ Move(w, IF foreignUsers(c.cmt) = {}
               THEN AtPods(c, "deletePods",
                           {<<p, pods[p]>> : p \in {q \in podsUsingPVC : pods[q].st = "running"}})
               ELSE IF c.cur.deleting THEN Pending(c) ELSE Undo(c))
    /\ ClusterUnchanged

ListUsers(w) == LET c == ctl[w] IN
    /\ c.pc = "listUsers"
    /\ Move(w, IF foreignUsers(c.cmt) = {}
               THEN AtPods(c, "deletePods",
                           {<<p, pods[p]>> : p \in {q \in podsUsingPVC : pods[q].st # "forced"}})
               ELSE IF c.cur.deleting THEN Pending(c) ELSE Undo(c))
    /\ ClusterUnchanged

\* Conditional force deletion of one pod as listed.
DeletePod(w, x) ==
    LET c == ctl[w]
        p == x[1]
        next == [c EXCEPT !.seen = @ \ {x}]
    IN
    /\ c.pc = "deletePods" /\ x \in c.seen
    /\ \/ pods[p] = x[2] /\ Move(w, next)
          /\ pods' = [pods EXCEPT ![p].st = "forced"]
          /\ killed' = killed \union {p}
       \/ pods[p].st = "gone" /\ Move(w, next) /\ UNCHANGED <<pods, killed>>
       \/ pods[p] # x[2] /\ pods[p].st # "gone" /\ Return(w) /\ UNCHANGED <<pods, killed>>
    /\ UNCHANGED <<pvc, rev, lastPVC, commits, node, snrs, deps, crs, cache,
                   lastToken, budget, granted>>

\* Mutant: an accepted force deletion is taken for a pod that is gone.
ListRemainingSkipped(w) == LET c == ctl[w] IN
    /\ c.pc = "deletePods" /\ c.seen = {}
    /\ Move(w, At(c, IF c.cur.deleting THEN "confirmGone" ELSE "deletePVC"))
    /\ ClusterUnchanged

ListRemaining(w) == LET c == ctl[w] IN
    /\ c.pc = "deletePods" /\ c.seen = {}
    /\ Move(w, IF podsUsingPVC # {} THEN Pending(c)
               ELSE At(c, IF c.cur.deleting THEN "confirmGone" ELSE "deletePVC"))
    /\ ClusterUnchanged

\* Conditional deletion of the claim as read.
DeletePVC(w) ==
    LET c == ctl[w]
        next == At(c, "confirmGone")
    IN
    /\ c.pc = "deletePVC"
    /\ PatchPVC(w, c.cur, [c.cur EXCEPT !.deleting = TRUE], next)

\* Mutant: an accepted deletion of the claim is taken for a claim that is gone.
ConfirmGoneTooEarly(w) == LET c == ctl[w] IN
    /\ c.pc = "confirmGone"
    /\ Move(w, At(c, "drop"))
    /\ ClusterUnchanged

ConfirmGone(w) == LET c == ctl[w] IN
    /\ c.pc = "confirmGone"
    /\ Move(w, IF pvc.uid = 0 THEN At(c, "drop")
               ELSE Pending(c))
    /\ ClusterUnchanged

---------------------------------------------------------------------------
(* cleanupAnnotations, the finalizer, and the scan of reconcileNormal       *)

AfterCleanup(c) ==
    IF c.inst.st = "deleting" THEN AtWith(c, "removeFinalizer", NoPVC) ELSE Idle

CleanupList(w) == LET c == ctl[w] IN
    /\ c.pc = "cleanupList"
    /\ Move(w, IF /\ pvc.uid # 0
                  /\ pvc.req.cr \in {c.me, NoRemediator}
                  /\ hasRemediationAnnotations(pvc)
               THEN AtWith(c, "cleanupPatch", pvc)
               ELSE AfterCleanup(c))
    /\ ClusterUnchanged

CleanupPatch(w) == LET c == ctl[w] IN
    /\ c.pc = "cleanupPatch"
    /\ PatchPVC(w, c.cur, clearRemediationAnnotations(c.cur), AfterCleanup(c))

RemoveFinalizer(w) == LET c == ctl[w] IN
    /\ c.pc = "removeFinalizer"
    /\ crs' = [crs EXCEPT ![c.me].st = "gone", ![c.me].fin = FALSE]
    /\ Return(w)
    /\ UNCHANGED <<pvc, rev, lastPVC, commits, pods, node, snrs, deps, cache,
                   lastToken, budget, granted, killed>>

CheckDeps(w) == LET c == ctl[w] IN
    /\ c.pc = "deps"
    /\ Move(w, IF deps THEN At(c, "scanNodes") ELSE Idle)
    /\ ClusterUnchanged

ScanNodes(w) == LET c == ctl[w] IN
    /\ c.pc = "scanNodes"
    /\ Move(w, [c EXCEPT !.pc = "scanSnrs", !.nodeSeen = node])
    /\ ClusterUnchanged

ScanSnrs(w) == LET c == ctl[w] IN
    /\ c.pc = "scanSnrs"
    /\ Move(w, AtSnr(c, "scanPVC", IF c.nodeSeen.st = "absent"
                                    \/ fencingMatchesNode(fencedSnr, c.nodeSeen)
                                 THEN fencedSnr ELSE 0))
    /\ ClusterUnchanged

\* Mutant: only volumes that name the node directly are recognised.
pvOnNodeDirectOnly(c, p) == p.home = "direct"

\* The volume still resolves to the node: by its label while the Node object
\* exists, by the node name itself once it is gone.
pvOnNode(c, p) ==
    IF c.nodeSeen.st = "absent" THEN p.home = "direct" ELSE p.home # "elsewhere"

processExistingPVCHandshake(c, p) ==
    CASE c.nodeSeen.st = "ready" -> AtWith(c, "clearRecovered", p)
      [] c.nodeSeen.st # "ready" /\ c.snrSeen = 0 -> Idle
      [] c.nodeSeen.st # "ready" /\ c.snrSeen # 0 ->
         IF p.req # [cr |-> c.me, snr |-> c.snrSeen]
         THEN IF c.nodeSeen.st = "absent" THEN Idle
              ELSE AtWith(c, "startRequest", p)
         ELSE IF /\ ~c.inst.paused
                 /\ pvcDeletionConsentMatches(p, c.me, p.req)
                 /\ pvOnNode(c, p)
              THEN AtWith(c, "checkPause", p)
              ELSE Idle

processNewPVCHandshake(c, p) ==
    IF c.nodeSeen.st # "notReady"
    THEN IF p.consent # NoRequest THEN AtWith(c, "dropOrphan", p) ELSE Idle
    ELSE IF p.home # "elsewhere" /\ c.snrSeen # 0
         THEN AtWith(c, "startRequest", p) ELSE Idle

ScanPVC(w) == LET c == ctl[w] IN
    /\ c.pc = "scanPVC"
    /\ Move(w, CASE \/ pvc.uid \in {0} \union c.held \union c.aborted
                    \/ pvc.req.cr \notin {NoRemediator, c.me} -> Idle
                 [] OTHER -> IF pvc.stuck THEN processExistingPVCHandshake(c, pvc)
                             ELSE processNewPVCHandshake(c, pvc))
    /\ ClusterUnchanged

ClearRecovered(w) == LET c == ctl[w] IN
    /\ c.pc = "clearRecovered"
    /\ PatchPVC(w, c.cur, clearRemediationAnnotations(c.cur), Idle)

DropOrphanedConsent(w) == LET c == ctl[w] IN
    /\ c.pc = "dropOrphan"
    /\ PatchPVC(w, c.cur, [c.cur EXCEPT !.consent = NoRequest], Idle)

startRequest(w) == LET c == ctl[w] IN
    /\ c.pc = "startRequest"
    /\ PatchPVC(w, c.cur, [c.cur EXCEPT !.stuck = TRUE,
                                        !.req = [cr |-> c.me, snr |-> c.snrSeen],
                                        !.nodeUID = c.nodeSeen.uid,
                                        !.consent = NoRequest], Idle)

---------------------------------------------------------------------------
(* deletePVCAndPods: prepare, mark, finalize                                *)

\* The pause switch is read live; a claim that already carries commit
\* annotations is left to the resume pass.
isRemediationPaused(w) == LET c == ctl[w] IN
    /\ c.pc = "checkPause"
    /\ Move(w, IF \/ crs[c.me].st \notin {"live", "deleting"}
                  \/ crs[c.me].paused
                  \/ hasDeletionCommitAnnotations(c.cur)
               THEN Idle ELSE At(c, "listPods"))
    /\ ClusterUnchanged

ListPods(w) == LET c == ctl[w] IN
    /\ c.pc = "listPods"
    /\ IF \E p \in podsUsingPVC : pods[p].loc = "elsewhere"
       THEN Move(w, At(c, "clear")) /\ UNCHANGED lastToken
       ELSE /\ lastToken' = lastToken + 1
            /\ Move(w, AtRecord(c, "createCommit",
                                [phase |-> "prepared", pvc |-> c.cur.uid, rv |-> c.cur.rv,
                                 req |-> c.cur.req, owner |-> c.me,
                                 token |-> lastToken + 1, pods |-> podsUsingPVC]))
    /\ UNCHANGED <<apiVars, budget, histVars>>

createOrAdoptDeletionCommit(w) ==
    LET c == ctl[w]
        u == c.cmt.pvc
        old == commits[u]
    IN
    /\ c.pc = "createCommit"
    /\ \/ /\ old.phase = "absent"
          /\ commits' = [commits EXCEPT ![u] = c.cmt]
          /\ Move(w, At(c, "readCurrent"))
       \/ /\ old.phase = "prepared" /\ old.owner = c.me
          /\ old.rv = c.cur.rv /\ old.req = c.cmt.req
          /\ Move(w, AtRecord(c, "readCurrent", old))
          /\ UNCHANGED commits
       \/ /\ old.phase = "committed" /\ old.owner = c.me
          /\ Move(w, AtRecord(c, "readAdopted", old))
          /\ UNCHANGED commits
       \/ /\ old.phase # "absent"
          /\ \/ old.phase = "damaged" \/ old.owner # c.me
             \/ old.phase = "prepared" /\ (old.rv # c.cur.rv \/ old.req # c.cmt.req)
          /\ Return(w) /\ UNCHANGED commits
    /\ OnlyCommits

\* The claim as re-read for a record that is already committed.
ResumeRead(c, p) ==
    IF finalizedCommitMatchesPVC(p, c.cmt) THEN AtWith(c, "listUsers", p)
    ELSE Idle

ReadAdopted(w) == LET c == ctl[w] IN
    /\ c.pc = "readAdopted"
    /\ Move(w, IF pvc.uid # c.cmt.pvc THEN At(c, "drop") ELSE ResumeRead(c, pvc))
    /\ ClusterUnchanged

Reread(w) == LET c == ctl[w] IN
    /\ c.pc = "reread"
    /\ Move(w, IF pvc.uid = 0 THEN At(c, "drop") ELSE ResumeRead(c, pvc))
    /\ ClusterUnchanged

\* ensureProvisionalMarker, up to the patch.
ReadCurrent(w) == LET c == ctl[w] IN
    /\ c.pc = "readCurrent"
    /\ Move(w, CASE pvc.uid = c.cmt.pvc /\ preparedCommitMatchesPVC(pvc, c.cmt) ->
                      AtWith(c, "fenceSnr", pvc)
                 [] /\ pvc.uid = c.cmt.pvc /\ ~preparedCommitMatchesPVC(pvc, c.cmt)
                    /\ pvc.rv = c.cmt.rv
                    /\ pvcDeletionConsentMatches(pvc, c.cmt.owner, c.cmt.req) ->
                      At(c, "mark")
                 [] OTHER -> At(c, "drop"))
    /\ ClusterUnchanged

\* A conditional write whose answer may be lost: it is applied, and the
\* worker learns so, or takes it for a failure, or it really is refused.
ConditionalWrite(w, new, written, failed) == LET c == ctl[w] IN
    \/ /\ pvc.uid # 0 /\ pvc.rv = c.cur.rv
       /\ WritePVC(new)
       /\ \/ Move(w, At(c, written)) /\ UNCHANGED budget
          \/ Move(w, At(c, failed)) /\ Spend("crash")
    \/ /\ pvc.uid = 0 \/ pvc.rv # c.cur.rv
       /\ Move(w, At(c, failed))
       /\ UNCHANGED <<pvc, rev, budget>>

\* Mutant: the marker and the finalized token are written in one go.
MarkFinalizes(w) == LET c == ctl[w] IN
    /\ c.pc = "mark"
    /\ ConditionalWrite(w, [c.cur EXCEPT !.marker = c.cmt.owner, !.token = c.cmt.token,
                                         !.final = c.cmt.token],
                        "confirmMark", "markFailed")
    /\ OnlyPVC /\ UNCHANGED granted

Mark(w) == LET c == ctl[w] IN
    /\ c.pc = "mark"
    /\ ConditionalWrite(w, [c.cur EXCEPT !.marker = c.cmt.owner, !.token = c.cmt.token],
                        "confirmMark", "markFailed")
    /\ OnlyPVC /\ UNCHANGED granted

ConfirmMark(w) == LET c == ctl[w] IN
    /\ c.pc \in {"confirmMark", "markFailed"}
    /\ Move(w, IF preparedCommitMatchesPVC(pvc, c.cmt)
               THEN AtWith(c, "fenceSnr", pvc)
               ELSE IF pvc.uid = 0 /\ c.pc = "confirmMark" THEN Idle
                    ELSE At(c, "drop"))
    /\ ClusterUnchanged

\* rejectPreparedDeletionCommit, with the claim as last read.
rejectPreparedDeletionCommit(c, p) ==
    AtWith(c, IF p.token = c.cmt.token THEN "dropClear" ELSE "drop", p)

\* Mutant: consent is not checked again after the marker was written.
FenceSnrSkipsConsent(w) == LET c == ctl[w] IN
    /\ c.pc = "fenceSnr"
    /\ Move(w, IF finalizedCommitMatchesPVC(c.cur, c.cmt) THEN At(c, "promote")
               ELSE IF fencedSnr # 0 /\ c.cur.req = [cr |-> c.me, snr |-> fencedSnr]
                    THEN AtSnr(c, "fenceNode", fencedSnr)
                    ELSE rejectPreparedDeletionCommit(c, c.cur))
    /\ ClusterUnchanged

\* finalizePreparedDeletionCommit: consent in the copy at hand, then live
\* fencing (SNRs first, the Node next), then the conditional write.
FenceSnr(w) == LET c == ctl[w] IN
    /\ c.pc = "fenceSnr"
    /\ Move(w, CASE finalizedCommitMatchesPVC(c.cur, c.cmt) -> At(c, "promote")
                 [] /\ ~finalizedCommitMatchesPVC(c.cur, c.cmt)
                    /\ preparedCommitMatchesPVC(c.cur, c.cmt)
                    /\ pvcDeletionConsentMatches(c.cur, c.cmt.owner, c.cmt.req)
                    /\ fencedSnr # 0 /\ c.cur.req = [cr |-> c.me, snr |-> fencedSnr] ->
                      AtSnr(c, "fenceNode", fencedSnr)
                 [] OTHER -> rejectPreparedDeletionCommit(c, c.cur))
    /\ ClusterUnchanged

FenceNode(w) == LET c == ctl[w] IN
    /\ c.pc = "fenceNode"
    /\ Move(w, IF IF node.st = "absent" THEN c.cur.nodeUID # 0 /\ c.cur.home = "direct"
                  ELSE /\ node.st = "notReady" /\ c.cur.nodeUID = node.uid
                       /\ fencingMatchesNode(c.snrSeen, node)
               THEN At(c, "finalize")
               ELSE rejectPreparedDeletionCommit(c, c.cur))
    /\ ClusterUnchanged

Finalize(w) == LET c == ctl[w] IN
    /\ c.pc = "finalize"
    /\ ConditionalWrite(w, [c.cur EXCEPT !.final = c.cmt.token],
                        "confirmFinal", "finalizeFailed")
    /\ granted' = IF pvc.uid # 0 /\ pvc.rv = c.cur.rv THEN granted \union {c.cmt} ELSE granted
    /\ OnlyPVC

ConfirmFinal(w) == LET c == ctl[w] IN
    /\ c.pc \in {"confirmFinal", "finalizeFailed"}
    /\ Move(w, CASE finalizedCommitMatchesPVC(pvc, c.cmt) -> AtWith(c, "promote", pvc)
                 [] /\ ~finalizedCommitMatchesPVC(pvc, c.cmt)
                    /\ c.pc = "finalizeFailed" /\ pvc.uid # 0 /\ pvc.rv # c.cur.rv ->
                      rejectPreparedDeletionCommit(c, pvc)
                 [] OTHER -> Idle)
    /\ ClusterUnchanged

Crash(w) ==
    /\ Spend("crash")
    /\ ctl[w].pc # "idle"
    /\ Return(w)
    /\ UNCHANGED <<apiVars, lastToken, granted, killed>>

---------------------------------------------------------------------------

Step(w) ==
    \/ \E r \in Remediators : AddFinalizer(w, r) \/ Reconcile(w, r)
    \/ ListPVCs(w) \/ ListCommits(w)
    \/ \E x \in ctl[w].todo : ResumeDamaged(w, x) \/ ResumeForeign(w, x) \/ ResumeOwn(w, x)
    \/ ResumeScrub(w) \/ Drop(w) \/ Clear(w)
    \/ promotePreparedDeletionCommit(w) \/ ListUsers(w)
    \/ \E x \in ctl[w].seen : DeletePod(w, x)
    \/ ListRemaining(w) \/ DeletePVC(w) \/ ConfirmGone(w)
    \/ CleanupList(w) \/ CleanupPatch(w) \/ RemoveFinalizer(w)
    \/ CheckDeps(w) \/ ScanNodes(w) \/ ScanSnrs(w) \/ ScanPVC(w)
    \/ ClearRecovered(w) \/ DropOrphanedConsent(w) \/ startRequest(w)
    \/ isRemediationPaused(w) \/ ListPods(w) \/ createOrAdoptDeletionCommit(w)
    \/ ReadAdopted(w) \/ Reread(w) \/ ReadCurrent(w) \/ Mark(w) \/ ConfirmMark(w)
    \/ FenceSnr(w) \/ FenceNode(w) \/ Finalize(w) \/ ConfirmFinal(w)

Next == Environment \/ \E w \in Workers : Step(w) \/ Crash(w)

Spec == Init /\ [][Next]_vars

TypeOK ==
    /\ pvc \in PVC /\ rev \in Nat /\ lastPVC \in 0..MaxPVC
    /\ commits \in [PVCIds -> Commit]
    /\ pods \in [PodIds -> Pod]
    /\ node \in Node
    /\ snrs \in [SnrIds -> Snr]
    /\ deps \in BOOLEAN
    /\ crs \in [Remediators -> CR] /\ cache \in [Remediators -> CR]
    /\ ctl \in [Workers -> Local]
    /\ lastToken \in Nat
    /\ budget \in [EventKinds -> Nat]
    /\ granted \in SUBSET Commit /\ killed \in SUBSET Nat

---------------------------------------------------------------------------
(* Safety                                                                   *)

\* Only pods recorded by a transaction that crossed the commit boundary are
\* ever force-deleted, whatever crashed, was retried or replaced in between.
OnlyRecordedPodsKilled ==
    \A p \in killed : \E g \in granted : p \in g.pods

\* A pod that has been scheduled to another node is never force-deleted,
\* although it may have been recorded while still pending.
NeverKillsElsewhere ==
    [][\A p \in PodIds : pods[p].st # "forced" /\ pods'[p].st = "forced"
                            => pods[p].loc # "elsewhere"]_vars

\* The commit boundary is crossed only while the claim itself carries the
\* consent for the request on record: a withdrawal before it always wins.
ConsentAtCommit ==
    [][\A g \in granted' \ granted :
          pvc.uid = g.pvc /\ pvcDeletionConsentMatches(pvc, g.owner, g.req)]_vars

\* Every committed request rests on an SNR that really finished fencing the
\* node incarnation recorded on the claim.
FencedBeforeCommit ==
    [][\A g \in granted' \ granted :
          /\ snrs[g.req.snr].st \in {"fenced", "expired"}
          /\ snrs[g.req.snr].born = pvc.nodeUID]_vars

\* A finalized token on the claim always names a granted record of that very
\* claim: tokens never leak to a recreated claim.
TokenMeansGrant ==
    pvc.final # 0 => \E g \in granted : g.pvc = pvc.uid /\ g.token = pvc.final

\* The controller asks for the claim's deletion only under a granted record
\* of this claim, and after every recorded pod is gone.
DeletedAfterRelease ==
    [][\A w \in Workers :
          ctl[w].pc = "deletePVC" /\ ctl'[w].pc = "confirmGone" /\ pvc.uid # 0
             => \E g \in granted : /\ g.pvc = pvc.uid /\ g.token = pvc.final
                                   /\ \A p \in g.pods : pods[p].st = "gone"]_vars

\* Until the claim is gone, a requested deletion keeps its durable record.
RecordOutlivesDeletion ==
    pvc.deleting => /\ commits[pvc.uid].phase = "committed"
                    /\ finalizedCommitMatchesPVC(pvc, commits[pvc.uid])

\* Once a PodRemediator is gone it has left neither a usable commit record
\* nor a handshake behind.
FinalizerHeldUntilClean ==
    \A r \in Remediators : crs[r].st = "gone" =>
        /\ pvc.req.cr # r
        /\ \A u \in PVCIds : commits[u].owner = r => commits[u].phase = "damaged"

\* What docs/podremediator_architecture.md says of fencing: lost before the
\* finalized token is written, it rejects the prepared record.
FencedUntilToken ==
    [][\A g \in granted' \ granted : deletionFencingCurrent(pvc, g.owner)]_vars

---------------------------------------------------------------------------
(* Liveness                                                                 *)

\* A requeue, a poll or a watch event always brings the worker back, and the
\* cluster finishes what was asked of it: caches catch up, force-deleted pods
\* and unused terminating claims disappear.
Fairness ==
    /\ \A w \in Workers : WF_vars(Step(w))
    /\ \A r \in Remediators : WF_vars(CacheSync(r))
    /\ \A p \in PodIds : WF_vars(PodGone(p))
    /\ WF_vars(PVCRemoved)

FairSpec == Spec /\ Fairness

Replaced == \E p \in podsUsingPVC : \A g \in granted : p \notin g.pods \/ pods[p].loc = "elsewhere"

\* Past the boundary, cleanup ends: the claim goes away or the transaction
\* is undone, unless a pod outside the record holds the claim.
CommittedCleanupEnds ==
    \A u \in PVCIds : (pvc.uid = u /\ pvc.final # 0) ~>
                         (pvc.uid # u \/ pvc.final = 0 \/ Replaced)

\* A record whose claim is gone does not stay behind.
StaleRecordsCollected ==
    \A u \in PVCIds : (commits[u].phase # "absent" /\ pvc.uid # u) ~>
                         (commits[u].phase = "absent")

\* A PodRemediator being deleted is released.
DeletionEnds ==
    \A r \in Remediators : crs[r].st = "deleting" ~> (crs[r].st = "gone" \/ Replaced)

\* A claim whose fault stays fenced, with consent and nothing in the way,
\* does not wait forever.
Eligible ==
    /\ pvc.uid # 0 /\ ~pvc.deleting /\ deps
    /\ \E r \in Remediators :
          /\ crs[r].st = "live" /\ ~crs[r].disabled /\ ~crs[r].paused
          /\ pvcDeletionConsentMatches(pvc, r, pvc.req)
          /\ deletionFencingCurrent(pvc, r)
ConsentIsActedOn == []<>(~Eligible)
================================================================================
