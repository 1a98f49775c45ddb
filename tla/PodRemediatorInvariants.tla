----------------------- MODULE PodRemediatorInvariants ------------------------
(***************************************************************************)
(* IInv, the inductive invariant of PodRemediator on which its theorems    *)
(* rest.                                                                   *)
(*                                                                         *)
(* It says four things.  A copy of the claim that a worker holds is exact  *)
(* as long as its resourceVersion is current.  A finalized token, on the   *)
(* claim or on a copy, belongs to a granted record.  Records with the same *)
(* token, wherever they are kept, name the same pods.  And a worker past a *)
(* check still holds what it checked.                                      *)
(***************************************************************************)
EXTENDS PodRemediator

HasGrant(G, u, t) == \E g \in G : g.pvc = u /\ g.token = t

\* Copy p against the claim q, the newest version v and the grants G.
Snap(p, q, v, G) ==
    /\ p.rv <= v
    /\ q.uid # 0 /\ p.rv = q.rv => p = q
    /\ p.final # 0 => HasGrant(G, p.uid, p.final)

\* Places where the worker has a commit record at hand.
CommitPCs == {"createCommit", "readAdopted", "readCurrent", "mark", "confirmMark",
              "markFailed", "fenceSnr", "fenceNode", "finalize", "confirmFinal",
              "finalizeFailed", "reread", "promote", "listUsers", "deletePods", "deletePVC"}

CleanupPCs == {"promote", "listUsers", "deletePods", "deletePVC"}

\* A worker's local state c, against the cluster (P: the pods).
LocalOK(c, q, v, G, P) ==
    /\ Snap(c.cur, q, v, G) /\ Snap(c.listed, q, v, G)
    /\ NoCommit \notin c.todo
    /\ c.pc \in {"checkPause", "listPods"} => c.cur.uid \in PVCIds
    /\ c.pc = "createCommit" => c.cmt.pvc \in PVCIds
    /\ c.pc \in CommitPCs => c.cmt.token # 0
    /\ c.pc \in {"fenceNode", "finalize"} =>
          /\ preparedCommitMatchesPVC(c.cur, c.cmt)
          /\ pvcDeletionConsentMatches(c.cur, c.cmt.owner, c.cmt.req)
    /\ c.pc \in CleanupPCs =>
          finalizedCommitMatchesPVC(c.cur, c.cmt) /\ HasGrant(G, c.cmt.pvc, c.cmt.token)
    /\ c.pc = "deletePods" =>
          \A x \in c.seen : x[1] \in c.cmt.pods /\ x[2].loc # "elsewhere" /\ x[2].st # "gone"
    /\ c.pc = "deletePVC" => \A p \in c.cmt.pods : P[p].st = "gone"

\* Every commit record that is stored, held or was granted.
Records ==
    {NoCommit} \union {commits[u] : u \in PVCIds} \union granted
       \union {ctl[w].cmt : w \in Workers} \union UNION {ctl[w].todo : w \in Workers}

RecordsOK ==
    /\ \A a, b \in Records : a.token = b.token => a.pods = b.pods
    /\ \A a \in Records :
          /\ a = NoCommit \/ a.token # 0
          /\ a.token <= lastToken
          /\ \A p \in a.pods : p \in PodIds /\ pods[p].st # "none"

IInv ==
    /\ TypeOK
    /\ RecordsOK
    /\ Snap(pvc, pvc, rev, granted)
    /\ pvc.uid # 0 => pvc.rv # 0
    /\ \A w \in Workers : LocalOK(ctl[w], pvc, rev, granted, pods)
    /\ OnlyRecordedPodsKilled
===============================================================================
