---------------------------- MODULE MCPodRemediator ----------------------------
(***************************************************************************)
(* Small clusters for PodRemediator: which events may happen in each run,  *)
(* and how often.                                                          *)
(***************************************************************************)
EXTENDS PodRemediator, TLC

AllHomes == {"direct", "hostname", "elsewhere"}
ByHostname == {"hostname"}

NoEvents == [k \in EventKinds |-> 0]

\* The node fails, and then recovers, rejoins, leaves, or loses its SNR; consent
\* is withdrawn.
NodeEvents == [NoEvents EXCEPT !["node"] = 3, !["consent"] = 2]

\* The same with a crash, and less else.
NodeCrashEvents == [NoEvents EXCEPT !["node"] = 2, !["consent"] = 2, !["crash"] = 1]

\* The node fails, and one thing more happens to it or to its SNR.
FencingEvents == [NoEvents EXCEPT !["node"] = 2, !["consent"] = 1]

\* A replacement pod, a recreated claim.
PodEvents == [NoEvents EXCEPT !["node"] = 1, !["consent"] = 1, !["crash"] = 2, !["pod"] = 2]

\* The objects a PodRemediator depends on go and come back.
DepsEvents == [NoEvents EXCEPT !["node"] = 1, !["consent"] = 1, !["deps"] = 2]

\* PodRemediators come, are paused, disabled, deleted; consent is withdrawn.
LifecycleEvents == [NoEvents EXCEPT !["node"] = 1, !["consent"] = 1, !["spec"] = 3]

\* Users touch the claim and the commit records, twice, or once while the
\* PodRemediator changes.
EditEvents == [NoEvents EXCEPT !["node"] = 1, !["consent"] = 1, !["edit"] = 2]
EditSpecEvents == [NoEvents EXCEPT !["node"] = 1, !["consent"] = 1, !["edit"] = 1, !["spec"] = 1]

\* A deposed leader still works, and the node changes between its steps.
OverlapEvents == [NoEvents EXCEPT !["node"] = 2, !["consent"] = 1]

\* Everything that can stall a transaction, except hand-edited objects.
StallEvents == [NoEvents EXCEPT !["node"] = 1, !["consent"] = 1, !["crash"] = 1,
                               !["spec"] = 1, !["pod"] = 1]

JustFencing == {FencingEvents}
JustLifecycle == {LifecycleEvents}
JustOverlap == {OverlapEvents}
JustStall == {StallEvents}
NodesPodsEdits == {NodeEvents, NodeCrashEvents, PodEvents, DepsEvents, EditEvents, EditSpecEvents}

\* Controller processes, and PodRemediators, are interchangeable.
Symmetry == Permutations(Workers) \union Permutations(Remediators)
================================================================================
