---------------------------- MODULE ServicesProofs ----------------------------
(***************************************************************************)
(* The reconcilers of the services, for any Topologies and number of       *)
(* events: as long as no call fails, no Topology keeps a finalizer that    *)
(* nobody will remove.                                                     *)
(*                                                                         *)
(* The take-over of a RabbitMQ cluster, for any volume claims and number   *)
(* of events and failures: it loses neither a claim nor the Secrets.       *)
(***************************************************************************)
EXTENDS Services, RabbitMQAdoption, TLAPS

---------------------------------------------------------------------------
(* Services: no Topology is left behind                                    *)

\* What is left of a reconcile: of a live resource,
LiveRests ==
  {<<"inputs", "hash", "release", "ensure", "workload", "patch">>,
   <<"inputs", "release", "ensure", "workload", "patch">>,
   <<"hash", "release", "ensure", "workload", "patch">>,
   <<"release", "ensure", "workload", "patch">>,
   <<"ensure", "workload", "patch">>,
   <<"workload", "patch">>}

\* of a deleted one, before and after the Topology is released.
HoldingRests ==
  {<<"release", "unfinalize", "patch">>, <<"unfinalize", "release", "patch">>, <<"release", "patch">>}
ReleasedRests == {<<"unfinalize", "patch">>}

SvcType ==
  /\ svcKind \in Kinds
  /\ cr = [live |-> cr.live, deleting |-> cr.deleting, fin |-> cr.fin, ref |-> cr.ref,
           last |-> cr.last, hash |-> cr.hash]
  /\ cr.live \in BOOLEAN /\ cr.deleting \in BOOLEAN /\ cr.fin \in BOOLEAN
  /\ topo \in [Topologies -> [there : BOOLEAN, deleting : BOOLEAN, fin : BOOLEAN, gen : Nat]]
  /\ svcRec = [todo |-> svcRec.todo, cr |-> svcRec.cr, hash |-> svcRec.hash, topo |-> svcRec.topo,
               again |-> svcRec.again]
  /\ svcRec.todo \in {<<>>, <<"patch">>} \cup LiveRests \cup HoldingRests \cup ReleasedRests
  /\ svcRec.cr = [live |-> svcRec.cr.live, deleting |-> svcRec.cr.deleting, fin |-> svcRec.cr.fin,
                  ref |-> svcRec.cr.ref, last |-> svcRec.cr.last, hash |-> svcRec.cr.hash]
  /\ svcRec.cr.fin \in BOOLEAN /\ svcRec.cr.deleting \in BOOLEAN
  /\ svcFaults \in Nat

\* The Topologies that carry the finalizer of the resource.
Held == {t \in Topologies : topo[t].fin}

\* A resource marked as deleted has its own finalizer, and one that is gone has none.
DeletingHasFinalizer == (cr.deleting => cr.fin) /\ (cr.fin => cr.live)

\* The reconcile works on a resource that was deleted, or not, as its steps say,
\* and takes the resource's finalizer from a deleted one only.
CopyFollows ==
  /\ svcRec.todo \in LiveRests => ~svcRec.cr.deleting
  /\ svcRec.todo \in HoldingRests \cup ReleasedRests => svcRec.cr.deleting
  /\ svcRec.cr.deleting /\ cr.live => cr.deleting
  /\ OwnsFinalizer(svcKind) /\ svcRec.todo # <<>> /\ ~svcRec.cr.fin => svcRec.cr.deleting

\* Without its finalizer a DNSMasq or InstanceHa holds no Topology.
BareHoldsNothing ==
  OwnsFinalizer(svcKind) /\ ~cr.fin => Held = {} /\ svcRec.todo \in {<<>>, <<"patch">>}

\* A Topology is held by the record of the resource, and by the copy of the
\* reconcile in progress, which will be the record;
HeldIsRecorded ==
  cr.live \/ OwnsFinalizer(svcKind) =>
     IF svcRec.todo = <<>> THEN Held \subseteq cr.last ELSE Held \subseteq svcRec.cr.last

\* between the two halves of EnsureServiceTopology only the one referred to is;
ReleasedBeforeEnsured ==
  (cr.live \/ OwnsFinalizer(svcKind)) /\ svcRec.todo = <<"ensure", "workload", "patch">> =>
     Held \subseteq svcRec.cr.ref

\* and none once a deleted resource released it.
ReleasedBeforeGone ==
  (cr.live \/ OwnsFinalizer(svcKind)) /\
  (svcRec.todo \in ReleasedRests \/ (svcRec.todo = <<"patch">> /\ svcRec.cr.deleting)) => Held = {}

Holding ==
  /\ DeletingHasFinalizer /\ CopyFollows /\ BareHoldsNothing
  /\ HeldIsRecorded /\ ReleasedBeforeEnsured /\ ReleasedBeforeGone

SvcInv == SvcType /\ (svcFaults = 0 => Holding)

LEMMA RestOfLive ==
  ASSUME NEW todo \in LiveRests
  PROVE  /\ todo \notin {<<>>, <<"patch">>}
         /\ Tail(todo) \in LiveRests \cup {<<"patch">>}
         /\ Head(todo) \in {"inputs", "hash", "release", "ensure", "workload"}
         /\ Head(todo) = "release" => todo # <<"ensure", "workload", "patch">>
         /\ Tail(todo) = <<"ensure", "workload", "patch">> => Head(todo) = "release"
         /\ Head(todo) = "ensure" => todo = <<"ensure", "workload", "patch">> /\ Tail(todo) = <<"workload", "patch">>
<1>1. CASE todo = <<"inputs", "hash", "release", "ensure", "workload", "patch">>
    <2>1. /\ Tail(todo) = <<"hash", "release", "ensure", "workload", "patch">> /\ Head(todo) = "inputs"
          /\ Tail(todo) # <<"ensure", "workload", "patch">>
          /\ todo \notin {<<>>, <<"patch">>}
        BY <1>1
    <2> QED
        BY <2>1 DEF LiveRests
<1>2. CASE todo = <<"inputs", "release", "ensure", "workload", "patch">>
    <2>1. /\ Tail(todo) = <<"release", "ensure", "workload", "patch">> /\ Head(todo) = "inputs"
          /\ Tail(todo) # <<"ensure", "workload", "patch">>
          /\ todo \notin {<<>>, <<"patch">>}
        BY <1>2
    <2> QED
        BY <2>1 DEF LiveRests
<1>3. CASE todo = <<"hash", "release", "ensure", "workload", "patch">>
    <2>1. /\ Tail(todo) = <<"release", "ensure", "workload", "patch">> /\ Head(todo) = "hash"
          /\ Tail(todo) # <<"ensure", "workload", "patch">>
          /\ todo \notin {<<>>, <<"patch">>}
        BY <1>3
    <2> QED
        BY <2>1 DEF LiveRests
<1>4. CASE todo = <<"release", "ensure", "workload", "patch">>
    <2>1. /\ Tail(todo) = <<"ensure", "workload", "patch">> /\ Head(todo) = "release"
          /\ todo # <<"ensure", "workload", "patch">>
          /\ todo \notin {<<>>, <<"patch">>}
        BY <1>4
    <2> QED
        BY <2>1 DEF LiveRests
<1>5. CASE todo = <<"ensure", "workload", "patch">>
    <2>1. /\ Tail(todo) = <<"workload", "patch">> /\ Head(todo) = "ensure"
          /\ Tail(todo) # <<"ensure", "workload", "patch">>
          /\ todo \notin {<<>>, <<"patch">>}
        BY <1>5
    <2> QED
        BY <1>5, <2>1 DEF LiveRests
<1>6. CASE todo = <<"workload", "patch">>
    <2>1. /\ Tail(todo) = <<"patch">> /\ Head(todo) = "workload"
          /\ Tail(todo) # <<"ensure", "workload", "patch">>
          /\ todo \notin {<<>>, <<"patch">>}
        BY <1>6
    <2> QED
        BY <2>1 DEF LiveRests
<1> QED
    BY <1>1, <1>2, <1>3, <1>4, <1>5, <1>6 DEF LiveRests

LEMMA RestOfDeleted ==
  ASSUME NEW todo
  PROVE  /\ todo \in HoldingRests =>
              /\ todo \notin {<<>>, <<"patch">>} \cup LiveRests
              /\ \/ Head(todo) = "release" /\ Tail(todo) \in {<<"patch">>} \cup ReleasedRests
                 \/ Head(todo) = "unfinalize" /\ Tail(todo) \in HoldingRests
         /\ todo \in ReleasedRests =>
              /\ todo \notin {<<>>, <<"patch">>} \cup LiveRests \cup HoldingRests
              /\ Head(todo) = "unfinalize" /\ Tail(todo) = <<"patch">>
         /\ todo = <<"patch">> => todo \notin {<<>>} \cup LiveRests \cup HoldingRests \cup ReleasedRests /\ Head(todo) = "patch"
<1>1. ASSUME todo \in LiveRests
      PROVE  todo # <<>> /\ todo \notin HoldingRests \cup ReleasedRests \cup {<<"patch">>}
    <2>1. CASE Len(todo) = 3
        <3>1. todo = <<"ensure", "workload", "patch">>
            BY <1>1, <2>1 DEF LiveRests
        <3>2. Head(todo) = "ensure"
            BY <3>1
        <3>3. todo \notin HoldingRests
            BY <3>1 DEF HoldingRests
        <3>4. todo \notin ReleasedRests \cup {<<"patch">>} /\ todo # <<>>
            BY <3>1 DEF ReleasedRests
        <3> QED
            BY <3>3, <3>4
    <2>2. CASE Len(todo) = 2
        <3>1. todo = <<"workload", "patch">>
            BY <1>1, <2>2 DEF LiveRests
        <3>2. todo \notin HoldingRests
            BY <3>1 DEF HoldingRests
        <3>3. todo \notin ReleasedRests \cup {<<"patch">>} /\ todo # <<>>
            BY <3>1 DEF ReleasedRests
        <3> QED
            BY <3>2, <3>3
    <2>3. CASE Len(todo) \notin {2, 3}
        <3>1. Len(todo) \in {4, 5, 6}
            BY <1>1, <2>3 DEF LiveRests
        <3>2. todo \in HoldingRests => Len(todo) \in {2, 3}
            BY DEF HoldingRests
        <3>3. todo \in ReleasedRests \cup {<<"patch">>} => Len(todo) \in {1, 2}
            BY DEF ReleasedRests
        <3>4. todo = <<>> => Len(todo) = 0
            OBVIOUS
        <3>5. todo \notin HoldingRests
            BY <3>1, <3>2
        <3>6. todo \notin ReleasedRests \cup {<<"patch">>}
            BY <3>1, <3>3
        <3>7. todo # <<>>
            BY <3>1, <3>4
        <3> QED
            BY <3>5, <3>6, <3>7
    <2> QED
        BY <2>1, <2>2, <2>3
<1>2. ASSUME todo \in HoldingRests
      PROVE  /\ todo \notin {<<>>, <<"patch">>}
             /\ \/ Head(todo) = "release" /\ Tail(todo) \in {<<"patch">>} \cup ReleasedRests
                \/ Head(todo) = "unfinalize" /\ Tail(todo) \in HoldingRests
    <2>1. CASE todo = <<"release", "unfinalize", "patch">>
        <3>1. Head(todo) = "release" /\ Tail(todo) = <<"unfinalize", "patch">> /\ Len(todo) = 3
            BY <2>1
        <3> QED
            BY <3>1 DEF ReleasedRests
    <2>2. CASE todo = <<"unfinalize", "release", "patch">>
        <3>1. Head(todo) = "unfinalize" /\ Tail(todo) = <<"release", "patch">> /\ Len(todo) = 3
            BY <2>2
        <3> QED
            BY <3>1 DEF HoldingRests
    <2>3. CASE todo = <<"release", "patch">>
        <3>1. Head(todo) = "release" /\ Tail(todo) = <<"patch">> /\ Len(todo) = 2
            BY <2>3
        <3> QED
            BY <3>1
    <2> QED
        BY <1>2, <2>1, <2>2, <2>3 DEF HoldingRests
<1>3. ASSUME todo \in ReleasedRests
      PROVE  /\ todo \notin {<<>>, <<"patch">>} \cup HoldingRests
             /\ Head(todo) = "unfinalize" /\ Tail(todo) = <<"patch">>
    <2>1. todo = <<"unfinalize", "patch">>
        BY <1>3 DEF ReleasedRests
    <2>2. Head(todo) = "unfinalize" /\ Tail(todo) = <<"patch">> /\ Len(todo) = 2
        BY <2>1
    <2>3. todo \notin HoldingRests
        BY <2>1 DEF HoldingRests
    <2> QED
        BY <2>2, <2>3
<1>4. ASSUME todo = <<"patch">>
      PROVE  todo # <<>> /\ Head(todo) = "patch"
    BY <1>4
<1> QED
    BY <1>1, <1>2, <1>3, <1>4, Zenon

LEMMA FlowsAreRests ==
  ASSUME svcKind \in Kinds
  PROVE  /\ Flow(svcKind) \in LiveRests /\ Flow(svcKind) # <<"ensure", "workload", "patch">>
         /\ DeleteFlow(svcKind) \in HoldingRests /\ DeleteFlow(svcKind) # <<"ensure", "workload", "patch">>
<1>1. svcKind \in {"memcached", "redis", "dnsmasq", "instanceha"}
    BY KindsAssumption
<1>2. Flow(svcKind) \in {MemcachedFlow, DNSMasqFlow}
    BY <1>1 DEF Flow, MemcachedFlow, RedisFlow, InstanceHaFlow, DNSMasqFlow
<1>3. MemcachedFlow \in LiveRests /\ DNSMasqFlow \in LiveRests
    BY DEF MemcachedFlow, DNSMasqFlow, LiveRests
<1>4. InstanceHaDelete \in HoldingRests /\ DNSMasqDelete \in HoldingRests
    BY DEF InstanceHaDelete, DNSMasqDelete, HoldingRests
<1>5. \A f \in {MemcachedFlow, DNSMasqFlow, InstanceHaDelete, DNSMasqDelete} : f # <<"ensure", "workload", "patch">>
    <2>1. MemcachedFlow # <<"ensure", "workload", "patch">> /\ DNSMasqFlow # <<"ensure", "workload", "patch">>
        BY DEF MemcachedFlow, DNSMasqFlow
    <2>2. InstanceHaDelete # <<"ensure", "workload", "patch">> /\ DNSMasqDelete # <<"ensure", "workload", "patch">>
        BY DEF InstanceHaDelete, DNSMasqDelete
    <2> QED
        BY <2>1, <2>2
<1> QED
    BY <1>2, <1>3, <1>4, <1>5 DEF DeleteFlow

LEMMA SvcInvInit == SvcInit => SvcInv
<1> SUFFICES ASSUME SvcInit PROVE SvcInv
    OBVIOUS
<1>1. PICK ref \in References : SvcStart([NoCR EXCEPT !.live = TRUE, !.ref = ref])
    BY Zenon DEF SvcInit
<1>2. /\ cr = [live |-> TRUE, deleting |-> FALSE, fin |-> FALSE, ref |-> ref, last |-> {}, hash |-> {}]
      /\ svcRec = [todo |-> <<>>, cr |-> NoCR, hash |-> {}, topo |-> {}, again |-> FALSE]
      /\ svcFaults = 0
    BY <1>1, Zenon DEF SvcStart, NoCR, SvcIdle
<1>3. topo = [t \in Topologies |-> NewTopology]
    BY <1>1 DEF SvcStart
<1>4. SvcType
    BY <1>2, <1>3, Zenon DEF SvcInit, SvcType, NoCR, NewTopology
<1>5. Held = {}
    BY <1>3 DEF Held, NewTopology
<1>6. <<>> \notin LiveRests \cup HoldingRests \cup ReleasedRests
    BY RestOfLive, RestOfDeleted
<1>7. Holding
    BY <1>2, <1>5, <1>6 DEF Holding, DeletingHasFinalizer, CopyFollows, BareHoldsNothing, HeldIsRecorded,
                       ReleasedBeforeEnsured, ReleasedBeforeGone, NoCR
<1> QED
    BY <1>4, <1>7 DEF SvcInv

\* Steps of users change the resource, never what it holds.
LEMMA UserStepKeeps ==
  ASSUME SvcInv, UNCHANGED <<svcKind, svcRec, svcFaults>>, SvcType', Held' = Held,
         cr'.fin = cr.fin, cr'.deleting => cr'.fin,
         cr'.live => cr.live /\ cr'.last = cr.last /\ (cr.deleting => cr'.deleting),
         cr'.live \/ ~cr'.fin
  PROVE  SvcInv'
<1> SUFFICES ASSUME svcFaults = 0 PROVE Holding'
    BY DEF SvcInv
<1> USE DEF SvcInv, Holding
<1>1. DeletingHasFinalizer'
    BY DEF DeletingHasFinalizer
<1>2. CopyFollows'
    BY DEF CopyFollows
<1>3. BareHoldsNothing'
    BY DEF BareHoldsNothing
<1>4. HeldIsRecorded'
    <2>1. CASE cr'.live
        BY <2>1 DEF HeldIsRecorded
    <2>2. CASE ~cr'.live /\ OwnsFinalizer(svcKind)
        BY <2>2 DEF BareHoldsNothing, HeldIsRecorded
    <2> QED
        BY <2>1, <2>2 DEF HeldIsRecorded
<1>5. ReleasedBeforeEnsured'
    BY DEF ReleasedBeforeEnsured
<1>6. ReleasedBeforeGone'
    BY DEF ReleasedBeforeGone
<1> QED
    BY <1>1, <1>2, <1>3, <1>4, <1>5, <1>6

\* What the calls on Topologies leave of one.
LEMMA RemovedTopology ==
  ASSUME NEW tp \in [there : BOOLEAN, deleting : BOOLEAN, fin : BOOLEAN, gen : Nat]
  PROVE  /\ Removed(tp) \in [there : BOOLEAN, deleting : BOOLEAN, fin : BOOLEAN, gen : Nat]
         /\ Removed(tp).fin = FALSE
<1> DEFINE Topo == [there : BOOLEAN, deleting : BOOLEAN, fin : BOOLEAN, gen : Nat]
           x1 == [tp EXCEPT !.there = FALSE]
           x2 == [x1 EXCEPT !.deleting = FALSE]
           x3 == [x2 EXCEPT !.fin = FALSE]
<1>1. Removed(tp) = x3
    BY Zenon DEF Removed
<1>2. x1 \in Topo
    BY Zenon
<1> HIDE DEF x1
<1>3. x2 \in Topo
    BY <1>2, Zenon
<1> HIDE DEF x2
<1>4. x3 \in Topo /\ x3.fin = FALSE
    BY <1>3, Zenon
<1> HIDE DEF x3
<1> QED
    BY <1>1, <1>4, Zenon

LEMMA UsersKeep ==
  ASSUME SvcInv,
         \/ \E ref \in References : EditRef(ref)
         \/ DeleteCR
         \/ \E i \in InputNames : ChangeInput(i)
         \/ \E t \in Topologies : ChangeTopology(t) \/ DeleteTopology(t)
  PROVE  SvcInv'
<1>0. SvcType
    BY DEF SvcInv
<1>1. UNCHANGED <<svcKind, svcRec, svcFaults>> /\ cr.live
    BY Zenon DEF EditRef, DeleteCR, ChangeInput, ChangeTopology, DeleteTopology, SvcEvent
<1>2. CASE \E ref \in References : EditRef(ref)
    <2>1. PICK ref : cr' = [cr EXCEPT !.ref = ref] /\ UNCHANGED topo
        BY <1>2, Zenon DEF EditRef
    <2>2. cr' = [live |-> cr.live, deleting |-> cr.deleting, fin |-> cr.fin, ref |-> ref,
                 last |-> cr.last, hash |-> cr.hash]
        BY <1>0, <2>1 DEF SvcType
    <2>3. SvcType'
        BY <1>0, <1>1, <2>1, <2>2, Zenon DEF SvcType
    <2>4. Held' = Held
        BY <2>1 DEF Held
    <2>5. cr.deleting => cr.fin \/ svcFaults # 0
        BY DEF SvcInv, Holding, DeletingHasFinalizer
    <2>6. CASE svcFaults = 0
        BY <1>1, <2>2, <2>3, <2>4, <2>5, <2>6, UserStepKeeps
    <2>7. CASE svcFaults # 0
        BY <1>1, <2>3, <2>7 DEF SvcInv
    <2> QED
        BY <2>6, <2>7
<1>3. CASE DeleteCR
    <2>1. UNCHANGED topo /\ cr' = IF cr.fin THEN [cr EXCEPT !.deleting = TRUE] ELSE NoCR
        BY <1>3 DEF DeleteCR
    <2>2. CASE cr.fin
        <3>1. cr' = [live |-> cr.live, deleting |-> TRUE, fin |-> cr.fin, ref |-> cr.ref,
                     last |-> cr.last, hash |-> cr.hash]
            BY <1>0, <2>1, <2>2, Zenon DEF SvcType
        <3>2. SvcType'
            <4>1. cr' = [live |-> cr'.live, deleting |-> cr'.deleting, fin |-> cr'.fin, ref |-> cr'.ref,
                         last |-> cr'.last, hash |-> cr'.hash]
                BY <3>1
            <4>2. cr'.live \in BOOLEAN /\ cr'.deleting \in BOOLEAN /\ cr'.fin \in BOOLEAN
                BY <1>0, <3>1 DEF SvcType
            <4> QED
                BY <1>0, <1>1, <2>1, <4>1, <4>2, Zenon DEF SvcType
        <3>3. Held' = Held
            BY <2>1 DEF Held
        <3> QED
            BY <1>1, <2>2, <3>1, <3>2, <3>3, UserStepKeeps
    <2>3. CASE ~cr.fin
        <3>1. cr' = [live |-> FALSE, deleting |-> FALSE, fin |-> FALSE, ref |-> {}, last |-> {}, hash |-> {}]
            BY <2>1, <2>3 DEF NoCR
        <3>2. SvcType'
            <4>1. cr' = [live |-> cr'.live, deleting |-> cr'.deleting, fin |-> cr'.fin, ref |-> cr'.ref,
                         last |-> cr'.last, hash |-> cr'.hash]
                BY <3>1
            <4>2. cr'.live \in BOOLEAN /\ cr'.deleting \in BOOLEAN /\ cr'.fin \in BOOLEAN
                BY <1>0, <3>1 DEF SvcType
            <4> QED
                BY <1>0, <1>1, <2>1, <4>1, <4>2, Zenon DEF SvcType
        <3>3. Held' = Held
            BY <2>1 DEF Held
        <3> QED
            BY <1>0, <1>1, <2>3, <3>1, <3>2, <3>3, UserStepKeeps, Zenon DEF SvcType
    <2> QED
        BY <2>2, <2>3
<1>4. ASSUME UNCHANGED cr, topo' \in [Topologies -> [there : BOOLEAN, deleting : BOOLEAN, fin : BOOLEAN, gen : Nat]],
             \A t \in Topologies : topo'[t].fin = topo[t].fin
      PROVE  SvcInv'
    <2>1. SvcType'
        BY <1>0, <1>1, <1>4, Zenon DEF SvcType
    <2>2. Held' = Held
        BY <1>4 DEF Held
    <2>3. CASE svcFaults = 0
        <3>1. cr.deleting => cr.fin
            BY <2>3, Zenon DEF SvcInv, Holding, DeletingHasFinalizer
        <3> QED
            BY <1>1, <1>4, <2>1, <2>2, <3>1, UserStepKeeps
    <2>4. CASE svcFaults # 0
        BY <1>1, <2>1, <2>4 DEF SvcInv
    <2> QED
        BY <2>3, <2>4
<1>5. CASE \E i \in InputNames : ChangeInput(i)
    BY <1>0, <1>4, <1>5 DEF ChangeInput, SvcType
<1>6. ASSUME NEW t \in Topologies, ChangeTopology(t) \/ DeleteTopology(t)
      PROVE  SvcInv'
    <2> DEFINE Topo == [there : BOOLEAN, deleting : BOOLEAN, fin : BOOLEAN, gen : Nat]
    <2>1. topo \in [Topologies -> Topo] /\ topo[t] \in Topo
        BY <1>0 DEF SvcType
    <2>2. PICK y \in Topo : topo' = [topo EXCEPT ![t] = y] /\ y.fin = topo[t].fin
        <3>1. CASE ChangeTopology(t)
            <4>1. topo[t].gen + 1 \in Nat
                BY <2>1
            <4>2. topo' = [topo EXCEPT ![t] = [[topo[t] EXCEPT !.there = TRUE] EXCEPT !.gen = topo[t].gen + 1]]
                BY <3>1, Zenon DEF ChangeTopology
            <4>3. PICK x : x = [topo[t] EXCEPT !.there = TRUE]
                BY Zenon
            <4>4. x \in Topo /\ x.fin = topo[t].fin
                BY <2>1, <4>3, Zenon
            <4>5. [x EXCEPT !.gen = topo[t].gen + 1] \in Topo /\ [x EXCEPT !.gen = topo[t].gen + 1].fin = topo[t].fin
                BY <4>1, <4>4, Zenon
            <4> QED
                BY <4>2, <4>3, <4>5, Zenon
        <3>2. CASE DeleteTopology(t)
            <4>1. topo' = [topo EXCEPT ![t] = IF topo[t].fin THEN [topo[t] EXCEPT !.deleting = TRUE] ELSE Removed(topo[t])]
                BY <3>2 DEF DeleteTopology
            <4>2. CASE topo[t].fin
                <5>1. [topo[t] EXCEPT !.deleting = TRUE] \in Topo
                      /\ [topo[t] EXCEPT !.deleting = TRUE].fin = topo[t].fin
                    BY <2>1, Zenon
                <5> QED
                    BY <4>1, <4>2, <5>1, Zenon
            <4>3. CASE ~topo[t].fin
                <5>1. Removed(topo[t]) \in Topo /\ Removed(topo[t]).fin = FALSE
                    BY <2>1, RemovedTopology, Zenon
                <5>2. topo[t].fin = FALSE
                    BY <2>1, <4>3
                <5> QED
                    BY <4>1, <4>3, <5>1, <5>2, Zenon
            <4> QED
                BY <4>2, <4>3
        <3> QED
            BY <1>6, <3>1, <3>2
    <2>3. UNCHANGED cr
        BY <1>6, Zenon DEF ChangeTopology, DeleteTopology
    <2> QED
        BY <1>4, <2>1, <2>2, <2>3
<1> QED
    BY <1>2, <1>3, <1>5, <1>6

\* The types of a step that leaves the resource alone.
LEMMA StepTypes ==
  ASSUME SvcType, UNCHANGED <<svcKind, cr, svcFaults>>,
         topo' \in [Topologies -> [there : BOOLEAN, deleting : BOOLEAN, fin : BOOLEAN, gen : Nat]],
         NEW todo \in {<<>>, <<"patch">>} \cup LiveRests \cup HoldingRests \cup ReleasedRests,
         NEW fin \in BOOLEAN, NEW deleting \in BOOLEAN,
         NEW live, NEW ref, NEW last, NEW h, NEW hash, NEW tps, NEW again,
         svcRec' = [todo |-> todo, cr |-> [live |-> live, deleting |-> deleting, fin |-> fin, ref |-> ref,
                                           last |-> last, hash |-> h],
                    hash |-> hash, topo |-> tps, again |-> again]
  PROVE  /\ SvcType'
         /\ svcRec'.todo = todo /\ svcRec'.cr.fin = fin /\ svcRec'.cr.deleting = deleting
         /\ svcRec'.cr.ref = ref /\ svcRec'.cr.last = last
<1>1. /\ svcRec'.todo = todo /\ svcRec'.cr.fin = fin /\ svcRec'.cr.deleting = deleting
      /\ svcRec'.cr.ref = ref /\ svcRec'.cr.last = last
    OBVIOUS
<1>2. svcRec' = [todo |-> svcRec'.todo, cr |-> svcRec'.cr, hash |-> svcRec'.hash, topo |-> svcRec'.topo,
                 again |-> svcRec'.again]
    OBVIOUS
<1>3. svcRec'.cr = [live |-> svcRec'.cr.live, deleting |-> svcRec'.cr.deleting, fin |-> svcRec'.cr.fin,
                    ref |-> svcRec'.cr.ref, last |-> svcRec'.cr.last, hash |-> svcRec'.cr.hash]
    OBVIOUS
<1> QED
    BY <1>1, <1>2, <1>3 DEF SvcType

\* Where a step of a reconcile may be.
LEMMA StepOf ==
  ASSUME SvcType, NEW step, AtStep(step)
  PROVE  /\ svcRec.todo # <<>> /\ Head(svcRec.todo) = step
         /\ step \in {"inputs", "hash", "ensure", "workload"} => svcRec.todo \in LiveRests
         /\ step = "release" => svcRec.todo \in LiveRests \cup HoldingRests
         /\ step = "unfinalize" => svcRec.todo \in HoldingRests \cup ReleasedRests
         /\ step = "patch" => svcRec.todo = <<"patch">>
<1>1. svcRec.todo # <<>> /\ Head(svcRec.todo) = step
    BY DEF AtStep
<1>2. svcRec.todo \in {<<"patch">>} \cup LiveRests \cup HoldingRests \cup ReleasedRests
    BY <1>1 DEF SvcType
<1>3. CASE svcRec.todo = <<"patch">>
    BY <1>1, <1>3, RestOfDeleted
<1>4. CASE svcRec.todo \in LiveRests
    BY <1>1, <1>4, RestOfLive
<1>5. CASE svcRec.todo \in HoldingRests \cup ReleasedRests
    BY <1>1, <1>5, RestOfDeleted
<1> QED
    BY <1>2, <1>3, <1>4, <1>5

\* The steps that look at inputs and write the workload.
LEMMA QuietStepKeeps ==
  ASSUME SvcInv, CheckInputs \/ CheckHash \/ WriteWorkload
  PROVE  SvcInv'
<1>0. SvcType
    BY DEF SvcInv
<1>1. /\ UNCHANGED <<svcKind, cr, topo, svcFaults>>
      /\ svcRec.todo \in LiveRests /\ Head(svcRec.todo) \in {"inputs", "hash", "workload"}
    BY <1>0, StepOf, Zenon DEF CheckInputs, CheckHash, WriteWorkload
<1> DEFINE mine == svcRec.cr
<1>2. PICK todo \in {Tail(svcRec.todo), <<"patch">>} :
         \E hs, h, ag : svcRec' = [todo |-> todo,
                                   cr |-> [live |-> mine.live, deleting |-> mine.deleting, fin |-> mine.fin,
                                           ref |-> mine.ref, last |-> mine.last, hash |-> h],
                                   hash |-> hs, topo |-> svcRec.topo, again |-> ag]
    <2>1. /\ svcRec = [todo |-> svcRec.todo, cr |-> svcRec.cr, hash |-> svcRec.hash, topo |-> svcRec.topo,
                       again |-> svcRec.again]
          /\ svcRec.cr = [live |-> mine.live, deleting |-> mine.deleting, fin |-> mine.fin, ref |-> mine.ref,
                          last |-> mine.last, hash |-> mine.hash]
        BY <1>0 DEF SvcType
    <2>2. ASSUME NEW hash, NEW again,
                 \/ svcRec' = [[svcRec EXCEPT !.hash = hash] EXCEPT !.todo = Tail(@)]
                 \/ svcRec' = [svcRec EXCEPT !.todo = <<"patch">>, !.again = again]
                 \/ svcRec' = [[svcRec EXCEPT !.cr.hash = hash] EXCEPT !.todo = <<"patch">>, !.again = again]
                 \/ svcRec' = [svcRec EXCEPT !.todo = Tail(@)]
          PROVE  \E todo \in {Tail(svcRec.todo), <<"patch">>} :
                    \E hs, h, ag :
                       svcRec' = [todo |-> todo,
                                  cr |-> [live |-> mine.live, deleting |-> mine.deleting, fin |-> mine.fin,
                                          ref |-> mine.ref, last |-> mine.last, hash |-> h],
                                  hash |-> hs, topo |-> svcRec.topo, again |-> ag]
        BY <2>1, <2>2, ZenonT(40)
    <2>3. CASE CheckInputs
        BY <2>2, <2>3, Zenon DEF CheckInputs, ReturnEarly, Proceed
    <2>4. CASE CheckHash
        BY <2>2, <2>4, Zenon DEF CheckHash, ReturnEarly, Proceed
    <2>5. CASE WriteWorkload
        BY <2>2, <2>5, Zenon DEF WriteWorkload, Proceed
    <2> QED
        BY <2>3, <2>4, <2>5
<1>3. /\ todo \in LiveRests \cup {<<"patch">>} /\ todo # <<"ensure", "workload", "patch">>
      /\ todo \notin {<<>>} \cup HoldingRests \cup ReleasedRests
    <2>1. Tail(svcRec.todo) # <<"ensure", "workload", "patch">> /\ Tail(svcRec.todo) \in LiveRests \cup {<<"patch">>}
        BY <1>1, RestOfLive
    <2>2. <<"patch">> # <<"ensure", "workload", "patch">>
        OBVIOUS
    <2>3. todo \in LiveRests \cup {<<"patch">>}
        BY <1>2, <2>1, Zenon
    <2>4. todo \notin {<<>>} \cup HoldingRests \cup ReleasedRests
        BY <2>3, RestOfLive, RestOfDeleted
    <2> QED
        BY <1>2, <2>1, <2>2, <2>3, <2>4, Zenon
<1>4. /\ SvcType'
      /\ svcRec'.todo = todo /\ svcRec'.cr.fin = mine.fin /\ svcRec'.cr.deleting = mine.deleting
      /\ svcRec'.cr.ref = mine.ref /\ svcRec'.cr.last = mine.last
    <2>1. mine.fin \in BOOLEAN /\ mine.deleting \in BOOLEAN
        BY <1>0 DEF SvcType
    <2>2. topo' \in [Topologies -> [there : BOOLEAN, deleting : BOOLEAN, fin : BOOLEAN, gen : Nat]]
        BY <1>0, <1>1 DEF SvcType
    <2>3. PICK hs, h, ag : svcRec' = [todo |-> todo,
                                      cr |-> [live |-> mine.live, deleting |-> mine.deleting, fin |-> mine.fin,
                                              ref |-> mine.ref, last |-> mine.last, hash |-> h],
                                      hash |-> hs, topo |-> svcRec.topo, again |-> ag]
        BY <1>2, Zenon
    <2>4. todo \in {<<>>, <<"patch">>} \cup LiveRests \cup HoldingRests \cup ReleasedRests
        BY <1>3
    <2>5. /\ svcRec'.todo = todo /\ svcRec'.cr.fin = mine.fin /\ svcRec'.cr.deleting = mine.deleting
          /\ svcRec'.cr.ref = mine.ref /\ svcRec'.cr.last = mine.last
        BY <2>3
    <2>6. svcRec' = [todo |-> svcRec'.todo, cr |-> svcRec'.cr, hash |-> svcRec'.hash, topo |-> svcRec'.topo,
                     again |-> svcRec'.again]
        BY <2>3
    <2>7. svcRec'.cr = [live |-> svcRec'.cr.live, deleting |-> svcRec'.cr.deleting, fin |-> svcRec'.cr.fin,
                        ref |-> svcRec'.cr.ref, last |-> svcRec'.cr.last, hash |-> svcRec'.cr.hash]
        BY <2>3
    <2> QED
        BY <1>0, <1>1, <2>1, <2>2, <2>4, <2>5, <2>6, <2>7 DEF SvcType
<1> SUFFICES ASSUME svcFaults = 0 PROVE Holding'
    BY <1>1, <1>4 DEF SvcInv
<1> USE DEF SvcInv, Holding
<1>5. Held' = Held
    BY <1>1 DEF Held
<1>6. svcRec.todo \notin {<<>>, <<"patch">>}
    BY <1>1, RestOfLive
<1>7. ~mine.deleting
    BY <1>1 DEF CopyFollows
<1>8. DeletingHasFinalizer'
    BY <1>1 DEF DeletingHasFinalizer
<1>9. CopyFollows'
    BY <1>1, <1>3, <1>4, <1>6, <1>7 DEF CopyFollows
<1>10. BareHoldsNothing'
    BY <1>1, <1>6 DEF BareHoldsNothing
<1>11. HeldIsRecorded'
    BY <1>1, <1>3, <1>4, <1>5, <1>6 DEF HeldIsRecorded
<1>12. ReleasedBeforeEnsured' /\ ReleasedBeforeGone'
    BY <1>3, <1>4, <1>7 DEF ReleasedBeforeEnsured, ReleasedBeforeGone
<1> QED
    BY <1>8, <1>9, <1>10, <1>11, <1>12

LEMMA FinalizerTaken ==
  ASSUME NEW tp \in [there : BOOLEAN, deleting : BOOLEAN, fin : BOOLEAN, gen : Nat]
  PROVE  /\ WithoutFinalizer(tp) \in [there : BOOLEAN, deleting : BOOLEAN, fin : BOOLEAN, gen : Nat]
         /\ WithoutFinalizer(tp).fin = FALSE
<1>1. /\ [tp EXCEPT !.fin = FALSE] \in [there : BOOLEAN, deleting : BOOLEAN, fin : BOOLEAN, gen : Nat]
      /\ [tp EXCEPT !.fin = FALSE].fin = FALSE
    BY Zenon
<1> QED
    BY <1>1, RemovedTopology, Zenon DEF WithoutFinalizer

\* The rest of a flow with the copy as it was.
LEMMA ProceedsTo ==
  ASSUME SvcType, UNCHANGED <<svcKind, cr, svcFaults>>,
         topo' \in [Topologies -> [there : BOOLEAN, deleting : BOOLEAN, fin : BOOLEAN, gen : Nat]],
         NEW todo \in {<<>>, <<"patch">>} \cup LiveRests \cup HoldingRests \cup ReleasedRests,
         NEW again,
         \/ svcRec' = [svcRec EXCEPT !.todo = todo]
         \/ svcRec' = [svcRec EXCEPT !.todo = todo, !.again = again]
  PROVE  /\ SvcType'
         /\ svcRec'.todo = todo /\ svcRec'.cr = svcRec.cr
<1>1. PICK ag : svcRec' = [todo |-> todo, cr |-> svcRec.cr, hash |-> svcRec.hash, topo |-> svcRec.topo, again |-> ag]
    BY Zenon DEF SvcType
<1>2. svcRec'.todo = todo /\ svcRec'.cr = svcRec.cr
    BY <1>1
<1>3. svcRec' = [todo |-> svcRec'.todo, cr |-> svcRec'.cr, hash |-> svcRec'.hash, topo |-> svcRec'.topo,
                 again |-> svcRec'.again]
    BY <1>1
<1> QED
    BY <1>2, <1>3 DEF SvcType

LEMMA ReleaseKeeps ==
  ASSUME SvcInv, ReleaseTopology
  PROVE  SvcInv'
<1>0. SvcType
    BY DEF SvcInv
<1> DEFINE mine == svcRec.cr
           old == IF mine.deleting \/ mine.ref # mine.last THEN mine.last ELSE {}
<1>1. /\ UNCHANGED <<svcKind, cr, svcFaults>>
      /\ topo' = [t \in Topologies |-> IF t \in old THEN WithoutFinalizer(topo[t]) ELSE topo[t]]
      /\ svcRec' = [svcRec EXCEPT !.todo = Tail(svcRec.todo)]
    BY DEF ReleaseTopology, Proceed
<1>2. svcRec.todo \in LiveRests \cup HoldingRests /\ Head(svcRec.todo) = "release"
    BY <1>0, StepOf DEF ReleaseTopology
<1>3. PICK todo : todo = Tail(svcRec.todo)
    BY Zenon
<1>4. /\ svcRec.todo \in LiveRests => todo \in LiveRests \cup {<<"patch">>}
      /\ svcRec.todo \in HoldingRests => todo \in {<<"patch">>} \cup ReleasedRests
      /\ svcRec.todo \notin {<<>>, <<"patch">>}
    BY <1>2, <1>3, RestOfLive, RestOfDeleted, Zenon
<1>5. /\ topo' \in [Topologies -> [there : BOOLEAN, deleting : BOOLEAN, fin : BOOLEAN, gen : Nat]]
      /\ Held' = Held \ old
    <2> HIDE DEF old
    <2>1. \A t \in Topologies : topo[t] \in [there : BOOLEAN, deleting : BOOLEAN, fin : BOOLEAN, gen : Nat]
        BY <1>0 DEF SvcType
    <2>2. \A t \in Topologies : topo'[t] = IF t \in old THEN WithoutFinalizer(topo[t]) ELSE topo[t]
        BY <1>1
    <2>3. \A t \in Topologies : /\ topo'[t] \in [there : BOOLEAN, deleting : BOOLEAN, fin : BOOLEAN, gen : Nat]
                                /\ topo'[t].fin <=> (topo[t].fin /\ t \notin old)
        <3> TAKE t \in Topologies
        <3>1. CASE t \in old
            BY <2>1, <2>2, <3>1, FinalizerTaken, Zenon
        <3>2. CASE t \notin old
            BY <2>1, <2>2, <3>2
        <3> QED
            BY <3>1, <3>2
    <2>4. topo' = [t \in Topologies |-> topo'[t]]
        BY <1>1
    <2>5. topo' \in [Topologies -> [there : BOOLEAN, deleting : BOOLEAN, fin : BOOLEAN, gen : Nat]]
        BY <2>3, <2>4, Zenon
    <2> QED
        BY <2>3, <2>5 DEF Held
<1>6. SvcType' /\ svcRec'.todo = todo /\ svcRec'.cr = mine
    BY <1>0, <1>1, <1>2, <1>3, <1>4, <1>5, ProceedsTo, Zenon
<1> SUFFICES ASSUME svcFaults = 0 PROVE Holding'
    BY <1>1, <1>6 DEF SvcInv
<1> USE DEF SvcInv, Holding
<1>7. todo # <<>> /\ (todo \in LiveRests => todo \notin HoldingRests \cup ReleasedRests \cup {<<"patch">>})
    BY <1>2, <1>4, RestOfLive, RestOfDeleted
<1>8. /\ svcRec.todo \in HoldingRests => mine.deleting /\ todo \notin LiveRests
      /\ svcRec.todo \in LiveRests => ~mine.deleting /\ todo \notin HoldingRests \cup ReleasedRests
    BY <1>2, <1>4, <1>7, RestOfDeleted DEF CopyFollows
<1>9. DeletingHasFinalizer'
    BY <1>1 DEF DeletingHasFinalizer
<1>10. CopyFollows'
    BY <1>1, <1>2, <1>4, <1>6, <1>7, <1>8, Zenon DEF CopyFollows
<1>11. BareHoldsNothing'
    BY <1>1, <1>4 DEF BareHoldsNothing
<1>12. cr.live \/ OwnsFinalizer(svcKind) => Held \subseteq mine.last
    BY <1>4 DEF HeldIsRecorded
<1>13. HeldIsRecorded'
    BY <1>1, <1>5, <1>6, <1>7, <1>12, Zenon DEF HeldIsRecorded
<1>14. ReleasedBeforeEnsured'
    BY <1>1, <1>5, <1>6, <1>12 DEF ReleasedBeforeEnsured
<1>15. ReleasedBeforeGone'
    BY <1>1, <1>2, <1>5, <1>6, <1>8, <1>12, Zenon DEF ReleasedBeforeGone
<1> QED
    BY <1>9, <1>10, <1>11, <1>13, <1>14, <1>15

LEMMA EnsureKeeps ==
  ASSUME SvcInv, EnsureTopology
  PROVE  SvcInv'
<1>0. SvcType
    BY DEF SvcInv
<1> DEFINE mine == svcRec.cr
<1>1. UNCHANGED <<svcKind, cr, svcFaults>>
    BY DEF EnsureTopology
<1>2. svcRec.todo \in LiveRests /\ Head(svcRec.todo) = "ensure"
    BY <1>0, StepOf DEF EnsureTopology
<1>3. /\ svcRec.todo = <<"ensure", "workload", "patch">> /\ Tail(svcRec.todo) = <<"workload", "patch">>
      /\ svcRec.todo \notin {<<>>, <<"patch">>}
    BY <1>2, RestOfLive
<1>4. PICK todo \in {<<"workload", "patch">>, <<"patch">>} :
         /\ SvcType' /\ svcRec'.todo = todo
         /\ svcRec'.cr.fin = mine.fin /\ svcRec'.cr.deleting = mine.deleting
         /\ \/ Held' = Held /\ svcRec'.cr.last = mine.last
            \/ Held' \subseteq Held \cup mine.ref /\ svcRec'.cr.last = mine.ref
    <2>1. CASE ReturnEarly(svcRec, TRUE) /\ UNCHANGED topo
        <3>1. svcRec' = [svcRec EXCEPT !.todo = <<"patch">>, !.again = TRUE]
            BY <2>1 DEF ReturnEarly
        <3>2. topo' \in [Topologies -> [there : BOOLEAN, deleting : BOOLEAN, fin : BOOLEAN, gen : Nat]]
            BY <1>0, <2>1 DEF SvcType
        <3>3. SvcType' /\ svcRec'.todo = <<"patch">> /\ svcRec'.cr = mine
            BY <1>0, <1>1, <3>1, <3>2, ProceedsTo, Zenon
        <3>4. Held' = Held
            BY <2>1 DEF Held
        <3> QED
            BY <3>3, <3>4
    <2>2. CASE /\ topo' = [t \in Topologies |-> IF t \in mine.ref THEN [topo[t] EXCEPT !.fin = TRUE] ELSE topo[t]]
               /\ Proceed([svcRec EXCEPT !.cr.last = mine.ref, !.topo = {<<t, topo[t].gen>> : t \in mine.ref}])
        <3>1. \A t \in Topologies : topo[t] \in [there : BOOLEAN, deleting : BOOLEAN, fin : BOOLEAN, gen : Nat]
            BY <1>0 DEF SvcType
        <3>2. \A t \in Topologies :
                /\ [topo[t] EXCEPT !.fin = TRUE] \in [there : BOOLEAN, deleting : BOOLEAN, fin : BOOLEAN, gen : Nat]
                /\ topo'[t] = IF t \in mine.ref THEN [topo[t] EXCEPT !.fin = TRUE] ELSE topo[t]
            BY <2>2, <3>1, Zenon
        <3>3. \A t \in Topologies :
                /\ topo'[t] \in [there : BOOLEAN, deleting : BOOLEAN, fin : BOOLEAN, gen : Nat]
                /\ topo'[t].fin => topo[t].fin \/ t \in mine.ref
            BY <3>1, <3>2, Zenon
        <3>4. topo' \in [Topologies -> [there : BOOLEAN, deleting : BOOLEAN, fin : BOOLEAN, gen : Nat]]
            <4>1. topo' = [t \in Topologies |-> topo'[t]]
                BY <2>2
            <4> QED
                BY <3>3, <4>1, Zenon
        <3>5. Held' \subseteq Held \cup mine.ref
            BY <3>3 DEF Held
        <3>6. PICK tps : tps = {<<t, topo[t].gen>> : t \in mine.ref}
            BY Zenon
        <3>7. svcRec' = [todo |-> <<"workload", "patch">>,
                         cr |-> [live |-> mine.live, deleting |-> mine.deleting, fin |-> mine.fin, ref |-> mine.ref,
                                 last |-> mine.ref, hash |-> mine.hash],
                         hash |-> svcRec.hash, topo |-> tps, again |-> svcRec.again]
            <4>1. /\ svcRec = [todo |-> svcRec.todo, cr |-> svcRec.cr, hash |-> svcRec.hash, topo |-> svcRec.topo,
                               again |-> svcRec.again]
                  /\ svcRec.cr = [live |-> mine.live, deleting |-> mine.deleting, fin |-> mine.fin, ref |-> mine.ref,
                                  last |-> mine.last, hash |-> mine.hash]
                BY <1>0 DEF SvcType
            <4>2. svcRec' = [[svcRec EXCEPT !.cr.last = mine.ref, !.topo = tps] EXCEPT !.todo = Tail(@)]
                BY <2>2, <3>6, Zenon DEF Proceed
            <4> QED
                BY <1>3, <4>1, <4>2, Zenon
        <3>8. mine.fin \in BOOLEAN /\ mine.deleting \in BOOLEAN /\ <<"workload", "patch">> \in LiveRests
            BY <1>0, Zenon DEF SvcType, LiveRests
        <3>9. /\ SvcType' /\ svcRec'.todo = <<"workload", "patch">>
              /\ svcRec'.cr.fin = mine.fin /\ svcRec'.cr.deleting = mine.deleting
              /\ svcRec'.cr.last = mine.ref
            <4>1. <<"workload", "patch">> \in {<<>>, <<"patch">>} \cup LiveRests \cup HoldingRests \cup ReleasedRests
                BY <3>8, Zenon
            <4>2. /\ svcRec'.todo = <<"workload", "patch">>
                  /\ svcRec'.cr.fin = mine.fin /\ svcRec'.cr.deleting = mine.deleting
                  /\ svcRec'.cr.last = mine.ref
                BY <3>7
            <4>3. svcRec' = [todo |-> svcRec'.todo, cr |-> svcRec'.cr, hash |-> svcRec'.hash,
                             topo |-> svcRec'.topo, again |-> svcRec'.again]
                BY <3>7, Zenon
            <4>4. svcRec'.cr = [live |-> svcRec'.cr.live, deleting |-> svcRec'.cr.deleting, fin |-> svcRec'.cr.fin,
                                ref |-> svcRec'.cr.ref, last |-> svcRec'.cr.last, hash |-> svcRec'.cr.hash]
                BY <3>7
            <4> QED
                BY <1>0, <1>1, <3>4, <3>8, <4>1, <4>2, <4>3, <4>4 DEF SvcType
        <3> QED
            BY <3>5, <3>9
    <2> QED
        BY <2>1, <2>2, Zenon DEF EnsureTopology
<1> SUFFICES ASSUME svcFaults = 0 PROVE Holding'
    BY <1>1, <1>4 DEF SvcInv
<1> USE DEF SvcInv, Holding
<1>5. /\ todo \in LiveRests \cup {<<"patch">>}
      /\ todo \notin {<<>>} \cup HoldingRests \cup ReleasedRests
      /\ todo # <<"ensure", "workload", "patch">>
    <2>1. <<"workload", "patch">> \in LiveRests
        BY DEF LiveRests
    <2>2. todo \notin {<<>>} \cup HoldingRests \cup ReleasedRests
        BY <2>1, RestOfLive, RestOfDeleted
    <2>3. todo # <<"ensure", "workload", "patch">>
        OBVIOUS
    <2> QED
        BY <2>1, <2>2, <2>3
<1>6. ~mine.deleting
    BY <1>2 DEF CopyFollows
<1>7. DeletingHasFinalizer'
    BY <1>1, Zenon DEF DeletingHasFinalizer
<1>8. CopyFollows'
    BY <1>1, <1>3, <1>4, <1>5, <1>6 DEF CopyFollows
<1>9. BareHoldsNothing'
    BY <1>1, <1>3 DEF BareHoldsNothing
<1>10. cr.live \/ OwnsFinalizer(svcKind) => Held \subseteq mine.last /\ Held \subseteq mine.ref
    BY <1>3 DEF HeldIsRecorded, ReleasedBeforeEnsured
<1>11. HeldIsRecorded'
    BY <1>1, <1>4, <1>5, <1>10, Zenon DEF HeldIsRecorded
<1>12. ReleasedBeforeEnsured' /\ ReleasedBeforeGone'
    BY <1>4, <1>5, <1>6 DEF ReleasedBeforeEnsured, ReleasedBeforeGone
<1> QED
    BY <1>7, <1>8, <1>9, <1>11, <1>12

LEMMA UnfinalizeKeeps ==
  ASSUME SvcInv, RemoveOwnFinalizer
  PROVE  SvcInv'
<1>0. SvcType
    BY DEF SvcInv
<1> DEFINE mine == svcRec.cr
<1>1. UNCHANGED <<svcKind, cr, topo, svcFaults>>
    BY DEF RemoveOwnFinalizer
<1>2. svcRec.todo \in HoldingRests \cup ReleasedRests /\ Head(svcRec.todo) = "unfinalize"
    BY <1>0, StepOf DEF RemoveOwnFinalizer
<1>3. PICK todo : todo = Tail(svcRec.todo)
    BY Zenon
<1>4. /\ svcRec.todo \in HoldingRests => todo \in HoldingRests
      /\ svcRec.todo \in ReleasedRests => todo = <<"patch">>
      /\ svcRec.todo \notin {<<>>, <<"patch">>}
    BY <1>2, <1>3, RestOfDeleted
<1>5. todo \notin {<<>>} \cup LiveRests
    BY <1>2, <1>4, RestOfDeleted
<1>6. svcRec' = [todo |-> todo,
                 cr |-> [live |-> mine.live, deleting |-> mine.deleting, fin |-> FALSE, ref |-> mine.ref,
                         last |-> mine.last, hash |-> mine.hash],
                 hash |-> svcRec.hash, topo |-> svcRec.topo, again |-> svcRec.again]
    <2>1. /\ svcRec = [todo |-> svcRec.todo, cr |-> svcRec.cr, hash |-> svcRec.hash, topo |-> svcRec.topo,
                       again |-> svcRec.again]
          /\ svcRec.cr = [live |-> mine.live, deleting |-> mine.deleting, fin |-> mine.fin, ref |-> mine.ref,
                          last |-> mine.last, hash |-> mine.hash]
        BY <1>0 DEF SvcType
    <2>2. svcRec' = [[svcRec EXCEPT !.cr.fin = FALSE] EXCEPT !.todo = Tail(@)]
        BY Zenon DEF RemoveOwnFinalizer, Proceed
    <2> QED
        BY <1>3, <2>1, <2>2, Zenon
<1>7. /\ SvcType' /\ svcRec'.todo = todo /\ svcRec'.cr.deleting = mine.deleting
      /\ svcRec'.cr.last = mine.last
    <2>1. topo' \in [Topologies -> [there : BOOLEAN, deleting : BOOLEAN, fin : BOOLEAN, gen : Nat]]
        BY <1>0, <1>1 DEF SvcType
    <2>2. PICK no \in BOOLEAN : ~no /\ no = FALSE
        BY Zenon
    <2>3. PICK deleting \in BOOLEAN : deleting = mine.deleting
        BY <1>0 DEF SvcType
    <2>4. todo \in {<<>>, <<"patch">>} \cup LiveRests \cup HoldingRests \cup ReleasedRests
        BY <1>2, <1>4
    <2>5. svcRec' = [todo |-> todo,
                     cr |-> [live |-> mine.live, deleting |-> deleting, fin |-> no, ref |-> mine.ref,
                             last |-> mine.last, hash |-> mine.hash],
                     hash |-> svcRec.hash, topo |-> svcRec.topo, again |-> svcRec.again]
        BY <1>6, <2>2, <2>3, Zenon
    <2> HIDE DEF mine
    <2>6. UNCHANGED <<svcKind, cr, svcFaults>>
        BY <1>1
    <2> QED
        BY <1>0, <2>1, <2>3, <2>4, <2>5, <2>6, StepTypes
<1> SUFFICES ASSUME svcFaults = 0 PROVE Holding'
    BY <1>1, <1>7 DEF SvcInv
<1> USE DEF SvcInv, Holding
<1>8. Held' = Held
    BY <1>1 DEF Held
<1>9. mine.deleting
    BY <1>2 DEF CopyFollows
<1>10. DeletingHasFinalizer'
    BY <1>1, Zenon DEF DeletingHasFinalizer
<1>11. CopyFollows'
    BY <1>1, <1>5, <1>7, <1>9 DEF CopyFollows
<1>12. BareHoldsNothing'
    BY <1>1, <1>4 DEF BareHoldsNothing
<1>13. HeldIsRecorded'
    BY <1>1, <1>4, <1>5, <1>7, <1>8 DEF HeldIsRecorded
<1>14. ReleasedBeforeEnsured'
    <2>1. <<"ensure", "workload", "patch">> \in LiveRests
        BY DEF LiveRests
    <2> QED
        BY <1>5, <1>7, <2>1 DEF ReleasedBeforeEnsured
<1>15. ReleasedBeforeGone'
    <2>1. todo \in HoldingRests => todo \notin ReleasedRests \cup {<<"patch">>}
        BY RestOfDeleted
    <2> QED
        BY <1>1, <1>2, <1>4, <1>7, <1>8, <2>1 DEF ReleasedBeforeGone
<1> QED
    BY <1>10, <1>11, <1>12, <1>13, <1>14, <1>15

\* A reconcile begins with a copy of the resource.
LEMMA FetchKeeps ==
  ASSUME SvcInv, SvcFetch
  PROVE  SvcInv'
<1>0. SvcType
    BY DEF SvcInv
<1>1. UNCHANGED <<svcKind, cr, topo, svcFaults>> /\ svcRec.todo = <<>>
    BY DEF SvcFetch
<1>2. Held' = Held
    BY <1>1, Zenon DEF Held
<1>3. topo' \in [Topologies -> [there : BOOLEAN, deleting : BOOLEAN, fin : BOOLEAN, gen : Nat]]
    BY <1>0, <1>1, Zenon DEF SvcType
<1>4. /\ cr = [live |-> cr.live, deleting |-> cr.deleting, fin |-> cr.fin, ref |-> cr.ref,
               last |-> cr.last, hash |-> cr.hash]
      /\ cr.live \in BOOLEAN /\ cr.deleting \in BOOLEAN /\ cr.fin \in BOOLEAN
    BY <1>0 DEF SvcType
<1>5. <<>> \notin LiveRests \cup HoldingRests \cup ReleasedRests \cup {<<"patch">>}
    BY RestOfLive, RestOfDeleted
<1>6. CASE ~cr.live
    <2>1. svcRec' = SvcIdle
        BY <1>6, Zenon DEF SvcFetch
    <2>2. svcRec' = [todo |-> <<>>,
                     cr |-> [live |-> FALSE, deleting |-> FALSE, fin |-> FALSE, ref |-> {}, last |-> {}, hash |-> {}],
                     hash |-> {}, topo |-> {}, again |-> FALSE]
        BY <2>1 DEF SvcIdle, NoCR
    <2>3. SvcType' /\ svcRec'.todo = <<>> /\ svcRec'.cr.deleting = FALSE
        BY <1>0, <1>1, <1>3, <2>2, StepTypes, Zenon
    <2>4. svcFaults = 0 => Holding'
        BY <1>1, <1>2, <1>5, <2>3 DEF SvcInv, Holding, DeletingHasFinalizer, CopyFollows, BareHoldsNothing,
              HeldIsRecorded, ReleasedBeforeEnsured, ReleasedBeforeGone
    <2> QED
        BY <1>1, <2>3, <2>4 DEF SvcInv
<1>7. CASE cr.live
    <2>1. PICK todo \in {<<"patch">>} \cup LiveRests \cup HoldingRests, fin \in BOOLEAN :
             /\ svcRec' = [todo |-> todo,
                           cr |-> [live |-> cr.live, deleting |-> cr.deleting, fin |-> fin, ref |-> cr.ref,
                                   last |-> cr.last, hash |-> cr.hash],
                           hash |-> {}, topo |-> {}, again |-> FALSE]
             /\ \/ cr.deleting /\ todo \in HoldingRests /\ fin = cr.fin
                \/ ~cr.deleting /\ todo = <<"patch">> /\ OwnsFinalizer(svcKind) /\ ~cr.fin /\ fin
                \/ /\ ~cr.deleting /\ todo \in LiveRests /\ fin = cr.fin
                   /\ ~(OwnsFinalizer(svcKind) /\ ~cr.fin)
             /\ todo # <<"ensure", "workload", "patch">>
        <3>1. PICK copy :
                 /\ copy = [SvcIdle EXCEPT !.cr = cr]
                 /\ svcRec' = IF ~cr.live THEN SvcIdle
                              ELSE IF cr.deleting THEN [copy EXCEPT !.todo = DeleteFlow(svcKind)]
                              ELSE IF OwnsFinalizer(svcKind) /\ ~cr.fin
                                   THEN [copy EXCEPT !.cr.fin = TRUE, !.todo = <<"patch">>]
                              ELSE [copy EXCEPT !.todo = Flow(svcKind)]
            BY Zenon DEF SvcFetch
        <3>2. copy = [todo |-> <<>>, cr |-> cr, hash |-> {}, topo |-> {}, again |-> FALSE]
            BY <3>1, Zenon DEF SvcIdle
        <3>3. CASE cr.deleting
            <4>1. svcRec' = [copy EXCEPT !.todo = DeleteFlow(svcKind)]
                BY <1>7, <3>1, <3>3, Zenon
            <4>2. DeleteFlow(svcKind) \in HoldingRests /\ DeleteFlow(svcKind) # <<"ensure", "workload", "patch">>
                BY <1>0, FlowsAreRests DEF SvcType
            <4>3. PICK todo : todo = DeleteFlow(svcKind)
                OBVIOUS
            <4>4. svcRec' = [todo |-> todo, cr |-> cr, hash |-> {}, topo |-> {}, again |-> FALSE]
                BY <3>2, <4>1, <4>3, Zenon
            <4> QED
                BY <1>4, <3>3, <4>2, <4>3, <4>4, Zenon
        <3>4. CASE ~cr.deleting /\ OwnsFinalizer(svcKind) /\ ~cr.fin
            <4>1. svcRec' = [copy EXCEPT !.cr.fin = TRUE, !.todo = <<"patch">>]
                BY <1>7, <3>1, <3>4
            <4>2. <<"patch">> # <<"ensure", "workload", "patch">>
                OBVIOUS
            <4>3. svcRec' = [todo |-> <<"patch">>,
                             cr |-> [live |-> cr.live, deleting |-> cr.deleting, fin |-> TRUE, ref |-> cr.ref,
                                     last |-> cr.last, hash |-> cr.hash],
                             hash |-> {}, topo |-> {}, again |-> FALSE]
                BY <1>4, <3>2, <4>1, Zenon
            <4> QED
                BY <3>4, <4>2, <4>3, Zenon
        <3>5. CASE ~cr.deleting /\ ~(OwnsFinalizer(svcKind) /\ ~cr.fin)
            <4>1. svcRec' = [copy EXCEPT !.todo = Flow(svcKind)]
                BY <1>7, <3>1, <3>5, Zenon
            <4>2. Flow(svcKind) \in LiveRests /\ Flow(svcKind) # <<"ensure", "workload", "patch">>
                BY <1>0, FlowsAreRests, Zenon DEF SvcType
            <4>3. PICK todo : todo = Flow(svcKind)
                OBVIOUS
            <4>4. svcRec' = [todo |-> todo, cr |-> cr, hash |-> {}, topo |-> {}, again |-> FALSE]
                BY <3>2, <4>1, <4>3, Zenon
            <4> QED
                BY <1>4, <3>5, <4>2, <4>3, <4>4, Zenon
        <3> QED
            BY <3>3, <3>4, <3>5
    <2>2. /\ SvcType' /\ svcRec'.todo = todo /\ svcRec'.cr.fin = fin /\ svcRec'.cr.deleting = cr.deleting
          /\ svcRec'.cr.last = cr.last
        BY <1>0, <1>1, <1>3, <1>4, <2>1, StepTypes
    <2> SUFFICES ASSUME svcFaults = 0 PROVE Holding'
        BY <1>1, <2>2, Zenon DEF SvcInv
    <2> USE DEF SvcInv, Holding
    <2>3. /\ todo # <<>>
          /\ todo \in HoldingRests => todo \notin {<<"patch">>} \cup LiveRests \cup ReleasedRests
          /\ todo \in LiveRests => todo \notin {<<"patch">>} \cup HoldingRests \cup ReleasedRests
          /\ todo = <<"patch">> => todo \notin LiveRests \cup HoldingRests \cup ReleasedRests
        BY <1>5, <2>1, RestOfLive, RestOfDeleted
    <2>4. DeletingHasFinalizer'
        BY <1>1, Zenon DEF DeletingHasFinalizer
    <2>5. CopyFollows'
        BY <1>1, <2>1, <2>2, <2>3, Zenon DEF CopyFollows, DeletingHasFinalizer
    <2>6. BareHoldsNothing'
        BY <1>1, <1>2, <2>1, <2>2, Zenon DEF BareHoldsNothing, DeletingHasFinalizer
    <2>7. HeldIsRecorded'
        BY <1>1, <1>2, <2>2, <2>3, Zenon DEF HeldIsRecorded
    <2>8. ReleasedBeforeEnsured'
        BY <2>1, <2>2, Zenon DEF ReleasedBeforeEnsured
    <2>9. ReleasedBeforeGone'
        BY <1>1, <2>1, <2>2, <2>3 DEF ReleasedBeforeGone
    <2> QED
        BY <2>4, <2>5, <2>6, <2>7, <2>8, <2>9, ZenonT(40)
<1> QED
    BY <1>4, <1>6, <1>7

LEMMA IdleTypes ==
  ASSUME svcRec' = SvcIdle
  PROVE  /\ svcRec' = [todo |-> svcRec'.todo, cr |-> svcRec'.cr, hash |-> svcRec'.hash, topo |-> svcRec'.topo,
                       again |-> svcRec'.again]
         /\ svcRec'.cr = [live |-> svcRec'.cr.live, deleting |-> svcRec'.cr.deleting, fin |-> svcRec'.cr.fin,
                          ref |-> svcRec'.cr.ref, last |-> svcRec'.cr.last, hash |-> svcRec'.cr.hash]
         /\ svcRec'.todo = <<>> /\ svcRec'.cr.fin = FALSE /\ svcRec'.cr.deleting = FALSE
<1>1. svcRec' = [todo |-> <<>>,
                 cr |-> [live |-> FALSE, deleting |-> FALSE, fin |-> FALSE, ref |-> {}, last |-> {}, hash |-> {}],
                 hash |-> {}, topo |-> {}, again |-> FALSE]
    BY DEF SvcIdle, NoCR
<1> QED
    BY <1>1

\* The deferred patch writes the copy, and a deleted resource without its
\* finalizer is gone.
LEMMA PatchKeeps ==
  ASSUME SvcInv, PatchCR
  PROVE  SvcInv'
<1>0. SvcType
    BY DEF SvcInv
<1> DEFINE mine == svcRec.cr
           gone == ~cr.live \/ (cr.deleting /\ ~mine.fin)
<1>1. UNCHANGED <<svcKind, topo, svcFaults>> /\ svcRec' = SvcIdle
    BY DEF PatchCR
<1>2. svcRec.todo = <<"patch">>
    BY <1>0, StepOf, Zenon DEF PatchCR
<1>3. /\ cr = [live |-> cr.live, deleting |-> cr.deleting, fin |-> cr.fin, ref |-> cr.ref,
               last |-> cr.last, hash |-> cr.hash]
      /\ cr.live \in BOOLEAN /\ cr.deleting \in BOOLEAN /\ cr.fin \in BOOLEAN
      /\ mine.fin \in BOOLEAN /\ mine.deleting \in BOOLEAN
    BY <1>0 DEF SvcType
<1>4. cr' = IF gone THEN NoCR
            ELSE [live |-> cr.live, deleting |-> cr.deleting, fin |-> mine.fin, ref |-> cr.ref,
                  last |-> mine.last, hash |-> mine.hash]
    <2>1. PICK new : /\ new = [cr EXCEPT !.fin = svcRec.cr.fin, !.last = svcRec.cr.last, !.hash = svcRec.cr.hash]
                     /\ cr' = IF ~cr.live \/ (cr.deleting /\ ~new.fin) THEN NoCR ELSE new
        BY Zenon DEF PatchCR
    <2>2. new = [live |-> cr.live, deleting |-> cr.deleting, fin |-> mine.fin, ref |-> cr.ref,
                 last |-> mine.last, hash |-> mine.hash]
        BY <1>3, <2>1, Zenon
    <2> QED
        BY <2>1, <2>2, Zenon
<1>5. /\ cr' = [live |-> cr'.live, deleting |-> cr'.deleting, fin |-> cr'.fin, ref |-> cr'.ref,
                last |-> cr'.last, hash |-> cr'.hash]
      /\ cr'.live \in BOOLEAN /\ cr'.deleting \in BOOLEAN /\ cr'.fin \in BOOLEAN
      /\ gone => cr'.live = FALSE /\ cr'.deleting = FALSE /\ cr'.fin = FALSE
      /\ ~gone => cr'.live = cr.live /\ cr'.deleting = cr.deleting /\ cr'.fin = mine.fin /\ cr'.last = mine.last
    <2>1. CASE gone
        BY <1>4, <2>1, Zenon DEF NoCR
    <2>2. CASE ~gone
        BY <1>3, <1>4, <2>2, Zenon
    <2> QED
        BY <2>1, <2>2, Zenon
<1>6. SvcType'
    <2>1. svcRec'.cr.fin \in BOOLEAN /\ svcRec'.cr.deleting \in BOOLEAN
        BY <1>1, IdleTypes, Zenon
    <2> QED
        BY <1>0, <1>1, <1>5, <2>1, IdleTypes DEF SvcType
<1> SUFFICES ASSUME svcFaults = 0 PROVE Holding'
    BY <1>1, <1>6 DEF SvcInv
<1> USE DEF SvcInv, Holding
<1>7. Held' = Held
    BY <1>1 DEF Held
<1>8. svcRec'.todo = <<>> /\ ~svcRec'.cr.deleting
    BY <1>1, IdleTypes, Zenon
<1>9. <<>> \notin LiveRests \cup HoldingRests \cup ReleasedRests \cup {<<"patch">>}
    BY RestOfLive, RestOfDeleted
<1>10. OwnsFinalizer(svcKind) /\ ~cr'.fin => Held = {}
    <2> SUFFICES ASSUME OwnsFinalizer(svcKind), ~cr'.fin PROVE Held = {}
        OBVIOUS
    <2>1. CASE ~cr.live
        BY <2>1 DEF DeletingHasFinalizer, BareHoldsNothing
    <2>2. CASE cr.live
        <3>1. ~mine.fin
            BY <1>5, <2>2, Zenon
        <3>2. mine.deleting
            BY <1>2, <3>1 DEF CopyFollows
        <3> QED
            BY <1>2, <3>2 DEF ReleasedBeforeGone
    <2> QED
        BY <2>1, <2>2
<1>11. DeletingHasFinalizer'
    BY <1>3, <1>5 DEF DeletingHasFinalizer
<1>12. CopyFollows'
    BY <1>8, <1>9 DEF CopyFollows
<1>13. BareHoldsNothing'
    BY <1>1, <1>7, <1>8, <1>10 DEF BareHoldsNothing
<1>14. HeldIsRecorded'
    <2>1. CASE gone
        BY <1>1, <1>5, <1>7, <1>8, <1>10, <2>1, Zenon DEF HeldIsRecorded
    <2>2. CASE ~gone
        <3>1. <<"patch">> # <<>>
            OBVIOUS
        <3> QED
            BY <1>1, <1>2, <1>5, <1>7, <1>8, <2>2, <3>1 DEF HeldIsRecorded
    <2> QED
        BY <2>1, <2>2, Zenon
<1>15. ReleasedBeforeEnsured'
    <2>1. <<>> # <<"ensure", "workload", "patch">>
        OBVIOUS
    <2> QED
        BY <1>8, <2>1, Zenon DEF ReleasedBeforeEnsured
<1>16. ReleasedBeforeGone'
    BY <1>8, <1>9 DEF ReleasedBeforeGone
<1> QED
    BY <1>11, <1>12, <1>13, <1>14, <1>15, <1>16

\* A failed call or a crash leaves the reconcile in a state it can be in.
LEMMA FaultKeeps ==
  ASSUME SvcInv, CallFails \/ SvcCrash
  PROVE  SvcInv'
<1>0. SvcType
    BY DEF SvcInv
<1>1. /\ UNCHANGED <<svcKind, cr, topo>>
      /\ svcFaults' = svcFaults + 1
    BY Zenon DEF CallFails, SvcCrash, SvcFault
<1>2. svcFaults' \in Nat /\ svcFaults' # 0
    BY <1>0, <1>1 DEF SvcType
<1>3. SvcType'
    <2>1. CASE CallFails
        <3>1. svcRec' = [svcRec EXCEPT !.todo = <<"patch">>, !.again = TRUE]
            BY <2>1, Zenon DEF CallFails, ReturnEarly
        <3>2. svcRec = [todo |-> svcRec.todo, cr |-> svcRec.cr, hash |-> svcRec.hash, topo |-> svcRec.topo,
                        again |-> svcRec.again]
            BY <1>0 DEF SvcType
        <3>3. svcRec' = [todo |-> <<"patch">>, cr |-> svcRec.cr, hash |-> svcRec.hash, topo |-> svcRec.topo,
                         again |-> TRUE]
            BY <3>1, <3>2, Zenon
        <3>4. /\ svcRec' = [todo |-> svcRec'.todo, cr |-> svcRec'.cr, hash |-> svcRec'.hash, topo |-> svcRec'.topo,
                            again |-> svcRec'.again]
              /\ svcRec'.todo = <<"patch">> /\ svcRec'.cr = svcRec.cr
            BY <3>3, Zenon
        <3> QED
            BY <1>0, <1>1, <1>2, <3>4 DEF SvcType
    <2>2. CASE SvcCrash
        <3>1. svcRec' = SvcIdle
            BY <2>2 DEF SvcCrash
        <3>2. svcRec'.cr.fin \in BOOLEAN /\ svcRec'.cr.deleting \in BOOLEAN
            BY <3>1, IdleTypes, Zenon
        <3> QED
            BY <1>0, <1>1, <1>2, <3>1, <3>2, IdleTypes DEF SvcType
    <2> QED
        BY <2>1, <2>2, Zenon
<1> QED
    BY <1>2, <1>3 DEF SvcInv

LEMMA SvcInvNext == SvcInv /\ [SvcNext]_svcVars => SvcInv'
<1> SUFFICES ASSUME SvcInv, [SvcNext]_svcVars PROVE SvcInv'
    OBVIOUS
<1>1. CASE SvcStep
    BY <1>1, FetchKeeps, QuietStepKeeps, ReleaseKeeps, EnsureKeeps, UnfinalizeKeeps, PatchKeeps DEF SvcStep
<1>2. CASE CallFails \/ SvcCrash
    BY <1>2, FaultKeeps
<1>3. CASE \/ \E ref \in References : EditRef(ref)
           \/ DeleteCR
           \/ \E i \in InputNames : ChangeInput(i)
           \/ \E t \in Topologies : ChangeTopology(t) \/ DeleteTopology(t)
    BY <1>3, UsersKeep, Zenon
<1>4. CASE UNCHANGED svcVars
    BY <1>4, Zenon DEF svcVars, SvcInv, SvcType, Holding, Held, DeletingHasFinalizer, CopyFollows, BareHoldsNothing,
       HeldIsRecorded, ReleasedBeforeEnsured, ReleasedBeforeGone
<1> QED
    BY <1>1, <1>2, <1>3, <1>4 DEF SvcNext

\* For every number of Topologies, references and events: as long as no call
\* fails, between two reconciles a Topology carries the finalizer of a service
\* only while the service records it as its last applied one, and a deleted
\* DNSMasq or InstanceHa leaves none behind (EnsureServiceTopology and the
\* reconcileDelete functions).
THEOREM TopologiesAreReleased == SvcSpec => []TopologyReleased
<1>1. SvcInv => TopologyReleased
    BY DEF SvcInv, Holding, HeldIsRecorded, TopologyReleased, Held
<1> QED
    BY <1>1, SvcInvInit, SvcInvNext, PTL DEF SvcSpec

---------------------------------------------------------------------------
(* RabbitMQAdoption: nothing is lost in a take-over                        *)

Owners == SUBSET {"old", "new"}
AdoptSteps == {"idle", "rbac", "cookie", "user", "config", "headless", "client", "wipe", "fixVCT",
               "sts", "strip", "unfinalize", "delete", "patch"}

AdoptType ==
  /\ resource \in [ResourceNames -> [owners : Owners, made : Nat]]
  /\ claim \in [AllClaims -> [owners : Owners, there : BOOLEAN]]
  /\ adoptRec \in [pc : AdoptSteps, migrate : BOOLEAN,
                   status : [oldCleaned : BOOLEAN, vctCleaned : BOOLEAN]]
  /\ adoptStatus \in [oldCleaned : BOOLEAN, vctCleaned : BOOLEAN]

Taken(r) == resource[r].owners = {"new"}

\* A reconcile that has passed the Secrets has taken them over,
SecretsTaken ==
  /\ adoptRec.pc \notin {"idle", "rbac", "cookie", "patch"} => Taken("cookie")
  /\ adoptRec.pc \notin {"idle", "rbac", "cookie", "user", "patch"} => Taken("user")

\* and one that may let the old object go has stripped the claims.
ClaimsStripped ==
  adoptRec.pc \in {"unfinalize", "delete"} => \A c \in Claims : "old" \notin claim[c].owners

\* The old object outlives the last claim and Secret that it alone owns.
GoneMeansFree ==
  oldCR = "gone" => /\ \A c \in Claims : "old" \notin claim[c].owners
                    /\ \A r \in {"cookie", "user"} : resource[r].owners # {"old"}

\* A Secret that was made has an owner: it is not made twice.
MadeOnce ==
  \A r \in {"cookie", "user"} : resource[r].made <= 1 /\ (resource[r].owners = {} => resource[r].made = 0)

AdoptInv ==
  /\ AdoptType
  /\ SecretsTaken /\ ClaimsStripped /\ GoneMeansFree /\ MadeOnce
  /\ \A c \in Claims : claim[c].there

LEMMA ResourceOrder ==
  /\ Len(Resources) = 7
  /\ Resources[1] = "rbac" /\ Resources[2] = "cookie" /\ Resources[3] = "user" /\ Resources[4] = "config"
  /\ Resources[5] = "headless" /\ Resources[6] = "client" /\ Resources[7] = "sts"
  /\ ResourceNames = {"rbac", "cookie", "user", "config", "headless", "client", "sts"}
<1>1. /\ Len(Resources) = 7
      /\ Resources[1] = "rbac" /\ Resources[2] = "cookie" /\ Resources[3] = "user" /\ Resources[4] = "config"
      /\ Resources[5] = "headless" /\ Resources[6] = "client" /\ Resources[7] = "sts"
    BY DEF Resources
<1>2. 1 .. 7 = {1, 2, 3, 4, 5, 6, 7}
    OBVIOUS
<1>3. ResourceNames = {Resources[k] : k \in {1, 2, 3, 4, 5, 6, 7}}
    BY <1>1, <1>2 DEF ResourceNames
<1> HIDE DEF Resources
<1> QED
    BY <1>1, <1>3

\* What a change of one resource leaves.
LEMMA OwnershipSet ==
  ASSUME AdoptType, NEW r \in ResourceNames, resource' = SetOwnership(r)
  PROVE  /\ resource' \in [ResourceNames -> [owners : Owners, made : Nat]]
         /\ \A q \in ResourceNames \ {r} : resource'[q] = resource[q]
         /\ resource'[r].owners = {"new"} /\ resource'[r].made = resource[r].made
<1>1. resource[r] \in [owners : Owners, made : Nat] /\ {"new"} \in Owners
    BY DEF AdoptType, Owners
<1>2. /\ [resource[r] EXCEPT !.owners = {"new"}] \in [owners : Owners, made : Nat]
      /\ [resource[r] EXCEPT !.owners = {"new"}].owners = {"new"}
      /\ [resource[r] EXCEPT !.owners = {"new"}].made = resource[r].made
    BY <1>1, Zenon
<1>3. resource' = [resource EXCEPT ![r] = [resource[r] EXCEPT !.owners = {"new"}]]
    BY Zenon DEF SetOwnership
<1> QED
    BY <1>2, <1>3 DEF AdoptType

LEMMA ResourceCreated ==
  ASSUME AdoptType, NEW r \in ResourceNames, resource' = Create(r)
  PROVE  /\ resource' \in [ResourceNames -> [owners : Owners, made : Nat]]
         /\ \A q \in ResourceNames \ {r} : resource'[q] = resource[q]
         /\ resource'[r].owners = {"new"} /\ resource'[r].made = resource[r].made + 1
  BY DEF AdoptType, Create, Owners

\* Steps that touch neither the old object nor a claim, and do not prepare its
\* deletion.
LEMMA ResourceStepKeeps ==
  ASSUME AdoptInv, UNCHANGED <<oldCR, claim>>, AdoptType',
         \A r \in {"cookie", "user"} :
            \/ resource'[r] = resource[r]
            \/ /\ resource'[r].owners = {"new"}
               /\ IF resource[r].owners = {} THEN resource'[r].made = resource[r].made + 1
                                             ELSE resource'[r].made = resource[r].made,
         adoptRec'.pc \notin {"unfinalize", "delete"},
         SecretsTaken'
  PROVE  AdoptInv'
<1>1. ClaimsStripped'
    BY Zenon DEF ClaimsStripped
<1>2. GoneMeansFree'
    BY DEF AdoptInv, GoneMeansFree
<1>3. MadeOnce'
    BY DEF AdoptInv, MadeOnce
<1> QED
    BY <1>1, <1>2, <1>3 DEF AdoptInv

LEMMA AdoptInvInit == AdoptInit => AdoptInv
<1> SUFFICES ASSUME AdoptInit PROVE AdoptInv
    OBVIOUS
<1> USE ResourceOrder
<1>1. AdoptType
    BY DEF AdoptInit, AdoptType, Owners, AdoptIdle, AdoptSteps, AllClaims
<1>2. SecretsTaken /\ ClaimsStripped
    BY DEF AdoptInit, SecretsTaken, ClaimsStripped, AdoptIdle
<1>3. PICK adopted \in BOOLEAN :
         /\ oldCR = "gone" => ~adopted
         /\ \A c \in Claims : claim[c].there /\ claim[c].owners = IF adopted THEN {"old"} ELSE {}
         /\ \A r \in ResourceNames :
              resource[r] = IF adopted THEN [owners |-> {"old"}, made |-> 1] ELSE [owners |-> {}, made |-> 0]
    <2>1. PICK adopted \in BOOLEAN :
             /\ oldCR = IF adopted THEN "present" ELSE "gone"
             /\ resource = [r \in ResourceNames |->
                   IF adopted THEN [owners |-> {"old"}, made |-> 1] ELSE [owners |-> {}, made |-> 0]]
             /\ claim = [c \in AllClaims |-> [owners |-> IF adopted /\ c \in Claims THEN {"old"} ELSE {},
                                              there |-> c \in Claims]]
        BY Zenon DEF AdoptInit
    <2>2. \A c \in Claims : claim[c].there /\ claim[c].owners = IF adopted THEN {"old"} ELSE {}
        BY <2>1, Zenon DEF AllClaims
    <2>3. \A r \in ResourceNames :
            resource[r] = IF adopted THEN [owners |-> {"old"}, made |-> 1] ELSE [owners |-> {}, made |-> 0]
        BY <2>1, Zenon
    <2>4. oldCR = "gone" => ~adopted
        BY <2>1, Zenon
    <2> HIDE ResourceOrder
    <2> QED
        BY <2>2, <2>3, <2>4
<1>4. GoneMeansFree
    BY <1>3 DEF GoneMeansFree
<1>5. MadeOnce
    BY <1>3 DEF MadeOnce
<1> QED
    BY <1>1, <1>2, <1>3, <1>4, <1>5, Zenon DEF AdoptInv

LEMMA AdoptEnsureKeeps ==
  ASSUME AdoptInv, EnsureRbac \/ (\E k \in 1 .. Len(Resources) : EnsureResource(k)) \/ EnsureStatefulSet
  PROVE  AdoptInv'
<1>0. AdoptType
    BY DEF AdoptInv
<1>1. CASE EnsureRbac
    <2>1. /\ UNCHANGED <<oldCR, claim, adoptStatus>> /\ resource' \in {resource, Create("rbac")}
          /\ adoptRec.pc = "rbac" /\ adoptRec' = [adoptRec EXCEPT !.pc = "cookie"]
        BY <1>1 DEF EnsureRbac, GoTo
    <2>2. /\ resource' \in [ResourceNames -> [owners : Owners, made : Nat]]
          /\ \A r \in {"cookie", "user"} : resource'[r] = resource[r]
        <3>1. CASE resource' = resource
            BY <1>0, <3>1, Zenon DEF AdoptType
        <3>2. CASE resource' = Create("rbac")
            BY <1>0, <3>2, ResourceCreated, ResourceOrder
        <3> QED
            BY <2>1, <3>1, <3>2
    <2>3. AdoptType' /\ adoptRec'.pc = "cookie"
        BY <1>0, <2>1, <2>2, Zenon DEF AdoptType, AdoptSteps
    <2>4. SecretsTaken'
        BY <2>3 DEF SecretsTaken
    <2> QED
        BY <2>1, <2>2, <2>3, <2>4, ResourceStepKeeps
<1>2. ASSUME NEW k \in 1 .. Len(Resources), EnsureResource(k)
      PROVE  AdoptInv'
    <2>1. k \in {2, 3, 4, 5, 6}
        BY <1>2, ResourceOrder DEF EnsureResource
    <2> DEFINE r == Resources[k]
    <2>2. r \in {"cookie", "user", "config", "headless", "client"} /\ r \in ResourceNames
        BY <2>1, ResourceOrder
    <2>3. PICK next \in AdoptSteps :
             /\ adoptRec' = [adoptRec EXCEPT !.pc = next]
             /\ r = "cookie" => next = "user"
             /\ next \notin {"unfinalize", "delete", "patch", "idle", "rbac", "cookie"}
        <3>1. PICK next : /\ adoptRec' = [adoptRec EXCEPT !.pc = next]
                          /\ next = IF Resources[k + 1] # "sts" THEN Resources[k + 1]
                                    ELSE IF wipeDue THEN "wipe"
                                    ELSE IF adoptRec.migrate /\ ~adoptRec.status.vctCleaned THEN "fixVCT"
                                    ELSE "sts"
            BY <1>2, Zenon DEF EnsureResource, GoTo
        <3>2. CASE k = 2
            BY <3>1, <3>2, ResourceOrder DEF AdoptSteps
        <3>3. CASE k \in {3, 4, 5, 6}
            <4>1. Resources[k + 1] \in {"config", "headless", "client", "sts"} /\ r # "cookie"
                BY <3>3, ResourceOrder
            <4> QED
                BY <3>1, <4>1 DEF AdoptSteps
        <3> QED
            BY <2>1, <3>2, <3>3
    <2>4. UNCHANGED <<oldCR, claim, adoptStatus>> /\ adoptRec.pc = r
        BY <1>2, Zenon DEF EnsureResource
    <2>5. resource' = IF resource[r].owners # {} THEN SetOwnership(r) ELSE Create(r)
        BY <1>2, Zenon DEF EnsureResource, Exists
    <2> HIDE DEF r
    <2>6. /\ resource' \in [ResourceNames -> [owners : Owners, made : Nat]]
          /\ \A q \in ResourceNames \ {r} : resource'[q] = resource[q]
          /\ resource'[r].owners = {"new"}
          /\ IF resource[r].owners = {} THEN resource'[r].made = resource[r].made + 1
                                        ELSE resource'[r].made = resource[r].made
        BY <1>0, <2>2, <2>5, OwnershipSet, ResourceCreated, Zenon
    <2>7. AdoptType' /\ adoptRec'.pc = next
        BY <1>0, <2>3, <2>4, <2>6, Zenon DEF AdoptType
    <2>8. SecretsTaken'
        <3>1. resource'["cookie"].owners = {"new"}
            BY <2>2, <2>4, <2>6, ResourceOrder DEF AdoptInv, SecretsTaken, Taken
        <3>2. next # "user" => resource'["user"].owners = {"new"}
            BY <2>2, <2>3, <2>4, <2>6, ResourceOrder DEF AdoptInv, SecretsTaken, Taken
        <3> QED
            BY <2>7, <3>1, <3>2, Zenon DEF SecretsTaken, Taken
    <2> QED
        BY <2>3, <2>4, <2>6, <2>7, <2>8, ResourceOrder, ResourceStepKeeps, Zenon
<1>3. CASE EnsureStatefulSet
    <2>1. /\ UNCHANGED <<oldCR, claim, adoptStatus>> /\ resource' \in {SetOwnership("sts"), Create("sts")}
          /\ adoptRec.pc = "sts"
        BY <1>3 DEF EnsureStatefulSet
    <2>2. PICK next \in {"strip", "patch"} : adoptRec' = [adoptRec EXCEPT !.pc = next]
        BY <1>3, Zenon DEF EnsureStatefulSet, GoTo
    <2>3. /\ resource' \in [ResourceNames -> [owners : Owners, made : Nat]]
          /\ \A r \in {"cookie", "user"} : resource'[r] = resource[r]
        BY <1>0, <2>1, ResourceCreated, OwnershipSet, ResourceOrder
    <2>4. AdoptType' /\ adoptRec'.pc = next
        BY <1>0, <2>1, <2>2, <2>3, Zenon DEF AdoptType, AdoptSteps
    <2>5. SecretsTaken'
        BY <2>1, <2>3 DEF AdoptInv, SecretsTaken, Taken
    <2> QED
        BY <2>1, <2>3, <2>4, <2>5, ResourceStepKeeps, Zenon
<1> QED
    BY <1>1, <1>2, <1>3

LEMMA ReconcileKeeps ==
  ASSUME AdoptInv, DetectMigration \/ WipeStatefulSet \/ PatchAdoptStatus \/ AdoptCrash
  PROVE  AdoptInv'
<1>0. AdoptType
    BY DEF AdoptInv
<1>1. AdoptIdle \in [pc : AdoptSteps, migrate : BOOLEAN,
                     status : [oldCleaned : BOOLEAN, vctCleaned : BOOLEAN]] /\ AdoptIdle.pc = "idle"
    BY Zenon DEF AdoptIdle, AdoptSteps
<1>2. CASE DetectMigration
    <2>1. /\ UNCHANGED <<oldCR, claim, adoptStatus, resource>> /\ adoptRec'.pc = "rbac"
          /\ adoptRec' \in [pc : AdoptSteps, migrate : BOOLEAN,
                            status : [oldCleaned : BOOLEAN, vctCleaned : BOOLEAN]]
        <3>1. PICK migrate \in BOOLEAN :
                adoptRec' = [pc |-> "rbac", migrate |-> migrate,
                             status |-> [adoptStatus EXCEPT !.oldCleaned = ~migrate]]
            <4>1. (~adoptStatus.oldCleaned /\ oldCR # "gone") \in BOOLEAN
                OBVIOUS
            <4> QED
                BY <1>2, <4>1, Zenon DEF DetectMigration
        <3>2. adoptStatus \in [oldCleaned : BOOLEAN, vctCleaned : BOOLEAN] /\ (~migrate) \in BOOLEAN
            BY <1>0 DEF AdoptType
        <3>3. [adoptStatus EXCEPT !.oldCleaned = ~migrate] \in [oldCleaned : BOOLEAN, vctCleaned : BOOLEAN]
            BY <3>2, Zenon
        <3> QED
            BY <1>2, <3>1, <3>3 DEF DetectMigration, AdoptSteps
    <2>2. AdoptType'
        BY <1>0, <2>1 DEF AdoptType
    <2>3. SecretsTaken'
        BY <2>1 DEF SecretsTaken
    <2> QED
        BY <2>1, <2>2, <2>3, ResourceStepKeeps
<1>3. CASE WipeStatefulSet
    <2>1. /\ UNCHANGED <<oldCR, claim>> /\ adoptRec' = AdoptIdle /\ adoptStatus' = adoptRec.status
          /\ resource' = [resource EXCEPT !["sts"].owners = {}]
        BY <1>3 DEF WipeStatefulSet
    <2>2. /\ resource' \in [ResourceNames -> [owners : Owners, made : Nat]]
          /\ \A r \in {"cookie", "user"} : resource'[r] = resource[r]
        BY <1>0, <2>1, ResourceOrder DEF AdoptType, Owners
    <2>3. AdoptType'
        BY <1>0, <1>1, <2>1, <2>2 DEF AdoptType
    <2>4. SecretsTaken'
        BY <1>1, <2>1 DEF SecretsTaken
    <2> QED
        BY <1>1, <2>1, <2>2, <2>3, <2>4, ResourceStepKeeps
<1>4. CASE PatchAdoptStatus \/ AdoptCrash
    <2>1. /\ UNCHANGED <<oldCR, claim, resource>> /\ adoptRec' = AdoptIdle
          /\ adoptStatus' \in {adoptStatus, adoptRec.status}
        BY <1>4 DEF PatchAdoptStatus, AdoptCrash
    <2>2. AdoptType'
        BY <1>0, <1>1, <2>1 DEF AdoptType
    <2>3. SecretsTaken'
        BY <1>1, <2>1 DEF SecretsTaken
    <2> QED
        BY <1>1, <2>1, <2>2, <2>3, ResourceStepKeeps, Zenon
<1> QED
    BY <1>2, <1>3, <1>4

LEMMA ClaimStripped ==
  ASSUME NEW x \in [owners : Owners, there : BOOLEAN]
  PROVE  /\ [x EXCEPT !.owners = @ \ {"old"}] \in [owners : Owners, there : BOOLEAN]
         /\ [x EXCEPT !.owners = @ \ {"old"}].owners = x.owners \ {"old"}
         /\ [x EXCEPT !.owners = @ \ {"old"}].there = x.there
<1>1. x.owners \ {"old"} \in Owners
    BY Zenon DEF Owners
<1> QED
    BY <1>1, Zenon

\* Steps that strip claims, all of them before the finalizers go.
LEMMA StrippingKeeps ==
  ASSUME AdoptInv, FixStaleVCTOwnerRefs \/ StripClaims \/ AdoptError
  PROVE  AdoptInv'
<1>0. AdoptType
    BY DEF AdoptInv
<1>1. /\ claim' = [c \in AllClaims |-> claim'[c]]
      /\ \A c \in AllClaims : \/ claim'[c] = claim[c] /\ ~StripClaims
                              \/ claim'[c] = [claim[c] EXCEPT !.owners = @ \ {"old"}]
    <2>1. CASE FixStaleVCTOwnerRefs /\ ~StripClaims
        BY <2>1 DEF FixStaleVCTOwnerRefs
    <2>2. CASE StripClaims
        BY <2>2 DEF StripClaims
    <2>3. CASE AdoptError /\ ~StripClaims
        BY <2>3 DEF AdoptError
    <2> QED
        BY <2>1, <2>2, <2>3
<1>2. /\ claim' \in [AllClaims -> [owners : Owners, there : BOOLEAN]]
      /\ \A c \in AllClaims : /\ claim'[c].there = claim[c].there
                              /\ claim'[c].owners \subseteq claim[c].owners
                              /\ StripClaims => "old" \notin claim'[c].owners
    <2>1. ASSUME NEW c \in AllClaims
          PROVE  /\ claim'[c] \in [owners : Owners, there : BOOLEAN]
                 /\ claim'[c].there = claim[c].there
                 /\ claim'[c].owners \subseteq claim[c].owners
                 /\ StripClaims => "old" \notin claim'[c].owners
        <3>1. PICK x : x = claim[c]
            OBVIOUS
        <3>2. x \in [owners : Owners, there : BOOLEAN]
            BY <1>0, <3>1 DEF AdoptType
        <3>3. CASE claim'[c] = x /\ ~StripClaims
            BY <3>1, <3>2, <3>3
        <3>4. CASE claim'[c] = [x EXCEPT !.owners = @ \ {"old"}]
            <4>1. PICK y : y = [x EXCEPT !.owners = @ \ {"old"}]
                BY Zenon
            <4>2. /\ y \in [owners : Owners, there : BOOLEAN]
                  /\ y.owners = x.owners \ {"old"} /\ y.there = x.there
                BY <3>2, <4>1, ClaimStripped
            <4> QED
                BY <3>1, <3>4, <4>1, <4>2
        <3> QED
            BY <1>1, <3>1, <3>3, <3>4
    <2> QED
        BY <1>1, <2>1
<1>3. UNCHANGED <<oldCR, resource>>
    BY DEF FixStaleVCTOwnerRefs, StripClaims, AdoptError
<1>4. /\ adoptRec' \in [pc : AdoptSteps, migrate : BOOLEAN,
                        status : [oldCleaned : BOOLEAN, vctCleaned : BOOLEAN]]
      /\ adoptStatus' \in [oldCleaned : BOOLEAN, vctCleaned : BOOLEAN]
      /\ \/ adoptRec'.pc = "idle"
         \/ adoptRec'.pc = "sts" /\ adoptRec.pc = "fixVCT"
         \/ adoptRec'.pc = "unfinalize" /\ adoptRec.pc = "strip" /\ StripClaims
    <2>1. CASE FixStaleVCTOwnerRefs
        <3>1. adoptRec.status \in [oldCleaned : BOOLEAN, vctCleaned : BOOLEAN] /\ "sts" \in AdoptSteps
            BY <1>0 DEF AdoptType, AdoptSteps
        <3>2. PICK st : st = [adoptRec.status EXCEPT !.vctCleaned = TRUE]
            BY Zenon
        <3>3. st \in [oldCleaned : BOOLEAN, vctCleaned : BOOLEAN]
            BY <3>1, <3>2, Zenon
        <3>4. adoptRec' = [[adoptRec EXCEPT !.pc = "sts"] EXCEPT !.status = st]
            BY <2>1, <3>2, Zenon DEF FixStaleVCTOwnerRefs
        <3>5. PICK x : x = [adoptRec EXCEPT !.pc = "sts"]
            BY Zenon
        <3>6. /\ x \in [pc : AdoptSteps, migrate : BOOLEAN,
                        status : [oldCleaned : BOOLEAN, vctCleaned : BOOLEAN]] /\ x.pc = "sts"
            BY <1>0, <3>1, <3>5, Zenon DEF AdoptType
        <3>7. /\ [x EXCEPT !.status = st] \in [pc : AdoptSteps, migrate : BOOLEAN,
                        status : [oldCleaned : BOOLEAN, vctCleaned : BOOLEAN]]
              /\ [x EXCEPT !.status = st].pc = "sts"
            BY <3>3, <3>6, Zenon
        <3> QED
            BY <1>0, <2>1, <3>4, <3>5, <3>7 DEF FixStaleVCTOwnerRefs, AdoptType
    <2>2. CASE StripClaims
        BY <1>0, <2>2, Zenon DEF StripClaims, GoTo, AdoptType, AdoptSteps
    <2>3. CASE AdoptError
        BY <1>0, <2>3 DEF AdoptError, AdoptIdle, AdoptType, AdoptSteps
    <2> QED
        BY <2>1, <2>2, <2>3
<1>5. AdoptType'
    BY <1>0, <1>2, <1>3, <1>4, Zenon DEF AdoptType
<1>6. SecretsTaken'
    BY <1>3, <1>4, Zenon DEF AdoptInv, SecretsTaken, Taken
<1>7. ClaimsStripped'
    BY <1>2, <1>4, Zenon DEF ClaimsStripped, AllClaims
<1>8. GoneMeansFree'
    BY <1>2, <1>3, Zenon DEF AdoptInv, GoneMeansFree, AllClaims
<1>9. MadeOnce' /\ \A c \in Claims : claim'[c].there
    BY <1>2, <1>3, Zenon DEF AdoptInv, MadeOnce, AllClaims
<1> QED
    BY <1>5, <1>6, <1>7, <1>8, <1>9 DEF AdoptInv

\* The old object goes when nothing depends on it any more.
LEMMA OldGoesKeeps ==
  ASSUME AdoptInv, RemoveOldFinalizers \/ DeleteOld \/ DeleteOldCR
  PROVE  AdoptInv'
<1>0. AdoptType
    BY DEF AdoptInv
<1>1. UNCHANGED <<resource, claim, adoptStatus>>
    BY DEF RemoveOldFinalizers, DeleteOld, DeleteOldCR
<1>2. \/ adoptRec' = adoptRec /\ oldCR' # "gone"
      \/ /\ adoptRec.pc \in {"unfinalize", "delete"}
         /\ adoptRec' \in [pc : AdoptSteps, migrate : BOOLEAN,
                           status : [oldCleaned : BOOLEAN, vctCleaned : BOOLEAN]]
         /\ adoptRec'.pc \in {"delete", "patch"}
    <2>1. CASE RemoveOldFinalizers
        BY <1>0, <2>1 DEF RemoveOldFinalizers, GoTo, AdoptType, AdoptSteps
    <2>2. CASE DeleteOld
        <3>1. adoptRec.status \in [oldCleaned : BOOLEAN, vctCleaned : BOOLEAN] /\ "patch" \in AdoptSteps
            BY <1>0 DEF AdoptType, AdoptSteps
        <3>2. PICK st : st = [adoptRec.status EXCEPT !.oldCleaned = TRUE]
            BY Zenon
        <3>3. st \in [oldCleaned : BOOLEAN, vctCleaned : BOOLEAN]
            BY <3>1, <3>2, Zenon
        <3>4. adoptRec' = [[adoptRec EXCEPT !.pc = "patch"] EXCEPT !.status = st]
            BY <2>2, <3>2, Zenon DEF DeleteOld
        <3>5. PICK x : x = [adoptRec EXCEPT !.pc = "patch"]
            BY Zenon
        <3>6. /\ x \in [pc : AdoptSteps, migrate : BOOLEAN,
                        status : [oldCleaned : BOOLEAN, vctCleaned : BOOLEAN]] /\ x.pc = "patch"
            BY <1>0, <3>1, <3>5, Zenon DEF AdoptType
        <3>7. /\ [x EXCEPT !.status = st] \in [pc : AdoptSteps, migrate : BOOLEAN,
                        status : [oldCleaned : BOOLEAN, vctCleaned : BOOLEAN]]
              /\ [x EXCEPT !.status = st].pc = "patch"
            BY <3>3, <3>6, Zenon
        <3> QED
            BY <2>2, <3>4, <3>5, <3>7 DEF DeleteOld
    <2>3. CASE DeleteOldCR
        BY <2>3 DEF DeleteOldCR
    <2> QED
        BY <2>1, <2>2, <2>3
<1>3. AdoptType'
    BY <1>0, <1>1, <1>2, Zenon DEF AdoptType
<1>4. SecretsTaken' /\ ClaimsStripped'
    BY <1>1, <1>2, Zenon DEF AdoptInv, SecretsTaken, ClaimsStripped, Taken
<1>5. GoneMeansFree'
    BY <1>1, <1>2, Zenon DEF AdoptInv, GoneMeansFree, ClaimsStripped, SecretsTaken, Taken
<1>6. MadeOnce' /\ \A c \in Claims : claim'[c].there
    BY <1>1, Zenon DEF AdoptInv, MadeOnce
<1> QED
    BY <1>3, <1>4, <1>5, <1>6 DEF AdoptInv

LEMMA ReplicaKeeps ==
  ASSUME AdoptInv, NEW c \in LateClaims, AddReplica(c)
  PROVE  AdoptInv'
<1> USE DEF AdoptInv
<1>1. /\ UNCHANGED <<resource, adoptStatus, oldCR, adoptRec>> /\ ~claim[c].there
      /\ claim' = [claim EXCEPT ![c] = [owners |-> IF staleVCT THEN {"old"} ELSE {}, there |-> TRUE]]
    BY Zenon DEF AddReplica
<1>2. c \notin Claims /\ \A d \in Claims : claim'[d] = claim[d]
    BY <1>1 DEF AdoptType, AllClaims
<1>3. AdoptType'
    BY <1>1, Zenon DEF AdoptType, Owners
<1> QED
    BY <1>1, <1>2, <1>3, Zenon DEF SecretsTaken, ClaimsStripped, GoneMeansFree, MadeOnce, Taken

\* The garbage collector finds neither a claim nor a Secret.
LEMMA CollectKeeps ==
  ASSUME AdoptInv, CollectGarbage
  PROVE  AdoptInv'
<1> USE DEF AdoptInv
<1>1. UNCHANGED <<adoptStatus, oldCR, adoptRec>>
    BY DEF CollectGarbage
<1>2. \A r \in ResourceNames : resource'[r] =
        IF Orphan(resource[r].owners) THEN [resource[r] EXCEPT !.owners = {}] ELSE resource[r]
    BY DEF CollectGarbage
<1>3. \A c \in AllClaims : claim'[c] = IF Orphan(claim[c].owners) THEN [owners |-> {}, there |-> FALSE] ELSE claim[c]
    BY Zenon DEF CollectGarbage
<1>4. \A c \in Claims : claim'[c] = claim[c]
    BY <1>3 DEF Orphan, GoneMeansFree, AllClaims
<1>5. \A r \in {"cookie", "user"} : resource'[r] = resource[r]
    BY <1>2, ResourceOrder DEF Orphan, GoneMeansFree
<1>6. AdoptType'
    <2>1. resource' \in [ResourceNames -> [owners : Owners, made : Nat]]
        <3>1. \A r \in ResourceNames : resource'[r] \in [owners : Owners, made : Nat]
            <4> SUFFICES ASSUME NEW r \in ResourceNames
                         PROVE  resource'[r] \in [owners : Owners, made : Nat]
                OBVIOUS
            <4>1. resource[r] \in [owners : Owners, made : Nat] /\ {} \in Owners
                BY DEF AdoptType, Owners
            <4>2. [resource[r] EXCEPT !.owners = {}] \in [owners : Owners, made : Nat]
                BY <4>1, Zenon
            <4> QED
                BY <1>2, <4>1, <4>2, Zenon
        <3>2. resource' = [r \in ResourceNames |-> resource'[r]]
            BY DEF CollectGarbage
        <3> QED
            BY <3>1, <3>2, Zenon
    <2>2. claim' \in [AllClaims -> [owners : Owners, there : BOOLEAN]]
        BY DEF AdoptType, Owners, CollectGarbage
    <2> QED
        BY <1>1, <2>1, <2>2 DEF AdoptType
<1> QED
    BY <1>1, <1>4, <1>5, <1>6 DEF SecretsTaken, ClaimsStripped, GoneMeansFree, MadeOnce, Taken

LEMMA AdoptInvNext == AdoptInv /\ [AdoptNext]_adoptVars => AdoptInv'
<1> SUFFICES ASSUME AdoptInv, [AdoptNext]_adoptVars PROVE AdoptInv'
    OBVIOUS
<1>1. CASE UNCHANGED adoptVars
    BY <1>1 DEF adoptVars, AdoptInv, AdoptType, SecretsTaken, ClaimsStripped, GoneMeansFree, MadeOnce, Taken
<1>2. CASE AdoptNext
    BY <1>2, AdoptEnsureKeeps, ReconcileKeeps, StrippingKeeps, OldGoesKeeps, ReplicaKeeps, CollectKeeps
       DEF AdoptNext, AdoptStep
<1> QED
    BY <1>1, <1>2, Zenon

\* The take-over keeps the volume claims, the Erlang cookie and the default user's
\* password, wherever a reconcile stops: cleanupOldRabbitmqClusterCR, which lets
\* the old object go, runs after every adoption and strips every claim or fails.
THEOREM TakeOverKeepsData == AdoptSpec => []AdoptionKeepsData
<1>1. AdoptInv => AdoptionKeepsData
    BY ResourceOrder DEF AdoptInv, AdoptType, GoneMeansFree, MadeOnce, AdoptionKeepsData, Orphan
<1> QED
    BY AdoptInvInit, AdoptInvNext, <1>1, PTL DEF AdoptSpec
===============================================================================
