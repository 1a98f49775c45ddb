---------------------------- MODULE TransportURL ----------------------------
(***************************************************************************)
(* The TransportURL controller and its rotation of credentials, composed   *)
(* with the user and vhost controllers of RabbitMQAccess, with the service *)
(* that consumes a transport secret and with the dataplane nodes that are  *)
(* deployed from the service's configuration.                              *)
(*                                                                         *)
(* A reconcile reads the object once, works on a copy (rec.loc) and stores *)
(* the copy's status with a deferred patch on every return, errors         *)
(* included; a crash of the operator loses the copy.  The transport secret *)
(* is the mutable Secret (BaseSecret) or, since a rotation, an immutable   *)
(* one named after its content.                                            *)
(***************************************************************************)
EXTENDS RabbitMQAccess

CONSTANTS
    Admin,               \* no user name in the spec: the cluster's admin user
    FirstCred,           \* the credential each settled TransportURL starts with
    BaseSecret,          \* name of the mutable secret
    NewTransportURLs,    \* TransportURLs created during the behaviour
    MaxEdits,            \* edits of a spec
    MaxHosts,            \* changes of the broker's host list
    MaxDisturbances,     \* such changes, crashes and failed calls together
    Wanted,              \* the specs each TransportURL may be given
    EditWhen             \* "settled", "visible" or "any": see Edit

VARIABLES
    tu,        \* TransportURL objects
    secrets,   \* their transport secrets
    rec,       \* the reconcile in progress
    svc,       \* per TransportURL: content the service runs with, secrets it holds
    node,      \* per TransportURL: content deployed to the nodes
    hosts,     \* version of the host list that goes into a transport URL
    edits,
    faults

turlVars == <<tu, secrets, rec, svc, node, hosts, edits, faults>>
vars == <<accessVars, turlVars>>

Specs == Creds \cup {Admin}
Settled0 == TransportURLs \ NewTransportURLs

UserRef(c) == IF c = Admin THEN None ELSE c
VhostName(c) == IF c = Admin THEN DefaultVhost ELSE VhostOf[c]
VhostRef(c) == IF VhostName(c) = DefaultVhost THEN None ELSE VhostName(c)

\* A transport URL: credential, password and hosts.
Content(c) == <<c, IF c = Admin THEN 0 ELSE userSecrets[c], hosts>>

Status(o) == [user |-> o.user, vhost |-> o.vhost, secret |-> o.secret,
              hash |-> o.hash, prevUser |-> o.prevUser, prevSecret |-> o.prevSecret]

NoStatus == [user |-> None, vhost |-> None, secret |-> None, hash |-> None,
             prevUser |-> None, prevSecret |-> None]

Object(st, spec, fin, status) ==
    [st |-> st, spec |-> spec, fin |-> fin, user |-> status.user, vhost |-> status.vhost,
     secret |-> status.secret, hash |-> status.hash,
     prevUser |-> status.prevUser, prevSecret |-> status.prevSecret]

Idle == [pc |-> "idle", t |-> None, spec |-> None, loc |-> NoStatus]

\* The settled TransportURLs use their first credential, everything below it is
\* in place, and their services and nodes run with it.
Init ==
    LET Used == {FirstCred[t] : t \in Settled0} \ {Admin}
        Url(c) == <<c, IF c = Admin THEN 0 ELSE 1, 0>>
        Claims(c) == {t \in Settled0 : FirstCred[t] = c}
        ClaimsVhost(v) == {t \in Settled0 : VhostName(FirstCred[t]) = v}
        UsersOn(v) == {UserOf[c] : c \in {d \in Used : VhostOf[d] = v}}
    IN
    /\ users = [c \in Creds |-> IF c \in Used
                  THEN [st |-> "live", fin |-> TRUE, consumers |-> Claims(c),
                        orphaned |-> FALSE, secretName |-> TRUE, vhost |-> TRUE]
                  ELSE NoUser]
    /\ userSecrets = [c \in Creds |-> IF c \in Used THEN 1 ELSE 0]
    /\ passwords = userSecrets
    /\ vhosts = [v \in Vhosts |-> IF ClaimsVhost(v) # {}
                  THEN [st |-> "live", fin |-> TRUE, consumers |-> ClaimsVhost(v),
                        users |-> UsersOn(v)]
                  ELSE NoVhost]
    /\ broker = [users |-> [u \in Usernames |->
                              IF \E c \in Used : UserOf[c] = u
                              THEN <<CHOOSE c \in Used : UserOf[c] = u, 1>> ELSE None],
                 perms |-> {<<UserOf[c], VhostOf[c]>> : c \in Used},
                 vhosts |-> {VhostOf[c] : c \in Used} \ {DefaultVhost}]
    /\ doomedUser = None /\ doomedVhost = None /\ cluster = "ready"
    /\ tu = [t \in TransportURLs |->
               IF t \in Settled0
               THEN Object("live", FirstCred[t], TRUE,
                           [NoStatus EXCEPT !.user = UserRef(FirstCred[t]),
                                            !.vhost = VhostName(FirstCred[t]),
                                            !.secret = BaseSecret,
                                            !.hash = Url(FirstCred[t])])
               ELSE Object("absent", Admin, FALSE, NoStatus)]
    /\ secrets = [t \in TransportURLs |->
                    [base |-> IF t \in Settled0 THEN Url(FirstCred[t]) ELSE None, immutable |-> {}]]
    /\ svc = [t \in TransportURLs |->
                [runs |-> IF t \in Settled0 THEN Url(FirstCred[t]) ELSE None,
                 holds |-> IF t \in Settled0 THEN {BaseSecret} ELSE {}]]
    /\ node = [t \in TransportURLs |-> IF t \in Settled0 THEN Url(FirstCred[t]) ELSE None]
    /\ rec = Idle
    /\ hosts = 0 /\ edits = 0 /\ faults = 0

-----------------------------------------------------------------------------
(* Shared steps of the controller *)

\* The next statement, with the copy as it is or changed; return runs the
\* deferred patch.
Goto(pc) == rec' = [rec EXCEPT !.pc = pc]
GotoWith(pc, loc) == rec' = [rec EXCEPT !.pc = pc, !.loc = loc]

\* A plausible slip: the finalizer goes and the label is forgotten.
UnclaimedUnlabelled(u, t) ==
    IF u.st = "absent" THEN u ELSE Collected([u EXCEPT !.consumers = @ \ {t}])

\* releaseUserFinalizer: the user without consumer t, orphaned when it was the last.
Unclaimed(u, t) ==
    LET left == u.consumers \ {t} IN
    IF u.st = "absent" THEN u
    ELSE Collected([u EXCEPT !.consumers = left,
                             !.orphaned = @ \/ (u.st = "live" /\ left = {})])

\* A plausible slip: the name of the mutable secret instead of the previous one.
CleanedBase(s, name) == [s EXCEPT !.base = None]

\* cleanupOldTransportSecret
Cleaned(s, name) ==
    CASE name = None -> s
      [] name = BaseSecret -> [s EXCEPT !.base = None]
      [] OTHER -> [s EXCEPT !.immutable = @ \ {name}]

SecretExists(s, name) == IF name = BaseSecret THEN s.base # None ELSE name \in s.immutable

\* createImmutableTransportSecret, createTransportURLSecret
WithImmutable(s, url) == [s EXCEPT !.immutable = @ \cup {url}]
WithBase(s, url) == [s EXCEPT !.base = url]

\* removeFinalizerFromCR
VhostWithout(v, t) == CollectedVhost([v EXCEPT !.consumers = @ \ {t}])

\* hasTransportConsumerFinalizer
HeldByConsumer(t, name) == name # None /\ name \in svc[t].holds

\* edpm.AreSecretHashesInSync: the nodes run with the configuration the
\* services generate.
NodesInSync == \A t \in TransportURLs : tu[t].st = "live" => node[t] = svc[t].runs

OthersIdle == UNCHANGED <<svc, node, hosts, edits, faults>>

-----------------------------------------------------------------------------
(* Reconcile *)

\* Conditions are initialised and the finalizer is added, each in a reconcile
\* of its own.
Register(t) ==
    /\ rec.pc = "idle"
    /\ tu[t].st = "live" /\ ~tu[t].fin
    /\ tu' = [tu EXCEPT ![t].fin = TRUE]
    /\ UNCHANGED <<accessVars, secrets, rec>> /\ OthersIdle

\* A reconcile would find everything in place and change nothing; leaving it out
\* removes no behaviour.
NothingToDo(t) ==
    LET o == tu[t] IN
    /\ o.st = "live" /\ o.user = UserRef(o.spec)
    /\ o.prevUser = None /\ o.prevSecret = None
    /\ o.hash = Content(o.spec) /\ secrets[t].base = o.hash
    /\ o.spec # Admin => t \in users[o.spec].consumers /\ ~users[o.spec].orphaned
    /\ VhostRef(o.spec) # None => t \in vhosts[VhostRef(o.spec)].consumers

Start(t) ==
    /\ rec.pc = "idle"
    /\ tu[t].fin /\ ~NothingToDo(t)
    /\ tu[t].st = "live" => cluster = "ready"
    /\ rec' = [pc |-> IF tu[t].st = "live" THEN "vhost" ELSE "deletePending",
               t |-> t, spec |-> tu[t].spec, loc |-> Status(tu[t])]
    /\ UNCHANGED <<accessVars, tu, secrets>> /\ OthersIdle

\* A finalizer cannot be added to a vhost that is being deleted: an error.
EnsureVhost ==
    /\ rec.pc = "vhost"
    /\ LET v == VhostRef(rec.spec) IN
       IF v = None
       THEN Goto("user") /\ UNCHANGED vhosts
       ELSE IF vhosts[v].st = "deleting" /\ rec.t \notin vhosts[v].consumers
       THEN Goto("return") /\ UNCHANGED vhosts
       ELSE /\ vhosts' = [vhosts EXCEPT ![v].st = IF @ = "absent" THEN "live" ELSE @,
                                        ![v].consumers = @ \cup {rec.t}]
            /\ Goto("user")
    /\ UNCHANGED <<users, userSecrets, passwords, broker, doomedUser, doomedVhost, cluster,
                   tu, secrets>> /\ OthersIdle

\* A rotation: the status names another user than the spec.
Rotates(loc) == loc.user # None /\ loc.user # UserRef(rec.spec)

\* A second one before the first is over.
Forced(loc) == Rotates(loc) /\ loc.prevUser # None /\ loc.prevUser # loc.user

\* The vhost of the status is not the one of the spec.
LeavesVhost(loc) == loc.vhost \notin {None, DefaultVhost, VhostRef(rec.spec)}

AfterRotation(loc) == IF LeavesVhost(loc) THEN "oldVhost" ELSE "secret"

AfterUser(loc) == IF Rotates(loc) THEN "rotate" ELSE AfterRotation(loc)

\* The webhook refuses a user whose vhost does not exist.
UserAdmitted(c) == VhostRef(c) # None => vhosts[VhostRef(c)].st # "absent"

EnsureUser ==
    /\ rec.pc = "user"
    /\ LET c == rec.spec
           refused == \/ users[c].st = "deleting" /\ rec.t \notin users[c].consumers
                      \/ users[c].st = "absent" /\ ~UserAdmitted(c)
       IN IF c = Admin
          THEN Goto(AfterUser(rec.loc)) /\ UNCHANGED users
          ELSE IF refused
          THEN Goto("return") /\ UNCHANGED users
          ELSE /\ users' = [users EXCEPT ![c].st = IF @ = "absent" THEN "live" ELSE @,
                                         ![c].consumers = @ \cup {rec.t},
                                         ![c].orphaned = FALSE]
               /\ Goto(AfterUser(rec.loc))
    /\ UNCHANGED <<userSecrets, passwords, vhosts, broker, doomedUser, doomedVhost, cluster,
                   tu, secrets>> /\ OthersIdle

DetectRotation ==
    /\ rec.pc = "rotate"
    /\ LET loc == rec.loc IN
       IF Forced(loc)
       THEN /\ users' = [users EXCEPT ![loc.prevUser] = Unclaimed(@, rec.t)]
            /\ secrets' = [secrets EXCEPT ![rec.t] = Cleaned(@, loc.prevSecret)]
            /\ GotoWith(AfterRotation(loc), [loc EXCEPT !.prevUser = loc.user, !.prevSecret = None])
       ELSE /\ GotoWith(AfterRotation(loc), [loc EXCEPT !.prevUser = loc.user])
            /\ UNCHANGED <<users, secrets>>
    /\ UNCHANGED <<userSecrets, passwords, vhosts, broker, doomedUser, doomedVhost, cluster, tu>>
    /\ OthersIdle

ReleaseOldVhost ==
    /\ rec.pc = "oldVhost"
    /\ vhosts' = [vhosts EXCEPT ![rec.loc.vhost] = VhostWithout(@, rec.t)]
    /\ Goto("orphanedVhost")
    /\ UNCHANGED <<users, userSecrets, passwords, broker, doomedUser, doomedVhost, cluster,
                   tu, secrets>> /\ OthersIdle

\* deleteOrphanedCR; the old user still holds the vhost, so that it is the user
\* controller which deletes it in the end.
DeleteOrphanedVhost ==
    /\ rec.pc = "orphanedVhost"
    /\ vhosts' = IF VhostUnclaimed(rec.loc.vhost)
                 THEN [vhosts EXCEPT ![rec.loc.vhost] = CollectedVhost(Deleted(@))]
                 ELSE vhosts
    /\ Goto("secret")
    /\ UNCHANGED <<users, userSecrets, passwords, broker, doomedUser, doomedVhost, cluster,
                   tu, secrets>> /\ OthersIdle

\* The user is waited for: its secret, and for a vhost of its own its permissions.
UserIsReady(c) ==
    c # Admin => /\ users[c].secretName
                 /\ VhostRef(c) # None => users[c].vhost
                 /\ userSecrets[c] # 0

InRotation(loc) == loc.prevUser # None /\ loc.prevSecret = None

\* The mutable secret is the current one unless the rotation left an immutable
\* secret with the same content.
FlipsToBase(loc, url) ==
    loc.secret \in {None, BaseSecret} \/ loc.hash # url

Finished(loc) ==
    GotoWith(IF loc.prevUser # None \/ loc.prevSecret # None THEN "release" ELSE "return", loc)

CreateSecret ==
    /\ rec.pc = "secret"
    /\ LET c == rec.spec
           t == rec.t
           loc == rec.loc
           url == Content(c)
           done == [loc EXCEPT !.user = UserRef(c), !.vhost = VhostName(c)]
       IN IF ~UserIsReady(c)
          THEN Goto("return") /\ UNCHANGED secrets
          ELSE IF InRotation(loc)
          THEN /\ secrets' = [secrets EXCEPT ![t] = WithImmutable(@, url)]
               /\ Finished([done EXCEPT !.prevSecret = loc.secret, !.secret = url, !.hash = url])
          ELSE IF loc.prevSecret # None
          THEN Finished(done) /\ UNCHANGED secrets
          ELSE IF secrets[t].base # url
          THEN secrets' = [secrets EXCEPT ![t] = WithBase(@, url)] /\ Goto("return")
          ELSE /\ UNCHANGED secrets
               /\ Finished(IF FlipsToBase(loc, url)
                           THEN [done EXCEPT !.prevSecret = IF loc.secret \in {None, BaseSecret}
                                                            THEN None ELSE loc.secret,
                                             !.secret = BaseSecret, !.hash = url]
                           ELSE done)
    /\ UNCHANGED <<accessVars, tu>> /\ OthersIdle

\* A plausible slip: the nodes are forgotten.
MayReleaseAfterConsumer(t, loc) == ~HeldByConsumer(t, loc.prevSecret)

\* tryReleasePendingUser waits for the consumer and then for the nodes.
MayRelease(t, loc) ==
    /\ ~HeldByConsumer(t, loc.prevSecret)
    /\ loc.prevUser # None => NodesInSync

ReleasePending ==
    /\ rec.pc = "release"
    /\ LET loc == rec.loc IN
       IF MayRelease(rec.t, loc)
       THEN /\ users' = IF loc.prevUser # None
                        THEN [users EXCEPT ![loc.prevUser] = Unclaimed(@, rec.t)]
                        ELSE users
            /\ Goto("cleanup")
       ELSE Goto("return") /\ UNCHANGED users
    /\ UNCHANGED <<userSecrets, passwords, vhosts, broker, doomedUser, doomedVhost, cluster,
                   tu, secrets>> /\ OthersIdle

CleanupSecret ==
    /\ rec.pc = "cleanup"
    /\ secrets' = [secrets EXCEPT ![rec.t] = Cleaned(@, rec.loc.prevSecret)]
    /\ GotoWith("return", [rec.loc EXCEPT !.prevUser = None, !.prevSecret = None])
    /\ UNCHANGED <<accessVars, tu>> /\ OthersIdle

PatchStatus ==
    /\ rec.pc = "return"
    /\ tu' = [tu EXCEPT ![rec.t] = Object(@.st, @.spec, @.fin, rec.loc)]
    /\ rec' = Idle
    /\ UNCHANGED <<accessVars, secrets>> /\ OthersIdle

-----------------------------------------------------------------------------
(* reconcileDelete *)

\* A plausible slip: a rotation in progress is forgotten.
DeletePendingForgotten ==
    /\ rec.pc = "deletePending"
    /\ Goto("deleteUser")
    /\ UNCHANGED <<accessVars, tu, secrets>> /\ OthersIdle

DeletePending ==
    /\ rec.pc = "deletePending"
    /\ LET loc == rec.loc IN
       IF loc.prevUser # None
       THEN /\ users' = [users EXCEPT ![loc.prevUser] = Unclaimed(@, rec.t)]
            /\ secrets' = [secrets EXCEPT ![rec.t] = Cleaned(@, loc.prevSecret)]
            /\ GotoWith("deleteUser", [loc EXCEPT !.prevUser = None, !.prevSecret = None])
       ELSE Goto("deleteUser") /\ UNCHANGED <<users, secrets>>
    /\ UNCHANGED <<userSecrets, passwords, vhosts, broker, doomedUser, doomedVhost, cluster, tu>>
    /\ OthersIdle

DeleteUserClaim ==
    /\ rec.pc = "deleteUser"
    /\ LET c == rec.spec IN
       users' = IF c = Admin THEN users
                ELSE [users EXCEPT ![c] =
                        LET u == Unclaimed(@, rec.t) IN
                        IF u.st = "live" THEN [u EXCEPT !.orphaned = u.consumers = {}] ELSE u]
    /\ Goto("deleteVhostClaim")
    /\ UNCHANGED <<userSecrets, passwords, vhosts, broker, doomedUser, doomedVhost, cluster,
                   tu, secrets>> /\ OthersIdle

DeleteVhostClaim ==
    /\ rec.pc = "deleteVhostClaim"
    /\ LET v == VhostRef(rec.spec) IN
       vhosts' = IF v = None THEN vhosts
                 ELSE [vhosts EXCEPT ![v] = VhostWithout(@, rec.t)]
    /\ Goto("deleteSelf")
    /\ UNCHANGED <<users, userSecrets, passwords, broker, doomedUser, doomedVhost, cluster,
                   tu, secrets>> /\ OthersIdle

\* The mutable secret is garbage collected with its owner; an immutable one has
\* a protection finalizer that only cleanupOldTransportSecret removes.
RemoveFinalizer ==
    /\ rec.pc = "deleteSelf"
    /\ tu' = [tu EXCEPT ![rec.t] = Object("absent", @.spec, FALSE, NoStatus)]
    /\ secrets' = [secrets EXCEPT ![rec.t].base = None]
    /\ rec' = Idle
    /\ UNCHANGED accessVars /\ OthersIdle

-----------------------------------------------------------------------------
(* Faults, users of the API, the consuming services and the nodes *)

ReturnError ==
    /\ rec.pc \notin {"idle", "return"}
    /\ hosts + faults < MaxDisturbances
    /\ faults' = faults + 1
    /\ rec' = [rec EXCEPT !.pc = "return"]
    /\ UNCHANGED <<accessVars, tu, secrets, svc, node, hosts, edits>>

Crash ==
    /\ rec.pc # "idle" \/ ~WorkerFree
    /\ hosts + faults < MaxDisturbances
    /\ faults' = faults + 1
    /\ rec' = Idle
    /\ doomedUser' = None /\ doomedVhost' = None
    /\ UNCHANGED <<users, userSecrets, passwords, vhosts, broker, cluster,
                   tu, secrets, svc, node, hosts, edits>>

\* The status shows no rotation, and the service runs with the secret it names.
LooksSettled(t) ==
    /\ tu[t].user = UserRef(tu[t].spec)
    /\ tu[t].secret # None /\ svc[t].holds = {tu[t].secret}
    /\ tu[t].prevUser = None /\ tu[t].prevSecret = None

\* Also no reconcile is about to change that.
IsSettled(t) ==
    /\ LooksSettled(t)
    /\ tu[t].hash = Content(tu[t].spec)
    /\ rec.t # t

Create(t, c) ==
    /\ t \in NewTransportURLs /\ c \in Wanted[t]
    /\ tu[t].st = "absent" /\ ~tu[t].fin /\ edits < MaxEdits
    /\ cluster = "ready"
    /\ edits' = edits + 1
    /\ tu' = [tu EXCEPT ![t] = Object("live", c, FALSE, NoStatus)]
    /\ UNCHANGED <<accessVars, secrets, rec, svc, node, hosts, faults>>

Edit(t, c) ==
    /\ tu[t].st = "live" /\ edits < MaxEdits
    /\ c \in Wanted[t] \ {tu[t].spec}
    /\ CASE EditWhen = "settled" -> IsSettled(t)
         [] EditWhen = "visible" -> LooksSettled(t)
         [] OTHER -> TRUE
    /\ edits' = edits + 1
    /\ tu' = [tu EXCEPT ![t].spec = c]
    /\ UNCHANGED <<accessVars, secrets, rec, svc, node, hosts, faults>>

\* The service goes with its TransportURL.  A deletion before the controller
\* has seen the last edit is left out: see Leaks in the README.
Delete(t) ==
    /\ tu[t].st = "live" /\ tu[t].fin /\ edits < MaxEdits
    /\ tu[t].user \in {None, UserRef(tu[t].spec)}
    /\ edits' = edits + 1
    /\ tu' = [tu EXCEPT ![t].st = "deleting"]
    /\ svc' = [svc EXCEPT ![t] = [runs |-> None, holds |-> {}]]
    /\ node' = [node EXCEPT ![t] = None]
    /\ UNCHANGED <<accessVars, secrets, rec, hosts, faults>>

ChangeHosts ==
    /\ hosts < MaxHosts /\ hosts + faults < MaxDisturbances
    /\ hosts' = hosts + 1
    /\ UNCHANGED <<accessVars, tu, secrets, rec, svc, node, edits, faults>>

DeleteCluster ==
    /\ cluster = "ready" /\ edits < MaxEdits
    /\ cluster' = "deleted"
    /\ edits' = edits + 1
    /\ UNCHANGED <<users, userSecrets, passwords, vhosts, broker, doomedUser, doomedVhost,
                   tu, secrets, rec, svc, node, hosts, faults>>

\* The service takes the secret the status names: it adds its finalizer, rolls
\* out, and then drops the finalizer from the secret it used before.
SecretData(t, name) == IF name = BaseSecret THEN secrets[t].base ELSE name

Rollout(t) ==
    LET name == tu[t].secret IN
    /\ tu[t].st = "live" /\ name # None
    /\ SecretExists(secrets[t], name)
    /\ svc[t] # [runs |-> SecretData(t, name), holds |-> {name}]
    /\ svc' = [svc EXCEPT ![t] = [runs |-> SecretData(t, name), holds |-> {name}]]
    /\ UNCHANGED <<accessVars, tu, secrets, rec, node, hosts, edits, faults>>

Deploy ==
    /\ ~NodesInSync
    /\ node' = [t \in TransportURLs |-> svc[t].runs]
    /\ UNCHANGED <<accessVars, tu, secrets, rec, svc, hosts, edits, faults>>

-----------------------------------------------------------------------------

Step ==
    \/ EnsureVhost \/ EnsureUser \/ DetectRotation \/ ReleaseOldVhost \/ DeleteOrphanedVhost
    \/ CreateSecret \/ ReleasePending \/ CleanupSecret \/ PatchStatus
    \/ DeletePending \/ DeleteUserClaim \/ DeleteVhostClaim \/ RemoveFinalizer

AccessProgress ==
    \/ \E c \in Creds : UserStep(c)
    \/ UserDelete
    \/ \E v \in Vhosts : VhostStep(v)

AccessStep ==
    /\ AccessProgress \/ \E c \in Creds : UserApiError(c)
    /\ UNCHANGED turlVars

Environment ==
    \/ \E t \in TransportURLs, c \in Specs : Create(t, c) \/ Edit(t, c)
    \/ \E t \in TransportURLs : Delete(t) \/ Rollout(t)
    \/ ChangeHosts \/ DeleteCluster \/ Deploy

Next ==
    \/ \E t \in TransportURLs : Register(t) \/ Start(t)
    \/ Step \/ AccessStep \/ ReturnError \/ Crash \/ Environment

Spec == Init /\ [][Next]_vars

\* The work queues serve every object again and again, a worker goes on with
\* its reconcile, services roll out and nodes are deployed.
Fairness ==
    /\ \A t \in TransportURLs : SF_vars(Register(t) \/ Start(t))
    /\ WF_vars(Step)
    /\ WF_vars(AccessProgress /\ UNCHANGED turlVars)
    /\ WF_vars(Deploy \/ \E t \in TransportURLs : Rollout(t))

FairSpec == Spec /\ Fairness

-----------------------------------------------------------------------------
(* Properties *)

\* Usable(url): the broker accepts the credentials of a transport URL.
Usable(url) == url[1] = Admin \/ Works(url[1], url[2])

\* While the cluster is there, the broker accepts the credentials that a
\* service or the nodes of a live TransportURL run with: through a rotation the
\* old user stays until both have moved on (transporturl_controller.go:355-358).
InUseCredentialsWork ==
    cluster = "ready" =>
        \A t \in TransportURLs : tu[t].st = "live" =>
            \A url \in {svc[t].runs, node[t]} \ {None} : Usable(url)

\* A TransportURL that is gone holds no user and no vhost: a leaked finalizer
\* would keep the object, and the broker's user, for ever.
NoLeakedClaims ==
    \A t \in TransportURLs : tu[t].st = "absent" =>
        /\ \A c \in Creds : t \notin users[c].consumers
        /\ \A v \in Vhosts : t \notin vhosts[v].consumers

\* The secret that the status of a live TransportURL names exists, so that a
\* service which restarts in the middle of a rotation finds its credentials.
StatusSecretExists ==
    \A t \in TransportURLs :
        (tu[t].st = "live" /\ tu[t].secret # None) => SecretExists(secrets[t], tu[t].secret)

\* A vhost deleted under a consumer that had just claimed it: the consumer's
\* finalizer keeps it, and no user can be added to it any more.
Wedged == \E v \in Vhosts : vhosts[v].st = "deleting" /\ vhosts[v].consumers # {}

\* A rotation ends: the previous user is released, and removed from the broker
\* unless it has another consumer; only a wedged vhost or the deletion of the
\* cluster can prevent it.
RotationEnds ==
    \A c \in Creds :
        (\E t \in TransportURLs : tu[t].prevUser = c)
            ~> \/ /\ \A t \in TransportURLs : tu[t].prevUser # c
                  /\ users[c].consumers # {} \/ ~BrokerHasUser(c)
               \/ Wedged \/ cluster = "deleted"
=============================================================================
