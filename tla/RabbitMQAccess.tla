--------------------------- MODULE RabbitMQAccess ---------------------------
(***************************************************************************)
(* RabbitMQUser and RabbitMQVhost objects, the two controllers that carry  *)
(* them into the broker through the management API, and the broker.        *)
(*                                                                         *)
(* A credential is a user name on a vhost; its RabbitMQUser object has a   *)
(* canonical name, so there is one object per credential (the legacy       *)
(* per-consumer objects of earlier releases are not modelled).  All        *)
(* objects belong to one cluster.  A reconcile is the sequence of its      *)
(* writes: each is an action guarded by what the reconcile has read and by *)
(* the writes before it, and a repeated run of a reconcile repeats writes  *)
(* that change nothing.  Every write to an API object carries the version  *)
(* that was read, so a stale one fails and is retried; the exceptions are  *)
(* the two Delete calls, which carry none: there the decision and the call *)
(* are two steps (doomedUser, doomedVhost).                                *)
(***************************************************************************)
EXTENDS Naturals, FiniteSets

CONSTANTS
    TransportURLs,   \* the consumers of credentials
    Creds,           \* credentials that a TransportURL may ask for
    UserOf,          \* the user name of a credential
    VhostOf,         \* the vhost of a credential, DefaultVhost for "/"
    DefaultVhost,
    None

Usernames == {UserOf[c] : c \in Creds}
Vhosts == {VhostOf[c] : c \in Creds} \ {DefaultVhost}

ASSUME CredAssumption ==
    /\ DOMAIN UserOf = Creds
    /\ DOMAIN VhostOf = Creds
    /\ None \notin Creds \cup Vhosts \cup TransportURLs

VARIABLES
    users,        \* RabbitMQUser objects, by credential
    userSecrets,  \* password in the generated Secret rabbitmq-user-<name>, 0 if none
    passwords,    \* number of passwords generated so far, by credential
    vhosts,       \* RabbitMQVhost objects
    broker,       \* users, permissions and vhosts known to RabbitMQ
    doomedUser,   \* user the user controller has decided to delete
    doomedVhost,  \* vhost it has decided to delete
    cluster       \* "ready", or "deleted" once the RabbitMq object is going

accessVars ==
    <<users, userSecrets, passwords, vhosts, broker, doomedUser, doomedVhost, cluster>>

NoUser == [st |-> "absent", fin |-> FALSE, consumers |-> {}, orphaned |-> FALSE,
           secretName |-> FALSE, vhost |-> FALSE]
NoVhost == [st |-> "absent", fin |-> FALSE, consumers |-> {}, users |-> {}]

\* An object marked for deletion disappears with its last finalizer.
Collected(u) == IF u.st = "deleting" /\ ~u.fin /\ u.consumers = {} THEN NoUser ELSE u
CollectedVhost(v) ==
    IF v.st = "deleting" /\ ~v.fin /\ v.consumers = {} /\ v.users = {} THEN NoVhost ELSE v

Deleted(o) == IF o.st = "live" THEN [o EXCEPT !.st = "deleting"] ELSE o

\* The user controller has one worker; it is free between a decision and its call.
WorkerFree == doomedUser = None /\ doomedVhost = None

\* The password of a credential as the broker stores it.
Password(c) == <<c, userSecrets[c]>>

\* The per-user finalizer is on the vhost (the default vhost needs none).
Protected(c) ==
    VhostOf[c] # DefaultVhost => UserOf[c] \in vhosts[VhostOf[c]].users

OtherCRManagesUser(c) ==
    \E o \in Creds \ {c} : UserOf[o] = UserOf[c] /\ users[o].st = "live"

BrokerHasUser(c) == broker.users[UserOf[c]] # None

Granted(c) == <<UserOf[c], VhostOf[c]>> \in broker.perms

BrokerHasVhost(v) == v = DefaultVhost \/ v \in broker.vhosts

\* checkClusterReadiness
ClusterReady == cluster = "ready"

-----------------------------------------------------------------------------
(* The management API, as changes of the broker.  A deletion of something the
   broker does not have succeeds. *)

CreateOrUpdateUser(u, pw) == [broker EXCEPT !.users[u] = pw]

DeleteUser(u) == [broker EXCEPT !.users[u] = None, !.perms = {p \in @ : p[1] # u}]

SetPermissions(v, u) == [broker EXCEPT !.perms = @ \cup {<<u, v>>}]

CreateOrUpdateVhost(v) == [broker EXCEPT !.vhosts = @ \cup {v}]

DeleteVhost(v) == [broker EXCEPT !.vhosts = @ \ {v}, !.perms = {p \in @ : p[2] # v}]

-----------------------------------------------------------------------------
(* The user controller: a live object *)

UserRegister(c) ==
    /\ WorkerFree
    /\ users[c].st = "live" /\ ~users[c].fin
    /\ users' = [users EXCEPT ![c].fin = TRUE]
    /\ UNCHANGED <<userSecrets, passwords, vhosts, broker, doomedUser, doomedVhost, cluster>>

\* A finalizer cannot be added to an object that is being deleted.
UserClaimVhost(c) ==
    /\ WorkerFree
    /\ users[c].st = "live" /\ users[c].fin
    /\ ~Protected(c)
    /\ vhosts[VhostOf[c]].st = "live"
    /\ vhosts' = [vhosts EXCEPT ![VhostOf[c]].users = @ \cup {UserOf[c]}]
    /\ UNCHANGED <<users, userSecrets, passwords, broker, doomedUser, doomedVhost, cluster>>

UserFindOrphaned(c) ==
    /\ WorkerFree
    /\ users[c].st = "live" /\ users[c].fin
    /\ Protected(c)
    /\ users[c].orphaned
    /\ doomedUser' = c
    /\ UNCHANGED <<users, userSecrets, passwords, vhosts, broker, doomedVhost, cluster>>

UserDeleteOrphaned ==
    /\ doomedUser # None
    /\ users' = [users EXCEPT ![doomedUser] = Collected(Deleted(@))]
    /\ doomedUser' = None
    /\ UNCHANGED <<userSecrets, passwords, vhosts, broker, doomedVhost, cluster>>

\* What reconcileNormal has passed when it comes to the credentials.
UserInUse(c) ==
    /\ WorkerFree
    /\ users[c].st = "live" /\ users[c].fin
    /\ Protected(c)
    /\ ~users[c].orphaned
    /\ ClusterReady

UserCreateSecret(c) ==
    /\ UserInUse(c)
    /\ userSecrets[c] = 0
    /\ passwords' = [passwords EXCEPT ![c] = @ + 1]
    /\ userSecrets' = [userSecrets EXCEPT ![c] = passwords[c] + 1]
    /\ UNCHANGED <<users, vhosts, broker, doomedUser, doomedVhost, cluster>>

\* A call to the management API fails: the deferred patch stores the status
\* fields that were set before the call.
UserApiError(c) ==
    /\ UserInUse(c)
    /\ userSecrets[c] # 0
    /\ ~users[c].secretName
    /\ users' = [users EXCEPT ![c].secretName = TRUE]
    /\ UNCHANGED <<userSecrets, passwords, vhosts, broker, doomedUser, doomedVhost, cluster>>

UserCreateInBroker(c) ==
    /\ UserInUse(c)
    /\ userSecrets[c] # 0
    /\ broker.users[UserOf[c]] # Password(c)
    /\ broker' = CreateOrUpdateUser(UserOf[c], Password(c))
    /\ UNCHANGED <<users, userSecrets, passwords, vhosts, doomedUser, doomedVhost, cluster>>

\* RabbitMQ refuses permissions on a vhost it does not have.
UserSetPermissions(c) ==
    /\ UserInUse(c)
    /\ userSecrets[c] # 0 /\ broker.users[UserOf[c]] = Password(c)
    /\ ~Granted(c)
    /\ BrokerHasVhost(VhostOf[c])
    /\ broker' = SetPermissions(VhostOf[c], UserOf[c])
    /\ UNCHANGED <<users, userSecrets, passwords, vhosts, doomedUser, doomedVhost, cluster>>

UserReady(c) ==
    /\ UserInUse(c)
    /\ userSecrets[c] # 0 /\ broker.users[UserOf[c]] = Password(c)
    /\ Granted(c)
    /\ ~users[c].vhost
    /\ users' = [users EXCEPT ![c].secretName = TRUE, ![c].vhost = TRUE]
    /\ UNCHANGED <<userSecrets, passwords, vhosts, broker, doomedUser, doomedVhost, cluster>>

-----------------------------------------------------------------------------
(* The user controller: an object that is being deleted *)

UserUnused(c) ==
    /\ WorkerFree
    /\ users[c].st = "deleting" /\ users[c].fin
    /\ users[c].consumers = {}

UserReleaseVhost(c) ==
    /\ UserUnused(c)
    /\ VhostOf[c] # DefaultVhost
    /\ UserOf[c] \in vhosts[VhostOf[c]].users
    /\ vhosts' = [vhosts EXCEPT ![VhostOf[c]] =
                      CollectedVhost([@ EXCEPT !.users = @ \ {UserOf[c]}])]
    /\ UNCHANGED <<users, userSecrets, passwords, broker, doomedUser, doomedVhost, cluster>>

VhostReleased(c) == VhostOf[c] = DefaultVhost \/ ~Protected(c)

VhostUnclaimed(v) ==
    /\ v # DefaultVhost
    /\ vhosts[v].st = "live"
    /\ vhosts[v].consumers = {}
    /\ vhosts[v].users = {}

UserFindOrphanedVhost(c) ==
    /\ UserUnused(c)
    /\ VhostReleased(c)
    /\ VhostUnclaimed(VhostOf[c])
    /\ doomedVhost' = VhostOf[c]
    /\ UNCHANGED <<users, userSecrets, passwords, vhosts, broker, doomedUser, cluster>>

UserDeleteOrphanedVhost ==
    /\ doomedVhost # None
    /\ vhosts' = [vhosts EXCEPT ![doomedVhost] = CollectedVhost(Deleted(@))]
    /\ doomedVhost' = None
    /\ UNCHANGED <<users, userSecrets, passwords, broker, doomedUser, cluster>>

SkipsBroker(c) == cluster = "deleted" \/ OtherCRManagesUser(c)

UserDeleteInBroker(c) ==
    /\ UserUnused(c)
    /\ VhostReleased(c) /\ ~VhostUnclaimed(VhostOf[c])
    /\ ~SkipsBroker(c)
    /\ BrokerHasUser(c)
    /\ broker' = DeleteUser(UserOf[c])
    /\ UNCHANGED <<users, userSecrets, passwords, vhosts, doomedUser, doomedVhost, cluster>>

\* The generated Secret and the controller's finalizer go last.
UserRelease(c) ==
    /\ UserUnused(c)
    /\ VhostReleased(c) /\ ~VhostUnclaimed(VhostOf[c])
    /\ SkipsBroker(c) \/ ~BrokerHasUser(c)
    /\ userSecrets' = [userSecrets EXCEPT ![c] = 0]
    /\ users' = [users EXCEPT ![c] = NoUser]
    /\ UNCHANGED <<passwords, vhosts, broker, doomedUser, doomedVhost, cluster>>

-----------------------------------------------------------------------------
(* The vhost controller *)

VhostRegister(v) ==
    /\ vhosts[v].st = "live" /\ ~vhosts[v].fin
    /\ vhosts' = [vhosts EXCEPT ![v].fin = TRUE]
    /\ UNCHANGED <<users, userSecrets, passwords, broker, doomedUser, doomedVhost, cluster>>

VhostCreateInBroker(v) ==
    /\ vhosts[v].st = "live" /\ vhosts[v].fin
    /\ ClusterReady
    /\ v \notin broker.vhosts
    /\ broker' = CreateOrUpdateVhost(v)
    /\ UNCHANGED <<users, userSecrets, passwords, vhosts, doomedUser, doomedVhost, cluster>>

VhostUnused(v) ==
    /\ vhosts[v].st = "deleting" /\ vhosts[v].fin
    /\ vhosts[v].consumers = {} /\ vhosts[v].users = {}

VhostDeleteInBroker(v) ==
    /\ VhostUnused(v)
    /\ ClusterReady
    /\ v \in broker.vhosts
    /\ broker' = DeleteVhost(v)
    /\ UNCHANGED <<users, userSecrets, passwords, vhosts, doomedUser, doomedVhost, cluster>>

VhostRelease(v) ==
    /\ VhostUnused(v)
    /\ cluster = "deleted" \/ v \notin broker.vhosts
    /\ vhosts' = [vhosts EXCEPT ![v] = NoVhost]
    /\ UNCHANGED <<users, userSecrets, passwords, broker, doomedUser, doomedVhost, cluster>>

-----------------------------------------------------------------------------

UserStep(c) ==
    \/ UserRegister(c) \/ UserClaimVhost(c) \/ UserFindOrphaned(c)
    \/ UserCreateSecret(c) \/ UserCreateInBroker(c) \/ UserSetPermissions(c) \/ UserReady(c)
    \/ UserReleaseVhost(c) \/ UserFindOrphanedVhost(c) \/ UserDeleteInBroker(c) \/ UserRelease(c)

UserDelete == UserDeleteOrphaned \/ UserDeleteOrphanedVhost

VhostStep(v) ==
    VhostRegister(v) \/ VhostCreateInBroker(v) \/ VhostDeleteInBroker(v) \/ VhostRelease(v)

\* A credential works: the broker has its user with this password, and lets it
\* into its vhost.
Works(c, pw) ==
    /\ broker.users[UserOf[c]] = <<c, pw>>
    /\ Granted(c)
    /\ BrokerHasVhost(VhostOf[c])
=============================================================================
