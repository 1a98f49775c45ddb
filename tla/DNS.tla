-------------------------------- MODULE DNS --------------------------------
(***************************************************************************)
(* From a LoadBalancer Service to an answer of dnsmasq                     *)
(* (internal/controller/network: service, dnsdata and dnsmasq controllers).*)
(*                                                                         *)
(* The Service controller collects the addresses of annotated Services in  *)
(* the DNSData "<dnsmasq>-svc"; the DNSData controller renders every       *)
(* DNSData into a labelled ConfigMap; the DNSMasq controller mounts the    *)
(* ConfigMaps with its label into its Deployment.  Each controller acts on *)
(* what it read at the start of its reconcile, and is woken by events only.*)
(*                                                                         *)
(* Hosts are a set of (address, name) pairs: a hosts file, sorted in the   *)
(* code, is determined by it.                                              *)
(***************************************************************************)
EXTENDS Naturals

CONSTANTS
  LBServices,     \* annotated Services of type LoadBalancer
  Addresses,      \* addresses the load balancer gives out
  NoAddress,      \* the empty IP of an ingress that has only a host name
  Labels,         \* values of dnsDataLabelSelectorValue
  Lower,          \* strings.ToLower on Labels
  UserHosts,      \* hosts of the DNSData a user writes
  MaxDNSEvents,   \* bound: changes users and the load balancer make, faults included
  MaxDNSFaults    \* bound: reconciles cut short

VARIABLES
  lbIngress,   \* ingress addresses of every Service
  masq,        \* the DNSMasq: label, has it the option "local", has it a Service
  dnsData,     \* the DNSData resources "svc" and "user"
  dnsCM,       \* their ConfigMaps
  served,      \* the Deployment: the ConfigMaps it mounts, with their hosts
  dnsRec,      \* per controller, what its reconcile in progress has read
  dnsQueue,    \* queued requests
  dnsEvents,
  dnsFaults

dnsVars == <<lbIngress, masq, dnsData, dnsCM, served, dnsRec, dnsQueue, dnsEvents, dnsFaults>>

Datas == {"svc", "user"}

NoData == [live |-> FALSE, deleting |-> FALSE, fin |-> FALSE, label |-> "", hosts |-> {}]
NoConfigMap == [live |-> FALSE, label |-> "", hosts |-> {}]

\* No reconcile is in progress.
Resting == [busy |-> FALSE, of |-> "", label |-> "", hosts |-> {}]

Controllers == {"services", "data", "masq"}

\* A DNSMasq was just created; one from before the upgrade lacks "local".
DNSInit ==
  /\ lbIngress = [s \in LBServices |-> {}]
  /\ \E l \in Labels, b \in BOOLEAN : masq = [label |-> l, local |-> b, service |-> FALSE]
  /\ dnsData = [x \in Datas |-> NoData]
  /\ dnsCM = [x \in Datas |-> NoConfigMap]
  /\ served = {}
  /\ dnsRec = [c \in Controllers |-> Resting]
  /\ dnsQueue = {"masq"}
  /\ dnsEvents = 0
  /\ dnsFaults = 0

-----------------------------------------------------------------------------
(* Users and the load balancer.                                            *)

DNSEvent(wakes) ==
  /\ dnsEvents + dnsFaults < MaxDNSEvents
  /\ dnsEvents' = dnsEvents + 1
  /\ dnsQueue' = dnsQueue \cup wakes
  /\ UNCHANGED <<dnsCM, served, dnsRec, dnsFaults>>

ChangeIngress(s) ==
  /\ DNSEvent({"services"})
  /\ \E a \in SUBSET Addresses \cup {{NoAddress}} :
       a # lbIngress[s] /\ lbIngress' = [lbIngress EXCEPT ![s] = a]
  /\ UNCHANGED <<masq, dnsData>>

EditLabel(l) ==
  /\ DNSEvent({"masq"})
  /\ l # masq.label
  /\ masq' = [masq EXCEPT !.label = l]
  /\ UNCHANGED <<lbIngress, dnsData>>

\* A DNSData of the same name can own the ConfigMap once the old one is gone.
WriteUserData(l, h) ==
  /\ DNSEvent({"user"})
  /\ ~dnsData["user"].deleting /\ (dnsCM["user"].live => dnsData["user"].live)
  /\ dnsData' = [dnsData EXCEPT !["user"].live = TRUE, !["user"].label = l, !["user"].hosts = h]
  /\ UNCHANGED <<lbIngress, masq>>

DeleteUserData ==
  /\ DNSEvent({"user"})
  /\ dnsData["user"].live /\ ~dnsData["user"].deleting
  /\ dnsData' = [dnsData EXCEPT !["user"] = IF @.fin THEN [@ EXCEPT !.deleting = TRUE] ELSE NoData]
  /\ UNCHANGED <<lbIngress, masq>>

-----------------------------------------------------------------------------
(* The Service controller.                                                 *)

DNSStep == UNCHANGED <<lbIngress, dnsEvents, dnsFaults>>

Begin(c, request, rec) ==
  /\ ~dnsRec[c].busy
  /\ request \in dnsQueue
  /\ dnsRec' = [dnsRec EXCEPT ![c] = rec]

End(c) == dnsRec' = [dnsRec EXCEPT ![c] = Resting]

AllParsed == \A s \in LBServices : NoAddress \notin lbIngress[s]

\* getServiceDNSData: an address that does not parse is an error for all the
\* Services, and the request is retried.
GetServiceDNSData ==
  /\ AllParsed
  /\ LET hosts == UNION {lbIngress[s] \X {s} : s \in LBServices}
     IN  Begin("services", "services",
               [busy |-> TRUE, of |-> "svc", label |-> masq.label, hosts |-> hosts])
  /\ dnsQueue' = dnsQueue \ {"services"}
  /\ DNSStep /\ UNCHANGED <<masq, dnsData, dnsCM, served>>

\* createOrPatchDNSData
CreateOrPatchDNSData ==
  /\ dnsRec["services"].busy
  /\ LET r == dnsRec["services"]
     IN  dnsData' = [dnsData EXCEPT !["svc"] =
                       [@ EXCEPT !.live = TRUE, !.label = r.label, !.hosts = r.hosts]]
  /\ dnsQueue' = IF dnsData' = dnsData THEN dnsQueue ELSE dnsQueue \cup {"svc"}
  /\ End("services")
  /\ DNSStep /\ UNCHANGED <<masq, dnsCM, served>>

-----------------------------------------------------------------------------
(* The DNSData controller.                                                 *)

\* Reconcile: the finalizer is added, or a deleted DNSData is let go, by the
\* deferred patch; a live one goes to reconcileNormal.
ReconcileDNSData(x) ==
  LET d == dnsData[x]
      normal == d.live /\ d.fin /\ ~d.deleting
  IN  /\ Begin("data", x, IF normal THEN [busy |-> TRUE, of |-> x, label |-> d.label, hosts |-> d.hosts]
                                    ELSE Resting)
      /\ dnsData' = [dnsData EXCEPT ![x] = CASE ~d.live    -> d
                                             [] d.deleting -> NoData
                                             [] OTHER      -> [d EXCEPT !.fin = TRUE]]
      /\ dnsQueue' = IF dnsData' = dnsData THEN dnsQueue \ {x} ELSE dnsQueue
      /\ DNSStep /\ UNCHANGED <<masq, dnsCM, served>>

\* A plausible slip: the predicate has no DeleteFunc.
ConfigMapEventUndeleted == IF \E x \in Datas : dnsCM'[x] # dnsCM[x] /\ dnsCM'[x].live THEN {"masq"} ELSE {}

\* The predicate of the DNSMasq controller on ConfigMaps that carry the label.
ConfigMapEvent == IF dnsCM' = dnsCM THEN {} ELSE {"masq"}

\* generateServiceConfigMaps: the label is written in lower case.
WriteConfigMap ==
  /\ dnsRec["data"].busy
  /\ LET r == dnsRec["data"]
     IN  /\ dnsCM' = [dnsCM EXCEPT ![r.of] = [live |-> TRUE, label |-> Lower[r.label], hosts |-> r.hosts]]
         /\ dnsQueue' = dnsQueue \cup ConfigMapEvent
  /\ End("data")
  /\ DNSStep /\ UNCHANGED <<masq, dnsData, served>>

\* The garbage collector removes the ConfigMap of a DNSData that is gone.
CollectConfigMap(x) ==
  /\ dnsCM[x].live /\ ~dnsData[x].live
  /\ dnsCM' = [dnsCM EXCEPT ![x] = NoConfigMap]
  /\ dnsQueue' = dnsQueue \cup ConfigMapEvent
  /\ DNSStep /\ UNCHANGED <<masq, dnsData, served, dnsRec>>

-----------------------------------------------------------------------------
(* The DNSMasq controller.                                                 *)

\* A DNSMasq without "local" is annotated, which makes the defaulting webhook
\* add the option; the update wakes the controller.
TriggerWebhook ==
  /\ ~masq.local
  /\ Begin("masq", "masq", Resting)
  /\ masq' = [masq EXCEPT !.local = TRUE]
  /\ DNSStep /\ UNCHANGED <<dnsData, dnsCM, served, dnsQueue>>

\* reconcileNormal lists the ConfigMaps with the label in lower case.
ListConfigMaps ==
  /\ masq.local
  /\ LET found == {x \in Datas : dnsCM[x].live /\ dnsCM[x].label = Lower[masq.label]}
     IN  Begin("masq", "masq", [Resting EXCEPT !.busy = TRUE,
                                               !.hosts = {<<x, dnsCM[x].hosts>> : x \in found}])
  /\ dnsQueue' = dnsQueue \ {"masq"}
  /\ DNSStep /\ UNCHANGED <<masq, dnsData, dnsCM, served>>

\* The Service of the DNSMasq, whose creation wakes the Service controller,
\* and the Deployment.
WriteDeployment ==
  /\ dnsRec["masq"].busy
  /\ masq' = [masq EXCEPT !.service = TRUE]
  /\ served' = dnsRec["masq"].hosts
  /\ dnsQueue' = IF masq.service THEN dnsQueue ELSE dnsQueue \cup {"services"}
  /\ End("masq")
  /\ DNSStep /\ UNCHANGED <<dnsData, dnsCM>>

-----------------------------------------------------------------------------
\* The request a reconcile was started for.
RequestOf(c) == IF c = "data" THEN dnsRec[c].of ELSE c

\* A crash, or a call that fails: what was read is lost, the request returns.
DNSAbort(c) ==
  /\ dnsRec[c].busy
  /\ dnsFaults < MaxDNSFaults /\ dnsEvents + dnsFaults < MaxDNSEvents
  /\ dnsFaults' = dnsFaults + 1
  /\ dnsQueue' = dnsQueue \cup {RequestOf(c)}
  /\ End(c)
  /\ UNCHANGED <<lbIngress, masq, dnsData, dnsCM, served, dnsEvents>>

ServiceController == GetServiceDNSData \/ CreateOrPatchDNSData
DataController == WriteConfigMap \/ \E x \in Datas : ReconcileDNSData(x)
MasqController == TriggerWebhook \/ ListConfigMaps \/ WriteDeployment

DNSNext ==
  \/ ServiceController \/ DataController \/ MasqController
  \/ \E x \in Datas : CollectConfigMap(x)
  \/ \E c \in Controllers : DNSAbort(c)
  \/ \E s \in LBServices : ChangeIngress(s)
  \/ \E l \in Labels : EditLabel(l) \/ \E h \in UserHosts : WriteUserData(l, h)
  \/ DeleteUserData

\* The work queue runs every controller, the cluster its garbage collector.
DNSFairness ==
  /\ WF_dnsVars(ServiceController)
  /\ WF_dnsVars(DataController)
  /\ WF_dnsVars(MasqController)
  /\ \A x \in Datas : WF_dnsVars(CollectConfigMap(x))

DNSSpec == DNSInit /\ [][DNSNext]_dnsVars /\ DNSFairness

-----------------------------------------------------------------------------
(* Properties.                                                             *)

\* What dnsmasq should answer from: every DNSData whose label matches, whatever
\* the case of its letters.
Matching == {x \in Datas : dnsData[x].live /\ Lower[dnsData[x].label] = Lower[masq.label]}

\* After the last change dnsmasq serves exactly the hosts of the DNSData with
\* its label, and "<dnsmasq>-svc" has exactly the addresses of the Services,
\* unless one of them has an address that does not parse (getServiceDNSData
\* gives up on all).  The change travels through three controllers that only
\* events wake.  That the label of "<dnsmasq>-svc" follows an edit of the
\* DNSMasq's is not promised: the Service controller does not watch DNSMasqs.
HostsServed ==
  [](AllParsed) =>
    <>[](/\ served = {<<x, dnsData[x].hosts>> : x \in Matching}
         /\ dnsData["svc"].hosts = UNION {lbIngress[s] \X {s} : s \in LBServices})
=============================================================================
