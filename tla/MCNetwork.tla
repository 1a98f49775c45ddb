----------------------------- MODULE MCNetwork -----------------------------
(***************************************************************************)
(* Small instances of the network controllers: address management, BGP     *)
(* routes and DNS.  They share no state, so one behaviour runs one of      *)
(* them: `part' says which, and the others rest in an initial state.       *)
(***************************************************************************)
EXTENDS IPAM, BGPRoutes, DNS

CONSTANTS
  i1, i2, n1, n2,   \* IPSets and networks
  b1, b2, b3        \* addresses of pods

VARIABLE part

netVars == <<ipamVars, bgpVars, dnsVars, part>>

-----------------------------------------------------------------------------
(* Two networks, one with two ranges, one with a single address; changes   *)
(* that are admitted or not, depending on the IPSets there are; an invalid *)
(* list of networks.                                                       *)

Sub(cidr, ranges, excluded, gateway) ==
  [name |-> "s", cidr |-> cidr, ranges |-> ranges, excluded |-> excluded, gateway |-> gateway, vlan |-> 1]
Net(n, s) == [name |-> n, subnets |-> <<s>>]

MCNetConfigs ==
  {<<Net(n1, Sub(<<0, 7>>, <<<<0, 2>>, <<4, 5>>>>, {1}, 7)), Net(n2, Sub(<<8, 15>>, <<<<9, 10>>>>, {10}, Unset))>>,
   <<Net(n1, Sub(<<0, 7>>, <<<<0, 2>>, <<4, 5>>>>, {1, 2}, Unset)), Net(n2, Sub(<<8, 15>>, <<<<9, 10>>>>, {10}, Unset))>>,
   <<Net(n1, Sub(<<16, 23>>, <<<<17, 19>>>>, {}, 23))>>,
   <<Net(n1, Sub(<<0, 7>>, <<<<2, 1>>>>, {}, 7))>>}

Req(n, fixed, route) == [name |-> n, subnet |-> "s", fixed |-> fixed, route |-> route]

MCRequests ==
  {<<Req(n1, Unset, TRUE)>>, <<Req(n1, 2, FALSE)>>, <<Req(n2, Unset, FALSE), Req(n1, Unset, TRUE)>>,
   <<Req(n1, Unset, FALSE), Req(n1, Unset, FALSE)>>}

-----------------------------------------------------------------------------
(* Pods with two attachments, and with an attachment that has no IPAM and  *)
(* an address given by a label.                                            *)

Attachment(kind, ipam, ips) == [kind |-> kind, ipam |-> ipam, ips |-> ips]

MCPodShapes ==
  {[attach |-> 2, label |-> {},
    status |-> <<Attachment("eth0", TRUE, {b3}), Attachment("nad", TRUE, {b1}), Attachment("nad", TRUE, {b2})>>],
   [attach |-> 1, label |-> {b2},
    status |-> <<Attachment("nad", TRUE, {b1}), Attachment("nad", FALSE, {})>>]}

-----------------------------------------------------------------------------
(* Labels that differ only in case, and another one.                       *)

MCLabels == {"dnsdata", "DNSdata", "other"}
MCLower == [l \in MCLabels |-> IF l = "other" THEN l ELSE "dnsdata"]
MCUserHosts == {{<<"h", 1>>}}

-----------------------------------------------------------------------------
NetInit ==
  /\ part \in {"ipam", "bgp", "dns"}
  /\ IPAMInit /\ BGPInit /\ DNSInit
  /\ part # "bgp" => migrated
  /\ part # "dns" => masq.label = "dnsdata" /\ masq.local

NetNext ==
  /\ UNCHANGED part
  /\ \/ part = "ipam" /\ IPAMNext /\ UNCHANGED <<bgpVars, dnsVars>>
     \/ part = "bgp" /\ BGPNext /\ UNCHANGED <<ipamVars, dnsVars>>
     \/ part = "dns" /\ DNSNext /\ UNCHANGED <<ipamVars, bgpVars>>

\* The fairness of each part, for the behaviours that run it.
NetFairness ==
  /\ WF_ipamVars(part = "ipam" /\ IPSetStep)
  /\ WF_ipamVars(part = "ipam" /\ SyncReservations)
  /\ \A i \in IPSets : WF_ipamVars(part = "ipam" /\ CollectReservation(i))
  /\ WF_bgpVars(part = "bgp" /\ BGPStep)
  /\ WF_dnsVars(part = "dns" /\ ServiceController)
  /\ WF_dnsVars(part = "dns" /\ DataController)
  /\ WF_dnsVars(part = "dns" /\ MasqController)
  /\ \A x \in Datas : WF_dnsVars(part = "dns" /\ CollectConfigMap(x))

NetSpec == NetInit /\ [][NetNext]_netVars /\ NetFairness
=============================================================================
