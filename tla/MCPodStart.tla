----------------------------- MODULE MCPodStart -----------------------------
(* Releases for TLC.  The pod is in l1 and its node in w1; r1, r2 and u1 are *)
(* remote, u1 with host bits; k1, m1, m2 and the single address h1 are what  *)
(* NAT maps to.                                                              *)
EXTENDS PodStart

MCAddr == {"pod", "node", "lb1", "lb2", "gw", "public", "ping"}
MCSubnet == {"l1", "l2", "w1", "r1", "r2", "u1", "k1", "m1", "m2", "h1", "gw32"}
MCInSubnet ==
  [s \in MCSubnet |-> CASE s = "l1" -> {"pod"} [] s = "w1" -> {"node"}
                        [] s = "m1" -> {"ping"} [] s = "gw32" -> {"gw"} [] OTHER -> {}]
MCSize == [s \in MCSubnet |-> IF s \in {"h1", "gw32"} THEN 1 ELSE 256]
MCTable == [a \in MCAddr |-> IF a = "lb1" THEN 202 ELSE 203]
MCHostSubnet == [a \in MCAddr |-> IF a = "gw" THEN "gw32" ELSE "other"]
MCAligned == MCSubnet \ {"u1"}

Set(key, value) == Line("set", key, value)

\* The file that the chart makes
ChartFile(auto, leftid, local, gateway, remote) ==
  <<Set("lifetime", <<"3">>), Set("keyingtries", <<"%forever">>),
    Set("keyexchange", <<"ikev2">>), Set("authby", <<"psk">>), Set("mobike", <<"no">>),
    Set("type", <<"tunnel">>), Set("forceencaps", <<"yes">>),
    Set("auto", <<auto>>), Set("left", <<"%any">>), Set("leftsubnet", local),
    Line("comment", "leftid", <<"%nodePublicIP">>), Set("leftid", <<leftid>>),
    Set("right", <<gateway>>), Set("rightsubnet", remote), Set("rightid", <<"onprem">>)>>

Release(auto, leftid, local, remote) ==
  [file |-> ChartFile(auto, leftid, local, "gw", remote), validate |-> "strict",
   privateIP |-> "", vip |-> FALSE, singleIP |-> FALSE, podSNAT |-> "auto",
   requested |-> "", localNAT |-> <<>>, remoteNAT |-> <<>>, zoneLB |-> <<>>,
   zoneSubnet |-> <<>>, zone |-> "z2", publicIP |-> "public"]

\* Who asks for which address, and what is done with it
AddressReleases ==
  {[Release(auto, id, <<"l1", "l2">>, <<"r1">>) EXCEPT !.vip = v, !.requested = r] :
     auto \in {"add", "start"}, id \in {"me", "%loadBalancerIP"}, v \in BOOLEAN,
     r \in {"", "lb1"}}

\* One rule, or none, for local subnets and for remote ones
Rule(orig, mapped) == [orig |-> orig, mapped |-> mapped]

NatReleases ==
  {[Release("start", "me", local, <<"r1", "r2">>) EXCEPT
      !.localNAT = l, !.remoteNAT = r, !.podSNAT = p] :
     local \in {<<"l1", "k1">>, <<"h1", "l2">>},
     l \in {<<>>, <<Rule("l2", "k1")>>, <<Rule("l1", "h1")>>, <<Rule("l1", "h1"), Rule("w1", "l2")>>},
     r \in {<<>>, <<Rule("r1", "m1"), Rule("r2", "m2")>>, <<Rule("r2", "gw32")>>},
     p \in {"auto", "false"}}

\* Settings by zone, with a single source address
Zones(lbs, subnets) ==
  [Release("start", "%loadBalancerIP", <<"%zoneSubnet">>, <<"r1", "r2">>) EXCEPT
     !.zoneLB = lbs, !.zoneSubnet = subnets, !.vip = TRUE, !.singleIP = TRUE,
     !.remoteNAT = <<Rule("r1", "m1")>>]

LB(zone, ip) == [zone |-> zone, ip |-> ip]
Local(zone, subnets) == [zone |-> zone, subnets |-> subnets]

ZoneReleases ==
  {Zones(<<LB("z1", "lb1"), LB("z2", "lb2")>>, <<Local("z1", <<"l1">>), Local("z2", <<"h1">>)>>),
   Zones(<<LB("z1", "lb1"), LB("z2", "lb2")>>, <<Local("z1", <<"l1">>)>>),
   Zones(<<LB("z1", "lb1")>>, <<Local("z2", <<"h1">>)>>)}

\* Settings that are refused, or nearly so
OddReleases ==
  LET Plain == Release("start", "me", <<"l1">>, <<"r1">>)
      File(local, gateway, remote) == ChartFile("start", "%nodePublicIP", local, gateway, remote) IN
  {[Plain EXCEPT !.vip = TRUE, !.file = File(<<"l1">>, "%any", <<"r1">>)],
   [Plain EXCEPT !.publicIP = "", !.file = File(<<"l1">>, "gw", <<"r1">>)],
   [Plain EXCEPT !.file = File(<<"l1">>, "gw", <<"r1", "w1">>)],
   [Plain EXCEPT !.file = File(<<"l1", "%zoneSubnet">>, "gw", <<"u1">>), !.podSNAT = "false"],
   [Plain EXCEPT !.file = Append(@, Line("spaced", "leftsubnet", <<"l2">>))],
   [Plain EXCEPT !.file = Append(@, Set("keyexchange", <<"ikev1">>))],
   [Plain EXCEPT !.file = Append(SelectSeq(@, LAMBDA l : l.key # "keyexchange"),
                                 Set("keyexchange", <<"ikev1">>))],
   [Plain EXCEPT !.file = Tail(Tail(@)), !.privateIP = "ping", !.remoteNAT = <<Rule("r1", "m1")>>],
   [Plain EXCEPT !.privateIP = "ping", !.validate = "simple"],
   [Plain EXCEPT !.privateIP = "ping", !.validate = "off", !.localNAT = <<Rule("l1", "gw32")>>],
   [Plain EXCEPT !.localNAT = <<Rule("h1", "l1")>>]}

MCSettings == AddressReleases \cup NatReleases \cup ZoneReleases \cup OddReleases
=============================================================================
