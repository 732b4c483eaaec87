----------------------------- MODULE SubnetNat -----------------------------
(***************************************************************************)
(* The subnet NAT of a VPN: lists of rules original=mapped, what the route *)
(* daemon and the VPN pod make of a list of subnets with them, and the     *)
(* iptables rules inside the VPN pod (src/network/net.go).  A packet is    *)
(* from one subnet to another; subnets do not overlap, except with Everywhere.  *)
(***************************************************************************)
EXTENDS Naturals, SequencesExt

CONSTANT Size    \* subnet -> how many addresses it has, 1 for a /32

Everywhere == "0.0.0.0/0"

\* validateNATrules: both are subnets, of one size, or to a single address
ValidRule(rule) ==
  /\ {rule.orig, rule.mapped} \subseteq DOMAIN Size
  /\ Size[rule.orig] = Size[rule.mapped] \/ Size[rule.mapped] = 1

\* One strings.ReplaceAll per rule, in the order of the rules
MapSubnets(natRules, subnets) ==
  LET list[n \in 0 .. Len(natRules)] ==
        IF n = 0 THEN subnets
        ELSE ReplaceAll(list[n - 1], natRules[n].orig, natRules[n].mapped)
  IN list[Len(natRules)]

IpTablesRule(chain, src, dst, to) == [chain |-> chain, src |-> src, dst |-> dst, to |-> to]

\* A many-to-one rule is a SNAT, one way; the others are a pair of NETMAPs
SubnetRules(rule, subject) ==
  IF Size[rule.orig] # 1 /\ Size[rule.mapped] = 1
  THEN <<IpTablesRule("POSTROUTING", rule.orig, subject, rule.mapped)>>
  ELSE <<IpTablesRule("POSTROUTING", rule.orig, subject, rule.mapped),
         IpTablesRule("PREROUTING", subject, rule.mapped, rule.orig)>>

\* For each subject, for each rule
ConfigureSubnetNAT(natRules, subjects) ==
  FlattenSeq([i \in DOMAIN subjects |->
    FlattenSeq([j \in DOMAIN natRules |-> SubnetRules(natRules[j], subjects[i])])])

\* The one local subnet must be a single address; `iptables -d' takes a list
ConfigureSingleSourceIP(localSubnets, remoteSubnets) ==
  IF Len(localSubnets) = 1 /\ localSubnets[1] \in DOMAIN Size /\ Size[localSubnets[1]] = 1
  THEN [i \in DOMAIN remoteSubnets |->
          IpTablesRule("POSTROUTING", Everywhere, remoteSubnets[i], localSubnets[1])]
  ELSE <<>>

\* Faulty variant: the local subnets as the remote network sees them
SubjectsAsMapped(localNAT, leftSubnet) == leftSubnet

\* The subnets that the rules for the remote subnets are for.  Each turn of
\* the loop starts from leftSubnet, so the last rule that is in it counts.
OriginalSubnets(localNAT, leftSubnet) ==
  LET Listed(rule) == Contains(leftSubnet, rule.mapped)
      last == SelectLastInSeq(localNAT, Listed) IN
  FlattenSeq([i \in DOMAIN localNAT |->
    IF Listed(localNAT[i]) THEN <<>> ELSE <<localNAT[i].orig>>]) \o
  (IF last = 0 THEN leftSubnet
   ELSE ReplaceAll(leftSubnet, localNAT[last].mapped, localNAT[last].orig))

-----------------------------------------------------------------------------
(* What the kernel does with a packet: the first rule that matches counts. *)

Matches(rule, packet) == 
  rule.src \in {packet.src, Everywhere} /\ rule.dst \in {packet.dst, Everywhere}

FirstMatch(rules, chain, packet) ==
  SelectInSeq(rules, LAMBDA rule : rule.chain = chain /\ Matches(rule, packet))

Prerouted(rules, packet) ==
  LET i == FirstMatch(rules, "PREROUTING", packet) IN
  IF i = 0 THEN packet ELSE [packet EXCEPT !.dst = rules[i].to]

Postrouted(rules, packet) ==
  LET i == FirstMatch(rules, "POSTROUTING", packet) IN
  IF i = 0 THEN packet ELSE [packet EXCEPT !.src = rules[i].to]

Through(rules, packet) == Postrouted(rules, Prerouted(rules, packet))
=============================================================================
