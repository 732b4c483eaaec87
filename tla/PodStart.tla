------------------------------ MODULE PodStart ------------------------------
(***************************************************************************)
(* How a VPN pod starts: from the environment and ipsec.conf, through the  *)
(* questions to the API server, to the route data it publishes; vpnPodInit *)
(* and vpnPodConfig of src/strongswan/strongswan.go with all they call.    *)
(* VpnCluster has this as one step and goes on from there.                 *)
(*                                                                         *)
(* What the API server says changes while the pod asks: the pod runs, the  *)
(* cloud provider gives the load balancer its address.  The container may  *)
(* die at any step, by log.Fatalf or otherwise, and is started again in    *)
(* the same pod: its files are new, the pod's iptables rules are not.      *)
(***************************************************************************)
EXTENDS IpsecConf, SubnetNat

CONSTANTS
  Settings,     \* what the pod is configured with: see Release
  PodIP,        \* the address the pod will get
  WorkerIP,     \* the address of its node
  LBAddr,       \* addresses the cloud provider has for load balancers
  Table,        \* address -> the routing table its last byte gives
  Aligned,      \* subnets without host bits
  HostSubnet,   \* address -> the subnet of only that address
  podRetryCount, serviceRetryCount,
  Pending,      \* "<pending>": the load balancer has no address
  Hostname,     \* a load balancer that has a name and no address
  Faults        \* how often an API call fails or the container is killed

ASSUME PodStartAssumption ==
  /\ PodIP \in Addr /\ WorkerIP \in Addr
  /\ {Pending, Hostname, Empty} \cap Addr = {} /\ Pending # Hostname
  /\ LBAddr \subseteq Addr /\ "invalid" \notin Aligned
  /\ Table \in [Addr -> 200 .. 215]
  /\ podRetryCount \in Nat \ {0} /\ serviceRetryCount \in Nat \ {0}
  /\ Faults \in Nat

\* Files, rules and the settings of the zones are lists
ASSUME SettingsAssumption ==
  \A s \in Settings :
    /\ s.file \in Seq([kind : STRING, key : STRING, value : Seq(STRING)])
    /\ {s.localNAT, s.remoteNAT} \subseteq Seq([orig : STRING, mapped : STRING])
    /\ s.zoneSubnet \in Seq([zone : STRING, subnets : Seq(STRING)])

\* A release has the lines of ipsec.conf (file), the environment of the pod
\* (validate, privateIP, vip, singleIP, podSNAT, requested, localNAT, remoteNAT,
\* and zoneLB and zoneSubnet, sequences of [zone, ip] and [zone, subnets]) and
\* the node the pod is on (its zone and publicIP).
VARIABLES
  release,   \* one of Settings, which never changes
  phase,     \* the pod's phase in the API server
  ingress,   \* the load balancer's address in the API server
  faults,    \* what is left of Faults
  at,        \* where main is
  try,       \* the turn of the loop it is in
  file,      \* ipsec.conf in /etc
  conf,      \* what vpnPodInit last took from it: leftID, leftSubnet and so on
  rules,     \* iptables rules in the pod
  pools,     \* the IPPools it has created
  vip,       \* connectUsingVip
  lb,        \* loadBalancerIP
  data,      \* the route data published last
  cause      \* history: why the container died last

vars == <<release, phase, ingress, faults, at, try, file, conf,
          rules, pools, vip, lb, data, cause>>
apiVars == <<release, phase, ingress>>
podVars == <<rules, pools, data>>

-----------------------------------------------------------------------------
(* What vpnPodInit and vpnPodConfig make of the settings.                  *)

Extracted ==
  LET configData == readConfigFile(release.file) IN
  [leftID |-> ExtractConfigData(configData, "leftid"),
   leftSubnet |-> ExtractConfigData(configData, "leftsubnet"),
   rightSubnet |-> ExtractConfigData(configData, "rightsubnet"),
   remoteGateway |-> ExtractConfigData(configData, "right"),
   ipsecAuto |-> ExtractConfigData(configData, "auto")]

NoConf ==
  [key \in {"leftID", "leftSubnet", "rightSubnet", "remoteGateway", "ipsecAuto"} |-> <<>>]

\* processLocalZoneSubnet: entries up to the zone's are checked; <<>>: Fatalf
ZoneSubnet ==
  LET OfZone(z) == z.zone = release.zone
      i == SelectInSeq(release.zoneSubnet, OfZone) IN
  IF i = 0 \/ \E j \in 1 .. i : ~ ToSet(release.zoneSubnet[j].subnets) \subseteq Subnet
  THEN <<>> ELSE release.zoneSubnet[i].subnets

\* Faulty variant: leftSubnet is not set when ipsec.conf is changed
LeftSubnetAsRead == conf.leftSubnet

\* leftSubnet, once ipsec.conf is changed
LeftSubnet == IF conf.leftSubnet = <<"%zoneSubnet">> THEN ZoneSubnet ELSE conf.leftSubnet

\* processZoneLoadBalancer: every entry is checked; "": Fatalf
ZoneLoadBalancer ==
  LET OfZone(z) == z.zone = release.zone
      i == SelectLastInSeq(release.zoneLB, OfZone) IN
  IF i = 0 \/ \E z \in ToSet(release.zoneLB) : z.ip \notin Addr
  THEN Empty ELSE release.zoneLB[i].ip

\* requestedLoadBalancerIP, of the service that is asked for
requestedLoadBalancerIP ==
  IF release.zoneLB = <<>> THEN release.requested ELSE ZoneLoadBalancer

\* validateNATrules and ValidateConfig, and the values of enablePodSNAT
SettingsOK ==
  /\ \A rule \in ToSet(release.localNAT) \cup ToSet(release.remoteNAT) : ValidRule(rule)
  /\ release.podSNAT \in {Empty, "true", "false", "auto"}
  /\ ValidateConfig(readConfigFile(release.file), release.validate, release.privateIP,
                    release.remoteNAT)

\* validateIPNotInRemoteSubnet
NotInRemoteSubnet(ip) ==
  /\ ip \in Addr /\ conf.rightSubnet # <<>>
  /\ \A s \in ToSet(conf.rightSubnet) : s \in Subnet /\ ip \notin InSubnet[s]

\* The node and its zone are known to the settings
ZoneOK ==
  /\ release.zoneLB # <<>> => ZoneLoadBalancer # Empty
  /\ release.zoneSubnet # <<>> => ZoneSubnet # <<>>

\* ConfigureSubnetNAT and ConfigureSingleSourceIP, as vpnPodConfig calls them
NatRules ==
  (IF release.localNAT # <<>> THEN ConfigureSubnetNAT(release.localNAT, conf.rightSubnet)
   ELSE IF release.singleIP THEN ConfigureSingleSourceIP(LeftSubnet, conf.rightSubnet)
   ELSE <<>>) \o
  ConfigureSubnetNAT(release.remoteNAT,
    IF release.localNAT # <<>> THEN OriginalSubnets(release.localNAT, LeftSubnet)
    ELSE IF release.singleIP THEN <<Everywhere>> ELSE LeftSubnet)

\* Pods keep their addresses: "auto" asks if they are in a local subnet
NoPodSNAT ==
  \/ release.podSNAT = "false"
  \/ release.podSNAT = "auto" /\ \E s \in ToSet(conf.leftSubnet) \cap Subnet : PodIP \in InSubnet[s]

\* Faulty variant: the pools are for the subnets before the mapping
UnmappedPools == IF NoPodSNAT THEN conf.rightSubnet ELSE <<>>

\* The subnets that need an IPPool, in the order they are created
PoolSubnets ==
  IF NoPodSNAT THEN MapSubnets(release.remoteNAT, conf.rightSubnet) ELSE <<>>

\* The IPPool for the gateway, which is to get the packets as they are
GatewaySubnet ==
  IF \E a \in Addr : conf.remoteGateway = <<a>>
  THEN HostSubnet[CHOOSE a \in Addr : conf.remoteGateway = <<a>>] ELSE "invalid"

RouteData ==
  [connectUsingLB |-> vip, lbip |-> lb, local |-> conf.leftSubnet, remote |-> conf.rightSubnet,
   gateway |-> conf.remoteGateway, pod |-> PodIP, worker |-> WorkerIP,
   table |-> IF lb = Pending THEN 200 ELSE Table[lb]]

NoData == [connectUsingLB |-> FALSE, lbip |-> Pending, local |-> <<>>, remote |-> <<>>,
           gateway |-> <<>>, pod |-> Empty, worker |-> Empty, table |-> 0]

-----------------------------------------------------------------------------
(* main, from initialize to the end of vpnPodConfig.                       *)

Goto(label) == at' = label /\ try' = 1

\* log.Fatalf or a panic
Die(why) ==
  /\ Goto("dead") /\ cause' = why
  /\ UNCHANGED <<apiVars, faults, file, conf, podVars, vip, lb>>

\* initialize and vpnPodInit; auto=add turns connectUsingVip off
Initialize ==
  /\ at = "init"
  /\ \/ SettingsOK /\ Goto("pod")
        /\ file' = release.file /\ conf' = Extracted
        /\ vip' = (release.vip /\ Extracted.ipsecAuto # <<"add">>)
        /\ UNCHANGED <<apiVars, faults, podVars, lb, cause>>
     \/ ~SettingsOK /\ Die("settings")

\* Faulty variant: the last turn waits for another
WaitsOnceMore ==
  /\ at = "pod" /\ phase # "Running" /\ try' = try + 1
  /\ UNCHANGED <<apiVars, faults, at, file, conf, podVars, vip, lb, cause>>

\* A turn of the loop in GetPodInfo; the last one takes the pod as it is
GetPodInfo ==
  /\ at = "pod"
  /\ IF phase # "Running" /\ try < podRetryCount
     THEN /\ try' = try + 1
          /\ UNCHANGED <<apiVars, faults, at, file, conf, podVars, vip, lb, cause>>
     ELSE IF phase = "Pending" THEN Die("pod")
     ELSE IF ~(NotInRemoteSubnet(PodIP) /\ NotInRemoteSubnet(WorkerIP) /\ ZoneOK)
     THEN Die("settings")
     ELSE /\ Goto("service")
          /\ UNCHANGED <<apiVars, faults, file, conf, podVars, vip, lb, cause>>

\* Faulty variant: an address is always waited for
AlwaysNeeded == requestedLoadBalancerIP # Empty \/ conf.ipsecAuto # <<>>

\* GetLoadBalancerIP fails without an address in these cases
AddressNeeded == requestedLoadBalancerIP # Empty \/ conf.ipsecAuto = <<"add">>

\* GetLoadBalancerIP does not wait for an address
WillNotWait == conf.ipsecAuto = <<"start">> /\ requestedLoadBalancerIP = Empty /\ ~vip

\* Faulty variant: connectUsingVip stays as it was
KeepsVip(ip) ==
  /\ Goto("rewrite") /\ lb' = ip /\ vip' = vip
  /\ UNCHANGED <<apiVars, faults, file, conf, podVars, cause>>

\* vpnPodConfig, with what GetLoadBalancerIP has returned
Proceed(ip) ==
  /\ Goto("rewrite") /\ lb' = ip /\ vip' = (vip /\ ip # Pending)
  /\ UNCHANGED <<apiVars, faults, file, conf, podVars, cause>>

\* A turn of the loop in GetLoadBalancerIP.  A load balancer with a name
\* gives "", on which CalculateRouterTable panics.
GetLoadBalancerIP ==
  /\ at = "service"
  /\ IF ingress = Hostname THEN Die("address")
     ELSE IF ingress # Pending THEN Proceed(ingress)
     ELSE IF WillNotWait THEN Proceed(Pending)
     ELSE IF try < serviceRetryCount
     THEN /\ try' = try + 1
          /\ UNCHANGED <<apiVars, faults, at, file, conf, podVars, vip, lb, cause>>
     ELSE IF AddressNeeded THEN Die("address") ELSE Proceed(Pending)

\* Appending rules that are there already changes nothing for a packet
AppendRules(new) == IF ToSet(new) \subseteq ToSet(rules) THEN rules ELSE rules \o new

\* The rewriting of ipsec.conf, then subnet NAT in the pod
Rewrite ==
  /\ at = "rewrite"
  /\ IF RefusesLeftID(conf.leftID, release.publicIP, lb)
     THEN Die(IF conf.leftID = <<"%loadBalancerIP">> THEN "address" ELSE "settings")
     ELSE /\ Goto("pools")
          /\ file' = UpdateConfigLeftSubnet(
                       UpdateConfigLeftID(file, conf.leftID, release.publicIP, lb),
                       conf.leftSubnet, ZoneSubnet)
          /\ conf' = [conf EXCEPT !.leftSubnet = LeftSubnet]
          /\ \E new \in {NatRules} : rules' = AppendRules(new)
          /\ UNCHANGED <<apiVars, faults, pools, data, vip, lb, cause>>

\* calicoctl refuses a subnet with host bits
Create(subnet) ==
  /\ pools' = pools \cup {subnet}
  /\ UNCHANGED <<apiVars, faults, file, conf, rules, data, vip, lb, cause>>

CreateIPPool ==
  /\ at = "pools" /\ try <= Len(PoolSubnets)
  /\ \/ PoolSubnets[try] \in Aligned /\ Create(PoolSubnets[try]) /\ try' = try + 1 /\ at' = at
     \/ PoolSubnets[try] \notin Aligned /\ Die("settings")

\* A VPN that connects through its load balancer has a pool for the gateway
GatewayIPPool ==
  /\ at = "pools" /\ try > Len(PoolSubnets)
  /\ \/ ~vip /\ Goto("publish")
        /\ UNCHANGED <<apiVars, faults, file, conf, podVars, vip, lb, cause>>
     \/ vip /\ GatewaySubnet \in Aligned /\ Create(GatewaySubnet) /\ Goto("publish")
     \/ vip /\ GatewaySubnet \notin Aligned /\ Die("settings")

UpdateConfigMap ==
  /\ at = "publish" /\ Goto("published") /\ data' = RouteData
  /\ UNCHANGED <<apiVars, faults, file, conf, rules, pools, vip, lb, cause>>

Main ==
  \/ Initialize \/ GetPodInfo \/ GetLoadBalancerIP \/ Rewrite
  \/ CreateIPPool \/ GatewayIPPool \/ UpdateConfigMap

\* A call fails, and with it the process, or the process is killed
Fault ==
  /\ at # "dead" /\ faults > 0 /\ faults' = faults - 1
  /\ Goto("dead") /\ cause' = "fault"
  /\ UNCHANGED <<apiVars, file, conf, podVars, vip, lb>>

\* The kubelet starts the container again, with new files
Restart ==
  /\ at = "dead" /\ Goto("init") /\ file' = <<>> /\ vip' = FALSE /\ lb' = Pending
  /\ UNCHANGED <<apiVars, faults, conf, podVars, cause>>

\* The kubelet gives the pod its address, then reports it as running
PodChanges ==
  /\ \/ phase = "Pending" /\ phase' \in {"addressed", "Running"}
     \/ phase = "addressed" /\ phase' = "Running"
  /\ UNCHANGED <<release, ingress, faults, at, try, file, conf, podVars, vip, lb, cause>>

\* The address the chart has put into the load balancer's specification
ServiceIP ==
  IF release.zoneLB = <<>> THEN release.requested
  ELSE LET OfZone == {z \in ToSet(release.zoneLB) : z.zone = release.zone} IN
       IF OfZone = {} THEN Empty ELSE (CHOOSE z \in OfZone : TRUE).ip

\* The cloud provider gives the load balancer an address, or the one that
\* its specification has got in the meantime
CloudProvider ==
  /\ IF ServiceIP = Empty THEN ingress = Pending /\ ingress' \in LBAddr \cup {Hostname}
     ELSE ServiceIP \in LBAddr \ {ingress} /\ ingress' = ServiceIP
  /\ UNCHANGED <<release, phase, faults, at, try, file, conf, podVars, vip, lb, cause>>

Init ==
  /\ release \in Settings
  /\ phase = "Pending" /\ ingress \in LBAddr \cup {Pending}
  /\ faults = Faults /\ at = "init" /\ try = 1 /\ file = <<>>
  /\ rules = <<>> /\ pools = {} /\ vip = FALSE /\ lb = Pending
  /\ conf = NoConf /\ data = NoData /\ cause = "none"

Next == Main \/ Fault \/ Restart \/ PodChanges \/ CloudProvider

Spec == Init /\ [][Next]_vars

\* main runs and the kubelet restarts it; of the API server nothing is assumed
FairSpec == Spec /\ WF_vars(Main) /\ WF_vars(Restart)

-----------------------------------------------------------------------------
(* Properties.                                                             *)

Labels == {"init", "pod", "service", "rewrite", "pools", "publish", "published", "dead"}

\* Type invariant: every variable holds a value of the kind the code gives it.
TypeOK ==
  /\ release \in Settings
  /\ phase \in {"Pending", "addressed", "Running"}
  /\ ingress \in LBAddr \cup {Pending, Hostname}
  /\ faults \in 0 .. Faults
  /\ at \in Labels /\ try \in Nat \ {0}
  /\ at = "pod" => try <= podRetryCount
  /\ at = "service" => try <= serviceRetryCount
  /\ pools \subseteq Aligned
  /\ vip \in BOOLEAN /\ lb \in LBAddr \cup {Pending}
  /\ cause \in {"none", "settings", "pod", "address", "fault"}

\* The release cannot do without an address: the service specifies one, the
\* VPN is inbound, or the address is to be in ipsec.conf
NeedsAddress ==
  ServiceIP # Empty \/ conf.ipsecAuto = <<"add">> \/ conf.leftID = <<"%loadBalancerIP">>

\* The route daemons are told to use the load balancer's address only when it
\* has one, the VPN is outbound and the gateway has its IPPool; a release that
\* needs the address is never published without it, however often the pod
\* gave up and was restarted.
PublishedAddress ==
  at = "published" =>
    /\ data.connectUsingLB =>
         /\ data.lbip \in Addr /\ conf.ipsecAuto # <<"add">>
         /\ \E a \in Addr : data.gateway = <<a>> /\ HostSubnet[a] \in pools
    /\ NeedsAddress => data.lbip \in Addr

\* No space is before the "=" of any line
PlainFile == \A i \in DOMAIN release.file : release.file[i].kind # "spaced"

\* ipsec and the route daemons work with the same subnets: what ipsec reads
\* from the file that sed rewrote is what the pod has published, and it is
\* given an address as its leftid wherever a placeholder stood.
FileMatchesData ==
  at = "published" /\ PlainFile =>
    /\ IpsecReads(file, "leftsubnet") = data.local
    /\ IpsecReads(file, "rightsubnet") = data.remote
    /\ conf.leftID \in {<<"%nodePublicIP">>, <<"%loadBalancerIP">>} =>
         IpsecReads(file, "leftid") \in {<<release.publicIP>>, <<data.lbip>>} \cap {<<a>> : a \in Addr}

\* NAT that the comments of values.yaml describe: rules from remote subnets of
\* the list, and to local subnets of the list, one for each subnet, and no
\* subnet both local and remote
PlainRules ==
  LET local == ToSet(release.localNAT)
      remote == ToSet(release.remoteNAT)
      near == ToSet(conf.leftSubnet) \cup {r.orig : r \in local}
      far == ToSet(conf.rightSubnet) \cup {r.mapped : r \in remote} IN
  /\ near \cap far = {} /\ Everywhere \notin near \cup far
  /\ \A r \in local : r.mapped \in ToSet(conf.leftSubnet) /\ r.orig \notin ToSet(conf.leftSubnet)
  /\ \A r \in remote : r.orig \in ToSet(conf.rightSubnet) /\ r.mapped \notin ToSet(conf.rightSubnet)
  /\ \A r, q \in local : r.orig = q.orig \/ r.mapped = q.mapped => r = q
  /\ \A r, q \in remote : r.orig = q.orig \/ r.mapped = q.mapped => r = q

\* The rules for which the subnets in origSubnets are the original ones: with two
\* in localSubnetNAT, each turn of the loop that translates them back starts from
\* leftSubnet again (strongswan.go:266), and only the last one stays translated
PlainNat == PlainRules /\ (release.remoteNAT # <<>> => Len(release.localNAT) <= 1)

\* How the cluster knows a subnet that is local to the VPN, or remote
Inside(s) ==
  LET i == SelectInSeq(release.localNAT, LAMBDA rule : rule.mapped = s) IN
  IF i = 0 THEN s ELSE release.localNAT[i].orig
Outside(s) == MapSubnets(release.remoteNAT, <<s>>)[1]

\* What the route daemons route into the pod comes out of its iptables rules
\* with the addresses ipsec's policy is about, and what comes from the tunnel
\* with those the cluster knows; to a single address there is no way back.
\* Releases with rules for remote subnets and two or more for local ones are
\* left out (PlainNat): their remote subnets are not mapped for every local one.
PodTranslates ==
  at = "published" /\ PlainNat =>
    \A l \in ToSet(data.local), r \in ToSet(data.remote) :
      /\ Size[Outside(r)] = Size[r] =>
           Through(rules, [src |-> Inside(l), dst |-> Outside(r)]) = [src |-> l, dst |-> r]
      /\ (Size[Inside(l)] = Size[l] /\ ~release.singleIP) =>
           Through(rules, [src |-> r, dst |-> l]) = [src |-> Outside(r), dst |-> Inside(l)]

\* When pods are to keep their addresses, there is an IPPool for every subnet
\* that the route daemons route to the pod, in the daemons' own mapping.
PoolsCoverRoutes ==
  at = "published" /\ NoPodSNAT =>
    \A r \in ToSet(data.remote) : MapSubnets(release.remoteNAT, <<r>>)[1] \in pools

\* "If the user requested a specific Load Balancer IP address, fail if it was
\* not assigned to the service" (service.go:69): what is published has the
\* address that the release requests.
RequestedAddress ==
  at = "published" /\ requestedLoadBalancerIP # Empty => data.lbip = requestedLoadBalancerIP

\* Polling a fixed number of times, giving up and being restarted is enough:
\* once the pod runs and its load balancer has the address, if it needs one,
\* the pod publishes its data, with whatever address that is, unless its
\* settings are refused.
Publishes ==
  <>[](phase = "Running" /\ ingress # Hostname /\ (NeedsAddress => ingress # Pending))
    => <>(at = "published" \/ cause = "settings")
=============================================================================
