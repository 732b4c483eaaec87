--------------------------- MODULE PodStartProofs ---------------------------
(* Proofs about PodStart, for every release, cluster and number of retries. *)
EXTENDS PodStart, SubnetNatProofs

(* TypeOK: one step per action of Next.                                     *)

\* A step that only moves main, or kills it, keeps the types.
LEMMA GotoType ==
  ASSUME PodStartAssumption, NEW label \in Labels, Goto(label)
  PROVE  /\ at' \in Labels /\ try' \in Nat \ {0}
         /\ at' = "pod" => try' <= podRetryCount
         /\ at' = "service" => try' <= serviceRetryCount
  BY DEF Goto, PodStartAssumption

LEMMA DieType ==
  ASSUME PodStartAssumption, TypeOK,
         NEW why \in {"settings", "pod", "address"}, Die(why)
  PROVE  TypeOK'
  <1>1. "dead" \in Labels
    BY DEF Labels
  <1>2. Goto("dead")
    BY DEF Die
  <1>3. QED
    BY <1>1, <1>2, GotoType DEF Die, TypeOK, apiVars, podVars

\* Each step of the container keeps the types.
LEMMA MainType ==
  ASSUME PodStartAssumption, TypeOK, Main
  PROVE  TypeOK'
  <1>l. {"init", "pod", "service", "rewrite", "pools", "publish", "published", "dead"} \subseteq Labels
    BY DEF Labels
  <1>1. CASE Initialize
    <2>1. CASE Die("settings")
      BY <2>1, DieType
    <2>2. CASE Goto("pod") /\ vip' = (release.vip /\ Extracted.ipsecAuto # <<"add">>)
               /\ UNCHANGED <<apiVars, faults, podVars, lb, cause>>
      <3>1. vip' \in BOOLEAN
        BY <2>2
      <3>2. QED
        BY <2>2, <3>1, <1>l, GotoType DEF TypeOK, apiVars, podVars
    <2>3. QED
      BY <1>1, <2>1, <2>2 DEF Initialize
  <1>2. CASE GetPodInfo
    <2>1. CASE phase # "Running" /\ try < podRetryCount
      <3>1. UNCHANGED <<apiVars, faults, at, file, conf, podVars, vip, lb, cause>> /\ try' = try + 1 /\ at = "pod"
        BY <1>2, <2>1 DEF GetPodInfo
      <3>2. QED
        BY <2>1, <3>1 DEF TypeOK, apiVars, podVars, PodStartAssumption
    <2>2. CASE Die("pod") \/ Die("settings")
      BY <2>2, DieType
    <2>3. CASE Goto("service") /\ UNCHANGED <<apiVars, faults, file, conf, podVars, vip, lb, cause>>
      BY <2>3, <1>l, GotoType DEF TypeOK, apiVars, podVars
    <2>4. QED
      BY <1>2, <2>1, <2>2, <2>3 DEF GetPodInfo
  <1>3. CASE GetLoadBalancerIP
    <2>1. CASE Die("address")
      BY <2>1, DieType
    <2>2. ASSUME NEW ip \in LBAddr \cup {Pending}, Proceed(ip)
          PROVE  TypeOK'
      <3>1. vip' \in BOOLEAN
        BY <2>2 DEF Proceed
      <3>2. QED
        BY <2>2, <3>1, <1>l, GotoType DEF Proceed, TypeOK, apiVars, podVars
    <2>3. CASE /\ at = "service" /\ try < serviceRetryCount /\ try' = try + 1
               /\ UNCHANGED <<apiVars, faults, at, file, conf, podVars, vip, lb, cause>>
      BY <2>3 DEF TypeOK, apiVars, podVars, PodStartAssumption
    <2>4. ingress # Hostname => ingress \in LBAddr \cup {Pending}
      BY DEF TypeOK
    <2>5. QED
      BY <1>3, <2>1, <2>2, <2>3, <2>4 DEF GetLoadBalancerIP
  <1>4. CASE Rewrite
    <2>1. CASE \E why \in {"settings", "pod", "address"} : Die(why)
      BY <2>1, DieType
    <2>2. CASE Goto("pools") /\ UNCHANGED <<apiVars, faults, pools, data, vip, lb, cause>>
      BY <2>2, <1>l, GotoType DEF TypeOK, apiVars
    <2>3. QED
      BY <1>4, <2>1, <2>2 DEF Rewrite
  <1>5. CASE CreateIPPool
    <2>1. CASE Die("settings")
      BY <2>1, DieType
    <2>2. CASE /\ at = "pools" /\ PoolSubnets[try] \in Aligned /\ Create(PoolSubnets[try])
               /\ try' = try + 1 /\ at' = at
      BY <2>2 DEF Create, TypeOK, apiVars
    <2>3. QED
      BY <1>5, <2>1, <2>2 DEF CreateIPPool
  <1>6. CASE GatewayIPPool
    <2>1. CASE Die("settings")
      BY <2>1, DieType
    <2>2. CASE Goto("publish") /\ UNCHANGED <<apiVars, faults, file, conf, podVars, vip, lb, cause>>
      BY <2>2, <1>l, GotoType DEF TypeOK, apiVars, podVars
    <2>3. CASE GatewaySubnet \in Aligned /\ Create(GatewaySubnet) /\ Goto("publish")
      BY <2>3, <1>l, GotoType DEF Create, TypeOK, apiVars
    <2>4. QED
      BY <1>6, <2>1, <2>2, <2>3 DEF GatewayIPPool
  <1>7. CASE UpdateConfigMap
    BY <1>7, <1>l, GotoType DEF UpdateConfigMap, TypeOK, apiVars
  <1>8. QED
    BY <1>1, <1>2, <1>3, <1>4, <1>5, <1>6, <1>7 DEF Main

\* The address in the load balancer's specification is given only if the
\* provider has it.
LEMMA EnvironmentType ==
  ASSUME PodStartAssumption, TypeOK, Fault \/ Restart \/ PodChanges \/ CloudProvider
  PROVE  TypeOK'
  <1>l. {"init", "dead"} \subseteq Labels
    BY DEF Labels
  <1>1. CASE Fault
    <2>1. faults' \in 0 .. Faults
      BY <1>1 DEF Fault, TypeOK, PodStartAssumption
    <2>2. QED
      BY <1>1, <1>l, <2>1, GotoType DEF Fault, TypeOK, apiVars, podVars
  <1>2. CASE Restart
    BY <1>2, <1>l, GotoType DEF Restart, TypeOK, apiVars, podVars
  <1>3. CASE PodChanges
    BY <1>3 DEF PodChanges, TypeOK, podVars
  <1>4. CASE CloudProvider
    BY <1>4 DEF CloudProvider, TypeOK, podVars
  <1>5. QED
    BY <1>1, <1>2, <1>3, <1>4

LEMMA InitType ==
  ASSUME PodStartAssumption
  PROVE  Init => TypeOK
  <1>1. Faults \in Nat /\ podRetryCount \in Nat \ {0} /\ serviceRetryCount \in Nat \ {0}
    BY DEF PodStartAssumption
  <1>2. "init" \in Labels
    BY DEF Labels
  <1>3. Init => vip \in BOOLEAN
    BY DEF Init
  <1>4. Init => /\ faults \in 0 .. Faults /\ at \in Labels /\ try \in Nat \ {0}
                /\ at = "pod" => try <= podRetryCount
                /\ at = "service" => try <= serviceRetryCount
    BY <1>1, <1>2 DEF Init
  <1>5. Init => pools \subseteq Aligned
    BY DEF Init
  <1>6. Init => /\ release \in Settings /\ phase \in {"Pending", "addressed", "Running"}
                /\ ingress \in LBAddr \cup {Pending, Hostname}
                /\ lb \in LBAddr \cup {Pending}
                /\ cause \in {"none", "settings", "pod", "address", "fault"}
    BY DEF Init
  <1>7. QED
    BY <1>3, <1>4, <1>5, <1>6 DEF TypeOK

\* Every variable keeps its type, whatever the API server answers and
\* wherever the container dies (vpnPodInit and vpnPodConfig).
THEOREM PodTypeCorrect ==
  ASSUME PodStartAssumption
  PROVE  Spec => []TypeOK
  <1>1. Init => TypeOK
    BY InitType
  <1>2. TypeOK /\ [Next]_vars => TypeOK'
    <2>1. TypeOK /\ Next => TypeOK'
      BY MainType, EnvironmentType DEF Next
    <2>2. TypeOK /\ UNCHANGED vars => TypeOK'
      BY DEF TypeOK, vars
    <2>3. QED
      BY <2>1, <2>2
  <1>3. QED
    BY <1>1, <1>2, PTL DEF Spec

-----------------------------------------------------------------------------
(* PublishedAddress.  What main found out on its way holds wherever it is:  *)
(* the settings of the zone, that the address is there if it is needed, that *)
(* the gateway has its IPPool.                                              *)

FromService == {"service", "rewrite", "pools", "publish", "published"}
FromRewrite == {"rewrite", "pools", "publish", "published"}
FromPools == {"pools", "publish", "published"}
FromPublish == {"publish", "published"}

ConfKept == DOMAIN conf = {"leftID", "leftSubnet", "rightSubnet", "remoteGateway", "ipsecAuto"}
ZoneChecked == at \in FromService => ZoneOK
Outbound == vip => conf.ipsecAuto # <<"add">>
HasAddress ==
  at \in FromRewrite /\ (vip \/ ServiceIP # Empty \/ conf.ipsecAuto = <<"add">>)
    => lb # Pending
LeftIDGiven == at \in FromPools /\ conf.leftID = <<"%loadBalancerIP">> => lb \in Addr
GatewayHasPool ==
  at \in FromPublish /\ vip =>
    \E a \in Addr : conf.remoteGateway = <<a>> /\ HostSubnet[a] \in pools
DataIsCurrent ==
  at = "published" =>
    /\ data.connectUsingLB = vip /\ data.lbip = lb /\ data.gateway = conf.remoteGateway

AddressInv ==
  /\ TypeOK /\ ConfKept /\ ZoneChecked /\ Outbound
  /\ HasAddress /\ LeftIDGiven /\ GatewayHasPool /\ DataIsCurrent

\* What the zone gives is a matter of the release, which never changes.
LEMMA ZoneStays ==
  ASSUME UNCHANGED release
  PROVE  UNCHANGED <<ServiceIP, requestedLoadBalancerIP>> /\ (ZoneOK' <=> ZoneOK)
  <1>1. UNCHANGED ServiceIP
    BY DEF ServiceIP
  <1>2. UNCHANGED ZoneLoadBalancer
    BY DEF ZoneLoadBalancer, SelectLastInSeq
  <1>3. UNCHANGED ZoneSubnet
    BY DEF ZoneSubnet, SelectInSeq
  <1>4. QED
    BY <1>1, <1>2, <1>3 DEF ZoneOK, requestedLoadBalancerIP

\* An address that the service specifies is one that the pod waits for.
LEMMA SpecifiedIsRequested ==
  ASSUME ZoneOK, ServiceIP # Empty
  PROVE  requestedLoadBalancerIP # Empty
  BY DEF ZoneOK, requestedLoadBalancerIP, ServiceIP

\* The invariant says nothing of a container that is gone.
LEMMA GoneKeepsAddress ==
  ASSUME AddressInv, TypeOK', at' \in {"init", "dead"},
         UNCHANGED <<release, conf>>, vip' => vip
  PROVE  AddressInv'
  <1>1. UNCHANGED DOMAIN conf
    OBVIOUS
  <1>2. QED
    BY <1>1 DEF AddressInv, ConfKept, ZoneChecked, Outbound, HasAddress, LeftIDGiven,
           GatewayHasPool, DataIsCurrent, FromService, FromRewrite, FromPools, FromPublish

LEMMA DieKeepsAddress ==
  ASSUME AddressInv, TypeOK', NEW why, Die(why)
  PROVE  AddressInv'
  BY GoneKeepsAddress DEF Die, Goto, apiVars

\* Nor does it change for a container that stays where it is, with more pools.
LEMMA WaitingKeepsAddress ==
  ASSUME AddressInv, TypeOK', UNCHANGED <<release, at, conf, vip, lb, data>>,
         pools \subseteq pools'
  PROVE  AddressInv'
  <1>1. /\ UNCHANGED <<ServiceIP, DOMAIN conf>> /\ (ZoneOK' <=> ZoneOK)
    BY ZoneStays
  <1>2. QED
    BY <1>1 DEF AddressInv, ConfKept, ZoneChecked, Outbound, HasAddress, LeftIDGiven,
           GatewayHasPool, DataIsCurrent

\* vpnPodInit: auto=add turns connectUsingVip off.
LEMMA InitializeKeepsAddress ==
  ASSUME AddressInv, TypeOK', Initialize
  PROVE  AddressInv'
  <1>1. CASE Die("settings")
    BY <1>1, DieKeepsAddress
  <1>2. CASE /\ Goto("pod") /\ conf' = Extracted
             /\ vip' = (release.vip /\ Extracted.ipsecAuto # <<"add">>)
    <2>1. ConfKept'
      BY <1>2 DEF ConfKept, Extracted
    <2>2. Outbound'
      BY <1>2 DEF Outbound
    <2>3. QED
      BY <1>2, <2>1, <2>2 DEF Goto, AddressInv, ZoneChecked, HasAddress, LeftIDGiven,
             GatewayHasPool, DataIsCurrent, FromService, FromRewrite, FromPools, FromPublish
  <1>3. QED
    BY <1>1, <1>2 DEF Initialize

\* GetPodInfo and the checks of the zone that follow it.
LEMMA GetPodInfoKeepsAddress ==
  ASSUME AddressInv, TypeOK', GetPodInfo
  PROVE  AddressInv'
  <1>1. CASE UNCHANGED <<release, at, conf, vip, lb, data, pools>>
    BY <1>1, WaitingKeepsAddress
  <1>2. CASE Die("pod") \/ Die("settings")
    BY <1>2, DieKeepsAddress
  <1>3. CASE /\ ZoneOK /\ Goto("service")
             /\ UNCHANGED <<apiVars, faults, file, conf, podVars, vip, lb, cause>>
    <2>1. ZoneOK'
      BY <1>3, ZoneStays DEF apiVars
    <2>2. QED
      BY <1>3, <2>1 DEF Goto, AddressInv, ConfKept, ZoneChecked, Outbound, HasAddress,
             LeftIDGiven, GatewayHasPool, DataIsCurrent, FromService, FromRewrite,
             FromPools, FromPublish
  <1>4. QED
    BY <1>1, <1>2, <1>3 DEF GetPodInfo, podVars, apiVars

\* GetLoadBalancerIP goes on without an address only where none is needed.
LEMMA GetLoadBalancerIPKeepsAddress ==
  ASSUME AddressInv, TypeOK', GetLoadBalancerIP
  PROVE  AddressInv'
  <1>1. CASE UNCHANGED <<release, at, conf, vip, lb, data, pools>>
    BY <1>1, WaitingKeepsAddress
  <1>2. CASE Die("address")
    BY <1>2, DieKeepsAddress
  <1>3. ASSUME NEW ip, Proceed(ip),
               ServiceIP # Empty \/ conf.ipsecAuto = <<"add">> => ip # Pending
        PROVE  AddressInv'
    <2>1. ZoneOK
      BY <1>3 DEF AddressInv, ZoneChecked, FromService, GetLoadBalancerIP
    <2>2. UNCHANGED ServiceIP /\ ZoneOK'
      BY <1>3, <2>1, ZoneStays DEF Proceed, apiVars
    <2>3. HasAddress'
      BY <1>3, <2>2 DEF HasAddress, Proceed
    <2>4. Outbound'
      BY <1>3 DEF Outbound, Proceed, AddressInv
    <2>5. QED
      BY <1>3, <2>2, <2>3, <2>4 DEF Proceed, Goto, AddressInv, ConfKept, ZoneChecked,
             LeftIDGiven, GatewayHasPool, DataIsCurrent, FromPools, FromPublish
  <1>4. ZoneOK /\ at = "service"
    BY DEF AddressInv, ZoneChecked, FromService, GetLoadBalancerIP
  <1>5. WillNotWait \/ ~AddressNeeded =>
          ~(ServiceIP # Empty \/ conf.ipsecAuto = <<"add">>)
    BY <1>4, SpecifiedIsRequested DEF WillNotWait, AddressNeeded
  <1>6. QED
    BY <1>1, <1>2, <1>3, <1>5 DEF GetLoadBalancerIP, podVars, apiVars

\* The pod never gets past a leftid that is to be an address and is none.
LEMMA RewriteKeepsAddress ==
  ASSUME AddressInv, TypeOK', Rewrite
  PROVE  AddressInv'
  <1>1. CASE \E why \in {"settings", "address"} : Die(why)
    BY <1>1, DieKeepsAddress
  <1>2. CASE /\ ~RefusesLeftID(conf.leftID, release.publicIP, lb)
             /\ Goto("pools") /\ conf' = [conf EXCEPT !.leftSubnet = LeftSubnet]
             /\ UNCHANGED <<apiVars, faults, pools, data, vip, lb, cause>>
    <2>1. DOMAIN conf' = DOMAIN conf
      BY <1>2
    <2>2. UNCHANGED <<conf.leftID, conf.ipsecAuto, conf.remoteGateway>>
      BY <1>2 DEF AddressInv, ConfKept
    <2>3. UNCHANGED ServiceIP /\ (ZoneOK' <=> ZoneOK)
      BY <1>2, ZoneStays DEF apiVars
    <2>4. conf.leftID = <<"%loadBalancerIP">> => lb \in Addr
      BY <1>2 DEF RefusesLeftID, NewLeftID
    <2>5. at = "rewrite"
      BY DEF Rewrite
    <2>6. ConfKept' /\ Outbound'
      BY <1>2, <2>1, <2>2 DEF AddressInv, ConfKept, Outbound
    <2>7. ZoneChecked' /\ HasAddress'
      BY <1>2, <2>2, <2>3, <2>5 DEF AddressInv, ZoneChecked, HasAddress, FromService, FromRewrite
    <2>8. LeftIDGiven'
      BY <1>2, <2>2, <2>4 DEF LeftIDGiven
    <2>9. QED
      BY <1>2, <2>6, <2>7, <2>8 DEF Goto, AddressInv, GatewayHasPool, DataIsCurrent, FromPublish
  <1>3. QED
    BY <1>1, <1>2 DEF Rewrite

\* vpnPodConfig publishes only after the gateway got its IPPool.
LEMMA PoolsKeepAddress ==
  ASSUME PodStartAssumption, AddressInv, TypeOK', CreateIPPool \/ GatewayIPPool
  PROVE  AddressInv'
  <1>1. CASE Die("settings")
    BY <1>1, DieKeepsAddress
  <1>2. ASSUME NEW subnet, Create(subnet), at' = at
        PROVE  AddressInv'
    BY <1>2, WaitingKeepsAddress DEF Create, apiVars
  <1>3. CASE /\ at = "pools" /\ Goto("publish") /\ UNCHANGED <<release, conf, vip, lb>>
             /\ vip => GatewaySubnet \in Aligned /\ GatewaySubnet \in pools'
    <2>1. vip => \E a \in Addr : conf.remoteGateway = <<a>> /\ HostSubnet[a] \in pools'
      BY <1>3 DEF GatewaySubnet, PodStartAssumption
    <2>2. UNCHANGED ServiceIP /\ (ZoneOK' <=> ZoneOK) /\ UNCHANGED DOMAIN conf
      BY <1>3, ZoneStays
    <2>3. QED
      BY <1>3, <2>1, <2>2 DEF Goto, AddressInv, ConfKept, ZoneChecked, Outbound, HasAddress,
             LeftIDGiven, GatewayHasPool, DataIsCurrent, FromService, FromRewrite, FromPools,
             FromPublish
  <1>4. CASE CreateIPPool
    BY <1>1, <1>2, <1>4 DEF CreateIPPool
  <1>5. CASE GatewayIPPool
    BY <1>1, <1>3, <1>5 DEF GatewayIPPool, Create, apiVars
  <1>6. QED
    BY <1>4, <1>5

LEMMA PublishKeepsAddress ==
  ASSUME AddressInv, TypeOK', UpdateConfigMap
  PROVE  AddressInv'
  <1>1. /\ at = "publish" /\ at' = "published" /\ UNCHANGED <<release, conf, vip, lb, pools>>
        /\ data' = RouteData
    BY DEF UpdateConfigMap, Goto, apiVars
  <1>2. DataIsCurrent'
    BY <1>1 DEF DataIsCurrent, RouteData
  <1>3. UNCHANGED ServiceIP /\ (ZoneOK' <=> ZoneOK) /\ UNCHANGED DOMAIN conf
    BY <1>1, ZoneStays
  <1>4. QED
    BY <1>1, <1>2, <1>3 DEF AddressInv, ConfKept, ZoneChecked, Outbound, HasAddress,
           LeftIDGiven, GatewayHasPool, FromService, FromRewrite, FromPools, FromPublish

LEMMA AddressStep ==
  ASSUME PodStartAssumption, AddressInv, [Next]_vars
  PROVE  AddressInv'
  <1>0. TypeOK /\ TypeOK'
    <2>1. Next => TypeOK'
      BY MainType, EnvironmentType DEF Next, AddressInv
    <2>2. UNCHANGED vars => TypeOK'
      BY DEF TypeOK, vars, AddressInv
    <2>3. QED
      BY <2>1, <2>2 DEF AddressInv
  <1>1. CASE Main
    BY <1>0, <1>1, InitializeKeepsAddress, GetPodInfoKeepsAddress,
       GetLoadBalancerIPKeepsAddress, RewriteKeepsAddress, PoolsKeepAddress,
       PublishKeepsAddress DEF Main
  <1>2. CASE Fault \/ Restart
    BY <1>0, <1>2, GoneKeepsAddress DEF Fault, Restart, Goto, apiVars
  <1>3. CASE PodChanges \/ CloudProvider \/ UNCHANGED vars
    BY <1>0, <1>3, WaitingKeepsAddress DEF PodChanges, CloudProvider, vars, podVars
  <1>4. QED
    BY <1>1, <1>2, <1>3 DEF Next

\* The route daemons are told to use the load balancer's address only when it
\* has one, the VPN is outbound and the gateway has its IPPool; a release that
\* needs the address is never published without it (GetLoadBalancerIP,
\* UpdateConfigLeftID and vpnPodConfig together), for any number of retries
\* and restarts.
THEOREM AddressPublished ==
  ASSUME PodStartAssumption
  PROVE  Spec => []PublishedAddress
  <1>1. Init => AddressInv
    <2>1. Init => TypeOK
      BY InitType
    <2>2. Init => ConfKept
      BY DEF Init, ConfKept, NoConf
    <2>3. QED
      BY <2>1, <2>2 DEF Init, AddressInv, ZoneChecked, Outbound, HasAddress, LeftIDGiven,
             GatewayHasPool, DataIsCurrent, FromService, FromRewrite, FromPools, FromPublish
  <1>2. AddressInv /\ [Next]_vars => AddressInv'
    BY AddressStep
  <1>3. AddressInv => PublishedAddress
    <2>1. SUFFICES ASSUME AddressInv, at = "published" PROVE PublishedAddress
      BY DEF PublishedAddress
    <2>2. lb # Pending => lb \in Addr
      BY <2>1 DEF AddressInv, TypeOK, PodStartAssumption
    <2>3. lb \in Addr \/ ~NeedsAddress
      BY <2>1, <2>2 DEF AddressInv, HasAddress, LeftIDGiven, FromRewrite, FromPools, NeedsAddress
    <2>4. vip => lb \in Addr /\ conf.ipsecAuto # <<"add">>
                 /\ \E a \in Addr : conf.remoteGateway = <<a>> /\ HostSubnet[a] \in pools
      BY <2>1, <2>2 DEF AddressInv, HasAddress, Outbound, GatewayHasPool, FromRewrite, FromPublish
    <2>5. data.connectUsingLB = vip /\ data.lbip = lb /\ data.gateway = conf.remoteGateway
      BY <2>1 DEF AddressInv, DataIsCurrent
    <2>6. QED
      BY <2>3, <2>4, <2>5 DEF PublishedAddress
  <1>4. QED
    BY <1>1, <1>2, <1>3, PTL DEF Spec

-----------------------------------------------------------------------------
(* What is read from ipsec.conf, before and after sed (config.go).         *)

\* Lines with values of members of S
Lines(S) == [kind : STRING, key : STRING, value : Seq(S)]

\* What each line has for a reader that skips lines of these kinds
Held(f, kinds, key) ==
  [i \in 1 .. Len(f) |->
     IF f[i].kind \notin kinds /\ f[i].key = key THEN f[i].value ELSE <<>>]

\* The lines of a file and their values.
LEMMA LinesElements ==
  ASSUME NEW S, NEW f \in Seq(Lines(S))
  PROVE  /\ Len(f) \in Nat /\ DOMAIN f = 1 .. Len(f)
         /\ \A i \in 1 .. Len(f) : f[i] \in Lines(S) /\ f[i].value \in Seq(S)
  <1>1. \A l \in Lines(S) : l.value \in Seq(S)
    BY DEF Lines
  <1>2. QED
    BY <1>1

\* A value is what the lines have, one after the other.
LEMMA ReadsHeld ==
  ASSUME NEW S, NEW f \in Seq(Lines(S)), NEW kinds, NEW key, key # Empty
  PROVE  /\ ExtractConfigData(Without(f, kinds), key) = FlattenSeq(Held(f, kinds, key))
         /\ Held(f, kinds, key) \in Seq(Seq(S))
         /\ Len(Held(f, kinds, key)) = Len(f)
         /\ FlattenSeq(Held(f, kinds, key)) \in Seq(S)
  <1> DEFINE lines == Without(f, kinds)
             lists == [i \in DOMAIN lines |-> IF lines[i].key = key THEN lines[i].value ELSE <<>>]
  <1>1. /\ Len(f) \in Nat /\ DOMAIN f = 1 .. Len(f)
        /\ \A i \in 1 .. Len(f) : f[i].value \in Seq(S)
    BY LinesElements
  <1>2. DOMAIN lines = 1 .. Len(f)
    BY <1>1 DEF Without
  <1>3. ASSUME NEW i \in 1 .. Len(f)
        PROVE  (IF lines[i].key = key THEN lines[i].value ELSE <<>>) = Held(f, kinds, key)[i]
    <2>1. lines[i] = IF f[i].kind \in kinds THEN Line("comment", Empty, <<>>) ELSE f[i]
      BY <1>1 DEF Without
    <2>2. Line("comment", Empty, <<>>).key = Empty
      BY DEF Line
    <2>3. QED
      BY <2>1, <2>2 DEF Held
  <1>4. lists = [i \in 1 .. Len(f) |-> Held(f, kinds, key)[i]]
    BY <1>2, <1>3
  <1>5. Held(f, kinds, key) = [i \in 1 .. Len(f) |-> Held(f, kinds, key)[i]]
    BY DEF Held
  <1>6. ExtractConfigData(lines, key) = FlattenSeq(lists)
    BY DEF ExtractConfigData
  <1>7. \A i \in 1 .. Len(f) : Held(f, kinds, key)[i] \in Seq(S)
    BY <1>1 DEF Held
  <1> HIDE DEF lists, lines
  <1>8. Held(f, kinds, key) \in Seq(Seq(S)) /\ Len(Held(f, kinds, key)) = Len(f)
    BY <1>1, <1>5, <1>7
  <1>9. QED
    BY <1>4, <1>5, <1>6, <1>8, FlattenType DEF lines

\* updateConfigFile leaves each line where it is, and its key.
LEMMA UpdateEach ==
  ASSUME NEW S, NEW f \in Seq(Lines(S)), NEW key, NEW z, NEW new \in Seq(S)
  PROVE  LET updated == updateConfigFile(f, key, <<z>>, new) IN
         /\ updated \in Seq(Lines(S)) /\ Len(updated) = Len(f)
         /\ \A i \in 1 .. Len(f) :
              /\ updated[i].kind = f[i].kind /\ updated[i].key = f[i].key
              /\ f[i].key # key => updated[i] = f[i]
              /\ f[i].value = <<>> => updated[i].value = <<>>
              /\ f[i].kind # "spaced" /\ f[i].key = key /\ f[i].value = <<z>>
                   => updated[i].value = new
  <1> DEFINE updated == updateConfigFile(f, key, <<z>>, new)
             Rest(v) == SubSeq(v, Len(<<z>>) + 1, Len(v))
             Touched(l) == l.kind # "spaced" /\ l.key = key /\ IsPrefix(<<z>>, l.value)
             Line1(l) == IF Touched(l) THEN [l EXCEPT !.value = new \o Rest(@)] ELSE l
  <1>1. /\ Len(f) \in Nat /\ DOMAIN f = 1 .. Len(f)
        /\ \A i \in 1 .. Len(f) : f[i] \in Lines(S)
    BY LinesElements
  <1>2. updated = [i \in 1 .. Len(f) |-> Line1(f[i])]
    BY <1>1 DEF updateConfigFile
  <1>3. ASSUME NEW l \in Lines(S)
        PROVE  /\ Line1(l) \in Lines(S) /\ Line1(l).kind = l.kind /\ Line1(l).key = l.key
               /\ l.key # key => Line1(l) = l
               /\ l.value = <<>> => Line1(l).value = <<>>
               /\ l.kind # "spaced" /\ l.key = key /\ l.value = <<z>> => Line1(l).value = new
    <2>1. l.value \in Seq(S) /\ DOMAIN l = {"kind", "key", "value"}
      BY DEF Lines
    <2>2. new \o Rest(l.value) \in Seq(S)
      <3>1. Len(l.value) \in Int /\ Len(<<z>>) + 1 = 2
        BY <2>1
      <3>2. \A i \in 2 .. Len(l.value) : l.value[i] \in S
        BY <2>1, <3>1
      <3>3. Rest(l.value) \in Seq(S)
        BY <3>1, <3>2, SubSeqProperties
      <3>4. QED
        BY <3>3, ConcatProperties
    <2>3. l.value = <<>> => ~Touched(l)
      BY DEF IsPrefix
    <2>4. l.value = <<z>> => Rest(l.value) = <<>> /\ IsPrefix(<<z>>, l.value)
      <3>1. Len(<<z>>) = 1
        OBVIOUS
      <3>2. SubSeq(<<z>>, 2, 1) = <<>>
        BY SubSeqEmpty
      <3>3. QED
        BY <3>1, <3>2 DEF IsPrefix
    <2>5. new \o <<>> = new
      BY ConcatEmptySeq
    <2> HIDE DEF Rest
    <2>6. CASE Touched(l)
      <3>1. /\ Line1(l) = [l EXCEPT !.value = new \o Rest(l.value)]
            /\ l.key = key /\ l.value # <<>>
        BY <2>3, <2>6
      <3>2. Line1(l) \in Lines(S) /\ Line1(l).value = new \o Rest(l.value)
            /\ Line1(l).kind = l.kind /\ Line1(l).key = l.key
        BY <2>1, <2>2, <3>1 DEF Lines
      <3> HIDE DEF Line1
      <3>3. QED
        BY <2>4, <2>5, <3>1, <3>2
    <2>7. CASE ~Touched(l)
      <3>1. Line1(l) = l
        BY <2>7
      <3>2. ~(l.kind # "spaced" /\ l.key = key /\ l.value = <<z>>)
        BY <2>4, <2>7
      <3> HIDE DEF Line1
      <3>3. QED
        BY <3>1, <3>2
    <2>8. QED
      BY <2>6, <2>7
  <1>r. \A i \in 1 .. Len(f) : Line1(f[i]) \in Lines(S)
    BY <1>1, <1>3
  <1> HIDE DEF Line1, updated
  <1>4. /\ updated \in Seq(Lines(S)) /\ Len(updated) = Len(f)
        /\ \A i \in 1 .. Len(f) : updated[i] = Line1(f[i])
    BY <1>1, <1>2, <1>r
  <1>5. \A i \in 1 .. Len(f) :
          /\ updated[i].kind = f[i].kind /\ updated[i].key = f[i].key
          /\ f[i].key # key => updated[i] = f[i]
          /\ f[i].value = <<>> => updated[i].value = <<>>
          /\ f[i].kind # "spaced" /\ f[i].key = key /\ f[i].value = <<z>>
               => updated[i].value = new
    BY <1>1, <1>3, <1>4
  <1>6. QED
    BY <1>4, <1>5 DEF updated

NotSpaced(f) == \A i \in 1 .. Len(f) : f[i].kind # "spaced"

\* Where no line is spaced, ipsec reads what readConfigFile reads.
LEMMA SameReading ==
  ASSUME NEW S, NEW f \in Seq(Lines(S)), NotSpaced(f), NEW key
  PROVE  Held(f, {"comment"}, key) = Held(f, {"comment", "spaced"}, key)
  BY DEF Held, NotSpaced

\* sed changes nothing of another key.
LEMMA OtherKeyKept ==
  ASSUME NEW S, NEW f \in Seq(Lines(S)), NEW key, NEW z, NEW new \in Seq(S),
         NEW kinds, NEW other, other # key
  PROVE  Held(updateConfigFile(f, key, <<z>>, new), kinds, other) = Held(f, kinds, other)
  <1> DEFINE updated == updateConfigFile(f, key, <<z>>, new)
  <1>1. /\ Len(updated) = Len(f)
        /\ \A i \in 1 .. Len(f) :
             /\ updated[i].kind = f[i].kind /\ updated[i].key = f[i].key
             /\ f[i].key # key => updated[i] = f[i]
    BY UpdateEach
  <1> HIDE DEF updated
  <1>2. Held(updated, kinds, other) = Held(f, kinds, other)
    BY <1>1 DEF Held
  <1>3. QED
    BY <1>2 DEF updated

\* A placeholder that readConfigFile found is what sed replaces: ipsec reads
\* what was put in its place.
LEMMA ReplacedIsRead ==
  ASSUME NEW S, NEW f \in Seq(Lines(S)), NotSpaced(f), NEW key, key # Empty, NEW z,
         NEW new \in Seq(S), ExtractConfigData(readConfigFile(f), key) = <<z>>
  PROVE  IpsecReads(updateConfigFile(f, key, <<z>>, new), key) = new
  <1> DEFINE updated == updateConfigFile(f, key, <<z>>, new)
             v == Held(f, {"comment", "spaced"}, key)
             w == Held(updated, {"comment"}, key)
  <1>1. /\ updated \in Seq(Lines(S)) /\ Len(updated) = Len(f)
        /\ \A i \in 1 .. Len(f) :
             /\ updated[i].kind = f[i].kind /\ updated[i].key = f[i].key
             /\ f[i].value = <<>> => updated[i].value = <<>>
             /\ f[i].kind # "spaced" /\ f[i].key = key /\ f[i].value = <<z>>
                  => updated[i].value = new
    BY UpdateEach
  <1> HIDE DEF updated
  <1>2. FlattenSeq(v) = <<z>> /\ v \in Seq(Seq(S)) /\ Len(v) = Len(f)
    BY ReadsHeld DEF readConfigFile
  <1>3. /\ IpsecReads(updated, key) = FlattenSeq(w)
        /\ w \in Seq(Seq(S)) /\ Len(w) = Len(f)
    BY <1>1, ReadsHeld DEF IpsecReads
  <1>4. ASSUME NEW i \in 1 .. Len(f)
        PROVE  (v[i] = <<>> => w[i] = <<>>) /\ (v[i] = <<z>> => w[i] = new)
    <2>1. /\ v[i] = IF f[i].kind # "comment" /\ f[i].key = key THEN f[i].value ELSE <<>>
          /\ w[i] = IF f[i].kind # "comment" /\ f[i].key = key THEN updated[i].value ELSE <<>>
      BY <1>1 DEF Held, NotSpaced
    <2>2. <<z>> # <<>> /\ f[i].kind # "spaced"
      BY DEF NotSpaced
    <2> HIDE DEF v, w
    <2>3. QED
      BY <1>1, <2>1, <2>2
  <1> HIDE DEF v, w
  <1>5. FlattenSeq(w) = new
    BY <1>2, <1>3, <1>4, FlattenReplace
  <1>6. QED
    BY <1>3, <1>5 DEF updated

-----------------------------------------------------------------------------
(* What the pod has at each place of main.  Its values depend on the       *)
(* release and the load balancer's address only, so those that a container *)
(* left behind when it died, its iptables rules, are those of the next one. *)

\* leftSubnet once vpnPodConfig has changed it
ResolvedLeft ==
  IF Extracted.leftSubnet = <<"%zoneSubnet">> THEN ZoneSubnet ELSE Extracted.leftSubnet

\* ipsec.conf once vpnPodConfig has changed it
NewFile ==
  UpdateConfigLeftSubnet(
    UpdateConfigLeftID(release.file, Extracted.leftID, release.publicIP, lb),
    Extracted.leftSubnet, ZoneSubnet)

\* The iptables rules of the release
AllRules ==
  (IF release.localNAT # <<>> THEN ConfigureSubnetNAT(release.localNAT, Extracted.rightSubnet)
   ELSE IF release.singleIP THEN ConfigureSingleSourceIP(ResolvedLeft, Extracted.rightSubnet)
   ELSE <<>>) \o
  ConfigureSubnetNAT(release.remoteNAT,
    IF release.localNAT # <<>> THEN OriginalSubnets(release.localNAT, ResolvedLeft)
    ELSE IF release.singleIP THEN <<Everywhere>> ELSE ResolvedLeft)

Unchanged == at \in {"pod", "service", "rewrite"} => file = release.file /\ conf = Extracted
Rewritten ==
  at \in FromPools =>
    /\ file = NewFile /\ ~RefusesLeftID(Extracted.leftID, release.publicIP, lb)
    /\ conf = [Extracted EXCEPT !.leftSubnet = ResolvedLeft]
RulesOnce == rules \in {<<>>, AllRules} /\ (at \in FromPools => rules = AllRules)
PoolsSoFar ==
  \A j \in 1 .. Len(PoolSubnets) :
    (at = "pools" /\ j < try) \/ at \in FromPublish => PoolSubnets[j] \in pools
DataFromConf == at = "published" => data = RouteData

StartInv == TypeOK /\ Unchanged /\ Rewritten /\ RulesOnce /\ PoolsSoFar /\ DataFromConf

\* What depends on the release alone stays as it is.
LEMMA ReleaseStays ==
  ASSUME UNCHANGED release
  PROVE  /\ UNCHANGED <<Extracted, ResolvedLeft, AllRules>>
         /\ UNCHANGED lb => UNCHANGED NewFile /\ UNCHANGED RefusesLeftID(Extracted.leftID, release.publicIP, lb)
         /\ UNCHANGED conf => UNCHANGED PoolSubnets
  <1>1. UNCHANGED Extracted
    BY DEF Extracted
  <1>2. UNCHANGED ZoneSubnet
    BY DEF ZoneSubnet, SelectInSeq
  <1>3. UNCHANGED ResolvedLeft
    BY <1>1, <1>2 DEF ResolvedLeft
  <1>4. UNCHANGED AllRules
    BY <1>1, <1>3 DEF AllRules
  <1>5. UNCHANGED lb => UNCHANGED NewFile /\ UNCHANGED RefusesLeftID(Extracted.leftID, release.publicIP, lb)
    BY <1>1, <1>2 DEF NewFile
  <1>6. UNCHANGED conf => UNCHANGED PoolSubnets
    BY DEF PoolSubnets, NoPodSNAT
  <1>7. QED
    BY <1>1, <1>3, <1>4, <1>5, <1>6

\* Of a container that is gone only the rules are left.
LEMMA GoneKeepsStart ==
  ASSUME StartInv, TypeOK', at' \in {"init", "dead"}, UNCHANGED <<release, rules>>
  PROVE  StartInv'
  <1>1. UNCHANGED AllRules
    BY ReleaseStays
  <1>2. QED
    BY <1>1 DEF StartInv, Unchanged, Rewritten, RulesOnce, PoolsSoFar, DataFromConf,
           FromPools, FromPublish

LEMMA DieKeepsStart ==
  ASSUME StartInv, TypeOK', NEW why, Die(why)
  PROVE  StartInv'
  BY GoneKeepsStart DEF Die, Goto, apiVars, podVars

\* A container that stays where it is, or creates its IPPools.
LEMMA StayingKeepsStart ==
  ASSUME StartInv, TypeOK', UNCHANGED <<release, at, file, conf, rules, vip, lb, data>>,
         pools \subseteq pools',
         at = "pools" => \A j \in 1 .. Len(PoolSubnets) : j < try' => j < try \/ PoolSubnets[j] \in pools'
  PROVE  StartInv'
  <1>1. UNCHANGED <<Extracted, ResolvedLeft, AllRules, NewFile, PoolSubnets>>
        /\ UNCHANGED RefusesLeftID(Extracted.leftID, release.publicIP, lb)
    BY ReleaseStays
  <1>2. UNCHANGED RouteData
    BY DEF RouteData
  <1>3. (Unchanged /\ Rewritten /\ RulesOnce /\ DataFromConf)'
    BY <1>1, <1>2 DEF StartInv, Unchanged, Rewritten, RulesOnce, DataFromConf
  <1>4. PoolsSoFar'
    BY <1>1 DEF StartInv, PoolsSoFar, FromPublish
  <1>5. QED
    BY <1>3, <1>4 DEF StartInv

\* A container that goes on, with its files and rules as they are.
LEMMA GoingKeepsStart ==
  ASSUME StartInv, TypeOK', UNCHANGED <<release, file, conf, rules>>,
         at \in {"pod", "service"}, at' \in {"service", "rewrite"}
  PROVE  StartInv'
  <1>1. UNCHANGED <<Extracted, AllRules>>
    BY ReleaseStays
  <1>2. QED
    BY <1>1 DEF StartInv, Unchanged, Rewritten, RulesOnce, PoolsSoFar, DataFromConf,
           FromPools, FromPublish

LEMMA InitializeKeepsStart ==
  ASSUME StartInv, TypeOK', Initialize
  PROVE  StartInv'
  <1>1. CASE Die("settings")
    BY <1>1, DieKeepsStart
  <1>2. CASE /\ Goto("pod") /\ file' = release.file /\ conf' = Extracted
             /\ UNCHANGED <<apiVars, podVars>>
    <2>1. UNCHANGED <<Extracted, AllRules>>
      BY <1>2, ReleaseStays DEF apiVars
    <2>2. QED
      BY <1>2, <2>1 DEF Goto, apiVars, podVars, StartInv, Unchanged, Rewritten, RulesOnce,
             PoolsSoFar, DataFromConf, FromPools, FromPublish
  <1>3. QED
    BY <1>1, <1>2 DEF Initialize

LEMMA QuestionsKeepStart ==
  ASSUME StartInv, TypeOK', GetPodInfo \/ GetLoadBalancerIP
  PROVE  StartInv'
  <1>1. CASE at # "pools" /\ UNCHANGED <<apiVars, faults, at, file, conf, podVars, vip, lb, cause>>
    BY <1>1, StayingKeepsStart DEF apiVars, podVars
  <1>2. CASE \E why : Die(why)
    BY <1>2, DieKeepsStart
  <1>3. CASE GetPodInfo
    <2>1. CASE Goto("service") /\ UNCHANGED <<apiVars, faults, file, conf, podVars, vip, lb, cause>>
      BY <1>3, <2>1, GoingKeepsStart DEF GetPodInfo, Goto, apiVars, podVars
    <2>2. QED
      BY <1>1, <1>2, <1>3, <2>1 DEF GetPodInfo
  <1>4. CASE GetLoadBalancerIP
    <2>1. CASE \E ip : Proceed(ip)
      BY <1>4, <2>1, GoingKeepsStart DEF GetLoadBalancerIP, Proceed, Goto, apiVars, podVars
    <2>2. QED
      BY <1>1, <1>2, <1>4, <2>1 DEF GetLoadBalancerIP
  <1>5. QED
    BY <1>3, <1>4

\* The rules are appended once: those a container before this one has left
\* are the same.
LEMMA AppendedOnce ==
  ASSUME NEW S, NEW new \in Seq(S), rules \in {<<>>, new}
  PROVE  AppendRules(new) = new
  <1>1. CASE rules = new
    BY <1>1 DEF AppendRules
  <1>2. CASE rules = <<>>
    <2>1. CASE new = <<>>
      BY <1>2, <2>1 DEF AppendRules
    <2>2. CASE new # <<>>
      <3>1. new[1] \in ToSet(new) /\ ToSet(<<>>) = {}
        BY <2>2 DEF ToSet
      <3>2. <<>> \o new = new
        BY ConcatEmptySeq
      <3>3. QED
        BY <1>2, <3>1, <3>2 DEF AppendRules
    <2>3. QED
      BY <2>1, <2>2
  <1>3. QED
    BY <1>1, <1>2

\* Everything a list of the pod may hold
Items == STRING \cup Addr \cup {Everywhere}
ZoneEntries == [zone : STRING, subnets : Seq(STRING)]

\* A list of members of S is one of members of a larger set.
LEMMA ListsOfMore ==
  ASSUME NEW S, NEW T, S \subseteq T
  PROVE  Seq(S) \subseteq Seq(T)
  OBVIOUS

\* What the pod is configured with and what it makes of it are lists.
LEMMA StartTypes ==
  ASSUME SettingsAssumption, release \in Settings
  PROVE  /\ release.file \in Seq(Lines(Items))
         /\ release.localNAT \in Seq(RulesOf(Items)) /\ release.remoteNAT \in Seq(RulesOf(Items))
         /\ Extracted.leftSubnet \in Seq(Items) /\ Extracted.rightSubnet \in Seq(Items)
         /\ ZoneSubnet \in Seq(Items) /\ ResolvedLeft \in Seq(Items)
         /\ AllRules \in Seq(IpTablesRules(Items))
  <1>1. /\ release.file \in Seq(Lines(STRING))
        /\ release.localNAT \in Seq(RulesOf(STRING)) /\ release.remoteNAT \in Seq(RulesOf(STRING))
        /\ release.zoneSubnet \in Seq(ZoneEntries)
    BY DEF SettingsAssumption, Lines, RulesOf, ZoneEntries
  <1>2. STRING \subseteq Items /\ Everywhere \in Items
    BY DEF Items
  <1>3. /\ release.file \in Seq(Lines(Items))
        /\ release.localNAT \in Seq(RulesOf(Items)) /\ release.remoteNAT \in Seq(RulesOf(Items))
    <2>1. Seq(STRING) \subseteq Seq(Items)
      BY <1>2, ListsOfMore
    <2>2. Lines(STRING) \subseteq Lines(Items)
      BY <2>1 DEF Lines
    <2>3. RulesOf(STRING) \subseteq RulesOf(Items)
      BY <1>2 DEF RulesOf
    <2>4. /\ Seq(Lines(STRING)) \subseteq Seq(Lines(Items))
          /\ Seq(RulesOf(STRING)) \subseteq Seq(RulesOf(Items))
      BY <2>2, <2>3, ListsOfMore
    <2>5. QED
      BY <1>1, <2>4
  <1>4. \A key : key # Empty => ExtractConfigData(readConfigFile(release.file), key) \in Seq(Items)
    BY <1>3, ReadsHeld DEF readConfigFile
  <1>5. Extracted.leftSubnet \in Seq(Items) /\ Extracted.rightSubnet \in Seq(Items)
    <2>1. "leftsubnet" # Empty /\ "rightsubnet" # Empty
      BY DEF Empty
    <2>2. QED
      BY <1>4, <2>1 DEF Extracted
  <1>6. ZoneSubnet \in Seq(Items)
    <2> DEFINE OfZone(z) == z.zone = release.zone
               zones == release.zoneSubnet
               I == {i \in 1 .. Len(zones) : OfZone(zones[i])}
               k == SelectInSeq(zones, OfZone)
    <2>1. k = 0 \/ k \in 1 .. Len(zones)
      <3>1. k = IF I # {} THEN Min(I) ELSE 0
        BY DEF SelectInSeq
      <3>2. I \in SUBSET Nat
        BY <1>1
      <3>3. I # {} => Min(I) \in I
        BY <3>2, LeastOf
      <3>4. I \subseteq 1 .. Len(zones)
        OBVIOUS
      <3> HIDE DEF I, k
      <3>5. QED
        BY <3>1, <3>3, <3>4
    <2>2. \A i \in 1 .. Len(zones) : zones[i].subnets \in Seq(Items)
      <3>1. zones \in Seq(ZoneEntries)
        BY <1>1
      <3> HIDE DEF zones
      <3>2. \A i \in 1 .. Len(zones) : zones[i] \in ZoneEntries
        BY <3>1
      <3>3. \A z \in ZoneEntries : z.subnets \in Seq(Items)
        BY <1>2, ListsOfMore DEF ZoneEntries
      <3>4. QED
        BY <3>2, <3>3
    <2>3. ZoneSubnet = <<>> \/ (k # 0 /\ ZoneSubnet = zones[k].subnets)
      BY DEF ZoneSubnet
    <2> HIDE DEF k, zones
    <2>4. <<>> \in Seq(Items)
      OBVIOUS
    <2>5. QED
      BY <2>1, <2>2, <2>3, <2>4
  <1>7. ResolvedLeft \in Seq(Items)
    BY <1>5, <1>6 DEF ResolvedLeft
  <1>8. AllRules \in Seq(IpTablesRules(Items))
    <2>1. <<Everywhere>> \in Seq(Items) /\ OriginalSubnets(release.localNAT, ResolvedLeft) \in Seq(Items)
      BY <1>2, <1>3, <1>7, OriginalType
    <2>2. \A nat \in Seq(RulesOf(Items)), subjects \in Seq(Items) :
            ConfigureSubnetNAT(nat, subjects) \in Seq(IpTablesRules(Items))
      BY ConfigureSet
    <2>3. ConfigureSubnetNAT(release.localNAT, Extracted.rightSubnet) \in Seq(IpTablesRules(Items))
      BY <1>3, <1>5, <2>2
    <2>4. ConfigureSubnetNAT(release.remoteNAT,
            IF release.localNAT # <<>> THEN OriginalSubnets(release.localNAT, ResolvedLeft)
            ELSE IF release.singleIP THEN <<Everywhere>> ELSE ResolvedLeft)
              \in Seq(IpTablesRules(Items))
      BY <1>3, <1>7, <2>1, <2>2
    <2>5. /\ ConfigureSingleSourceIP(ResolvedLeft, Extracted.rightSubnet) \in Seq(IpTablesRules(Items))
          /\ <<>> \in Seq(IpTablesRules(Items))
      BY <1>2, <1>5, <1>7, SingleSet
    <2>6. QED
      BY <2>3, <2>4, <2>5, ConcatProperties DEF AllRules
  <1>9. QED
    BY <1>3, <1>5, <1>6, <1>7, <1>8

\* vpnPodConfig changes leftSubnet and ipsec.conf and appends the rules.
LEMMA RewriteKeepsStart ==
  ASSUME SettingsAssumption, StartInv, TypeOK', Rewrite
  PROVE  StartInv'
  <1>1. CASE \E why : Die(why)
    BY <1>1, DieKeepsStart
  <1>2. CASE /\ ~RefusesLeftID(conf.leftID, release.publicIP, lb) /\ Goto("pools")
             /\ file' = UpdateConfigLeftSubnet(
                          UpdateConfigLeftID(file, conf.leftID, release.publicIP, lb),
                          conf.leftSubnet, ZoneSubnet)
             /\ conf' = [conf EXCEPT !.leftSubnet = LeftSubnet]
             /\ rules' = AppendRules(NatRules)
             /\ UNCHANGED <<apiVars, faults, pools, data, vip, lb, cause>>
    <2>1. file = release.file /\ conf = Extracted /\ release \in Settings /\ rules \in {<<>>, AllRules}
      BY DEF Rewrite, StartInv, Unchanged, RulesOnce, TypeOK
    <2>2. LeftSubnet = ResolvedLeft
      BY <2>1 DEF LeftSubnet, ResolvedLeft
    <2>3. NatRules = AllRules
      BY <2>1, <2>2 DEF NatRules, AllRules
    <2>4. rules' = AllRules
      BY <1>2, <2>1, <2>3, StartTypes, AppendedOnce
    <2>5. file' = NewFile /\ ~RefusesLeftID(Extracted.leftID, release.publicIP, lb)
          /\ conf' = [Extracted EXCEPT !.leftSubnet = ResolvedLeft]
      BY <1>2, <2>1, <2>2 DEF NewFile
    <2>6. /\ UNCHANGED <<Extracted, ResolvedLeft, AllRules, NewFile>>
          /\ UNCHANGED RefusesLeftID(Extracted.leftID, release.publicIP, lb)
      BY <1>2, ReleaseStays DEF apiVars
    <2>7. at' = "pools" /\ try' = 1
      BY <1>2 DEF Goto
    <2>8. QED
      BY <2>4, <2>5, <2>6, <2>7 DEF StartInv, Unchanged, Rewritten, RulesOnce,
         PoolsSoFar, DataFromConf, FromPublish
  <1>3. QED
    BY <1>1, <1>2 DEF Rewrite

\* CreateIPPool goes on to the next subnet once the pool of one is there.
LEMMA PoolsKeepStart ==
  ASSUME StartInv, TypeOK', CreateIPPool \/ GatewayIPPool
  PROVE  StartInv'
  <1>1. CASE \E why : Die(why)
    BY <1>1, DieKeepsStart
  <1>2. CASE /\ at = "pools" /\ PoolSubnets[try] \in Aligned /\ Create(PoolSubnets[try])
             /\ try' = try + 1 /\ at' = at
    <2>1. \A j \in 1 .. Len(PoolSubnets) : j < try' => j < try \/ j = try
      BY <1>2 DEF StartInv, TypeOK
    <2>2. QED
      BY <1>2, <2>1, StayingKeepsStart DEF Create, apiVars
  <1>3. CASE /\ at = "pools" /\ try > Len(PoolSubnets) /\ Goto("publish") /\ pools \subseteq pools'
             /\ UNCHANGED <<release, file, conf, rules, vip, lb, data>>
    <2>1. /\ UNCHANGED <<Extracted, ResolvedLeft, AllRules, NewFile, PoolSubnets>>
          /\ UNCHANGED RefusesLeftID(Extracted.leftID, release.publicIP, lb)
      BY <1>3, ReleaseStays
    <2>2. \A j \in 1 .. Len(PoolSubnets) : j < try
      BY <1>3 DEF StartInv, TypeOK, PoolSubnets
    <2>3. PoolsSoFar'
      BY <1>3, <2>1, <2>2 DEF StartInv, PoolsSoFar
    <2>4. QED
      BY <1>3, <2>1, <2>3 DEF Goto, StartInv, Unchanged, Rewritten, RulesOnce,
         DataFromConf, FromPools, FromPublish
  <1>4. CASE CreateIPPool
    BY <1>1, <1>2, <1>4 DEF CreateIPPool
  <1>5. CASE GatewayIPPool
    BY <1>1, <1>3, <1>5 DEF GatewayIPPool, Create, apiVars, podVars
  <1>6. QED
    BY <1>4, <1>5

LEMMA PublishKeepsStart ==
  ASSUME StartInv, TypeOK', UpdateConfigMap
  PROVE  StartInv'
  <1>1. /\ at = "publish" /\ at' = "published" /\ data' = RouteData
        /\ UNCHANGED <<release, file, conf, rules, pools, vip, lb>>
    BY DEF UpdateConfigMap, Goto, apiVars
  <1>2. /\ UNCHANGED <<Extracted, ResolvedLeft, AllRules, NewFile, PoolSubnets>>
        /\ UNCHANGED RefusesLeftID(Extracted.leftID, release.publicIP, lb)
    BY <1>1, ReleaseStays
  <1>3. UNCHANGED RouteData
    BY <1>1 DEF RouteData
  <1>4. QED
    BY <1>1, <1>2, <1>3 DEF StartInv, Unchanged, Rewritten, RulesOnce, PoolsSoFar,
       DataFromConf, FromPools, FromPublish

LEMMA StartStep ==
  ASSUME PodStartAssumption, SettingsAssumption, StartInv, [Next]_vars
  PROVE  StartInv'
  <1>0. TypeOK'
    <2>1. Next => TypeOK'
      BY MainType, EnvironmentType DEF Next, StartInv
    <2>2. UNCHANGED vars => TypeOK'
      BY DEF TypeOK, vars, StartInv
    <2>3. QED
      BY <2>1, <2>2
  <1>1. CASE Main
    BY <1>0, <1>1, InitializeKeepsStart, QuestionsKeepStart, RewriteKeepsStart,
       PoolsKeepStart, PublishKeepsStart DEF Main
  <1>2. CASE Fault \/ Restart
    BY <1>0, <1>2, GoneKeepsStart DEF Fault, Restart, Goto, apiVars, podVars
  <1>3. CASE PodChanges \/ CloudProvider \/ UNCHANGED vars
    <2>1. UNCHANGED <<release, at, try, file, conf, rules, pools, vip, lb, data>>
      BY <1>3 DEF PodChanges, CloudProvider, vars, podVars
    <2>2. QED
      BY <1>0, <2>1, StayingKeepsStart
  <1>4. QED
    BY <1>1, <1>2, <1>3 DEF Next

LEMMA InitStart ==
  ASSUME PodStartAssumption, Init
  PROVE  StartInv
  <1>1. TypeOK
    BY InitType
  <1>2. QED
    BY <1>1 DEF Init, StartInv, Unchanged, Rewritten, RulesOnce, PoolsSoFar, DataFromConf,
       FromPools, FromPublish

-----------------------------------------------------------------------------
(* FileMatchesData: ipsec reads the rewritten file, main what was there.   *)

\* With no spaced line both read the same of a key that sed left alone.
LEMMA ReadAlike ==
  ASSUME NEW f \in Seq(Lines(Items)), NEW g \in Seq(Lines(Items)), NotSpaced(f),
         NEW key, key # Empty, Held(g, {"comment"}, key) = Held(f, {"comment"}, key)
  PROVE  IpsecReads(g, key) = ExtractConfigData(readConfigFile(f), key)
  <1>1. IpsecReads(g, key) = FlattenSeq(Held(g, {"comment"}, key))
    BY ReadsHeld DEF IpsecReads
  <1>2. ExtractConfigData(readConfigFile(f), key) = FlattenSeq(Held(f, {"comment", "spaced"}, key))
    BY ReadsHeld DEF readConfigFile
  <1>3. Held(f, {"comment"}, key) = Held(f, {"comment", "spaced"}, key)
    BY SameReading
  <1>4. QED
    BY <1>1, <1>2, <1>3

\* A rewriting of one key keeps the lines, their kinds and the other keys.
LEMMA RewritingKeeps ==
  ASSUME NEW f \in Seq(Lines(Items)), NotSpaced(f), NEW key, NEW z, NEW new \in Seq(Items)
  PROVE  LET g == updateConfigFile(f, key, <<z>>, new) IN
         /\ g \in Seq(Lines(Items)) /\ NotSpaced(g)
         /\ \A other, kinds : other # key => Held(g, kinds, other) = Held(f, kinds, other)
  <1> DEFINE g == updateConfigFile(f, key, <<z>>, new)
  <1>1. /\ g \in Seq(Lines(Items)) /\ Len(g) = Len(f)
        /\ \A i \in 1 .. Len(f) : g[i].kind = f[i].kind
    BY UpdateEach
  <1>2. \A other, kinds : other # key => Held(g, kinds, other) = Held(f, kinds, other)
    BY OtherKeyKept
  <1> HIDE DEF g
  <1>3. NotSpaced(g)
    BY <1>1 DEF NotSpaced
  <1>4. QED
    BY <1>1, <1>2, <1>3 DEF g

LEMMA LeftIDRewritten ==
  ASSUME NEW f \in Seq(Lines(Items)), NotSpaced(f), NEW leftID, NEW publicIP, NEW ip,
         leftID = ExtractConfigData(readConfigFile(f), "leftid"),
         ~RefusesLeftID(leftID, publicIP, ip)
  PROVE  LET g == UpdateConfigLeftID(f, leftID, publicIP, ip) IN
         /\ g \in Seq(Lines(Items)) /\ NotSpaced(g)
         /\ \A other, kinds : other # "leftid" => Held(g, kinds, other) = Held(f, kinds, other)
         /\ leftID \in {<<"%nodePublicIP">>, <<"%loadBalancerIP">>} =>
              IpsecReads(g, "leftid") \in {<<publicIP>>, <<ip>>} \cap {<<a>> : a \in Addr}
  <1> DEFINE new == NewLeftID(leftID, publicIP, ip)
             g == UpdateConfigLeftID(f, leftID, publicIP, ip)
             result == /\ g \in Seq(Lines(Items)) /\ NotSpaced(g)
                       /\ \A other, kinds : other # "leftid" => Held(g, kinds, other) = Held(f, kinds, other)
                       /\ leftID \in {<<"%nodePublicIP">>, <<"%loadBalancerIP">>} =>
                            IpsecReads(g, "leftid") \in {<<publicIP>>, <<ip>>} \cap {<<a>> : a \in Addr}
  <1>1. ASSUME NEW z \in {"%nodePublicIP", "%loadBalancerIP"}, leftID = <<z>>
        PROVE  result
    <2>1. new \in Addr /\ new \in {publicIP, ip} /\ <<new>> \in Seq(Items)
      <3>1. new \in {publicIP, ip}
        BY <1>1 DEF NewLeftID
      <3>2. new \in Addr
        BY <1>1 DEF RefusesLeftID
      <3> HIDE DEF new
      <3>3. QED
        BY <3>1, <3>2 DEF Items
    <2>2. g = updateConfigFile(f, "leftid", <<z>>, <<new>>)
      BY <1>1 DEF UpdateConfigLeftID
    <2>3. "leftid" # Empty
      BY DEF Empty
    <2> HIDE DEF new, g
    <2>4. IpsecReads(g, "leftid") = <<new>>
      BY <1>1, <2>1, <2>2, <2>3, ReplacedIsRead
    <2>5. /\ g \in Seq(Lines(Items)) /\ NotSpaced(g)
          /\ \A other, kinds : other # "leftid" => Held(g, kinds, other) = Held(f, kinds, other)
      <3> DEFINE list == <<new>>
      <3>1. list \in Seq(Items) /\ g = updateConfigFile(f, "leftid", <<z>>, list)
        BY <2>1, <2>2
      <3> HIDE DEF list
      <3>2. QED
        BY <3>1, RewritingKeeps
    <2>6. QED
      BY <2>1, <2>4, <2>5
  <1>2. CASE leftID \notin {<<"%nodePublicIP">>, <<"%loadBalancerIP">>}
    <2>1. g = f
      BY <1>2 DEF UpdateConfigLeftID
    <2>2. QED
      BY <1>2, <2>1
  <1>3. result
    BY <1>1, <1>2
  <1>4. QED
    BY <1>3

LEMMA LeftSubnetRewritten ==
  ASSUME NEW f \in Seq(Lines(Items)), NotSpaced(f), NEW left, NEW zone \in Seq(Items),
         left = ExtractConfigData(readConfigFile(f), "leftsubnet")
  PROVE  LET g == UpdateConfigLeftSubnet(f, left, zone) IN
         /\ g \in Seq(Lines(Items))
         /\ \A other, kinds : other # "leftsubnet" => Held(g, kinds, other) = Held(f, kinds, other)
         /\ IpsecReads(g, "leftsubnet") = IF left = <<"%zoneSubnet">> THEN zone ELSE left
  <1> DEFINE g == UpdateConfigLeftSubnet(f, left, zone)
  <1>0. "leftsubnet" # Empty
    BY DEF Empty
  <1>1. CASE left = <<"%zoneSubnet">>
    <2>1. g = updateConfigFile(f, "leftsubnet", <<"%zoneSubnet">>, zone)
      BY <1>1 DEF UpdateConfigLeftSubnet
    <2> HIDE DEF g
    <2>2. IpsecReads(g, "leftsubnet") = zone
      BY <1>0, <1>1, <2>1, ReplacedIsRead
    <2>3. /\ g \in Seq(Lines(Items))
          /\ \A other, kinds : other # "leftsubnet" => Held(g, kinds, other) = Held(f, kinds, other)
      BY <2>1, RewritingKeeps
    <2>4. QED
      BY <1>1, <2>2, <2>3 DEF g
  <1>2. CASE left # <<"%zoneSubnet">>
    <2>1. g = f
      BY <1>2 DEF UpdateConfigLeftSubnet
    <2> HIDE DEF g
    <2>2. IpsecReads(g, "leftsubnet") = left
      BY <1>0, <2>1, ReadAlike
    <2>3. QED
      BY <1>2, <2>1, <2>2 DEF g
  <1>3. QED
    BY <1>1, <1>2

\* What is published, in terms of the release and the address
LEMMA PublishedData ==
  ASSUME SettingsAssumption, StartInv, at = "published"
  PROVE  /\ release \in Settings /\ file = NewFile /\ rules = AllRules
         /\ ~RefusesLeftID(Extracted.leftID, release.publicIP, lb)
         /\ conf.leftID = Extracted.leftID
         /\ conf.leftSubnet = ResolvedLeft /\ conf.rightSubnet = Extracted.rightSubnet
         /\ data.local = ResolvedLeft /\ data.remote = Extracted.rightSubnet /\ data.lbip = lb
  <1>1. /\ release \in Settings /\ file = NewFile /\ rules = AllRules
        /\ ~RefusesLeftID(Extracted.leftID, release.publicIP, lb)
        /\ conf = [Extracted EXCEPT !.leftSubnet = ResolvedLeft] /\ data = RouteData
    BY DEF StartInv, TypeOK, Rewritten, RulesOnce, DataFromConf, FromPools
  <1>2. DOMAIN Extracted = {"leftID", "leftSubnet", "rightSubnet", "remoteGateway", "ipsecAuto"}
    BY DEF Extracted
  <1>3. /\ conf.leftID = Extracted.leftID /\ conf.leftSubnet = ResolvedLeft
        /\ conf.rightSubnet = Extracted.rightSubnet
    BY <1>1, <1>2
  <1>4. data.local = conf.leftSubnet /\ data.remote = conf.rightSubnet /\ data.lbip = lb
    BY <1>1 DEF RouteData
  <1>5. QED
    BY <1>1, <1>3, <1>4

LEMMA FileMatches ==
  ASSUME SettingsAssumption, StartInv
  PROVE  FileMatchesData
  <1>1. SUFFICES ASSUME at = "published", PlainFile PROVE FileMatchesData
    BY DEF FileMatchesData
  <1> DEFINE f == release.file
             g == UpdateConfigLeftID(f, Extracted.leftID, release.publicIP, lb)
             h == UpdateConfigLeftSubnet(g, Extracted.leftSubnet, ZoneSubnet)
  <1>2. /\ release \in Settings /\ file = h
        /\ ~RefusesLeftID(Extracted.leftID, release.publicIP, lb)
        /\ conf.leftID = Extracted.leftID
        /\ data.local = ResolvedLeft /\ data.remote = Extracted.rightSubnet /\ data.lbip = lb
    BY <1>1, PublishedData DEF NewFile
  <1>3. /\ f \in Seq(Lines(Items)) /\ ZoneSubnet \in Seq(Items)
    BY <1>2, StartTypes
  <1>4. NotSpaced(f)
    BY <1>1, <1>3, LinesElements DEF PlainFile, NotSpaced
  <1>5. /\ Extracted.leftID = ExtractConfigData(readConfigFile(f), "leftid")
        /\ Extracted.leftSubnet = ExtractConfigData(readConfigFile(f), "leftsubnet")
        /\ Extracted.rightSubnet = ExtractConfigData(readConfigFile(f), "rightsubnet")
    BY DEF Extracted
  <1>6. /\ g \in Seq(Lines(Items)) /\ NotSpaced(g)
        /\ \A other, kinds : other # "leftid" => Held(g, kinds, other) = Held(f, kinds, other)
        /\ Extracted.leftID \in {<<"%nodePublicIP">>, <<"%loadBalancerIP">>} =>
             IpsecReads(g, "leftid") \in {<<release.publicIP>>, <<lb>>} \cap {<<a>> : a \in Addr}
    BY <1>2, <1>3, <1>4, <1>5, LeftIDRewritten
  <1>8. "leftid" # Empty /\ "leftsubnet" # Empty /\ "rightsubnet" # Empty
    BY DEF Empty
  <1> HIDE DEF f, g
  <1>9. ExtractConfigData(readConfigFile(g), "leftsubnet") = Extracted.leftSubnet
    <2>1. ExtractConfigData(readConfigFile(g), "leftsubnet")
            = FlattenSeq(Held(g, {"comment", "spaced"}, "leftsubnet"))
      BY <1>6, <1>8, ReadsHeld DEF readConfigFile
    <2>2. ExtractConfigData(readConfigFile(f), "leftsubnet")
            = FlattenSeq(Held(f, {"comment", "spaced"}, "leftsubnet"))
      BY <1>3, <1>8, ReadsHeld DEF readConfigFile
    <2>3. QED
      BY <1>5, <1>6, <2>1, <2>2
  <1>10. /\ h \in Seq(Lines(Items))
         /\ \A other, kinds : other # "leftsubnet" => Held(h, kinds, other) = Held(g, kinds, other)
         /\ IpsecReads(h, "leftsubnet") = ResolvedLeft
    BY <1>3, <1>6, <1>9, LeftSubnetRewritten DEF ResolvedLeft
  <1> HIDE DEF h
  <1>11. IpsecReads(h, "rightsubnet") = Extracted.rightSubnet
    BY <1>3, <1>4, <1>5, <1>6, <1>8, <1>10, ReadAlike
  <1>12. IpsecReads(h, "leftid") = IpsecReads(g, "leftid")
    <2>1. Held(h, {"comment"}, "leftid") = Held(g, {"comment"}, "leftid")
      BY <1>10
    <2>2. QED
      BY <1>6, <1>8, <1>10, <2>1, ReadsHeld DEF IpsecReads
  <1>13. QED
    BY <1>2, <1>6, <1>10, <1>11, <1>12 DEF FileMatchesData

-----------------------------------------------------------------------------
(* PoolsCoverRoutes: the pod maps all its remote subnets at once, the route *)
(* daemon those it finds in the data; MapEach says that both get the same.  *)

LEMMA PoolsCover ==
  ASSUME SettingsAssumption, StartInv
  PROVE  PoolsCoverRoutes
  <1> DEFINE nat == release.remoteNAT
             right == conf.rightSubnet
  <1>1. SUFFICES ASSUME at = "published", NoPodSNAT, NEW r \in ToSet(data.remote)
                 PROVE  MapSubnets(nat, <<r>>)[1] \in pools
    BY DEF PoolsCoverRoutes
  <1>2. /\ data.remote = right /\ right \in Seq(Items) /\ nat \in Seq(RulesOf(Items))
    BY <1>1, PublishedData, StartTypes
  <1>3. PoolSubnets = MapSubnets(nat, right)
    BY <1>1 DEF PoolSubnets
  <1>4. \A j \in 1 .. Len(PoolSubnets) : PoolSubnets[j] \in pools
    BY <1>1 DEF StartInv, PoolsSoFar, FromPublish
  <1> HIDE DEF nat, right
  <1>5. PICK j \in 1 .. Len(right) : right[j] = r
    BY <1>1, <1>2 DEF ToSet
  <1>6. /\ Len(MapSubnets(nat, right)) = Len(right)
        /\ MapSubnets(nat, right)[j] = MapSubnets(nat, <<r>>)[1]
    BY <1>2, <1>5, MapEach
  <1>7. QED
    BY <1>3, <1>4, <1>6

-----------------------------------------------------------------------------
(* PodTranslates.  near and far keep the rules for local subnets and those *)
(* for remote subnets out of each other's way; within each, at most one    *)
(* rule is for the subnet.                                                 *)

MadeFor(rule, nat, subjects) ==
  \E q \in nat, s \in subjects : rule = Forth(q, s) \/ (rule = Back(q, s) /\ ~OneWay(q))

\* The subjects of the rules for remote subnets
Subjects ==
  IF release.localNAT # <<>> THEN OriginalSubnets(release.localNAT, ResolvedLeft)
  ELSE IF release.singleIP THEN <<Everywhere>> ELSE ResolvedLeft

\* The cluster knows a local subnet by what its rule translates it to.
LEMMA InsideOf ==
  ASSUME NEW S, release.localNAT \in Seq(RulesOf(S)), NEW l
  PROVE  \/ \E q \in ToSet(release.localNAT) : q.mapped = l /\ Inside(l) = q.orig
         \/ (\A q \in ToSet(release.localNAT) : q.mapped # l) /\ Inside(l) = l
  <1> DEFINE nat == release.localNAT
             I == {i \in 1 .. Len(nat) : nat[i].mapped = l}
             k == SelectInSeq(nat, LAMBDA rule : rule.mapped = l)
  <1>1. k = IF I # {} THEN Min(I) ELSE 0
    BY DEF SelectInSeq
  <1>2. Inside(l) = IF k = 0 THEN l ELSE nat[k].orig
    BY DEF Inside
  <1>3. Len(nat) \in Nat /\ DOMAIN nat = 1 .. Len(nat)
    BY RuleElements
  <1> HIDE DEF nat, k
  <1>4. CASE I = {}
    BY <1>1, <1>2, <1>3, <1>4 DEF ToSet, nat
  <1>5. CASE I # {}
    <2>1. I \in SUBSET Nat
      BY <1>3
    <2>2. Min(I) \in I
      BY <1>5, <2>1, LeastOf, Zenon
    <2>3. k \in I
      BY <1>1, <1>5, <2>2
    <2>4. k # 0 /\ nat[k] \in ToSet(nat) /\ nat[k].mapped = l
      BY <1>3, <2>3 DEF ToSet
    <2>5. QED
      BY <1>2, <2>4 DEF nat
  <1>6. QED
    BY <1>4, <1>5

\* The pod's iptables rules, in all
LEMMA AllRulesSet ==
  ASSUME SettingsAssumption, release \in Settings
  PROVE  \A rule :
    /\ rule \in ToSet(AllRules) =>
         \/ MadeFor(rule, ToSet(release.localNAT), ToSet(Extracted.rightSubnet))
         \/ /\ release.localNAT = <<>> /\ release.singleIP /\ rule.chain = "POSTROUTING"
            /\ Len(ResolvedLeft) = 1 /\ rule.to = ResolvedLeft[1]
         \/ MadeFor(rule, ToSet(release.remoteNAT), ToSet(Subjects))
    /\ \/ MadeFor(rule, ToSet(release.localNAT), ToSet(Extracted.rightSubnet))
       \/ MadeFor(rule, ToSet(release.remoteNAT), ToSet(Subjects))
       => rule \in ToSet(AllRules)
  <1> DEFINE right == Extracted.rightSubnet
             left == ResolvedLeft
             local == release.localNAT
             remote == release.remoteNAT
             A == IF local # <<>> THEN ConfigureSubnetNAT(local, right)
                  ELSE IF release.singleIP THEN ConfigureSingleSourceIP(left, right) ELSE <<>>
             B == ConfigureSubnetNAT(remote, Subjects)
             R == IpTablesRules(Items)
  <1>1. /\ local \in Seq(RulesOf(Items)) /\ remote \in Seq(RulesOf(Items))
        /\ left \in Seq(Items) /\ right \in Seq(Items) /\ Everywhere \in Items
    BY StartTypes DEF Items
  <1>2. AllRules = A \o B
    BY DEF AllRules, Subjects
  <1>3. Subjects \in Seq(Items)
    BY <1>1, OriginalType DEF Subjects
  <1> HIDE DEF left, right, local, remote
  <1>4. /\ B \in Seq(R)
        /\ \A rule : rule \in ToSet(B) <=> MadeFor(rule, ToSet(remote), ToSet(Subjects))
    BY <1>1, <1>3, ConfigureSet DEF MadeFor
  <1>5. /\ A \in Seq(R)
        /\ \A rule :
             /\ MadeFor(rule, ToSet(local), ToSet(right)) => rule \in ToSet(A)
             /\ rule \in ToSet(A) =>
                  \/ MadeFor(rule, ToSet(local), ToSet(right))
                  \/ /\ local = <<>> /\ release.singleIP /\ rule.chain = "POSTROUTING"
                     /\ Len(left) = 1 /\ rule.to = left[1]
    <2>1. CASE local # <<>>
      BY <1>1, <2>1, ConfigureSet DEF MadeFor
    <2>2. CASE local = <<>>
      <3>1. ToSet(local) = {}
        BY <2>2 DEF ToSet
      <3>2. \A rule : ~MadeFor(rule, ToSet(local), ToSet(right))
        BY <3>1 DEF MadeFor
      <3>3. CASE release.singleIP
        BY <1>1, <2>2, <3>2, <3>3, SingleSet
      <3>4. CASE ~release.singleIP
        <4>1. A = <<>> /\ <<>> \in Seq(R)
          BY <2>2, <3>4
        <4>2. ToSet(A) = {}
          BY <4>1 DEF ToSet
        <4>3. QED
          BY <3>2, <4>1, <4>2
      <3>5. QED
        BY <3>3, <3>4
    <2>3. QED
      BY <2>1, <2>2
  <1> HIDE DEF A, B, R
  <1>6. ToSet(AllRules) = ToSet(A) \cup ToSet(B)
    BY <1>2, <1>4, <1>5, ConcatRange
  <1>7. QED
    BY <1>4, <1>5, <1>6 DEF left, right, local, remote

\* The rules for remote subnets are for the local ones as the cluster knows
\* them, or for all sources.
LEMMA SubjectsSet ==
  ASSUME SettingsAssumption, release \in Settings, release.remoteNAT # <<>>,
         Len(release.localNAT) <= 1,
         \A q \in ToSet(release.localNAT) : q.mapped \in ToSet(ResolvedLeft)
  PROVE  \/ release.singleIP /\ ToSet(Subjects) = {Everywhere}
         \/ ToSet(Subjects) = {Inside(l) : l \in ToSet(ResolvedLeft)}
  <1>1. /\ release.localNAT \in Seq(RulesOf(Items)) /\ ResolvedLeft \in Seq(Items)
    BY StartTypes
  <1>2. CASE release.localNAT = <<>>
    <2>1. ToSet(release.localNAT) = {}
      BY <1>2 DEF ToSet
    <2>2. \A l : Inside(l) = l
      BY <1>1, <2>1, InsideOf
    <2>3. CASE release.singleIP
      <3>1. Subjects = <<Everywhere>>
        BY <1>2, <2>3 DEF Subjects
      <3>2. ToSet(<<Everywhere>>) = {Everywhere}
        BY DEF ToSet
      <3>3. QED
        BY <2>3, <3>1, <3>2
    <2>4. CASE ~release.singleIP
      <3>1. Subjects = ResolvedLeft
        BY <1>2, <2>4 DEF Subjects
      <3>2. QED
        BY <2>2, <3>1
    <2>5. QED
      BY <2>3, <2>4
  <1>3. CASE release.localNAT # <<>>
    <2> DEFINE q == release.localNAT[1]
    <2>1. release.localNAT = <<q>>
      BY <1>1, <1>3
    <2>2. q \in RulesOf(Items)
      BY <1>1, <1>3
    <2>3. ToSet(release.localNAT) = {q}
      BY <1>1, <2>1 DEF ToSet
    <2> HIDE DEF q
    <2>4. q.mapped \in ToSet(ResolvedLeft)
      BY <2>3
    <2>5. ToSet(Subjects) = {IF l = q.mapped THEN q.orig ELSE l : l \in ToSet(ResolvedLeft)}
      BY <1>1, <1>3, <2>1, <2>2, <2>4, OriginalSet DEF Subjects
    <2>6. \A l : Inside(l) = IF l = q.mapped THEN q.orig ELSE l
      BY <1>1, <2>3, InsideOf
    <2>7. QED
      BY <2>5, <2>6
  <1>4. QED
    BY <1>2, <1>3

\* What is known of a local subnet l, which the cluster knows as inside, and
\* of a remote one r, which it knows as outside
Apart(local, remote, L, R, l, r, inside, outside) ==
  LET near == L \cup {q.orig : q \in local}
      far == R \cup {q.mapped : q \in remote} IN
  /\ l \in L /\ r \in R
  /\ near \cap far = {} /\ Everywhere \notin near \cup far
  /\ \A q \in local : q.mapped \in L /\ q.orig \notin L
  /\ \A q \in remote : q.orig \in R /\ q.mapped \notin R
  /\ \A p, q \in local : p.orig = q.orig \/ p.mapped = q.mapped => p = q
  /\ \A p, q \in remote : p.orig = q.orig \/ p.mapped = q.mapped => p = q
  /\ \/ \E q \in local : q.mapped = l /\ inside = q.orig
     \/ (\A q \in local : q.mapped # l) /\ inside = l
  /\ \/ \E q \in remote : q.orig = r /\ outside = q.mapped
     \/ (\A q \in remote : q.orig # r) /\ outside = r

\* What Apart says of each rule by itself
LEMMA ApartRules ==
  ASSUME NEW local, NEW remote, NEW L, NEW R, NEW l, NEW r, NEW inside, NEW outside,
         Apart(local, remote, L, R, l, r, inside, outside)
  PROVE  /\ \A q \in local :
              /\ q.orig \notin {r, outside, Everywhere} /\ q.mapped # Everywhere
              /\ (q.orig = inside) <=> (q.mapped = l)
         /\ \A q \in remote :
              /\ q.mapped \notin {l, inside, Everywhere} /\ q.orig \notin {l, inside, Everywhere}
              /\ (q.orig = r) <=> (q.mapped = outside)
         /\ {l, inside, Everywhere} \cap R = {}
         /\ inside = l \/ \E q \in local : q.orig = inside /\ q.mapped = l
         /\ outside = r \/ \E q \in remote : q.orig = r /\ q.mapped = outside
  <1> DEFINE near == L \cup {q.orig : q \in local}
             far == R \cup {q.mapped : q \in remote}
  <1>1. /\ l \in L /\ r \in R
        /\ near \cap far = {} /\ Everywhere \notin near \cup far
        /\ \A q \in local : q.mapped \in L /\ q.orig \notin L
        /\ \A q \in remote : q.orig \in R /\ q.mapped \notin R
        /\ \A p, q \in local : p.orig = q.orig \/ p.mapped = q.mapped => p = q
        /\ \A p, q \in remote : p.orig = q.orig \/ p.mapped = q.mapped => p = q
        /\ \/ \E q \in local : q.mapped = l /\ inside = q.orig
           \/ (\A q \in local : q.mapped # l) /\ inside = l
        /\ \/ \E q \in remote : q.orig = r /\ outside = q.mapped
           \/ (\A q \in remote : q.orig # r) /\ outside = r
    BY DEF Apart
  <1>2. L \subseteq near /\ R \subseteq far
        /\ (\A q \in local : q.orig \in near) /\ (\A q \in remote : q.mapped \in far)
    OBVIOUS
  <1> HIDE DEF near, far
  <1>3. {l, inside} \subseteq near /\ {r, outside} \subseteq far
    BY <1>1, <1>2
  <1>4. \A q \in local : (q.orig = inside) <=> (q.mapped = l)
    BY <1>1
  <1>5. \A q \in remote : (q.orig = r) <=> (q.mapped = outside)
    BY <1>1
  <1>6. \A q \in local : q.orig \in near /\ q.mapped \in near
    BY <1>1, <1>2
  <1>7. \A q \in remote : q.orig \in far /\ q.mapped \in far
    BY <1>1, <1>2
  <1>8. inside = l \/ \E q \in local : q.orig = inside /\ q.mapped = l
    BY <1>1
  <1>9. outside = r \/ \E q \in remote : q.orig = r /\ q.mapped = outside
    BY <1>1
  <1>10. \A a \in near, b \in far : a # b /\ a # Everywhere /\ b # Everywhere
    BY <1>1
  <1>11. QED
    BY <1>2, <1>3, <1>4, <1>5, <1>6, <1>7, <1>8, <1>9, <1>10

\* The rules of a list: those of both directions, and others that give l
Outgoing(list, local, remote, R, subjects, l) ==
  \A rule :
    /\ rule \in ToSet(list) =>
         \/ MadeFor(rule, local, R)
         \/ rule.chain = "POSTROUTING" /\ rule.to = l
         \/ MadeFor(rule, remote, subjects)
    /\ MadeFor(rule, local, R) \/ MadeFor(rule, remote, subjects) => rule \in ToSet(list)

\* From the cluster into the tunnel: first the destination, then the source.
LEMMA OutboundTranslated ==
  ASSUME NEW list, Len(list) \in Nat, DOMAIN list = 1 .. Len(list),
         NEW local, NEW remote, NEW L, NEW R, NEW subjects,
         NEW l, NEW r, NEW inside, NEW outside,
         Apart(local, remote, L, R, l, r, inside, outside),
         Size[outside] = Size[r],
         Outgoing(list, local, remote, R, subjects, l),
         remote # {} => inside \in subjects \/ Everywhere \in subjects
  PROVE  Through(list, [src |-> inside, dst |-> outside]) = [src |-> l, dst |-> r]
  <1>1. /\ \A q \in local :
             /\ q.orig \notin {r, outside, Everywhere} /\ q.mapped # Everywhere
             /\ (q.orig = inside) <=> (q.mapped = l)
        /\ \A q \in remote :
             /\ q.mapped \notin {l, inside, Everywhere} /\ q.orig \notin {l, inside, Everywhere}
             /\ (q.orig = r) <=> (q.mapped = outside)
        /\ {l, inside, Everywhere} \cap R = {}
        /\ inside = l \/ \E q \in local : q.orig = inside /\ q.mapped = l
        /\ outside = r \/ \E q \in remote : q.orig = r /\ q.mapped = outside
    BY ApartRules
  <1>f. \A q, s : /\ Forth(q, s).chain = "POSTROUTING" /\ Forth(q, s).src = q.orig
                  /\ Forth(q, s).dst = s /\ Forth(q, s).to = q.mapped
    BY DEF Forth, IpTablesRule
  <1>b. \A q, s : /\ Back(q, s).chain = "PREROUTING" /\ Back(q, s).src = s
                  /\ Back(q, s).dst = q.mapped /\ Back(q, s).to = q.orig
    BY DEF Back, IpTablesRule
  <1>m. \A rule, a, b : Matches(rule, [src |-> a, dst |-> b]) <=>
                          rule.src \in {a, Everywhere} /\ rule.dst \in {b, Everywhere}
    BY DEF Matches
  <1>r. \A rule :
          /\ rule \in ToSet(list) =>
               \/ MadeFor(rule, local, R)
               \/ rule.chain = "POSTROUTING" /\ rule.to = l
               \/ MadeFor(rule, remote, subjects)
          /\ MadeFor(rule, local, R) \/ MadeFor(rule, remote, subjects) => rule \in ToSet(list)
    BY DEF Outgoing
  <1>2. Prerouted(list, [src |-> inside, dst |-> outside]) = [src |-> inside, dst |-> r]
    <2>1. ASSUME NEW rule \in ToSet(list), rule.chain = "PREROUTING",
                 Matches(rule, [src |-> inside, dst |-> outside])
          PROVE  rule.to = r
      <3>1. CASE MadeFor(rule, local, R)
        <4>1. PICK q \in local, s \in R : rule = Back(q, s)
          BY <1>f, <2>1, <3>1 DEF MadeFor
        <4>2. rule.src \in R
          BY <1>b, <4>1
        <4>3. QED
          BY <1>1, <1>m, <2>1, <4>2
      <3>2. CASE MadeFor(rule, remote, subjects)
        <4>1. PICK q \in remote, s \in subjects : rule = Back(q, s)
          BY <1>f, <2>1, <3>2 DEF MadeFor
        <4>2. rule.dst = q.mapped /\ rule.to = q.orig
          BY <1>b, <4>1
        <4>3. QED
          BY <1>1, <1>m, <2>1, <4>2
      <3>3. QED
        BY <1>r, <2>1, <3>1, <3>2
    <2>2. r = outside \/ \E rule \in ToSet(list) :
            rule.chain = "PREROUTING" /\ Matches(rule, [src |-> inside, dst |-> outside])
      <3>1. SUFFICES ASSUME r # outside
                     PROVE  \E rule \in ToSet(list) :
                              rule.chain = "PREROUTING" /\ Matches(rule, [src |-> inside, dst |-> outside])
        OBVIOUS
      <3>2. PICK q \in remote : q.orig = r /\ q.mapped = outside
        BY <1>1, <3>1
      <3>3. PICK s \in subjects : s \in {inside, Everywhere}
        BY <3>2
      <3>4. ~OneWay(q)
        BY <3>2 DEF OneWay
      <3>5. Back(q, s) \in ToSet(list)
        BY <1>r, <3>4 DEF MadeFor
      <3>6. QED
        BY <1>b, <1>m, <3>2, <3>3, <3>5
    <2>3. QED
      BY <2>1, <2>2, PreroutedTo
  <1>3. Postrouted(list, [src |-> inside, dst |-> r]) = [src |-> l, dst |-> r]
    <2>1. ASSUME NEW rule \in ToSet(list), rule.chain = "POSTROUTING",
                 Matches(rule, [src |-> inside, dst |-> r])
          PROVE  rule.to = l
      <3>1. CASE MadeFor(rule, local, R)
        <4>1. PICK q \in local, s \in R : rule = Forth(q, s)
          BY <1>b, <2>1, <3>1 DEF MadeFor
        <4>2. rule.src = q.orig /\ rule.to = q.mapped
          BY <1>f, <4>1
        <4>3. QED
          BY <1>1, <1>m, <2>1, <4>2
      <3>2. CASE MadeFor(rule, remote, subjects)
        <4>1. PICK q \in remote, s \in subjects : rule = Forth(q, s)
          BY <1>b, <2>1, <3>2 DEF MadeFor
        <4>2. rule.src = q.orig
          BY <1>f, <4>1
        <4>3. QED
          BY <1>1, <1>m, <2>1, <4>2
      <3>3. QED
        BY <1>r, <2>1, <3>1, <3>2
    <2>2. l = inside \/ \E rule \in ToSet(list) :
            rule.chain = "POSTROUTING" /\ Matches(rule, [src |-> inside, dst |-> r])
      <3>1. SUFFICES ASSUME l # inside
                     PROVE  \E rule \in ToSet(list) :
                              rule.chain = "POSTROUTING" /\ Matches(rule, [src |-> inside, dst |-> r])
        OBVIOUS
      <3>2. PICK q \in local : q.orig = inside /\ q.mapped = l
        BY <1>1, <3>1
      <3>3. r \in R
        BY DEF Apart
      <3>4. Forth(q, r) \in ToSet(list)
        BY <1>r, <3>3 DEF MadeFor
      <3>5. QED
        BY <1>f, <1>m, <3>2, <3>4
    <2>3. QED
      BY <2>1, <2>2, PostroutedTo
  <1>4. QED
    BY <1>2, <1>3 DEF Through

\* From the tunnel into the cluster, where the rule for l goes both ways and
\* all traffic has not one source.
LEMMA InboundTranslated ==
  ASSUME NEW list, Len(list) \in Nat, DOMAIN list = 1 .. Len(list),
         NEW local, NEW remote, NEW L, NEW R, NEW subjects,
         NEW l, NEW r, NEW inside, NEW outside,
         Apart(local, remote, L, R, l, r, inside, outside),
         Size[inside] = Size[l],
         \A rule :
           rule \in ToSet(list) <=> MadeFor(rule, local, R) \/ MadeFor(rule, remote, subjects),
         remote # {} => inside \in subjects
  PROVE  Through(list, [src |-> r, dst |-> l]) = [src |-> outside, dst |-> inside]
  <1>1. /\ \A q \in local :
             /\ q.orig \notin {r, outside, Everywhere} /\ q.mapped # Everywhere
             /\ (q.orig = inside) <=> (q.mapped = l)
        /\ \A q \in remote :
             /\ q.mapped \notin {l, inside, Everywhere} /\ q.orig \notin {l, inside, Everywhere}
             /\ (q.orig = r) <=> (q.mapped = outside)
        /\ {l, inside, Everywhere} \cap R = {}
        /\ inside = l \/ \E q \in local : q.orig = inside /\ q.mapped = l
        /\ outside = r \/ \E q \in remote : q.orig = r /\ q.mapped = outside
    BY ApartRules
  <1>f. \A q, s : /\ Forth(q, s).chain = "POSTROUTING" /\ Forth(q, s).src = q.orig
                  /\ Forth(q, s).dst = s /\ Forth(q, s).to = q.mapped
    BY DEF Forth, IpTablesRule
  <1>b. \A q, s : /\ Back(q, s).chain = "PREROUTING" /\ Back(q, s).src = s
                  /\ Back(q, s).dst = q.mapped /\ Back(q, s).to = q.orig
    BY DEF Back, IpTablesRule
  <1>m. \A rule, a, b : Matches(rule, [src |-> a, dst |-> b]) <=>
                          rule.src \in {a, Everywhere} /\ rule.dst \in {b, Everywhere}
    BY DEF Matches
  <1>2. Prerouted(list, [src |-> r, dst |-> l]) = [src |-> r, dst |-> inside]
    <2>1. ASSUME NEW rule \in ToSet(list), rule.chain = "PREROUTING",
                 Matches(rule, [src |-> r, dst |-> l])
          PROVE  rule.to = inside
      <3>1. CASE MadeFor(rule, local, R)
        <4>1. PICK q \in local, s \in R : rule = Back(q, s)
          BY <1>f, <2>1, <3>1 DEF MadeFor
        <4>2. rule.dst = q.mapped /\ rule.to = q.orig
          BY <1>b, <4>1
        <4>3. QED
          BY <1>1, <1>m, <2>1, <4>2
      <3>2. CASE MadeFor(rule, remote, subjects)
        <4>1. PICK q \in remote, s \in subjects : rule = Back(q, s)
          BY <1>f, <2>1, <3>2 DEF MadeFor
        <4>2. rule.dst = q.mapped
          BY <1>b, <4>1
        <4>3. QED
          BY <1>1, <1>m, <2>1, <4>2
      <3>3. QED
        BY <3>1, <3>2
    <2>2. inside = l \/ \E rule \in ToSet(list) :
            rule.chain = "PREROUTING" /\ Matches(rule, [src |-> r, dst |-> l])
      <3>1. SUFFICES ASSUME inside # l
                     PROVE  \E rule \in ToSet(list) :
                              rule.chain = "PREROUTING" /\ Matches(rule, [src |-> r, dst |-> l])
        OBVIOUS
      <3>2. PICK q \in local : q.orig = inside /\ q.mapped = l
        BY <1>1, <3>1
      <3>3. r \in R
        BY DEF Apart
      <3>4. ~OneWay(q)
        BY <3>2 DEF OneWay
      <3>5. Back(q, r) \in ToSet(list)
        BY <3>3, <3>4 DEF MadeFor
      <3>6. QED
        BY <1>b, <1>m, <3>2, <3>5
    <2>3. QED
      BY <2>1, <2>2, PreroutedTo
  <1>3. Postrouted(list, [src |-> r, dst |-> inside]) = [src |-> outside, dst |-> inside]
    <2>1. ASSUME NEW rule \in ToSet(list), rule.chain = "POSTROUTING",
                 Matches(rule, [src |-> r, dst |-> inside])
          PROVE  rule.to = outside
      <3>1. CASE MadeFor(rule, local, R)
        <4>1. PICK q \in local, s \in R : rule = Forth(q, s)
          BY <1>b, <2>1, <3>1 DEF MadeFor
        <4>2. rule.src = q.orig
          BY <1>f, <4>1
        <4>3. QED
          BY <1>1, <1>m, <2>1, <4>2
      <3>2. CASE MadeFor(rule, remote, subjects)
        <4>1. PICK q \in remote, s \in subjects : rule = Forth(q, s)
          BY <1>b, <2>1, <3>2 DEF MadeFor
        <4>2. rule.src = q.orig /\ rule.to = q.mapped
          BY <1>f, <4>1
        <4>3. QED
          BY <1>1, <1>m, <2>1, <4>2
      <3>3. QED
        BY <3>1, <3>2
    <2>2. outside = r \/ \E rule \in ToSet(list) :
            rule.chain = "POSTROUTING" /\ Matches(rule, [src |-> r, dst |-> inside])
      <3>1. SUFFICES ASSUME outside # r
                     PROVE  \E rule \in ToSet(list) :
                              rule.chain = "POSTROUTING" /\ Matches(rule, [src |-> r, dst |-> inside])
        OBVIOUS
      <3>2. PICK q \in remote : q.orig = r /\ q.mapped = outside
        BY <1>1, <3>1
      <3>3. Forth(q, inside) \in ToSet(list)
        BY <3>2 DEF MadeFor
      <3>4. QED
        BY <1>f, <1>m, <3>2, <3>3
    <2>3. QED
      BY <2>1, <2>2, PostroutedTo
  <1>4. QED
    BY <1>2, <1>3 DEF Through

\* A remote subnet is known in the cluster by what its rule maps it to.
LEMMA OutsideOf ==
  ASSUME NEW S, release.remoteNAT \in Seq(RulesOf(S)), NEW r \in S, NEW R,
         \A q \in ToSet(release.remoteNAT) : q.orig \in R /\ q.mapped \notin R,
         \A p, q \in ToSet(release.remoteNAT) : p.orig = q.orig => p = q
  PROVE  \/ \E q \in ToSet(release.remoteNAT) : q.orig = r /\ Outside(r) = q.mapped
         \/ (\A q \in ToSet(release.remoteNAT) : q.orig # r) /\ Outside(r) = r
  <1> DEFINE nat == release.remoteNAT
  <1>1. Len(nat) \in Nat /\ DOMAIN nat = 1 .. Len(nat) /\ nat \in Seq(RulesOf(S))
    BY RuleElements
  <1>2. Outside(r) = MapSubnets(nat, <<r>>)[1]
    BY DEF Outside
  <1>3. /\ \A q \in ToSet(nat) : q.orig \in R /\ q.mapped \notin R
        /\ \A p, q \in ToSet(nat) : p.orig = q.orig => p = q
    OBVIOUS
  <1> HIDE DEF nat
  <1>4. \A i \in 1 .. Len(nat) : nat[i] \in ToSet(nat)
    BY <1>1 DEF ToSet
  <1>5. \A i, j \in 1 .. Len(nat) : /\ nat[i].orig = nat[j].orig => nat[i] = nat[j]
                                    /\ nat[i].orig = r => nat[j].orig # nat[i].mapped
    BY <1>3, <1>4
  <1>6. /\ \A i \in 1 .. Len(nat) : nat[i].orig = r => MapSubnets(nat, <<r>>)[1] = nat[i].mapped
        /\ (\A i \in 1 .. Len(nat) : nat[i].orig # r) => MapSubnets(nat, <<r>>)[1] = r
    BY <1>1, <1>5, MapPlain
  <1>7. CASE \A i \in 1 .. Len(nat) : nat[i].orig # r
    <2>1. \A q \in ToSet(nat) : q.orig # r
      BY <1>1, <1>7 DEF ToSet
    <2>2. QED
      BY <1>2, <1>6, <1>7, <2>1 DEF nat
  <1>8. ASSUME NEW i \in 1 .. Len(nat), nat[i].orig = r
        PROVE  \E q \in ToSet(nat) : q.orig = r /\ Outside(r) = q.mapped
    BY <1>2, <1>4, <1>6, <1>8
  <1>9. QED
    BY <1>7, <1>8 DEF nat

LEMMA Translates ==
  ASSUME SettingsAssumption, StartInv
  PROVE  PodTranslates
  <1> DEFINE local == ToSet(release.localNAT)
             remote == ToSet(release.remoteNAT)
             L == ToSet(ResolvedLeft)
             R == ToSet(Extracted.rightSubnet)
             subjects == ToSet(Subjects)
  <1>1. SUFFICES ASSUME at = "published", PlainNat, NEW l \in ToSet(data.local), NEW r \in ToSet(data.remote)
                 PROVE  /\ Size[Outside(r)] = Size[r] =>
                             Through(rules, [src |-> Inside(l), dst |-> Outside(r)]) = [src |-> l, dst |-> r]
                        /\ (Size[Inside(l)] = Size[l] /\ ~release.singleIP) =>
                             Through(rules, [src |-> r, dst |-> l]) = [src |-> Outside(r), dst |-> Inside(l)]
    BY DEF PodTranslates
  <1>2. /\ release \in Settings /\ rules = AllRules /\ l \in L /\ r \in R
        /\ L = ToSet(conf.leftSubnet) /\ R = ToSet(conf.rightSubnet)
    BY <1>1, PublishedData
  <1>3. /\ release.localNAT \in Seq(RulesOf(Items)) /\ release.remoteNAT \in Seq(RulesOf(Items))
        /\ ResolvedLeft \in Seq(Items) /\ Extracted.rightSubnet \in Seq(Items)
        /\ AllRules \in Seq(IpTablesRules(Items))
    BY <1>2, StartTypes
  <1>4. Len(rules) \in Nat /\ DOMAIN rules = 1 .. Len(rules)
    BY <1>2, <1>3
  <1>5. /\ (L \cup {q.orig : q \in local}) \cap (R \cup {q.mapped : q \in remote}) = {}
        /\ Everywhere \notin (L \cup {q.orig : q \in local}) \cup (R \cup {q.mapped : q \in remote})
        /\ \A q \in local : q.mapped \in L /\ q.orig \notin L
        /\ \A q \in remote : q.orig \in R /\ q.mapped \notin R
        /\ \A p, q \in local : p.orig = q.orig \/ p.mapped = q.mapped => p = q
        /\ \A p, q \in remote : p.orig = q.orig \/ p.mapped = q.mapped => p = q
    BY <1>1, <1>2 DEF PlainNat, PlainRules
  <1>6. release.remoteNAT # <<>> => Len(release.localNAT) <= 1
    BY <1>1 DEF PlainNat
  <1>7. r \in Items
    BY <1>2, <1>3 DEF ToSet
  <1>8. \/ \E q \in local : q.mapped = l /\ Inside(l) = q.orig
        \/ (\A q \in local : q.mapped # l) /\ Inside(l) = l
    BY <1>3, InsideOf
  <1>9. \/ \E q \in remote : q.orig = r /\ Outside(r) = q.mapped
        \/ (\A q \in remote : q.orig # r) /\ Outside(r) = r
    BY <1>3, <1>5, <1>7, OutsideOf
  <1>10. Apart(local, remote, L, R, l, r, Inside(l), Outside(r))
    BY <1>2, <1>5, <1>8, <1>9, Zenon DEF Apart
  <1>11. \A rule :
           /\ rule \in ToSet(rules) =>
                \/ MadeFor(rule, local, R)
                \/ /\ release.singleIP /\ rule.chain = "POSTROUTING"
                   /\ Len(ResolvedLeft) = 1 /\ rule.to = ResolvedLeft[1]
                \/ MadeFor(rule, remote, subjects)
           /\ MadeFor(rule, local, R) \/ MadeFor(rule, remote, subjects) => rule \in ToSet(rules)
    BY <1>2, AllRulesSet
  <1>12. remote # {} => (release.singleIP /\ subjects = {Everywhere}) \/ Inside(l) \in subjects
    <2>1. SUFFICES ASSUME remote # {}
                   PROVE  (release.singleIP /\ subjects = {Everywhere}) \/ Inside(l) \in subjects
      OBVIOUS
    <2>2. release.remoteNAT # <<>>
      BY <2>1 DEF ToSet
    <2>3. \/ release.singleIP /\ subjects = {Everywhere}
          \/ subjects = {Inside(x) : x \in L}
      BY <1>2, <1>5, <1>6, <2>2, SubjectsSet
    <2>4. QED
      BY <1>2, <2>3
  <1>13. Len(ResolvedLeft) = 1 => ResolvedLeft[1] = l
    BY <1>2, <1>3 DEF ToSet
  <1> HIDE DEF local, remote, L, R, subjects
  <1>14. ASSUME Size[Outside(r)] = Size[r]
         PROVE  Through(rules, [src |-> Inside(l), dst |-> Outside(r)]) = [src |-> l, dst |-> r]
    <2>1. Outgoing(rules, local, remote, R, subjects, l)
      BY <1>11, <1>13 DEF Outgoing
    <2>2. remote # {} => Inside(l) \in subjects \/ Everywhere \in subjects
      BY <1>12
    <2>3. QED
      BY <1>4, <1>10, <1>14, <2>1, <2>2, OutboundTranslated
  <1>15. ASSUME Size[Inside(l)] = Size[l], ~release.singleIP
         PROVE  Through(rules, [src |-> r, dst |-> l]) = [src |-> Outside(r), dst |-> Inside(l)]
    <2>1. \A rule :
            rule \in ToSet(rules) <=> MadeFor(rule, local, R) \/ MadeFor(rule, remote, subjects)
      BY <1>11, <1>15
    <2>2. remote # {} => Inside(l) \in subjects
      BY <1>12, <1>15
    <2>3. QED
      BY <1>4, <1>10, <1>15, <2>1, <2>2, InboundTranslated
  <1>16. QED
    BY <1>14, <1>15

-----------------------------------------------------------------------------
(* The three results, from the one invariant.                              *)

LEMMA StartInvariant ==
  ASSUME PodStartAssumption, SettingsAssumption
  PROVE  Spec => []StartInv
  <1>1. Init => StartInv
    BY InitStart
  <1>2. StartInv /\ [Next]_vars => StartInv'
    BY StartStep
  <1>3. QED
    BY <1>1, <1>2, PTL DEF Spec

\* ipsec and the route daemons work with the same subnets: what ipsec reads
\* from the file that sed rewrote is what the pod has published, with an
\* address for its leftid where a placeholder stood, for every file without a
\* space before a "=" (updateConfigFile, vpnPodConfig and readConfigFile).
THEOREM FileAsPublished ==
  ASSUME PodStartAssumption, SettingsAssumption
  PROVE  Spec => []FileMatchesData
  <1>1. StartInv => FileMatchesData
    BY FileMatches
  <1>2. QED
    BY <1>1, StartInvariant, PTL

\* When pods are to keep their addresses, there is an IPPool for every subnet
\* that the route daemons route to the pod, in the daemons' own mapping, for
\* every list of rules (MapSubnets and CreateIPPool).
THEOREM PoolsForRoutes ==
  ASSUME PodStartAssumption, SettingsAssumption
  PROVE  Spec => []PoolsCoverRoutes
  <1>1. StartInv => PoolsCoverRoutes
    BY PoolsCover
  <1>2. QED
    BY <1>1, StartInvariant, PTL

\* The pod's iptables rules translate, both ways, between the subnets the
\* cluster knows and those of ipsec's policy, for any rules in localSubnetNAT
\* alone, and for at most one of them beside any in remoteSubnetNAT, used as
\* the comments of values.yaml describe, however often the pod was restarted
\* (ConfigureSubnetNAT, ConfigureSingleSourceIP and OriginalSubnets).  With two
\* or more beside rules in remoteSubnetNAT it does not hold, because of the loop
\* at strongswan.go:266: the assumption PlainNat of PodTranslates.
THEOREM TrafficTranslated ==
  ASSUME PodStartAssumption, SettingsAssumption
  PROVE  Spec => []PodTranslates
  <1>1. StartInv => PodTranslates
    BY Translates
  <1>2. QED
    BY <1>1, StartInvariant, PTL
=============================================================================
