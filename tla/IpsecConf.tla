----------------------------- MODULE IpsecConf -----------------------------
(***************************************************************************)
(* src/utils/config.go: how the VPN pod reads, checks and rewrites         *)
(* ipsec.conf.  A file is a sequence of lines; a value is the sequence of  *)
(* the items of its comma list.  Only keys that the checks combine, or the *)
(* pod uses, are told apart: a key with one set of valid values of its own *)
(* is checked like "type", a number like "keyingtries", a duration like    *)
(* "lifetime".                                                             *)
(***************************************************************************)
EXTENDS Naturals, SequencesExt

CONSTANTS
  Addr,     \* IP addresses (net.ParseIP)
  Subnet,   \* subnets in CIDR notation (net.ParseCIDR)
  InSubnet, \* subnet -> the addresses in it
  NotNumber \* items strconv.Atoi refuses, a unit at the end removed

ASSUME SubnetsHoldAddresses ==
  Addr \cap Subnet = {} /\ InSubnet \in [Subnet -> SUBSET Addr]

Empty == ""    \* Go's string that is nothing

\* "set": key=value.  "spaced": there is a space before the "=", which ipsec
\* accepts and readConfigFile skips.  "comment": neither reads it.
Line(kind, key, value) == [kind |-> kind, key |-> key, value |-> value]

\* The file for a reader that skips lines of these kinds: they set no key
Without(file, kinds) ==
  [i \in DOMAIN file |-> IF file[i].kind \in kinds THEN Line("comment", Empty, <<>>) ELSE file[i]]

readConfigFile(file) == Without(file, {"comment", "spaced"})

\* All values of a key, of whatever section, in one list (a key that is
\* repeated has no empty value)
ExtractConfigData(data, key) ==
  FlattenSeq([i \in DOMAIN data |-> IF data[i].key = key THEN data[i].value ELSE <<>>])

\* What strongSwan takes from the file
IpsecReads(file, key) == ExtractConfigData(Without(file, {"comment"}), key)

-----------------------------------------------------------------------------
(* The checks.  Each holds of every line with the key.                     *)

isKeyInConfig(data, key) == \E i \in DOMAIN data : data[i].key = key

Values(data, key) == {data[i].value : i \in {j \in DOMAIN data : data[j].key = key}}

validateValueFromSet(data, key, valid) ==
  Values(data, key) \subseteq {<<v>> : v \in valid}

ValidNumber(data, key) ==
  \A v \in Values(data, key) :
    (key = "keyingtries" /\ v = <<"%forever">>) \/ (Len(v) = 1 /\ v[1] \notin NotNumber)

ValidDuration(data, key) == \A v \in Values(data, key) : v = <<>> \/ (Len(v) = 1 /\ v[1] \notin NotNumber)

ValidIPAddr(data, key) ==
  Values(data, key) \subseteq {<<a>> : a \in Addr \cup {"%any", "%defaultroute"}}

ValidSubnet(data, key) ==
  \A v \in Values(data, key) : v # <<>> /\ ToSet(v) \subseteq Subnet \cup {"%zoneSubnet"}

\* PRIVATE_IP_TO_PING is in a remote subnet, or in what one is mapped to
verifyPrivateIP(data, ip, natRules) ==
  ip = Empty \/ \E s \in (ToSet(ExtractConfigData(data, "rightsubnet"))
                        \cup {r.mapped : r \in ToSet(natRules)}) \cap Subnet :
               ip \in InSubnet[s]

SimpleConfig(data) ==
  /\ \A k \in {"authby", "auto", "left", "leftid", "leftsubnet", "right", "rightid", "rightsubnet"} :
       isKeyInConfig(data, k)
  /\ ValidDuration(data, "lifetime") /\ ValidNumber(data, "keyingtries")
  /\ \A k \in {"left", "right"} : ValidIPAddr(data, k)
  /\ \A k \in {"leftsubnet", "rightsubnet"} : ValidSubnet(data, k)
  /\ validateValueFromSet(data, "authby",
       {"pubkey", "rsasig", "ecdsasig", "psk", "secret", "xauthrsasig", "xauthpsk", "never"})
  /\ validateValueFromSet(data, "auto", {"ignore", "add", "route", "start"})
  /\ \A k \in {"forceencaps", "mobike"} : validateValueFromSet(data, k, {"yes", "no"})
  /\ validateValueFromSet(data, "keyexchange", {"ike", "ikev1", "ikev2"})
  /\ validateValueFromSet(data, "type",
       {"tunnel", "transport", "transport_proxy", "passthrough", "drop"})

StrictConfig(data) ==
  /\ isKeyInConfig(data, "forceencaps") /\ isKeyInConfig(data, "mobike")
  /\ validateValueFromSet(data, "authby", {"psk", "secret"})
  /\ validateValueFromSet(data, "auto", {"add", "start"})
  /\ validateValueFromSet(data, "forceencaps", {"yes"})
  /\ validateValueFromSet(data, "mobike", {"no"})
  /\ validateValueFromSet(data, "type", {"tunnel"})
  /\ validateValueFromSet(data, "left", {"%any"})
  /\ ExtractConfigData(data, "keyexchange") = <<"ikev1">> =>
       /\ isKeyInConfig(data, "esp") /\ isKeyInConfig(data, "ike")
       /\ Len(ExtractConfigData(data, "leftsubnet")) <= 1
       /\ Len(ExtractConfigData(data, "rightsubnet")) <= 1

ValidateConfig(data, validate, ip, natRules) ==
  \/ validate = "off"
  \/ /\ validate \in {"simple", "strict", Empty}
     /\ verifyPrivateIP(data, ip, natRules) /\ SimpleConfig(data)
     /\ validate # "simple" => StrictConfig(data)

-----------------------------------------------------------------------------
(* The rewriting of the file, by sed: a line that starts with the value.   *)

updateConfigFile(file, key, existing, new) ==
  [i \in DOMAIN file |->
     IF file[i].kind # "spaced" /\ file[i].key = key
        /\ IsPrefix(existing, file[i].value)
     THEN [file[i] EXCEPT !.value = new \o SubSeq(@, Len(existing) + 1, Len(@))]
     ELSE file[i]]

\* The address that takes the place of leftID, "" when it is left alone
NewLeftID(leftID, publicIP, loadBalancerIP) ==
  CASE leftID = <<"%nodePublicIP">> -> publicIP
    [] leftID = <<"%loadBalancerIP">> -> loadBalancerIP
    [] OTHER -> Empty

UpdateConfigLeftID(file, leftID, publicIP, loadBalancerIP) ==
  LET new == NewLeftID(leftID, publicIP, loadBalancerIP) IN
  IF leftID \in {<<"%nodePublicIP">>, <<"%loadBalancerIP">>}
  THEN updateConfigFile(file, "leftid", leftID, <<new>>) ELSE file

\* log.Fatalf: the new leftid is not an IP address
RefusesLeftID(leftID, publicIP, loadBalancerIP) ==
  /\ leftID \in {<<"%nodePublicIP">>, <<"%loadBalancerIP">>}
  /\ NewLeftID(leftID, publicIP, loadBalancerIP) \notin Addr

UpdateConfigLeftSubnet(file, leftSubnet, zoneSubnet) ==
  IF leftSubnet = <<"%zoneSubnet">>
  THEN updateConfigFile(file, "leftsubnet", leftSubnet, zoneSubnet) ELSE file
=============================================================================
