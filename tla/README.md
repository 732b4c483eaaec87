# A TLA+ model of the strongSwan VPN for Kubernetes

This directory holds TLA+ specifications of the programs in this repository,
the TLC configurations that check them on small instances, and proofs that
TLAPS checks. Paths below are those of the repository (`strongswan/main.go` is
`src/strongswan/main.go` in `PROJECT.json`).

## 1. The system

One Helm release runs one *VPN pod* (a Deployment with one replica) and a
*route daemon* on every worker node (a DaemonSet). Both are the same binary,
`strongswan/main.go`, and they talk through one config map.

| Component | State | Operations | Interacts with |
|---|---|---|---|
| Route daemon (`strongswan/routedaemon.go`, `network/net.go`) | `savedRouteMap`; `routingTable` read once; the node's routes, rules and iptables rules | `configMapCreated`, `configMapUpdated`, `configMapDeleted`, `handleRoutes`, `handleSignal` | the informer's callbacks; the kernel through `ip` and `iptables`, which daemons of other releases change too; wakes the VPN pod over TCP |
| Config map protocol (`kube/configmap.go`) | the config map, the informer's store | `UpdateConfigMap` (read, then conditional write), `WatchConfigMap` (list and watch) | VPN pod to all daemons |
| VPN pod configuration (`strongswan/strongswan.go`, `main.go`) | `connectUsingVip`, `loadBalancerIP`, `leftSubnet`, ... | `initialize`, `vpnPodInit`, `vpnPodConfig` | everything in the next three rows, the IPPools, the config map |
| ipsec.conf (`utils/config.go`) | the file in `/etc` | `readConfigFile`, `ValidateConfig`, `UpdateConfigLeftID`, `UpdateConfigLeftSubnet` | what ipsec reads, against what the pod publishes |
| Subnet NAT (`network/net.go`) | iptables rules in the pod | `ConfigureSubnetNAT`, `ConfigureSingleSourceIP`, `validateNATrules` | the route daemons map the same subnets by themselves |
| Queries (`kube/pod.go`, `node.go`, `service.go`) | none | `GetPodInfo`, `GetLoadBalancerIP`: polling with a limit; `CalculateRouterTable` | the API server, the cloud provider |
| VPN pod life cycle (`strongswan/strongswan.go`, `main.go`, `utils/shell.go`) | `cleanupCalico`, `tcpListener`, `monitoringEnabled`, `ShellCommand.running` | `vpnPodWaitRouteDaemon`, `Start`, `Wait`, `Stop`, `vpnPodCleanup`, `handleSignal` | the config map, Calico's IPPools, the route daemon of its node, ipsec, the kubelet |
| Calico (`calico/calicoCmd.go`, `strongswan/calicoCmd.sh`) | IPPools, named after subnet and pod | `CreateIPPool` (replaces any pool of the subnet), `DeleteIPPool` (only the pod's own) | shared by all pods |
| Monitoring (`monitoring/*.go`) | `monitorActive`, `stopMonitor`, `timeToRunMonitoring`, `timeToLive`, `monitorResult`, a channel | `Start`, `Stop`, `Cancel`, `monitorThread`, `execute` | called by the parser of ipsec's output and by the cleanup |
| Helm chart, scripts | none | probes, rolling update, empty config map, services | the kubelet |

What is hard here:

* **Two goroutines without a lock.** `handleSignal` runs beside the informer's
  callback (route daemon), beside `main` (VPN pod), and the parser of ipsec's
  output beside `monitorThread`.
* **The kernel outlives the process, and is shared.** The daemon may die between
  any two commands. `ip route add` fails on a route that is there, `iptables -A`
  adds a second copy, and failures are only logged. Two releases may have one
  routing table.
* **Several records of one thing.** `savedRouteMap` and the informer's old object;
  the file that `sed` rewrites and the variables that are rewritten beside it;
  the iptables rules of the pod, its IPPools and the routes of the daemons, which
  each map the subnets by themselves.
* **Questions whose answers change.** The pod polls a fixed number of times for an
  address that may come at any moment, or not at all.
* **A wake-up that happens once.** The VPN pod waits, with no deadline, for one
  connection from a daemon that only reacts to changes.
* **Several pods of one release** exist during a rolling update or after a
  container is restarted; they share the config map and the IPPools.

The properties that make each component correct:

* Route daemon: between callbacks the kernel is exactly what `savedRouteMap`
  says; it goes from one configuration to the next through the empty kernel; it
  converges to the config map; it recovers from crashes; signals clean up; the
  pod is woken after its rules; it takes nothing from the daemon of another release.
* Starting VPN pod: what it publishes has the address that is needed and agrees
  with ipsec.conf, with its iptables rules and with its IPPools; giving up and
  starting over is enough.
* Running VPN pod: whoever waits will be woken; ipsec starts after SNAT; a pod
  that is told to stop stops; IPPools go with their pod; a rolling update ends
  with the newest pod serving.
* Monitoring: tests run exactly while the VPN is up; outages shorter than the
  grace period are not reported, longer ones once.

`PROJECT.json` lists all components and the hazards with their lines.

## 2. The modules

    RouteSync <--implements-- RouteDaemon --two instances--> SharedTable
    IpsecConf, SubnetNat <--extends-- PodStart
    VpnCluster (pods after PodStart, daemons as RouteDaemon shows them)
    Monitoring (in the pods of VpnCluster)

`RouteDaemon` — one worker node. A call of `handleRoutes` is a set of commands with a
stage each; a goroutine runs them one at a time in the order of the stages. One
process (`ip`, `iptables`) is one step, so every interleaving of the callback and
`handleSignal` between commands is explored, and `UpdateRouteRule` keeps its own steps
(list rules, list the table, run). The order inside a stage is that of a
comma-separated list and is left open. `Die` is every way the process ends: SIGKILL,
`log.Fatalf` in `GetDeviceToWorkerNode` and the validations, the failed type assertion
on a `DeletedFinalStateUnknown`, and `main` returning after a signal. Actions keep the
names of the functions; `configMapUpdated` is cut at its two calls of `handleRoutes`
(`configMapUpdated`, `UpdatedDeleted`, `Added`). `feed` holds the events not yet
delivered; `Relist` replaces them by the current object, as client-go does after a
broken watch. The data is one record per version of the config map; subnets are names
with `remap` (remoteSubnetNAT), `Network` (`net.ParseCIDR`) and `lookalike` (the text
comparison of `UpdateRouteRule`) as constants. `taint` is a history variable: what has
happened that no later call undoes (`leftover` entries of a dead process, a device
that Calico `moved`, a signal that `overlap`ped a callback, a command that `failed`).
`CommandFails` is any `ip` or `iptables` command that ends with an error, the listing
ones of `UpdateRouteRule` included: the code logs it and goes on. Not in the model:
commands that only log what is there, connection-tracking entries.

`RouteSync` — what a daemon promises, without goroutines, commands, crashes and
config map: it removes until the kernel is empty, then adds one configuration.
`RouteDaemon` has it as the instance `Sync`, with `phase`, `want` and `kernel`
mapped from its own state; once tainted the state maps to `spoilt`, for which
nothing is promised. `ImplementsRouteSync` is that instance's `Spec`.

`SharedTable` — two releases on one node: two instances of `RouteDaemon` with
variables of their own and one kernel. `UpdateRouteRule` lists the table and
keeps the rule while there are routes in it; the two steps are apart, so the
other daemon may run between them. `raced` is a history variable: one daemon has
deleted in a table while the other added to it. `ReleasesAssumption` says what keeps
the releases apart: they route different remote subnets in a table they share, and
their VPN pods, if both are on the node, have different tunnel routes and sources;
otherwise `ip route add` of the second would fail.

`IpsecConf` — ipsec.conf as a sequence of lines, with what the code reads, what
strongSwan reads, the simple and the strict checks, and `sed`. Values are lists
of tokens. Keys that are checked in the same way are represented by one.

`SubnetNat` — rule lists: what `strings.ReplaceAll` in a loop makes of a list of
subnets, the iptables rules that `ConfigureSubnetNAT` and
`ConfigureSingleSourceIP` make, and what iptables does to a packet with them.

`PodStart` — `main` of a VPN pod from `initialize` to the end of `vpnPodConfig`,
with the API server beside it: the kubelet gives the pod its address and then
reports it as running, the cloud provider gives the load balancer an address, a
host name, or the address that an upgrade has put into its specification. One
turn of a polling loop is one step. `Die` is `log.Fatalf` or a panic, `Fault` a
failing call or SIGKILL; `Restart` starts the container in the same pod, with
new files and the iptables rules of before. `cause` remembers why it died.

`VpnCluster` — the revisions 1..N of the VPN pod, the deployment and the kubelet, the
config map with resource versions, the IPPools, and per node a daemon reduced to
`Deliver`, `Install`, `Dial`. What `RouteDaemon` shows (`ExactWhenIdle`) is why one
value per node, `saved`, may stand for the kernel. `main` and `sig` have a program
counter each; SIGTERM may come wherever `main` is, and `vpnPodCleanup` is run by both
and is cut at each access of a shared variable (an access of the slice `cleanupCalico`
itself is one step). `createIPPool` is the three commands of `calicoCmd.sh`
(`ListIPPools`, `RemoveIPPool`, `ApplyIPPool`), so pods replace each other's IPPools
command by command; each may fail, and only the last one's failure is noticed
(`log.Fatalf`). `Stop` ends the process when the kill finds that `Wait` has reaped
ipsec. `installed` and `excused` are history variables: the data each daemon has ever
added, and the processes whose IPPools may stay. `Boot` is one step for `initialize`,
`vpnPodInit` and the part of `vpnPodConfig` that only reads, which `PodStart` has in
full. Each process makes monitorThread again, so `enabled`, `stopChan` and `monitor`
are all that `VpnCluster` needs of `Monitoring`.

`Monitoring` — `monitorThread` and the parser, with each assignment to a shared
variable as a step; time is counted in the two seconds of the thread's sleep.
Time passes while the thread sleeps or tests. `raced` is a history variable: it
tells whether `Start` or `Stop` has run while the thread, having decided that
the VPN is down, assigns the same variables.

The modules that begin with `MC` give constants for TLC; those that end in
`Proofs` hold the proofs. Definitions marked *Faulty variant* are plausible
errors of the definition below them; each property is violated when one is put
in place.

## 3. The runs

| Run | Question | Instance and bounds |
|---|---|---|
| `DaemonUpdate` | do callbacks undo each other exactly, how far does a failure spread, how fast do iptables rules pile up, and is all this `RouteSync`? | VPN pod here, here with host network and two remote subnets, on n2; 2 publications, and one each of helm, kill, signal, Calico change, failing command |
| `DaemonConverge` | does `savedRouteMap` stay right, does the kernel converge to the config map, does a restarted daemon complete its routes? (also liveness) | data that is complete, incomplete or clashes; 2 publications, helm 2, one each of kill, relist, signal |
| `SharedTable` | do two releases leave each other's routes and rules alone? | one table, a pod that moves to the node and away for each; 2 and 1 publications, a helm delete, a signal |
| `PodStart` | is what a pod publishes right and consistent, and does it ever publish? (also liveness) | about 40 releases: who asks for which address, NAT rules, settings by zone, refused and odd settings; 3 and 2 turns of the loops; 1 fault |
| `ClusterRollout` | is a waiting pod woken, and after its own SNAT rules, and does a rolling update end with the newest pod? (also liveness) | 3 revisions on a node, the gateway's IPPool; 1 upgrade that does not wait, 1 relist, 1 failure of calicoctl |
| `ClusterCleanup` | do IPPools go with their pod, and does a pod whose ipsec runs end when it is told to? (also liveness) | 2 revisions on a node, the gateway's IPPool, monitoring on; 1 probe, and ipsec ends or SIGKILL comes once |
| `MonitorLive` | is each outage reported once and after the grace period, do tests run while the VPN is up and end when it is down? (also liveness) | 2 SAs, ping, grace 3 ticks, delay 4; every interleaving |

Runs that TLC must find violated; each is a disagreement with a comment or the
README, quoted in `PROJECT.json` under `findings`:

| Run | What happens |
|---|---|
| `DaemonMoved` | the pod moves while the route to its old node is withdrawn: old routes stay and block the new ones |
| `DaemonSignal` | SIGTERM during a callback leaves entries in the kernel |
| `ClusterComesBack` | a container restarted in place publishes equal data and waits for ever |
| `SharedRace` | one daemon adds a route between the other's look at the table and its `ip rule del` |
| `PodStaleAddress` | after an upgrade the address from before is published, not the one that is requested |

**Why the bounds are enough.** Budgets count events of the environment, never steps of
the program. Publications, a helm delete and a restart together give a create, updates
and the chain pod here / elsewhere / here with host network, which uses every kind of
command on both sides of an update; a second relist or signal meets the same code in
the same states. The retry limits of the code (10 and 5) are 3 and 2: a first turn, a
middle one and a last one of `GetPodInfo`, a first and a last of `GetLoadBalancerIP`;
the theorems hold for all. One failing command is enough to spoil an update on the way
out or on the way in, and leaves events for the callbacks that come after it. One
fault is enough for a second container with the rules of the first one, and pods that
give up by themselves are restarted without limit. Two revisions are the least that
share anything; the third shows that an update may start while the pod before last is
still ending. They are on one node, where each finds what the daemon has of the one
before; a second node would have a second daemon that meets the same feed, and the
theorems are for any number of nodes. Two SAs distinguish the first and the last of
several. `CHECK_DEADLOCK FALSE` is given everywhere because budgets run out and a
release without changes stands still.

**Fairness.** Weak fairness only: of each goroutine (Go's scheduler runs what can run;
every command ends), of restarts by the DaemonSet and the kubelet, of the deployment's
steps, and of ipsec ending when it is told to. An upgrade that does not wait for a
ready pod (`DeployEarly`) is an operator's choice and is not fair. `PodStart` assumes
that `main` runs and that the kubelet restarts it, and nothing of the API server or
the cloud provider. `KubeletSpec` adds probes and the end of the grace period, for the
runs of whole rollouts and restarts. Nothing is assumed of crashes, failing commands,
publications, Calico, relists or ipsec's output.

**Restrictions a reader should know.**

* The runs are about addresses of which none is a prefix of another, as the theorems
  with `NoLookalikes` are: see section 4.
* `ExactWhenIdle`, `OneConfiguration`, `ShutdownClean`, `Converges` and
  `ImplementsRouteSync` speak of runs without taint: with it they are false,
  which is what `DaemonMoved` and `DaemonSignal` show. `RestartHeals` speaks of a
  config map that has had one version, and of runs in which no command fails.
* `WakeAfterSNAT` leaves out commands that failed (they are logged, and the pod is
  woken all the same) and connections while `handleSignal` deletes the same entries.
* The branch of `configMapUpdated` marked "should never occur" (no saved data)
  does occur, at the first update after an install, because `configMapCreated` has
  then stored the nil map of the empty config map; `OldData` has both branches.
* `SharedExact` allows one loss: if one daemon deletes in a table while the other
  adds to it, the table's rule for "all" may be gone (the daemon has listed the
  table before the other's route was there). `KeepsRuleInUse` has no such exception,
  and `SharedRace` shows it violated, although the release notes say "Don't
  delete rule if routes still in table" (`helm/strongswan/README.md:276`).
  `SharedExact` speaks of `Undisturbed` runs: no daemon was killed or missed an
  event, Calico moved no route, no command failed, and no signal overlapped a callback.
  What such an event leaves in the kernel is `RouteDaemon`'s subject; the instance has
  no budget for the first four.
* `SignalEndsPod` speaks of a pod whose `ShellCommand.running` is set when SIGTERM
  comes or before `Stop` looks; otherwise `Stop` does nothing (`utils/shell.go:94`),
  `main` starts ipsec afterwards, and the pod ends only with its grace period.
* `PoolsCleanedUp` excuses a process that got SIGTERM while it still made IPPools, and
  one for which `calicoctl delete` failed: `calicoCmd.sh` then exits 0 all the same.
  In the first case IPPools do stay: `vpnPodCleanup` in `handleSignal` deletes those
  that are in `cleanupCalico` when its loop begins and then resets the slice, with
  what `main` has appended meanwhile (`strongswan/strongswan.go:363`).
* `WakeUpComes` and `IpsecAfterSNAT` hold when no container that has published is
  restarted: a pod that publishes again while its daemon is behind starts ipsec
  between the removal and the renewal of its rules. `IpsecAfterSNAT` asks for this
  pod's own rules, once installed, and still there unless a later pod's data is in the
  config map. `RollsOut` holds when, besides, upgrades wait for a ready pod (its first
  disjunct): an old pod that is overtaken, or whose container is restarted during an
  update, may be the last to publish, and is then deleted: the daemons keep routes to
  a pod that is gone.
* `PublishedAddress` asks for an address, `RequestedAddress` for the one that was
  requested. `GetLoadBalancerIP` returns whatever address the service still has
  (`kube/service.go:55`), so the second is violated (`PodStaleAddress`).
* `FileMatchesData` speaks of files with no space before a `=` (`PlainFile`):
  `readConfigFile` skips such a line, which ipsec accepts. `PodTranslates` speaks of
  rules that do not chain or overlap, of subnets that are not both local and remote
  (`PlainRules`), and of at most one rule in `localSubnetNAT` if there are any in
  `remoteSubnetNAT` (`PlainNat`); with two, each turn of the loop at
  `strongswan/strongswan.go:266` starts again from `leftSubnet`, and packets of the
  first rule's subnet are not translated. A single source address has no way back, and
  neither has a remote subnet that is mapped to one address a way there:
  `ConfigureSubnetNAT` makes no PREROUTING rule for it.
* The checks of durations take `90`, `90s`, `2m`, `3h` (`utils/config.go:484-497`), not
  the `2.5m` and `1d` of `values.yaml`: `NotNumber` stands for both.
* `DownOncePerReport`, `TestsWhileUp` and `StopsWhenDown` make an exception of
  `raced`: a `Start` between monitorThread's test of `stopMonitor` and its
  assignments is lost, and no test runs although the VPN is up.

## 4. The proofs

Each theorem holds for every value of the constants that satisfies the named
assumptions of its module; no other assumption is made unless it is listed here.

`RouteDaemonProofs`, for every set of configurations, subnets, devices and
budgets:

* `TypeCorrect`: `Spec => []TypeOK`.
* `SavedIsOldData`: `Spec => []SavedMatchesOld`. `SavedMatchesOld` speaks only of
  idle states; the invariant `SavedInv` adds, for each place of the informer's
  goroutine, what `saved`, `seen` and `target` are there.
* `KernelIsExact`, `OneAtATime`, `CleanShutdown`: `ExactWhenIdle`,
  `OneConfiguration` and `ShutdownClean`, each with `NoLookalikes` (no rule's source
  is part of another's text) as an assumption: without it they are false, as
  `UpdateRouteRule` takes the rule of 10.1.1.12 for that of 10.1.1.1
  (`network/net.go:294`). The invariant `ExactInv` says, as long as nothing has
  tainted the kernel, that at most one goroutine is in a call (`OneCall`), that what
  `UpdateRouteRule` has read is still so (`LookRight`), and that the kernel is
  what is installed for the data of the call, less the commands still to run
  when adding, or the commands still to run when deleting (`Doing`). Each
  command moves one element between `todo` and the kernel; that is the proof.
  It needs that a table's rule for "all" is deleted after its routes, which is
  why the stages are in it.
* `DaemonImplementsRouteSync`: `Spec => ImplementsRouteSync`, also with
  `NoLookalikes`. On top of `ExactInv`, `SyncInv` says that between the two calls of
  `configMapUpdated` the kernel is empty. Then a command is `Add`, `Remove` or a
  stutter (`CommandChanges`, `CommandSync`), the start of a call is `StartAdding` or
  `StartRemoving`, its return `Settle` or `Rest`, the end of a process `Rest` or
  `Spoil`, and everything else a stutter.

`RouteDaemonLeftoverProofs`, also about a kernel with entries that earlier processes
have left, for the same constants:

* `CopiesBounded`: `Spec => []DuplicatesPerCrash`. `CopiesInv` gives each iptables
  rule a bound by the place of the informer's goroutine: `Base` copies when it is not
  installed, one more when it is. `Base` counts the events that can leave a copy, less
  a signal that is still being handled and a tombstone still on its way, since the
  process that they end has yet to leave its own. Data that cannot be deleted any more
  (`Lost`), because Calico has withdrawn the route, has left its copies already:
  `log.Fatalf` before the first `iptables -D` adds none. A failed `iptables -D` leaves
  a copy and is counted as such (`FailedCopies`).
* `WokenWhenReady`: `Spec => WakeAfterSNAT`, with `SourcesAssumption` (`lookalike` is
  defined for the source of every rule). `AheadInv`: while the informer adds, each
  entry that the data needs is there or among the commands to come, unless a command
  has failed; a route counts with any next hop, since Calico may move it during the
  call. Dialling is the only command of the last stage (`DialLast`), so then nothing
  else is to come.

`RouteDaemonSharedProofs` and `SharedTableProofs`, about two releases on a node, for
every pair of sets of configurations and all budgets:

* `SharedExactAlways`: `Spec => []SharedExact`. It needs `ProperSources`:
  `NoLookalikes` for each release, and no source named "all", which `UpdateRouteRule`
  takes for the rule of a whole table. `DaemonsAssumption` and `ReleasesAssumption`
  are those of the modules. `ExactInv` cannot be used, because it equates the kernel
  with what one daemon holds. `DaemonInv` is what remains of it when nothing is said
  of the kernel: `savedRouteMap` is right, one goroutine is in a call, and the
  commands still to run are the last of the call (`CallInOrder`). What a daemon has in
  the kernel is its `Share`: the entries it holds, those it holds or is going to
  (`reach`), those that stay (`firm`), the rule that it has found missing or is about
  to delete. `Split` says that the kernel is two shares: the routes and rules of the
  one and of the other, and one copy of an iptables rule for each that holds it. Only
  the rule of a table is less certain: it is there for a reason of one of the two, and
  is sure to be there for one that is firm about it only if they have not raced.
  `SplitStep` shows that each command keeps the kernel split with any other share that
  is `WellFormed` and `Apart`, as long as the other is not about to delete the rule of
  a table to which this one is adding (`Unopposed`), or they have raced. That takes no
  knowledge of the other daemon. `SharedTableProofs` then makes each daemon the
  other's other: `SharedInv` has both invariants and the split, `SameStepsA`/`B` and
  `SameShares` relate the instances, and `UnopposedA`/`B` follow from `Opposed =>
  raced`.

`PodStartProofs`, for every set of releases, addresses and retry limits:

* `PodTypeCorrect`: `Spec => []TypeOK`.
* `AddressPublished`: `Spec => []PublishedAddress`. What is published depends on
  checks in four functions, so the invariant `AddressInv` says for each place of
  `main` what has been found out on the way there: the settings of the zone are
  known after `GetPodInfo`; the address is there after `GetLoadBalancerIP` if the
  service specifies one, the VPN is inbound or connects through it; `leftid` is an
  address after the rewriting if it was to be one; the gateway has its pool
  before the data is published. That a service which specifies an address is one
  that the pod waits for (`SpecifiedIsRequested`) links the chart to the code.

The other three theorems of the module assume besides that files, rules and zones are
lists (`SettingsAssumption`), of any length. They follow from one invariant,
`StartInv`: at each place of `main`, `file` and `conf` are what the release gives,
before the rewriting or after it; the iptables rules are none, or those of the
release, also when an earlier container has made them (`AppendedOnce`); the pools of
the turns done so far are there; what is published is what `conf` says.

* `FileAsPublished`: `Spec => []FileMatchesData`. `UpdateEach` says what `sed` does to
  a line; `ReplacedIsRead`, that a value which was nothing but the placeholder when all
  lines of the key were put together is nothing but its replacement afterwards
  (`FlattenReplace`), however many lines the file has.
* `PoolsForRoutes`: `Spec => []PoolsCoverRoutes`. The pod maps a whole list of subnets,
  the daemon another; `MapEach` says that `strings.ReplaceAll` for each rule gives
  the same for a subnet in either, also for rules that chain.
* `TrafficTranslated`: `Spec => []PodTranslates`. `AllRulesSet` says which iptables rules
  there are: one or two for each pair of a rule and a subject. With `PlainNat` all
  rules that match a packet agree (`ApartRules`), so that it does not matter which
  one iptables finds first (`PreroutedTo`, `PostroutedTo`); that the rules for remote
  subnets are for the local ones as the cluster knows them (`SubjectsSet`) is what
  fails with two local rules: two or more beside rules in `remoteSubnetNAT` are left
  out of the theorem.

`SubnetNatProofs` has the lemmas about lists that these need: what `FlattenSeq`,
`MapSubnets`, `ConfigureSubnetNAT` and `OriginalSubnets` return, for lists of any
length. Where that takes an induction, it is one over a set of numbers: the least
number outside of the set would follow one inside (`NatSetInduction`, `UpTo`).

`VpnClusterProofs`, for any number of revisions and nodes and any budget:

* `ClusterTypeCorrect`: `Spec => []TypeOK`, which includes that the channel of the
  monitor never holds two messages.
* `CleanupComplete`: `Spec => []PoolsCleanedUp`, with SIGTERM at any place and failures
  of calicoctl. `PodPools` says of each pod that is not `excused` that every IPPool of
  its own is in `cleanupCalico` or still to be made or appended (`Known`), that a
  goroutine in the loop of `vpnPodCleanup` has all that is left in its list
  (`StillToDelete`), and that after the loop none is left (`Deleted`), also after a
  restart, because a container creates again all that an earlier one has left
  (`OnlyNeeded`). It is kept by the steps of the other pods because they may only
  replace an IPPool (`OtherPools`).

The other two theorems of the module are for any rollout and any relists, with
`NoFailuresAssumption` (no SIGKILL, no ipsec that ends by itself and no failed probe,
so that no container which has published is started again):

* `NoWakeUpLost`: `Spec => []WakeUpComes`.
* `SNATBeforeIpsec`: `Spec => IpsecAfterSNAT`. A pod then publishes once, so its data
  is in one place at most on the way to each daemon: in the feed, being added, or
  saved. `WakeInv` says this per pod and node (`Orderly`), that the config map is the
  last event of the feed or what the daemon has arrived at, that a daemon dials the
  pod whose rules it has just made, and that a pod with an open connection or an
  ipsec to start has been served (`Served`): the daemon of its node has added this
  pod's data, not only some data of the release. A step of a pod matters to the daemons
  only in four ways (`PodMoves`), so each of the many actions of the pods is looked
  at once, for these, and the daemons' steps against them.

`MonitoringProofs`, for any tests, SAs and times with a warm-up shorter than the
grace period:

* `MonitorTypeCorrect`: `Spec => []TypeOK`.
* `DownIsSaidOnce`: `Spec => DownOncePerReport`. `OnceInv` follows an outage through
  the decision: until the next report (`Silent`) the results are forgotten, so that
  new tests have something to report, and after the `Start` of a new SA they run
  before `timeToLive` can run out (`TestsFirst`), which is where the assumption on
  the warm-up is used. A `Start` between the thread's assignments is the race that
  `raced` remembers.
* `DownIsDecided`: `Spec => DownAfterGrace`. `GraceInv`: while a stop is pending and
  neither `Start` nor `Stop` is assigning, there is no SA, and the silence of ipsec
  adds up with what is left of `timeToLive` to the grace period or more.

TLC checks all these properties first, in the runs above.

Only model-checked: `FailureStaysLocal`, and liveness (`Converges`, `RestartHeals`,
`Publishes`, `RollsOut`, `SignalEndsPod`, `TestsWhileUp`, `StopsWhenDown`), which is
outside of what the prover can do.

## 5. Not modelled, and what could follow

Not modelled: diagnostics (`vpnDebug.sh`, the helm tests), the tests' network
I/O, Slack messages and validation of monitoring settings (they keep no state),
packaging; `disableRouting`; names and devices that are only passed on; the text
of addresses, of which `strings.ReplaceAll` and `strings.Contains` could match a part
(subnets are values here); the deletion of connection-tracking entries;
`FlushLocalSubnetNAT`, which is never called.

What could follow: `PodStart` in place of `Boot` in `VpnCluster`.
