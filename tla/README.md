# RatelMesh: a verification project in TLA+

RatelMesh is a WireGuard mesh: a daemon per device keeps a tunnel, routes, a firewall and DNS in
step with the netmap a coordinator publishes, can send all traffic through an exit node, and carries
encrypted file transfers and authorized remote-access sessions between devices. This directory holds
TLA+ models of its parts, the TLC configurations that check them on small instances, and proofs that
hold for every instance. Each module is translated from the Go source; `PROJECT.json` maps every
definition to the lines it stands for.

    tlc -workers 2 -config ReceiverSafe.cfg MCReceiver.tla      # one run
    tlapm TrustedTime_proofs.tla                                # one proof module

## 1. Inventory

### The daemon (internal/daemon)

* **Netmap application, exit selection, kill switch** (`daemon.go`). State: the last applied netmap,
  the preferred exit and the internet-fallback flag (in memory and in files), what the engine is
  believed to route (`exitPeerKey`, `exitRouted`), the reported status, the cleanup-pending file.
  Operations: `applyNetmap` (serialized by `applyMu`), `SetExit`, `ClearExit`,
  `SetInternetFallback`, the health, relay and roaming loops, `refreshKillSwitch`, `Run` and its
  teardown. Hard: flags live under another mutex than the transaction; every step can fail; loops and
  API calls overlap each other and the shutdown; a kill leaves kernel state behind. Correct when no
  traffic of a committed exit leaves in the clear, nothing stays blocked without need, and books,
  engine, firewall, status and files agree at rest. **`KillSwitch`.**
* **Peer paths** (`daemon.go`, `disco_upgrade.go`, magicsock's `relaybridge.go`). State per peer:
  the verdict (direct or relayed), candidates, liveness counters, probes and trials; the relay client
  and its bridge. Hard: stale callbacks of replaced bridges, late probe answers, trials racing
  endpoint changes, a verdict that reaches the engine only through another netmap transaction.
  Correct when a peer with a working path is not parked on a dead one, nothing leaks, and what was
  decided is what the engine has. **`RelayPath`.**
* **Remote access** (`remote_access*.go`, `remote_target_firewall.go`, internal/remoteaccess). State:
  a signed policy with a durable version and time floor shared by two processes, grants that expire,
  the firewall's allow rules, the launchers shown, an expiry timer. Hard: rollback and equivocation
  across restarts and power failures, a clock set back, expiry racing a netmap. Correct when no
  rule outlives its grant and nothing revoked or expired is granted again. **`RemotePolicy`.**
* **Remote service start** (internal/remoteservice, `remote_service_api.go`). State: one-use
  confirmations, admission, per-target locks, the service itself. Hard: a confirmation used twice, or
  after it expired while waiting; commands that fail half way; an administrator at the same service.
  Correct when each confirmation starts at most one thing and what is promised is what is left.
  **`RemoteService`.**
* **Network Doctor** (internal/diagnose, internal/doctorplatform, `doctor_api.go`). State: a budget
  of live probes, a snapshot, a report, a one-use repair plan, an execution. Hard: probes that hang and
  are left behind; a partial capture; a path-MTU search under a deadline; repairs that fail half way
  on a host others change. Correct when green means healthy and a status says no more than is
  known. **`Diagnosis`, `RouteCoverage`, `RepairCatalog`, `Repair`.**
* **System resolver takeover** (`system_resolver.go`, internal/dns `resolv.go`). State:
  resolv.conf or the service's servers, a backup, the MagicDNS server's upstreams. Hard: a kill between
  emptying a file and writing it; a daemon that finds its predecessor's file; a netmap beside the
  takeover. Correct when the host's servers are never lost, MagicDNS never forwards to itself, and
  a stop puts things back. **`SystemResolver`.**
* **State files, PQ pins, local API, identity.** *The exit, fallback, netmap and cleanup files are in
  `KillSwitch`; the rest is request decoding and I/O.*

### The data plane

* **wgengine**: the WireGuard device, the host's routes, endpoint pins and a ledger file of the
  routes it owns, under one mutex, on three operating systems. Hard: every command can fail, a kill
  leaves routes behind, an endpoint that is not pinned sends the tunnel into itself. Correct when the
  ledger covers what is in the table and a clean stop leaves nothing. **`RouteLedger`,
  `WindowsRoutes`**; recovery with a new device, and its effect on the daemon: `KillSwitch`.
* **netguard**: renders and loads the firewall. *In `KillSwitch` as one transaction per policy; the
  macOS markers are left out.*
* **relay, control, transport, magicsock's NAT traversal**: byte streams, codecs, polling. *The relay
  client's life is in `RelayPath`.*

### File transfer (internal/filetransfer)

* **Trusted time** (`state.go`): a clock floor and key-version floor in the state root, behind a file
  lock. An expired offer must stay expired whatever the clock does. **`TrustedTime`.**
* **Receiver** (`receiver.go`, `lease.go`, `tombstone.go`, `gc.go`): per transfer a directory with
  reservation, expiry, content and resume state, a lease, a tombstone; the destination file. Hard:
  processes racing over the directory, kills and power losses between any two steps, a collector
  beside them. Correct when a file is published verified, whole and once, nothing of the user's is
  replaced, and an offer is delivered in the end. **`Receiver`, with its promise `Delivery`.**
* **Admission** (`admission.go`): the quotas shared by all receivers of a process. Hard: a dozen error
  paths give back what was taken; claimants share a key; memory is rebuilt from disk while calls
  run. **`Admission`.**
* **Sender, offers, bindings, resume tokens**: cryptography and codecs; the models take an
  authenticated offer as given.

### The rest

`sign`/`pqcrypto`/`pop` (cryptography), `routing`/`exitstack` (pure algorithms and NAT set-up),
`atomicfile`, `i18n`, `types`, the commands, the mobile bindings, the clients under `clients/` and the
release scripts. `PROJECT.json` lists each with its status and reason.

### How they interact

The session polls the coordinator and hands netmaps to `applyNetmap`, which arms netguard, calls
`engine.Reconfigure`, opens netguard, then commits the books and caches the netmap. API calls and
loops change flags and run the same transaction. The engine has its own mutex: a recovery can replace
the device in the middle of a transaction and then re-pins the firewall with `refreshKillSwitch`.
Inside that transaction the endpoint of each peer is read from the path's verdict and the bridge
(`RelayPath`), the remote-access rules from policy, grants and floor (`RemotePolicy`), and the
upstreams of MagicDNS from the exit (`SystemResolver`); the engine's half of it is `RouteLedger`.
Each module takes the others' half as an environment that may do what the code allows: a netmap may
be refused by the engine, a firewall load may fail, a device may die. The Doctor diagnoses all of
it and repairs by the daemon's own operations. `OpenReceiver` asks `Admission` for room,
authenticates the offer under `TrustedTime`, then works on the state root; the collector works on the
same root and tells `Admission` what it removed.

## 2. Modules

| module | models | kind |
|---|---|---|
| `TrustedTime` | `state.go`: the time and key floors | component |
| `TrustedTime_proofs` | four theorems about it | proofs |
| `Delivery` | what `Finalize` promises: publish, then consume, in the end | abstract specification |
| `Receiver` | one transfer's directory, leases, tombstone, destination, Cancel, collector | component, implements `Delivery` |
| `Receiver_proofs` | lease, publication, crash safety, destination, refinement of `Delivery` | proofs |
| `Admission` | the quota manager and its callers | component |
| `Admission_proofs` | exactness of the counters, and the manager's books | proofs |
| `KillSwitch` | netmap transaction, exit and fallback, recoveries, life of the daemon | component |
| `KillSwitch_proofs` | types and mutual exclusion, honest status, clean exit, no leak, all that holds at rest | proofs |
| `RelayPath` | one peer's path: relay link, verdict, probed upgrades, the netmap transaction between them | component |
| `RemotePolicy` | the policy's floor, grants, target rules and their expiry | component |
| `RemotePolicy_proofs` | the floor, the licence of every rule | proofs |
| `RemoteService` | confirmations, the manager's transactions, the system backend | component |
| `RemoteService_proofs` | the manager's accounts and exclusion, what calls leave, rollbacks | proofs |
| `RouteCoverage` | the verdict of a routing table on an address space, and its definition by longest prefix | algorithm against a reference |
| `RepairCatalog` | the catalogue of repairs | data shared by two components |
| `Diagnosis` | a run of the Doctor: runner, probes, MTU prober, report, plan | component, extends the two above |
| `Repair` | the one-slot API and the engine that executes a plan | component, extends `RepairCatalog` |
| `Repair_proofs` | plans, honest status, other people's changes | proofs |
| `RouteLedger` | start, stop and Unix calls of the engine, the kernel's table, the ledger | component |
| `WindowsRoutes` | the Windows calls, and the engine as a whole | extends `RouteLedger` |
| `SystemResolver` | the takeover of the resolver and the upstreams of MagicDNS | component |
| `Host_proofs` | the resolver taken over; the routes and their ledger | proofs |
| `MCHost` | `WindowsRoutes` and `SystemResolver` in one daemon | model checking |
| `MC...` | an instance of the module of that name | model checking |

Most modules take a set of *settings*: who takes part, which operations are used, which faults occur.
The initial state picks one and keeps it, so one run checks several mixes of concurrency and
faults without multiplying them all. A `\* Mutant:` definition in a module is a plausible bug in the
definition after it, kept to show that a property would notice.

### TrustedTime

`visible` is the file a reader sees, `durable` what a power loss falls back to. An opener is in one
step per system call that matters: `Acquire` (clock reading and file lock), `Decide`
(`trustedTransferTime`'s comparison), `Publish` (rename), `SyncDirectory`, `Return`, `Authenticate`
(`openOffer`'s expiry check). `Kill`, `PowerLoss` and failing syncs can come between any two. The
clock is any reading at any time. Left out: a successful open also syncs the state root later on.

### Receiver

A directory is an inode with a name (`at`) and a name on disk (`durAt`); a handle, and a `flock`,
outlive the name. One action per step of `OpenReceiverWithManager`, `Finalize`, `Cancel`, `Close` and
`collectOne`/`collectResidual`; the steps of `Finalize` that matter for a crash (copy, link, sync,
tombstone, removal) are actions of their own. Chunk bytes are abstracted to whether they verify.
Abstractions: opening and flocking the lease is one step; `ReceiveChunk` is one step; which names
survive a power loss is chosen per inode; the failing `Cancel` of a receiver without a directory,
temporaries left by killed writers and unknown entries are left out. `PublishedIsVerified`,
`LeaseHolds` and the rest are checked against all of this.

### Admission

Goroutines `Begin` a receiver, `Claim` a key, load the state root (`loadPersistent`, stepwise, with
the mutex), mark their reservation persistent, and end by closing, finalizing, cancelling or
failing; the collector and a restart run beside them. A *scope* is the process, a tenant or a device:
the code keeps one set of counters for each. Left out: several state roots in one manager, damaged
reservation files. `MaxOwners` bounds `nextOwner`. `setting`, chosen at the start, says which offers
are made and which of cancel, collector and restart happen.

### KillSwitch

One goroutine per `Procs`, each in one call; `pc` is its place, `call` what it read. `Sync`,
`Reapply`, `RelayDrop`, `SetExit`, `ClearExit`, `SetInternetFallback`, `Silent` and `Recover` begin
calls; `Lock`, `ReadExit`, `ArmFirst`, `Reconfigure`, `Rollback`, `Disarm`, `Commit` are
`applyNetmapLocked`'s steps under `applyMu`; `End...` and `Undo...` are what each caller does with
the result; `Rebuild`, `Snapshot`, `Rearm` are the recoveries and `refreshKillSwitch`; `Stop`,
`TearDown`, `ClearGuard`, `ClearIntent`, `Exit`, `Kill` and `Start` are the process. `guard` is the
policy in the kernel and `current` the one the enforcer remembers: a kill keeps the first and loses
the second. Abstractions: a policy is the tunnel interface it admits, without endpoints and without
its remote-access half (`RemotePolicy`); a load succeeds or keeps the old policy (Linux; on macOS a
failing restore can leave the rules removed); `-kill-switch` is on; an exit is usable in a netmap or
not (listed and verified are one); a relay rotation's second apply is a `Reapply`; interface names
repeat after `MaxIface`; DNS upstreams (`SystemResolver`) and NAT are left out.

### RelayPath

One peer, its candidates and its relays. The *link* is a client and a bridge, made together by a dial
and taken down by a drop, a rotation or a rolled back netmap, each with the disconnect callback that
follows later (`Disconnected`). The *verdict* (`relayed`) is revised by `Check`, a round of
`relaySwitchLoop`, from ages and byte counters in ticks. Neither reaches WireGuard (`wg`) except through
the steps of `applyNetmapLocked`, which any of the goroutines may run and which `lock` serializes: a
goroutine that changed something reads the last netmap, waits for the lock and is refused if a newer
one was committed. Probes carry the attempt, the endpoints (`fingerprint`) and the relay cycle
they belong to and answer at any later time. The environment revives and kills candidates and relays,
delivers bytes, and spends `budget`. Abstractions: the configured endpoint is modelled, not
WireGuard's own roaming from it; ages are capped where no comparison tells them apart; accounting for
silent exits is `KillSwitch`'s; a disarm that fails after `Reconfigure` is left to `KillSwitch` too.

### RemotePolicy

`file` is the floor a reader sees, `durable` what a power failure leaves. The daemon's transaction
(a netmap or an expiry) looks at, reads and advances the floor in separate steps under the file lock
it shares with `AuthorizeSource` in another process, then conceals launchers, installs rules and calls
the engine. `Arm`, `Woken`, `Fire`, `BeginExpiry` and `Handled` are the expiry loop with its timer and
its wake-up; `fired` is the time the timer sent, which the loop hands to the transaction however long it waits
for `applyMu`. `basis` and `acked` are history: the floor a transaction began with and the newest one
`Advance` reported kept. Signatures are abstracted to `genuine`; a payload that differs under the same
version or ID is a different record (`P1x`, `B2`). The exit half of the policy is left out. `Reboot` is a power
failure, which ends both processes: that only one of them is killed, between the rename and the directory
sync, is not modelled (section 6).

### RemoteService

Each request asks for a confirmation, presents it, waits for admission and for its target's lock,
inspects, starts, verifies and, when it fails or is cancelled, rolls back and inspects again. The
service record holds everything the code's revision digests, so comparing revisions is comparing
records. The platforms differ in the commands a start consists of and in what a rollback may
undo; a command may fail, or fail having done its work. `administrator` changes the same service
between any two calls. A service manager that starts a service only after the inspection is outside
what any inspection sees, and outside the model.

### Diagnosis, RouteCoverage, RepairCatalog

A probe is a goroutine that holds a slot and delivers into a buffered channel; `Select` takes its result
or its deadline, whichever the runtime picks when both are ready, and a goroutine left behind
delivers into a channel nobody reads, during this run or the next. `world.truth` is what there is,
`world.failed` what the capture could not refresh; each probe's operator gives the codes it reports.
The path-MTU prober spends milliseconds of its own deadline, with the code's constants.
`RouteCoverage!DefaultCoverage` is the code's walk of the trie and `EachAddress` the definition by
longest-prefix match; `CoverageAgrees` compares them on every table of the instance. With
`W` = 3 bits prefixes nest three deep. Notes for a reader of the code: with the interface list lost the
ipv6 probe reports no leak, so `GreenIsHealthy` asks for a complete capture; with an exit active there
are no egress targets; the repair environment never has an observed path MTU, so `lowerMTU` is
planned and cannot be executed by the daemon.

### Repair

The API half has two clients over sessions of the daemon: the slot, the plan's authorisation with its
age, its consumption, the second diagnosis before the execution. The engine half takes a plan it does
not trust (`plan` in a setting: duplicated, unknown and tampered entries) and goes through `env`,
`check`, `capture`, `guard`, `apply`, `verify` and `rollback`; an operation may fail, tear, or finish
after its deadline (`Late`). The host is one number per resource
(`routed`, whether the exit has its route, is 0 or 1). A rollback, and the `setExit` of a
rebuild, write the captured value over what a user chose after the capture: `HonestStatus` excuses
resources that others touched.

### RouteLedger and WindowsRoutes

`kernel` is the routing table, with a mark on the routes RatelMesh added; `disk` and `owners` are
`route-owners-v1.json` and its copy; `routed`, `residual` and `pinned` the lists a cleanup walks over.
`todo` is what the loop in progress has left; `at` says which loop it is. Adding a route is three
steps (write the intent, ask the kernel, keep or withdraw the intent), removing it two, and a fault
or `Killed` may come at each; `Start` cleans up what the file names. Unix: `Reconfigure` with pins,
halves, direct and blocked prefixes, its undo on failure, refresh of endpoints in place, roaming,
`Down`. Windows: the service owns the adapter, so a changed netmap is skipped, staged in two phases
on the live adapter, or reinstalls the service. `PhysicalPath` is the gateway of the host's default route: on Linux
and Windows other tunnels are passed over, on macOS the route is taken as it is reported. Destinations of one
kind are walked over in any order, where the code sorts them or walks a map. Interface addresses, MTU and UAPI's text are left out.

### SystemResolver and MCHost

`setting` is resolv.conf (or the servers of the primary service on macOS) and `saved` the backup. A
write is two steps, emptying and writing: a write that fails in between, and a kill there, leave the file
`Torn`. `Look`, `Stage`, `Publish`,
`Retry` are the supervisor's round; `Update` and `Updated` the netmap's choice of upstreams and its use of
it, which are apart in the code. A user or DHCP client edits the same setting. `MCHost` puts routes
and resolver in one specification with a fixed `part`: they share only the daemon, and interleaving
them would multiply states and add no behaviour of either.

## 3. Runs

| run | what it asks | outcome |
|---|---|---|
| `trusted_time_power` | two openers, power loss at any step: does an expired offer stay expired, and is a served key version a floor? | holds |
| `receiver_safe` | crashes, failing syncs, rot, cancel, collector, user's own files | holds |
| `receiver_live` | is every offer delivered in the end? | holds under `FairSpec` |
| `admission` | every call, error path, cancel, collection and restart | counters, charges and claims hold |
| `kill_switch` | eight settings of concurrency, failures, shutdown and kill | holds |
| `remote_policy` | netmaps of all kinds, power failures, clock, second process, failing store, firewall, engine | holds under `FairSpec` |
| `remote_service` | two requests, every platform, failing commands, an administrator | holds under `FairSpec` |
| `relay_path` | eleven settings of links, netmaps, candidates, probes | holds under `FairSpec` |
| `diagnosis` | runner, every probe, every small routing table, the MTU prober | holds under `FairSpec` |
| `repair` | two clients over two sessions; the engine under seven plans | holds under `FairSpec` |
| `host` | three operating systems, faults, kills, restarts; the resolver | holds under `HostSpec` |
| `host_resolver` | a netmap that activates an exit during the takeover | `ForwardsOnlyToTunnel` fails (finding 1) |

**Bounds.** *TrustedTime*: two openers (all races over one lock are of two), times to 3 and two key
versions (an expiry before, at and after a floor; one rotation). *Receiver*: two processes, two
chunks (a transfer can be partly received), up to three or four directories (live, quarantined, and a
staging one of the loser), two crashes, so that a crash can hit the recovery from a crash. Its four
safety settings divide the faults: two processes with every fault of the disk; one process with rot;
one with cancel, collector and power loss; one with cancel at any time and failing syncs.
*Admission*: two goroutines, two transfers, two devices and three offers, two of the same transfer, so
that claims collide and quotas of every scope are reached (`Meeting`); and one device that fills its
quota of retained transfers, without a cancel (`Filling`); symmetric in the goroutines.
*KillSwitch*: two goroutines, two netmap versions (a stale and a newer one; the exit listed, withdrawn
or exchanged), two exits in one setting, two interfaces (the one before and after a recovery).
`KillSwitch` properties with a condition on the setting (`...Alone`, `...Orderly`,
`...Unfailing`, `...Following`, `...Quiet`) exclude exactly the mixes that section 6 shows to fail. A host whose preferred exit a newer
netmap no longer offers counts as not protected: the code opens the firewall then.
*RelayPath*: one peer (the code keeps paths per peer and shares only the link), two candidates, two
relays, one event of the environment or two, four names of bridges (the current one, one being
closed, one being dialled, one whose callback is late); ages in ticks with the code's order of
thresholds kept by `TimingAssumption`. *RemotePolicy*: two policy versions and an equivocation of
the first, five grants, times to 3: before, at and after an expiry, with a floor ahead of the
clock. *RemoteService*: two requests, up to two confirmations (one replayed), times to 2 around a
lifetime of 1, and all platforms. *Diagnosis*: three runner probes and a budget of two or three, over
two runs; all tables of two routes on three levels and four on two; the prober with the code's own
milliseconds. *Repair*: two clients, two diagnoses, two sessions, one step of others. *Host*: one peer
that may be an exit, two endpoints, three networks, a route of somebody else; up to three calls, two
faults, one kill, one roam, combined as `Allowed` lists (each pair of them meets); two starts, a failed
write and an edit for the resolver.

**Deadlock** is checked where a state without a step would mean that somebody waits: `TrustedTime`,
`Admission`, `KillSwitch`, `RelayPath` and the live run of `Receiver`. Elsewhere
a setting may run out of crashes, requests or runs;
there a liveness property says that what was begun ends.

**Fairness.** Only what the code's scheduling gives: a goroutine that can take its next step does (`WF`
on the steps of a call), loops come round (`WF` on ticks, timers, retries), a caller waiting for a mutex
that is free again and again gets it (`SF` on `Lock` in `RemoteService`, on `BeginExpiry` in
`RemotePolicy`). `Receiver!FairSpec` says that a caller keeps opening an undelivered offer and, if he can
again and again offer a missing chunk or finalize, does (`SF`, for receivers that crashes close again
and again). `RemotePolicy` assumes that the firewall does not refuse the removal of expired rules for
ever (`SF` on that load). `RelayPath` assumes that packets on a path that works are delivered and that a
relay that accepts is reached. In `Diagnosis` the runner and the prober proceed; a probe may hang for
ever unless it is the prober or has no timer. `MCHost` assumes that the process goes on and that the
service manager starts it again. Kills, power losses and faults are never obliged.

## 4. Properties

A run's properties are listed in its .cfg. Some are conjunctions of named parts, which their modules
define and comment one by one; a violation of any part violates the whole.

* **TrustedTime**: `NoRevival`, `NoKeyRollback`, `FloorFallsOnlyOnRotation` relate a refusal or an answer to
  every later one, across crashes.
* **Receiver**: `Leased` (types; one lease per directory), `PublishedIsVerified` (only verified content
  under the destination name), `CrashSafe` (a directory a crash may bring back is resumable; a tombstone on
  disk has the file on disk behind it), `DestinationKept` (no user file replaced, no second delivery),
  `DeliverySpec`, `DeliveryLive` (the whole implements `Delivery`, whose state is the durable destination
  and the durable tombstone).
* **Admission**: `CountersExact`; `ClaimsCharged` (types; the charges are those of the reservations and
  within the quotas; no claimant loses what he claimed to another's abort; the quota on what is kept,
  under the condition `Private`: no cancel, and no transfer offered to two devices).
* **KillSwitch**: `NoLeak` (no step turns tunnelled or blocked traffic of a committed exit into direct
  traffic: no transaction, recovery or failure, and no incomplete shutdown, kill or start either; the
  shutdown's own opening of the firewall, after the routes are gone, and calls that overlap a shutdown are
  excused), `ProtectedAlone`, `StatusHonest`, `CleanExitQuiet`, and `AtRest` (on DIRECT nothing is blocked;
  the books match the engine; the files hold the user's choice; the firewall admits the device there is).
  Each part of `AtRest` says in which settings it holds (`Orderly`, `Unfailing`, `Saving`, `Following`);
  the part without its condition (`DirectIsOpen`, `BooksMatch`, ...) is what findings 6 and 8 refute.
* **RelayPath**: `LinkSound` (no client, bridge or probe that nobody accounts for; peers that left are not
  admitted), `EngineFollows` (the engine has what verdict, link and netmap call for; `-force-relay` is
  kept), `LiveKept` (no late callback or second dial takes a live connection down), `TrialsEarned` (a
  trial rests on a probe of the same endpoints in the same cycle; backoff; no relay before every candidate
  was tried), `RelayServes` (a peer whose direct path is dead ends on the relay).
* **RemotePolicy**: `FloorHolds` (a floor reported kept is never lost or undercut), `RulesLicensed`
  (nothing revoked or seen expire is granted again; rules only under a durable policy; launchers of the
  committed netmap only; in a node that has committed a netmap every rule has something scheduled that will
  remove it: before that, finding 11), `ExpiredRemoved` (under the same condition).
* **RemoteService**: `ManagerSound` (one use, own target, in time; one transaction per target; every
  reservation, admission and lock entry given back), `NothingLeftBehind` (an answer that promises nothing
  was left is true), `StopsOnlyItsOwn` (a rollback stops only a run its own transaction began),
  `EveryRequestEnds`.
* **Diagnosis**: `RunnerSound` (abandoned goroutines within the budget; a probe that bailed out is never
  "completed"; the prober can always recheck), `VerdictsEarned` (green means asked for, run and
  healthy; a path is condemned only on two sources; lowering the MTU is safe), `CoverageAgrees`, `RunEnds`.
* **Repair**: `PlansSound` (one use, newest diagnosis, living session, catalogue only, one at a time),
  `HonestStatus` (a status never claims more than the host shows), `OthersKept`, `CallsEnd`.
* **RouteLedger, WindowsRoutes, SystemResolver**: `RoutesSound` (the ledger names every route in the
  table; a clean stop leaves none; on Unix, endpoints of a live tunnel are pinned; what is taken for applied is
  there, on Windows until a command or a write fails), `RoutesKept` (pins before use; a refresh interrupts
  nothing; other people's routes stay),
  `ResolverKept` (never forwards to itself; on Linux the servers are in the file or its backup; after a stop
  without failures neither the daemon's own address nor a removed file is left, and an emptied one only if this
  daemon found it so; forwarding follows the mode when no two choices overlap), `ComesRound`
  (leftovers of a kill are removed; a resolver that appears late is taken over).

## 5. Proofs

| theorem | says | assumes |
|---|---|---|
| `TrustedTime_proofs!TypeCorrect` | the types, for any openers, times, versions | the named constant assumptions |
| `...!FloorRecoversOnlyOnRotation` | the durable floor falls only with a newer key version | the same |
| `...!ExpiredStaysExpired`, `...!KeyNeverRollsBack` | `NoRevival`, `NoKeyRollback` | and `HonestDisk`: kills and failing syncs do not combine with power losses |
| `Admission_proofs!Exactness` | `CountersExact` for any goroutines, offers, scopes, quotas | the named constant assumptions: goroutines and keys are finite in number |
| `...!BooksInOrder` | `ClaimsCharged`, for the same | the same; its part on what is kept says `Private` |
| `KillSwitch_proofs!TypeCorrect` | `TypeOK`: types, and who is inside a transaction holds `applyMu` | the named constant assumptions |
| `...!HonestStatus` | `StatusHonest` | the same |
| `...!QuietCleanExit` | `CleanExitQuiet` | the same |
| `...!EverythingAtRest` | `AtRest`, for any goroutines, exits, netmaps and interleavings | the same; each part holds in the settings its definition names |
| `...!ProtectedAtRest` | `ProtectedAlone`, for any goroutines, exits, netmaps and failures | the same; the property says `Careful`: the fallback is not changed beside another call |
| `...!NeverLeaks` | `NoLeak`, for the same: while the status names an exit, no step of a transaction, failure, incomplete shutdown, kill or start lets traffic out | the same; the property says `Careful`, and excuses in `Unprotected` the shutdown's opening of the firewall and calls that overlap a shutdown |
| `Receiver_proofs!LeaseIsKept`, `OnlyVerifiedIsPublished`, `CrashesAreSurvived`, `DestinationIsKept` | `Leased`, `PublishedIsVerified`, `CrashSafe`, `DestinationKept`, for any processes, chunks, directories, crashes and rot | the named constant assumptions and `Unwithdrawn`: no setting cancels or collects |
| `...!ReceiverDelivers` | `DeliverySpec`: `Receiver` implements the safety part of `Delivery` | the named constant assumptions; the mapping speaks of settings that neither cancel nor collect |
| `RemotePolicy_proofs!FloorIsKept`, `OnlyLicensedRules` | `FloorHolds`, `RulesLicensed`, for any policies, grants, targets and clocks and the two processes; that a rule is scheduled, once a netmap is committed | the named constant assumptions and `SyncsWork`: no directory sync fails |
| `RemoteService_proofs!ManagerIsSound`, `NothingStays`, `RollbackStopsItsOwn` | `ManagerSound`, `NothingLeftBehind`, `StopsOnlyItsOwn`, for any finite set of requests, any capacities and platforms | the named constant assumptions: the administrator is none of the requests |
| `Host_proofs!ResolverIsKept` | `ResolverKept`, for any servers, starts, failures and edits: never itself, on Linux no server lost, on every system what a stop without failures leaves | the named constant assumptions; the parts say what they leave out (macOS' manual servers, a file found emptied, overlapping choices) |
| `...!RoutesAreSound` | `RoutesSound`: `LedgerCovers` and `CleanStop` on all three systems, `NoSelfLoop` on Linux and macOS, `AppliedIsInstalled` on Linux and macOS and, while nothing fails, on Windows; for any destinations, networks, configurations, routes of others, calls, faults, kills and roams | `RoutesAssumption` and `NoOverlap`: the routes of one configuration do not collide |
| `...!ForeignIsSpared`, `RefreshKeeps` | `ForeignSpared`, `RefreshKeepsRoutes`, for the same | the same |
| `...!PinsComeFirst`, `RoutesAreKept` | `PinsFirst`, and `RoutesKept` as a whole | the same and `[][NoReturn]_vars`: a host that changes its network does not return to a gateway whose listed routes are gone |
| `Repair_proofs!PlansAreSound`, `StatusIsHonest`, `OthersAreKept` | `PlansSound`, `HonestStatus`, `OthersKept`, for any clients, hosts, sessions and plans | the named constant assumptions: among them, that a setting has the API or one library caller, as the daemon never executes a plan of its own beside the API |

The type invariants of `TrustedTime` and `KillSwitch` are proved and therefore in no run. Each
inductive invariant was checked by TLC, as an invariant of the component's run, before it was proved.
The extra assumptions exclude what section 6 shows to break the property: `Unwithdrawn` the race
for the unlinked lease file (finding 3), `SyncsWork` the floor reported kept after a failed sync
(`policy.go:390`), `Private` the reservation that a Cancel takes from others (finding 15), `Careful` a fallback that is obeyed
and then taken back (finding 7), `NoOverlap` two routes of one plan that collide (finding 14), `NoReturn`
the pins of a network one returns to, `Orderly`, `Unfailing`, `Saving` and `Following` the process that
leaves the firewall behind (finding 6), the demotion that fails or is overtaken (finding 8), the
preference written before the lock, and the recovery that gives up. `RoutesAssumption` says what
the types of the code say: prefixes of the two families and the single addresses of endpoints are
different destinations (an endpoint is a /32 or /128, the halves are /1), and no physical gateway is
the tunnel. The runs of these modules go beyond the theorems there, in the mixes their settings name.

*TrustedTime.* Neither property is inductive. `OrderInv` adds what holds of the file alone: the
version never falls, an opener past `Acquire` is the one with the lock, and its stamp is above what it
read. `Cover` then says that whatever was refused or served is *covered* by the pair an unlucky crash
would leave, where covering is the order in which a key rotation outranks the floor.
`HonestDisk` is where the code's skipped sync enters: with a kill before the directory sync and a power
loss after the next opener's answer it is false (section 6).

*Admission.* `Exactness` needs to know which calls may still give something back: `Phases` relates
every place in a call to the flags of its admission (active, keyed, owner), `Shape` types them, and
`Counts` is the property. The counting steps are lemmas about cardinalities with one call more or
less (`OneMore`, `OneLess`), `Quiet` handles the steps that touch no counter, and `ShapeStep`,
`PhasesStep`, `CountsStep` each have one case per action. For `BooksInOrder` the charge of a scope is a
sum over its reservations. `TotalIsWeight` turns the library's sum into a number of units, for which the
facts about cardinalities suffice; it does so by a smallest set on which the two differ (`MinimalSubset`).
`BooksFrame` says in which five ways a step can touch the books, and each keeps the charges. `ClaimsHold`
is inductive because whatever drops an entry has looked at its references first (`Lasts`), `Cancel`
excepted, which marks what it takes. For what is kept, `markCompleted` is the case that matters: it counts
a transfer without asking, which is right because it was counted before, as a reservation (`ClaimsHold`)
and for the same device (`Known`).

*KillSwitch.* Twenty-nine actions of goroutines and ten of the world and the process change eight
groups of variables. A *frame* lemma for each but the places in the code says which actions touch it
(`WallFrame`: the kernel's policy changes only in `ArmFirst`, `Rollback`, `Disarm`, `Rearm`,
`ClearGuard` and `Start`), so that each invariant has cases only for those. `StatusHonest` is not
inductive: `Disarm` opens the firewall before `Commit` corrects the status, and `Rollback` loads
what `ArmFirst` remembered. `Backed` follows both: a claimed protection is armed, or a transaction
is at `commit` and books what it loaded; and the predecessor a rollback would restore is armed. That
needs `Mutex` (nobody else is between the two), `Remembers` (the enforcer's memory, when armed, is
the kernel's state) and `NobodyDown` (a new process starts without old transactions). `Shutdown` is
the chain of the shutdown: idle, routes gone, firewall open, intent removed.

For the armed firewall the books do not suffice, since a pending call can take back what it changed.
`Guarded` therefore follows three wishes: the one by the books (`Wish`), the one a pending call would
return to (`Before`) and the one it commits to (`After`). While a call can still go back, the firewall is
armed if `Before` wants it; what it would restore, intends and has loaded is armed if the wish in question
is (`Claims`). Such calls do not spoil each other because those with the mutex are alone, and `Careful`
keeps the one that has written the fallback before it waits for the mutex from meeting another
(`NobodyElsePending`). `Versioned` orders the netmaps in calls against the applied one. `Told` ties the
status, by which `NoLeak` knows a committed exit, to the exit in force. For `NoLeak` beyond a running daemon,
`Closing` says that who was committed to an exit and stopped before the firewall was to be opened is behind it, or
has no tunnel; it begins with what `Guarded` gives at `Stop`, and `StoppedStep` says who can still move.

`AtRest` is four arguments on that base. `Opened` is the mirror image of `Guarded`: where the wish in
question is for none, there is no firewall; it needs `Emptied`, that the enforcer's memory is the kernel's
state, since opening goes by memory. `Matched` follows the engine: it has what the books say, or what
the transaction at `disarm` or `commit` has just told it, or somebody who reads the books *owes* it (`Owes`).
`Saved` relates memory and file through the one call that has a choice in hand (`Choosing`).
The last is about recoveries. Alone, or without anything that changes the firewall's policy beside
(`Steady`), an armed firewall admits the device at every step but two (`Admitted`). With several
goroutines a firewall may be behind its device for a while: then somebody *follows* (`Follows`), a
recovery on its first try, or on its second when nobody has an old policy in hand any more (`Carries`) and
what could still make its snapshot stale is about to load the policy of the device there is (`Settling`).
That is `Followed`, and it is where `Following` comes from: with several goroutines it needs that no
choice is taken back, since with it an old policy returns (`Smooth`).

*Receiver.* A lease alone protects nothing, since a directory and its lease can be replaced. The
invariant `Named` says that there is at most one canonical directory, and that one whose name is durable
stays it; `Staged` that a staging directory is its maker's; `Opening` that of all processes past the
lease one works in the canonical directory. From that, what a process found out in one step (the
partial is whole, the destination is free, there is no tombstone) is still so in the next, which is
what `Publishing` and `Consuming` say step by step of `Finalize`. The refinement is then two facts about
the disk: what is durably published stays, and a tombstone that becomes durable was written after the
destination was.

*RemotePolicy.* The invariant follows a transaction: the file does not fall below the floor it began
with (`Grounded`, the order being that of versions and times), one process at most is between the rename
and the sync (`Stored`), and what waits in the call was granted under the floor (`Pending`). For the
expiry loop `Covered` and `Timed` form a chain: rules, the expiry in memory, the timer. A lemma per
group of variables says which steps leave it alone.

*RemoteService.* The books are numbers of calls in certain places, proved with the same counting lemmas
as `Admission`'s. Exclusion on a target does not follow from a mutex, for the lock object is made and
dropped as callers come and go: `Entries` counts who refers to an entry, `Shared` says that they hold its
id and that no two entries share one, `Exclusive` that a held id has one holder. `OwnsItsRun` carries
what a rollback relies on: the receipt of an owned start names a run that this call began. `NothingStays`
follows what a call switched on (`Left`): it is on, with the mesh's rules, in a run that the call did not
find (`Holds`); an owned start kept everything that was on (`Starts`), so that its rollback loses all that
it gained and gains nothing; without a receipt nothing changed (`Clean`). A command of one call only takes
from what the others count as theirs (`OthersLeft`), and with neither faults nor an administrator the
service is still what the receipt says (`Alone`), because the others work on other targets.

*Host.* `Original` says where the host's servers are at each step of the rewriting (in the file until
the backup has them, in the backup until the file has them again); `Remembered` is macOS, where the
loopback is kept for the original only when another interface hides the truth; `InFlight` says what
the netmap or the supervisor is about to hand to MagicDNS.

The routes have two invariants. `LedgerInv` says that three books agree at every place: what RatelMesh has in
the table is owned, what is owned is in the file (`Owned`), and on Unix it is in a list a cleanup
walks over, but for the one route whose intent has just been written (`Listed`, `Intended`); a route of
somebody else has no owner but an intent about to be refused (`ForeignApart`). `Cleared` is what a
loop knows that has met no error: nothing is left but what is still to do; from it a stop that
reports success has left nothing. `Fresh` and `Adapter` say that what is to be installed is not owned
yet, where `NoOverlap` enters. `PlanInv` is about what the engine concludes: it does not take its plan for
applied from the first route it removes until the last it adds (`Unapplied`), pins are staged before
the device has the endpoints and no sweep takes one it uses (`Pinning`), and what is applied, or
installed so far, is in the table (`PlanThere`, whose induction goes along the order of the plan:
`SomeFirst`). `RefreshKeeps` follows because a call whose routes are those in place stays on the path
that exchanges pins (`Modes`). On Windows a route goes with its gateway while the list keeps it, and
`StillThere` says that what is owned is there as long as its gateway is; that is inductive under
`NoReturn` only. What is applied on Windows is about ownership first: while no command and no write has failed,
the routes of the plan being carried out are owned or still to do (`AdapterOwns`), and what is owned goes only with
its gateway (`AdapterPlan`). The lemmas `...Effect` say once what a step does to table and books, `...Keeps` that
it keeps `LedgerInv`, `...Holds` and `...Adapter` that it keeps `PlanInv` on Unix and on Windows.

*Repair.* Three books. The API: only the newest diagnosis has a redeemable token (`Redeemable`), and
whoever could issue or redeem holds the slot (`Turns`, `Authorised`). The plan: what is past the check
was not refused, and the results so far are those of the plan's earlier entries (`Planning`). The host:
since the capture nothing has been written but the resource of the action in hand (`Unharmed`), what was
captured of it is what the base remembers (`Capturing`), and a rollback that got this far has put it back
(`RolledBack`). `StatusIsHonest` is where they meet. `OthersAreKept` needs that a step of a recipe, even
a torn one, touches the resource of its action alone (`EffectKinds`, from the catalogue).

Only model-checked: liveness and `DeliveryLive`, which are out of the prover's reach; what a trie
walk computes (`CoverageAgrees`: an induction over data); the receiver beside Cancel and the collector;
and the properties of `RelayPath` and `Diagnosis`.

## 6. Findings

Where the code and what is said of it part. The first has a run; the others are settled, and each names
the property that TLC finds violated and the change to a configuration that shows it. Most of the
`MC` modules keep the setting it needs.

1. *The DNS of an exit* (`system_resolver.go:45`). The takeover chooses the upstreams under the lock and
   sets them after it. A netmap that activates the exit in between has set the tunnel's resolver by
   then, and the host's replaces it until the next netmap: queries leave outside the exit. (The other
   direction exists too: a netmap's stale, empty choice replaces the takeover's.) Run `host_resolver`.

| | finding | shown by |
|---|---|---|
| 2 | *An expired offer can return* (`state.go:218`): an unchanged floor is not synced again, so a refusal may rest on a rename that an earlier, killed call never synced | `NoRevival` of `TrustedTime`; `TrustedTimePower.cfg` with `Settings = {{"kill", "power"}}` |
| 3 | *Two writers* (`receiver.go:867`, `gc.go:296`): Cancel and the collector release the lease and then unlink its file; who flocked the file in between excludes nobody, and an unverified partial can be linked to the destination | `PublishedIsVerified`; `ReceiverSafe.cfg` with `Settings <- ContendedOnly` |
| 4 | *Residual directories* (`gc.go:163`): a directory whose quarantine rename is not durable is emptied | `CanonicalIsWhole`; `Settings <- ResidualOnly` |
| 5 | *Quota after an abort* (`admission.go:240`): a failed claimant drops a reservation that another has put on disk | `DiskWithinQuota`; `AdmissionSafe.cfg` with three `Procs` and `Settings <- Aborted` |
| 6 | *Stranded firewall* (`daemon.go:1077`): a new process compares with its empty memory, not with the kernel, and leaves a killed predecessor's rules in place on DIRECT | `DirectIsOpen`; `KillSwitchSafe.cfg` with `Settings <- Killed` |
| 7 | *Fallback race* (`daemon.go:3021`): a transaction in progress obeys a fallback that is then refused and taken back: exit selected, fallback off, firewall off; when the device then dies, traffic leaves in the clear | `Protected`; `Settings <- Fallback`; with `"health"` among its `ops`, also `NoLeak` without `Careful` |
| 8 | *Silent exit race* (`daemon.go:2095`): books restored over a newer commit | `BooksMatch`; `Settings <- Silenced` |
| 9 | *A relay nobody programs* (`daemon.go:2492`): `reapplyNetmap` reads the last netmap before it waits for the lock; beside a netmap that had read "no relay" it is refused as a rollback, and a force-relay peer stays without an endpoint until the next netmap | `Programmed`; `RelayPathSafe.cfg` with `Settings <- RecoverySettings` |
| 10 | *A trial proven by the relay* (`daemon.go:2393`): the baseline of a direct trial is read before the engine switches, and bytes of the relay in between prove it | `ProvenByDirect`; `Settings <- TrialSettings` |
| 11 | *Rules without an expiry* (`remote_target_firewall.go:180`): when the engine refuses a node's first netmap, its rules are in and the expiry loop disarms itself | `EveryRuleScheduled`; `RemotePolicySafe.cfg` with `Settings <- RevivedSettings` |
| 12 | *A revocation undone* (`remote_target_firewall.go:184`): the expiry loop derives the committed netmap again although the firewall has the rules of a newer one the engine refused | `RevocationStands`; the same |
| 13 | *A healthy path reported too low* (`pathmtu.go:219`): under the Doctor's 8 s the scan, which reserves 7.92 s, tries only the lowest candidates | `TooLowIsTrue`; `DiagnosisSafe.cfg` with `Instances <- MCDoctorMTU` |
| 14 | *Two routes of one plan that collide* (`real.go:1015`): a direct prefix equal to a peer's prefix is added twice; the refusal deletes the owner of the live route, and later clears fail for want of its identity | `LedgerCovers`; `HostSafe.cfg` with `Configs <- Overlapping`, `Foreign <- Nobody`, `Budgets <- Faultless`, `Systems = {"linux"}`, `Parts = {"routes"}` |
| 15 | *Quota after a cancel* (`admission.go:260`): `releaseReservation` drops a reservation that another call of the transfer still uses (`dropReservation` looks at the references first); a new transfer is admitted into the room, the other call completes, and the device keeps more than its quota | `KeptWithinQuota`; `AdmissionSafe.cfg` with `Settings <- Cancelled` |
| 16 | *An emptied resolv.conf stays empty* (`resolv.go:171`): a kill after the truncation of `Install`'s or `Restore`'s write leaves an empty file without the daemon's mark, and the servers in the backup; the next daemon reads the backup for a marked file only, finds no resolver, defers the takeover for good, and its clean stop restores nothing | `RestoredOnShutdown`; `HostResolver.cfg` with it for its invariant and `Platforms = {"linux"}` |

Seen while modelling, and excluded from the properties where they would break them:

* `ClearExit` writes the preference file before it has `applyMu`, so a `SetExit` beside it can leave
  memory and file apart; a demotion that fails is not taken back; a call that overlaps the shutdown can
  arm the firewall after it was cleared.
* `confirmation.go:153-156` and `manager.go:99-103` look at the expiry at different moments; a request
  that waited for its target's lock is judged by the second.
* A directory sync of the policy floor that fails: the next round finds the record in the file and
  reports it kept without syncing (`policy.go:390`). A process killed between the rename (`policy.go:527`) and the
  sync (`535`) leaves the other the same: it finds the record and returns without a sync, and a power failure
  then takes the floor back. The model has power failures of both, not that kill of one.
* A restarted daemon compares with its own memory, in which no firewall is armed. When its first transaction
  arms one and the engine then refuses the netmap, the rollback loads "none" (`daemon.go:1085`) and opens what a killed
  predecessor had left armed, with the exit still selected. `NoLeak` does not see it, for the new status
  names no exit yet.
* Routes: a ledger write that fails after a successful delete drops the owner and keeps the list entry
  (`real.go:886`, `1155`), and later clears fail for it; after SIGKILL on Linux the interface survives and
  the next `Up` fails until it is deleted; after a failed removal of the Windows adapter
  `windowsApplied` stays true with the routes gone, and an identical netmap is skipped (`real.go:341`); a
  roam on Linux drops pins that `e.pinned` goes on listing; a kill between the intent and a refused add
  makes the next start delete an identical route of somebody else.
* Pins on Windows: when a host leaves a network and comes back, the next netmap skips the pins it still
  lists (`stageWindowsPinsLocked`, `real.go:492`) although Windows dropped them with their gateway, so that
  WireGuard has an endpoint without a route of its own. The proof of `PinsFirst` met this; the runs
  have one roam, and the theorem says `NoReturn`.
* Recovery: `refreshKillSwitch` (`daemon.go:2561`) gives up after three stale snapshots ("network intent kept
  changing"). If what made them stale was a choice that the engine then refused, the rollback has
  restored a policy for the old interface and nobody corrects it before the next netmap: the device is
  alive and blocked. TLC finds it for `FollowsDevice`, without `Following`, with two goroutines that
  use `set` and `roam` and an engine that may fail.
* Resolver: on macOS after a kill, with another interface's resolver visible, the loopback is taken for
  the host's server and put back at the stop (`resolv.go:264`), and manual servers found in a recovered
  backup come back as DHCP's; on Linux a resolv.conf that a failed write, or a kill, has emptied is never taken over
  again although a backup exists (finding 16); `Restore` overwrites what a DHCP client wrote meanwhile.
* Repair: a rollback, and the `setExit` of a rebuild, overwrite what a user chose after the capture.

## 7. Plan

Modelled: file transfer's state, the kill switch, peer paths, remote access, remote service start, the
Doctor and its repairs, routes, resolver. Next:

1. Proofs. `EngineFollows` and `LinkSound` of `RelayPath` (the verdict, the link and the netmap are
   three books like those of the routes); `RunnerSound` of `Diagnosis`.
2. Models, if more is wanted: the macOS firewall markers in `netguard`; the poll loop of `control`;
   split-tunnel prefixes of `routing` against a reference definition.

Not modelled, and not planned: cryptography, wire formats, obfuscating transports, parsing of
platform tools, probes' wording, user interfaces, packaging.
