----------------------------- MODULE RemotePolicy -----------------------------
(***************************************************************************)
(* Temporary remote access to a node, and from it.                          *)
(*                                                                          *)
(* An authority signs a tenant policy, a decision per target and grants     *)
(* that expire; the coordinator relays them in a netmap.  The daemon keeps  *)
(* on disk the newest policy it accepted and the latest time it accepted it *)
(* at (the floor), so that neither an old netmap nor a clock set back can   *)
(* revive what was revoked or has expired.  A transaction, applying a       *)
(* netmap or handling an expiry, reads and advances that floor three times  *)
(* and turns the grants that stand into firewall rules and launchers.       *)
(*                                                                          *)
(* The two users of the floor are the daemon's transaction and              *)
(* AuthorizeSource in a process of its own; a file lock is all they share.  *)
(* The EXIT half of the firewall policy is KillSwitch's and is left out.    *)
(***************************************************************************)
EXTENDS Integers, FiniteSets, FiniteSetsExt

CONSTANTS
    Maps,            \* the netmaps a coordinator may send, by version
    Policies,        \* tenant policies the authority signed
    Grants,          \* grants, genuine and not
    CandidatePorts,  \* the local services that may be offered
    MaxTime,         \* of the wall clock
    Skew,            \* how far in the future a policy may be issued
    Settings         \* what may happen; one of these does

None == -1
Times == 0 .. MaxTime

Policy == [v : Nat \ {0}, enabled : BOOLEAN, issued : Nat]

\* "inbound": the peer connects to a port of this node; otherwise this node
\* connects to the peer's.  "body" tells payloads that share an ID apart.
Grant == [id : Nat, body : Nat, v : Nat \ {0}, from : Nat, until : Nat \ {0},
          inbound : BOOLEAN, peer : Nat, ip : Nat, port : Nat, genuine : BOOLEAN]

NoPolicy == [v |-> 0, enabled |-> FALSE, issued |-> 0]

\* A target decision names the policy payload it was signed for.
Target == [policy : Policies, mine : BOOLEAN, enabled : BOOLEAN, genuine : BOOLEAN]

Netmap == [policy : Policies \cup {NoPolicy}, genuine : BOOLEAN, echo : Nat,
           target : Target, grants : SUBSET Grants,
           peers : SUBSET (Nat \X Nat), ports : SUBSET Nat]

ASSUME DataAssumption ==
    /\ MaxTime \in Nat /\ Skew \in Nat
    /\ Policies \subseteq Policy /\ Grants \subseteq Grant
    /\ IsFiniteSet(DOMAIN Maps) /\ DOMAIN Maps = 1 .. Cardinality(DOMAIN Maps)
    /\ \A n \in DOMAIN Maps :
          LET m == Maps[n] IN
          /\ m.policy \in Policies \cup {NoPolicy} /\ m.genuine \in BOOLEAN /\ m.echo \in Nat
          /\ m.target \in Target /\ m.grants \subseteq Grants
          /\ \A q \in m.peers : q \in Nat \X Nat
          /\ m.ports \subseteq Nat

Setting == [ops : SUBSET {"apply", "source", "jump", "reboot", "iface"},
            faults : SUBSET {"store", "sync", "guard", "engine"},
            maps : SUBSET DOMAIN Maps, time : Times]
ASSUME SettingsAssumption == Settings \subseteq Setting

Users == {"tx", "src"}

VARIABLES
    wall, jumped,        \* the clock; whether it was ever set
    file, durable,       \* the floor: as read, and as a power failure leaves it
    acked,               \* history: the last floor an Advance reported kept
    guard,               \* the remote half of the firewall, with its grants
    iface,               \* whether the engine names its tunnel interface
    lastMap, view,       \* lastNetmap and remoteAccess
    expiry, wake,        \* remoteExpiry and its channel
    loop, timer,         \* remoteTargetExpiryLoop; what is left of its timer
    fired,               \* the time the timer sent; 0 unless it is to be handled
    pc, call,            \* each user's place and locals
    basis, installed,    \* history: see Install
    setting              \* never changes

store == <<file, durable, acked>>
wallState == <<guard, basis, installed>>
shown == <<lastMap, view>>
schedule == <<expiry, wake, loop, timer, fired>>
locals == <<pc, call>>
world == <<wall, jumped, iface, setting>>
vars == <<store, wallState, shown, schedule, locals, world>>

NoFloor == [policy |-> NoPolicy, at |-> None]
Open == [remote |-> FALSE, rules |-> {}]
NoView == [grants |-> {}, allowed |-> FALSE, floor |-> None]

\* deriveRemoteTargetPolicy: what it returns on any error, and when the feature
\* is off for this node.
Closed == [required |-> TRUE, rules |-> {}]
NotRequired == [required |-> FALSE, rules |-> {}]

NoCall == [op |-> "none", nm |-> 0, stage |-> "none", real |-> 0, now |-> 0,
           obs |-> NoFloor, base |-> NoFloor, view |-> NoView, target |-> NotRequired]

Init ==
    /\ setting \in Settings
    /\ wall = 0 /\ jumped = FALSE /\ iface = TRUE
    /\ file = NoFloor /\ durable = NoFloor /\ acked = NoFloor
    /\ guard = Open /\ basis = NoFloor /\ installed = 0
    /\ lastMap = 0 /\ view = NoView
    /\ expiry = None /\ wake = FALSE /\ loop = "arm" /\ timer = None /\ fired = 0
    /\ pc = [u \in Users |-> "idle"]
    /\ call = [u \in Users |-> NoCall]

-----------------------------------------------------------------------------
(* What is verified. *)

Fails(f) == f \in setting.faults
May(op) == op \in setting.ops
Later(a, b) == IF a > b THEN a ELSE b

\* VerifyPolicyState.
PolicyVerified(m, now) ==
    m.policy # NoPolicy /\ m.genuine /\ m.policy.issued <= now + Skew

\* VerifyTargetState: bound to the exact payload and to this node.
TargetVerified(m, policy, now) ==
    /\ m.target.genuine /\ m.target.mine
    /\ m.target.policy = policy
    /\ policy.issued <= now + Skew

\* ServiceAdvertisement.Validate; 0 stands for what is no port or no mesh address.
ServiceValid(g) == g.port # 0 /\ g.ip # 0

\* Mutant: a grant still holds at the instant it expires.
GrantValid_Inclusive(g, now) == ServiceValid(g) /\ g.from < g.until /\ g.from <= now /\ now <= g.until

\* Grant.Validate: expiry is exclusive.
GrantValid(g, now) == ServiceValid(g) /\ g.from < g.until /\ g.from <= now /\ now < g.until

\* verifyGrantPayload, for the target of a grant.
GrantVerified(g, floor, now) == g.genuine /\ GrantValid(g, now) /\ g.v >= floor

\* VerifyGrant, for its grantee: bound to this node and the peer it names.
GrantForSelf(g, m, floor, now) ==
    /\ g.genuine /\ GrantValid(g, now) /\ g.v >= floor
    /\ ~g.inbound /\ <<g.peer, g.ip>> \in m.peers

\* Two payloads under one ID: neither stands.
Conflicting(g, candidates) == \E h \in candidates : h.id = g.id /\ h.body # g.body

\* Every peer has one address of its own.
PeersBound(m) == \A p, q \in m.peers : (p[1] = q[1]) = (p[2] = q[2])

\* Mutant: a grant for a later policy is honoured early.
Rules_AtLeast(m, policy, now) ==
    LET candidates == {g \in m.grants : GrantVerified(g, policy.v, now)} IN
    {g \in candidates : /\ ~Conflicting(g, candidates)
                        /\ g.inbound /\ g.port \in m.ports
                        /\ <<g.peer, g.ip>> \in m.peers}

\* ReconcileTarget: the rules of an enabled policy.
Rules(m, policy, now) ==
    LET candidates == {g \in m.grants : GrantVerified(g, policy.v, now)} IN
    {g \in candidates : /\ ~Conflicting(g, candidates)
                        /\ g.v = policy.v
                        /\ g.inbound /\ g.port \in m.ports
                        /\ <<g.peer, g.ip>> \in m.peers}

\* authenticateRemoteAccessNetmap: the launchers of an enabled policy.
Launchers(m, policy, now) ==
    {g \in m.grants : GrantForSelf(g, m, policy.v, now) /\ g.v = policy.v}

\* servicesFor.
Shown(now) == {g \in view.grants : Later(now, view.floor) < g.until}

-----------------------------------------------------------------------------
(* The floor. *)

\* checkPolicyAdvance.
Advances(current, next) ==
    \/ current = NoFloor
    \/ next.policy.v > current.policy.v
    \/ next.policy = current.policy /\ next.at >= current.at

\* PolicyTimeFloor.
TimeFloor(now) == Later(now, file.at)

\* ObservePolicyAt: a newer policy is where a clock that ran ahead recovers.
Observed(policy, trusted, now) ==
    [policy |-> policy, at |-> IF policy.v > file.policy.v THEN now ELSE trusted]

Goto(u, label) == pc' = [pc EXCEPT ![u] = label]

\* The file lock is held from an Advance's read to the sync of its directory.
Unlocked(u) == \A w \in Users \ {u} : pc[w] # "sync"

\* A transaction goes on to another round with the floor, or to its end.
Round(u, stage, now, c) ==
    /\ Goto(u, "look")
    /\ call' = [call EXCEPT ![u] = [c EXCEPT !.stage = stage, !.now = now]]

\* applyNetmapLocked derives a target policy for a netmap that carries one, or
\* to close what an earlier one opened.
ToDerive(u, c) ==
    IF Maps[c.nm].policy # NoPolicy \/ guard.remote
    THEN Round(u, "derive", c.real, c)
    ELSE /\ Goto(u, "conceal")
         /\ call' = [call EXCEPT ![u] = c]

ToInstall(u, c) ==
    /\ Goto(u, IF c.op = "apply" THEN "conceal" ELSE "install")
    /\ call' = [call EXCEPT ![u] = c]

EndSource(u) == Goto(u, "idle") /\ call' = [call EXCEPT ![u] = NoCall]

\* A round that fails leaves no launcher, or a closed boundary.
Refused(u, floor) ==
    LET c == call[u] IN
    \/ c.stage = "auth" /\ ToDerive(u, [c EXCEPT !.view = [NoView EXCEPT !.floor = floor]])
    \/ c.stage = "source" /\ EndSource(u)
    \/ /\ c.stage \in {"derive", "reconcile"}
       /\ ToInstall(u, [c EXCEPT !.target = Closed])

\* PolicyTimeFloor and VerifyPolicyState.
Look(u) ==
    /\ pc[u] = "look"
    /\ Unlocked(u)
    /\ \/ /\ PolicyVerified(Maps[call[u].nm], TimeFloor(call[u].now))
          /\ call' = [call EXCEPT ![u].obs = [policy |-> Maps[call[u].nm].policy,
                                              at |-> TimeFloor(call[u].now)]]
          /\ Goto(u, "read")
       \/ /\ ~PolicyVerified(Maps[call[u].nm], TimeFloor(call[u].now))
          /\ Refused(u, TimeFloor(call[u].now))
       \/ Fails("store") /\ Refused(u, None)
    /\ UNCHANGED <<store, wallState, shown, schedule, world>>

\* Load and ObservePolicyAt; the launchers need the netmap's own version first,
\* ReconcileTarget and AuthorizeSource check the advance before making it.
Read(u) ==
    LET c == call[u]
        obs == Observed(c.obs.policy, c.obs.at, c.now) IN
    /\ pc[u] = "read"
    /\ Unlocked(u)
    /\ IF \/ c.stage = "auth" /\ obs.policy.v # Maps[c.nm].echo
          \/ c.stage \in {"reconcile", "source"} /\ ~Advances(file, obs)
       THEN Refused(u, obs.at)
       ELSE /\ Goto(u, "advance")
            /\ call' = [call EXCEPT ![u].obs = obs]
    /\ UNCHANGED <<store, wallState, shown, schedule, world>>

\* What the floor allows once it is advanced.
Accepted(u) ==
    LET c == call[u]
        m == Maps[c.nm]
        policy == c.obs.policy
        now == c.obs.at
        activated == TargetVerified(m, policy, now) IN
    \/ /\ c.stage = "auth"
       /\ ToDerive(u, [c EXCEPT !.view =
             [grants |-> IF policy.enabled /\ activated THEN Launchers(m, policy, now) ELSE {},
              allowed |-> policy.enabled /\ activated /\ m.target.enabled,
              floor |-> now]])
    \/ /\ c.stage = "derive"
       /\ IF policy.v # m.echo THEN Refused(u, now)
          ELSE IF ~policy.enabled THEN ToInstall(u, [c EXCEPT !.target = NotRequired])
          ELSE IF ~activated THEN Refused(u, now)
          ELSE IF ~m.target.enabled \/ CandidatePorts = {}
               THEN ToInstall(u, [c EXCEPT !.target = NotRequired])
          ELSE IF ~PeersBound(m) THEN Refused(u, now)
          ELSE Round(u, "reconcile", now, c)
    \/ /\ c.stage = "reconcile"
       /\ ToInstall(u, [c EXCEPT !.target = [required |-> TRUE, rules |-> Rules(m, policy, now)]])
    \/ c.stage = "source" /\ EndSource(u)

\* Mutant: the floor is advanced without reading it under the lock.
Advance_Blind(u) ==
    /\ pc[u] = "advance"
    /\ Unlocked(u)
    /\ IF file = call[u].obs
       THEN Accepted(u) /\ acked' = call[u].obs /\ UNCHANGED file
       ELSE file' = call[u].obs /\ Goto(u, "sync") /\ UNCHANGED <<acked, call>>
    /\ UNCHANGED <<durable, wallState, shown, schedule, world>>

\* FilePolicyFloorStore.Advance: checked again under the lock, then a
\* synced temporary file is renamed over the store.
Advance(u) ==
    /\ pc[u] = "advance"
    /\ Unlocked(u)
    /\ \/ /\ ~Advances(file, call[u].obs) \/ Fails("store")
          /\ Refused(u, call[u].obs.at)
          /\ UNCHANGED <<file, acked>>
       \/ /\ file = call[u].obs
          /\ Accepted(u)
          /\ acked' = file
          /\ UNCHANGED file
       \/ /\ file # call[u].obs /\ Advances(file, call[u].obs)
          /\ file' = call[u].obs
          /\ Goto(u, "sync")
          /\ UNCHANGED <<acked, call>>
    /\ UNCHANGED <<durable, wallState, shown, schedule, world>>

\* Mutant: the directory is never synced.
Sync_Never(u) ==
    /\ pc[u] = "sync"
    /\ acked' = file
    /\ Accepted(u)
    /\ UNCHANGED <<durable, file, wallState, shown, schedule, world>>

\* The directory is synced; if it cannot be, the floor in the file stands but
\* this round is refused.
Sync(u) ==
    /\ pc[u] = "sync"
    /\ \/ durable' = file /\ acked' = file /\ Accepted(u)
       \/ Fails("sync") /\ Refused(u, call[u].obs.at) /\ UNCHANGED <<durable, acked>>
    /\ UNCHANGED <<file, wallState, shown, schedule, world>>

-----------------------------------------------------------------------------
(* Transactions: applyMu is held from beginning to end. *)

\* Mutant: an expiry already past is not one.
SetExpiry_Unset(e) == expiry' = e - wall /\ wake' = (wake \/ e # expiry)

\* Mutant: a changed expiry waits for the timer that is running.
SetExpiry_Silent(e) == expiry' = e /\ wake' = wake

\* remoteExpiry: a change wakes the loop.
SetExpiry(e) == expiry' = e /\ wake' = (wake \/ e # expiry)

EndTx == Goto("tx", "idle") /\ call' = [call EXCEPT !["tx"] = NoCall]

\* The session applies a netmap; after a restart, perhaps an old one.
BeginApply ==
    /\ May("apply") /\ pc["tx"] = "idle"
    /\ \E n \in setting.maps :
          /\ n >= lastMap
          /\ Round("tx", "auth", wall,
                   [NoCall EXCEPT !.op = "apply", !.nm = n, !.real = wall, !.base = file])
    /\ UNCHANGED <<store, wallState, shown, schedule, world>>

\* AuthorizeSource, with the policy of some netmap.
BeginSource ==
    /\ May("source") /\ pc["src"] = "idle"
    /\ \E n \in setting.maps :
          Round("src", "source", wall, [NoCall EXCEPT !.op = "source", !.nm = n, !.base = file])
    /\ UNCHANGED <<store, wallState, shown, schedule, world>>

\* Launchers shown so far are withdrawn before anything can fail.
Conceal ==
    /\ pc["tx"] = "conceal"
    /\ view' = NoView
    /\ Goto("tx", "install")
    /\ UNCHANGED <<store, wallState, lastMap, schedule, call, world>>

\* composeRemoteTargetPolicy needs a tunnel interface, which the policy an
\* expiry starts from may already name.
Composes(c) == ~c.target.required \/ iface \/ (c.op = "expiry" /\ guard.remote)

Desired(c) == [remote |-> c.target.required, rules |-> c.target.rules]

\* Mutant: the loop waits for the last rule to expire.
NearestExpiry_Last(rules) == IF rules = {} THEN None ELSE Max({g.until : g \in rules})

\* The first expiry among the rules of a target policy.
NearestExpiry(rules) == IF rules = {} THEN None ELSE Min({g.until : g \in rules})

\* The firewall takes a policy whole, or keeps the one it has.
Load(policy) == guard' = policy

\* "basis": the floor before the transaction whose rules are installed;
\* "installed": the newest netmap whose rules were.
Installs(c, policy) ==
    /\ Load(policy)
    /\ basis' = c.base
    /\ installed' = IF c.op = "apply" THEN c.nm ELSE installed

\* The firewall half of applyNetmapLocked and of reconcileRemoteTargetExpiry: a
\* policy that cannot be composed leaves the boundary without a rule, and the
\* loop tries again a second later; so it does when its own policy is refused.
Install ==
    LET c == call["tx"]
        policy == IF Composes(c) THEN Desired(c) ELSE [guard EXCEPT !.rules = {}]
        loads == Installs(c, policy)
        fails == policy # guard /\ Fails("guard") /\ UNCHANGED wallState IN
    /\ pc["tx"] = "install"
    /\ \/ /\ ~Composes(c)
          /\ loads \/ fails
          /\ SetExpiry(wall + 1) /\ EndTx
       \/ /\ Composes(c) /\ loads
          /\ SetExpiry(NearestExpiry(c.target.rules))
          /\ IF c.op = "apply" THEN Goto("tx", "engine") /\ UNCHANGED call ELSE EndTx
       \/ /\ Composes(c) /\ fails
          /\ IF c.op = "apply" THEN UNCHANGED <<expiry, wake>> ELSE SetExpiry(wall + 1)
          /\ EndTx
    /\ UNCHANGED <<store, shown, loop, timer, fired, world>>

\* Mutant: launchers are shown although the engine refused the netmap.
Engine_ShowsAnyway ==
    /\ pc["tx"] = "engine"
    /\ view' = call["tx"].view
    /\ \/ lastMap' = call["tx"].nm
       \/ Fails("engine") /\ UNCHANGED lastMap
    /\ EndTx
    /\ UNCHANGED <<store, wallState, schedule, world>>

\* The engine takes the netmap, which commits it and its launchers, or refuses;
\* the rules stay either way.
Engine ==
    /\ pc["tx"] = "engine"
    /\ \/ lastMap' = call["tx"].nm /\ view' = call["tx"].view
       \/ Fails("engine") /\ UNCHANGED shown
    /\ EndTx
    /\ UNCHANGED <<store, wallState, schedule, world>>

-----------------------------------------------------------------------------
(* remoteTargetExpiryLoop: a timer runs on the monotonic clock. *)

Arm ==
    /\ loop = "arm"
    /\ timer' = IF expiry = None THEN None ELSE Later(expiry - wall, 0)
    /\ loop' = "wait"
    /\ UNCHANGED <<expiry, wake, fired, store, wallState, shown, locals, world>>

Woken ==
    /\ loop = "wait" /\ wake
    /\ wake' = FALSE
    /\ loop' = "arm" /\ timer' = None
    /\ UNCHANGED <<expiry, fired, store, wallState, shown, locals, world>>

Fire ==
    /\ loop = "wait" /\ timer = 0
    /\ loop' = "due" /\ timer' = None /\ fired' = wall
    /\ UNCHANGED <<expiry, wake, store, wallState, shown, locals, world>>

\* reconcileRemoteTargetExpiry, once it has applyMu, derives the last netmap
\* committed again, as of the time the timer fired.
BeginExpiry ==
    /\ loop = "due" /\ pc["tx"] = "idle"
    /\ IF lastMap = 0
       THEN /\ SetExpiry(None)
            /\ UNCHANGED locals
       ELSE /\ Round("tx", "derive", fired,
                     [NoCall EXCEPT !.op = "expiry", !.nm = lastMap, !.real = fired, !.base = file])
            /\ UNCHANGED <<expiry, wake>>
    /\ loop' = IF lastMap = 0 THEN "arm" ELSE "busy"
    /\ fired' = 0
    /\ UNCHANGED <<timer, store, wallState, shown, world>>

Handled ==
    /\ loop = "busy" /\ pc["tx"] = "idle"
    /\ loop' = "arm"
    /\ UNCHANGED <<expiry, wake, timer, fired, store, wallState, shown, locals, world>>

-----------------------------------------------------------------------------
(* The world. *)

Tick ==
    /\ wall < setting.time \/ timer \in Nat \ {0}
    /\ wall' = IF wall < setting.time THEN wall + 1 ELSE wall
    /\ timer' = IF timer \in Nat \ {0} THEN timer - 1 ELSE timer
    /\ UNCHANGED <<expiry, wake, loop, fired, jumped, iface, setting, store, wallState, shown, locals>>

\* The clock is set, once.
Jump ==
    /\ May("jump") /\ ~jumped
    /\ wall' \in (0 .. setting.time) \ {wall}
    /\ jumped' = TRUE
    /\ UNCHANGED <<iface, setting, store, wallState, shown, schedule, locals>>

InterfaceChanges ==
    /\ May("iface")
    /\ iface' = ~iface
    /\ UNCHANGED <<wall, jumped, setting, store, wallState, shown, schedule, locals>>

\* Power fails and the node starts again: the firewall is empty, and the rename
\* of an unsynced directory may be lost.
Reboot ==
    /\ May("reboot")
    /\ file' \in {file, durable} /\ durable' = file'
    /\ guard' = Open /\ basis' = NoFloor /\ installed' = 0
    /\ lastMap' = 0 /\ view' = NoView
    /\ expiry' = None /\ wake' = FALSE /\ loop' = "arm" /\ timer' = None /\ fired' = 0
    /\ pc' = [u \in Users |-> "idle"]
    /\ call' = [u \in Users |-> NoCall]
    /\ UNCHANGED <<acked, world>>

Transaction ==
    \/ \E u \in Users : Look(u) \/ Read(u) \/ Advance(u) \/ Sync(u)
    \/ Conceal \/ Install \/ Engine

Loop == Arm \/ Woken \/ Fire \/ BeginExpiry \/ Handled

Next == BeginApply \/ BeginSource \/ Transaction \/ Loop
        \/ Tick \/ Jump \/ InterfaceChanges \/ Reboot

Spec == Init /\ [][Next]_vars

\* Goroutines are scheduled, time passes, and the firewall and the store do not
\* fail for ever; nothing else is promised.
FairSpec ==
    /\ Spec
    /\ WF_vars(Transaction) /\ WF_vars(Arm) /\ WF_vars(Woken) /\ WF_vars(Fire)
    /\ WF_vars(Handled) /\ WF_vars(Tick)
    /\ SF_vars(BeginExpiry)
    /\ SF_vars(Install /\ guard'.rules = {g \in guard'.rules : wall < g.until})

-----------------------------------------------------------------------------
(* Properties. *)

Floors == {NoFloor} \cup [policy : Policies, at : Times]

TypeOK ==
    /\ file \in Floors /\ durable \in Floors /\ acked \in Floors /\ basis \in Floors
    /\ guard \in [remote : BOOLEAN, rules : SUBSET Grants]
    /\ lastMap \in 0 .. Cardinality(DOMAIN Maps) /\ installed \in 0 .. Cardinality(DOMAIN Maps)
    /\ view.grants \subseteq Grants /\ view.allowed \in BOOLEAN
    /\ expiry \in Nat \cup {None} /\ timer \in Nat \cup {None}
    /\ loop \in {"arm", "wait", "due", "busy"} /\ fired \in Times
    /\ \A u \in Users : pc[u] \in {"idle", "look", "read", "advance", "sync", "conceal",
                                   "install", "engine"}

\* A floor that an Advance reported kept (FilePolicyFloorStore.Advance) is never
\* lost or undercut, by another version's payload, by a clock set back, by the
\* other process or by a power failure.
Keeps(old, new) ==
    old = NoFloor \/ new.policy.v > old.policy.v \/ (new.policy = old.policy /\ new.at >= old.at)
AckedFloorSurvives == Keeps(acked, file) /\ Keeps(acked, durable)

\* A rule in the firewall belongs to a policy at least as new as the floor its
\* transaction began with, and never to a grant that floor had seen expire.
NothingRevived ==
    \A g \in guard.rules :
        /\ g.v >= basis.policy.v
        /\ g.v = basis.policy.v => basis.policy.enabled /\ basis.at < g.until

\* Grants are honoured only under a policy that a restart will still know.
RulesAreDurable ==
    \A g \in guard.rules \cup view.grants : durable.policy.v >= g.v

\* Launchers shown are those of the netmap committed, unexpired at its floor.
LaunchersCommitted ==
    \A g \in view.grants :
        lastMap # 0 /\ g \in Maps[lastMap].grants /\ view.floor < g.until

\* Something is scheduled that will handle the rule: if the clock was never set,
\* no later than its expiry (or a retry's second).
Scheduled(g) ==
    \/ loop = "due"
    \/ /\ loop \in {"arm", "busy"} \/ wake
       /\ expiry # None /\ (~jumped => expiry <= Later(g.until, wall + 1))
    \/ /\ loop = "wait"
       /\ timer # None /\ (~jumped => wall + timer <= Later(g.until, wall + 1))

\* While no transaction runs, a node that has committed a netmap has every rule
\* scheduled (setRemoteTargetExpiry, through every failure of the firewall, the
\* store, the engine and the interface).
ExpiryScheduled == pc["tx"] = "idle" /\ lastMap # 0 => \A g \in guard.rules : Scheduled(g)

\* docs/remote-access.md says so of every rule: expiry removes the allow without
\* waiting for another netmap.
EveryRuleScheduled == pc["tx"] = "idle" => \A g \in guard.rules : Scheduled(g)

\* An expired rule is eventually removed, whatever failed on the way
\* (remoteTargetExpiryLoop).
ExpiredRemoved ==
    \A g \in Grants : (g \in guard.rules /\ wall >= g.until /\ lastMap # 0)
                          ~> (g \notin guard.rules \/ wall < g.until)

\* A rule is added only if the newest netmap whose rules were installed grants
\* it: a revocation stands although the engine refused its netmap.
RevocationStands ==
    [][\A g \in guard'.rules \ guard.rules : g \in Maps[installed'].grants]_vars

\* The state is well formed and the floor, once kept, is kept (FilePolicyFloorStore).
FloorHolds == TypeOK /\ AckedFloorSurvives

\* What is open or shown is granted under a durable floor, by the netmap that was
\* committed, and for as long only as something scheduled will close it
\* (applyNetmapLocked, reconcileRemoteTargetExpiry).
RulesLicensed == NothingRevived /\ RulesAreDurable /\ LaunchersCommitted /\ ExpiryScheduled
=============================================================================
