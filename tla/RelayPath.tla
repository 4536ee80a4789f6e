------------------------------ MODULE RelayPath ------------------------------
(****************************************************************************)
(* How the daemon reaches one peer: by a direct endpoint or through the     *)
(* relay.                                                                   *)
(*                                                                          *)
(* The relay link is a client and a bridge made together (ensureRelay),     *)
(* taken down by a drop, a rotation or a rolled back netmap.  The path is a *)
(* verdict, direct or relayed, that relaySwitchLoop revises from received   *)
(* bytes.  Neither reaches WireGuard by itself: a goroutine that changed    *)
(* one of them applies the last netmap again, in the same serialized        *)
(* transaction as a new netmap, which reads both and programs an endpoint.  *)
(*                                                                          *)
(* The goroutines are the session, the switch loop, the reconnect loop, the *)
(* endpoint prober and, for each bridge, its disconnect callback.  Times    *)
(* are ages in ticks, capped where no comparison tells them apart.  The     *)
(* configured endpoint is modelled, not WireGuard's roaming from it.        *)
(****************************************************************************)
EXTENDS Naturals, Sequences, FiniteSets, FiniteSetsExt, SequencesExt, TLC

CONSTANTS
    CandidateTrialAfter, RelayFallbackAfter, LivenessWindow, HandshakeFresh,
    UpgradeRetry, PermitLifetime, ProbeRetry,
    TrialBackoff,       \* discoTrialBackoff of 1, 2 and more failures
    MaxProbes,          \* maxDiscoUpgradeProbes
    Bridges,            \* names of bridges, used again when forgotten
    Settings            \* configuration, netmaps and what else may happen

ASSUME TimingAssumption ==
    /\ {CandidateTrialAfter, RelayFallbackAfter, LivenessWindow, HandshakeFresh,
        UpgradeRetry, PermitLifetime, ProbeRetry, MaxProbes} \subseteq Nat \ {0}
    /\ TrialBackoff \in Seq(Nat) /\ Len(TrialBackoff) = 3
    /\ HandshakeFresh <= UpgradeRetry /\ LivenessWindow <= HandshakeFresh

VARIABLES
    setting,    \* [flags, maps, relays, works, ops, budget]: never changes
    budget,     \* how much more the environment may do
    works,      \* the peer's candidates that carry traffic
    relaysUp,   \* the relays that accept a connection
    \* the link
    bridge,     \* Daemon.bridge and relayClient; Nil is nil
    spec,       \* Daemon.relaySpec
    dialing,    \* Daemon.relayDialing
    client,     \* the relay client of each bridge
    open,       \* the bridges that are not closed
    allowed,    \* the bridges that accept packets from the peer
    \* the transaction
    lock,       \* who holds applyMu
    at,         \* what each goroutine is doing
    lastMap,    \* Daemon.lastNetmap's version
    relaySpecs, \* Daemon.relaySpecs
    wg,         \* the peer's endpoint in the engine
    \* the path, Daemon.relayed and the ages of the maps beside it
    relayed, directSince, relaySince, progress, epSeen, index, tries, cycle,
    candidates, confirmed,      \* the PeerPath
    heard,      \* how bytes arrived since the last stats
    handshake,  \* the age of the latest handshake
    \* probing before an upgrade
    upgrade,    \* the peer's discoUpgradePeer, or NoUpgrade
    probes,     \* attempts in flight
    inFlight,   \* Daemon.discoProbesInFlight
    \* history
    missed,     \* a wanted re-application was refused or failed
    unbridged,  \* a transaction failed that had begun without a bridge
    proofs,     \* successful probes not yet used
    failed,     \* the last trial that failed, until something excuses it
    tried       \* candidates programmed since they were advertised

link == <<bridge, spec, dialing, client, open, allowed>>
books == <<lastMap, relaySpecs>>
verdict == <<relayed, directSince, relaySince, progress, epSeen, index, tries, cycle>>
peerPath == <<candidates, confirmed>>
traffic == <<heard, handshake>>
probing == <<upgrade, probes, inFlight>>
history == <<missed, unbridged, proofs, failed, tried>>
world == <<setting, budget, works, relaysUp>>
vars == <<world, link, lock, at, books, wg, verdict, peerPath, traffic, probing, history>>

-----------------------------------------------------------------------------
(* The netmap, the configuration and time *)

Threads == {"session", "switch", "reconnect", "prober"} \cup Bridges
Nobody == "nobody"
Nil == "nil"

Flag(f) == f \in setting.flags
Force == Flag("force")
Map(v) == setting.maps[v]
Peer == Map(lastMap)
Present == lastMap > 0 /\ Peer.member

Never == 1000
Later(age, cap) == IF age = Never \/ age >= cap THEN age ELSE age + 1
OlderThan(age, limit) == age # Never /\ age > limit
After(age, since) == since = Never \/ age < since

\* The zero time of rxProgress is as old as any that no longer counts.
NoProgress == LivenessWindow
NoHandshake == HandshakeFresh + 1
DirectCap == Max({RelayFallbackAfter + 1, HandshakeFresh})

HandshakeIsFresh(since) ==
    handshake <= HandshakeFresh /\ (since = Never \/ handshake <= since)

Absent == [kind |-> "absent"]
NoEndpoint == [kind |-> "none"]
Direct(c) == [kind |-> "direct", to |-> c]
Via(b) == [kind |-> "relay", to |-> b]

Fingerprint(p) == <<p.endpoints, p.disco>>
NoUpgrade == [fingerprint |-> <<>>]
NoFailure == [fingerprint |-> <<>>, left |-> 0]
Upgrade(print, since) ==
    [fingerprint |-> print, cycle |-> since, attempt |-> 0, probing |-> FALSE,
     permit |-> Never, wait |-> 0, trial |-> FALSE, evidence |-> FALSE, failures |-> 0]

Idle == [do |-> "idle"]

Init ==
    /\ setting \in Settings
    /\ budget = setting.budget /\ works = setting.works /\ relaysUp = setting.relays
    /\ bridge = Nil /\ spec = "" /\ dialing = FALSE
    /\ client = [b \in Bridges |-> "none"] /\ open = {} /\ allowed = {}
    /\ lock = Nobody /\ at = [t \in Threads |-> Idle]
    /\ lastMap = 0 /\ relaySpecs = <<>> /\ wg = Absent
    /\ relayed = FALSE /\ directSince = Never /\ relaySince = Never /\ progress = NoProgress
    /\ epSeen = <<>> /\ index = 0 /\ tries = 0 /\ cycle = 0
    /\ candidates = {} /\ confirmed = 0
    /\ heard = {} /\ handshake = NoHandshake
    /\ upgrade = NoUpgrade /\ probes = {} /\ inFlight = 0
    /\ missed = FALSE /\ unbridged = FALSE /\ proofs = {} /\ failed = NoFailure /\ tried = {}

Goto(t, step) == at' = [at EXCEPT ![t] = step]
Then(t, next) == Goto(t, [at[t] EXCEPT !.do = next])

-----------------------------------------------------------------------------
(* The relay link *)

Reachable(list) == SelectSeq(list, LAMBDA r : r \in relaysUp)
Unused == {b \in Bridges : client[b] = "none" /\ b \notin open /\ at[b] = Idle /\ wg # Via(b)
                              /\ \A t \in Threads : ~\E f \in {"prior", "snap", "closing"} :
                                    f \in DOMAIN at[t] /\ at[t][f] = b}

\* Mutant: nothing serializes connection attempts.
MayDial_Always(list) == list # <<>>

\* ensureRelay's claim of the dial.
MayDial(list) == bridge = Nil /\ ~dialing /\ list # <<>>

\* A second binding of the same key supersedes the first at the same relay.
Superseded(r) == [b \in Bridges |-> IF client[b] = "up" /\ b = bridge /\ spec = r
                                    THEN "broken" ELSE client[b]]

\* ensureRelay: t dials the first relay of its list that answers and installs
\* the bridge, unless another one appeared.
Dial(t) ==
    LET up == Reachable(at[t].specs)
        b == CHOOSE x \in Unused : TRUE
    IN
    /\ at[t].do = "dial"
    /\ dialing' = FALSE
    /\ IF up = <<>> \/ bridge # Nil
       THEN /\ Goto(t, [at[t] EXCEPT !.do = at[t].next, !.joined = FALSE])
            /\ client' = IF up = <<>> THEN client ELSE Superseded(Head(up))
            /\ UNCHANGED <<bridge, spec, open>>
       ELSE /\ bridge' = b /\ spec' = Head(up)
            /\ client' = [client EXCEPT ![b] = "up"] /\ open' = open \cup {b}
            /\ Goto(t, [at[t] EXCEPT !.do = at[t].next, !.joined = TRUE])
    /\ allowed' = allowed \ {b}
    /\ UNCHANGED <<world, lock, books, wg, verdict, peerPath, traffic, probing, history>>

\* Mutant: the client is forgotten with the bridge.
Closed_BridgeOnly(b) ==
    /\ open' = open \ {b}
    /\ UNCHANGED client

\* closeRelayResources: closing a client whose receive loop still runs ends the
\* loop, which calls back.
Closed(b) ==
    /\ open' = open \ {b}
    /\ client' = [client EXCEPT ![b] = IF @ \in {"up", "broken"} THEN "closed" ELSE "none"]

Cleared == bridge' = Nil /\ spec' = ""

Close(t) ==
    /\ at[t].do = "close"
    /\ Closed(at[t].closing)
    /\ Goto(t, [at[t] EXCEPT !.do = at[t].next, !.closing = Nil])
    /\ UNCHANGED <<world, bridge, spec, dialing, allowed, lock, books, wg, verdict, peerPath,
                   traffic, probing, history>>

\* Mutant: a callback acts on whatever bridge is current.
Current_Any(b) == bridge # Nil

\* onRelayDisconnect's test that the callback is the current bridge's.
Current(b) == bridge = b

\* A receive loop has ended: bridge b calls back.
Disconnected(b) ==
    /\ at[b] = Idle /\ client[b] \in {"broken", "closed"}
    /\ client' = [client EXCEPT ![b] = IF @ = "closed" THEN "none" ELSE "ended"]
    /\ IF Current(b)
       THEN Cleared /\ Goto(b, [do |-> "close", closing |-> bridge, next |-> "reapply"])
       ELSE UNCHANGED <<bridge, spec, at>>
    /\ UNCHANGED <<world, dialing, open, allowed, lock, books, wg, verdict, peerPath, traffic,
                   probing, history>>

\* relayReconnectLoop finds the bridge down; its backoff is left to the scheduler.
Reconnect ==
    /\ at["reconnect"] = Idle /\ MayDial(relaySpecs)
    /\ dialing' = TRUE
    /\ Goto("reconnect", [do |-> "dial", specs |-> relaySpecs, next |-> "reconnected", joined |-> FALSE])
    /\ UNCHANGED <<world, bridge, spec, client, open, allowed, lock, books, wg, verdict, peerPath,
                   traffic, probing, history>>

Waiting(v) == [do |-> "wait", v |-> v]

\* Mutant: the recovered relay waits for the next netmap.
Wants_NotReconnected(t) == at[t].do = "reapply"

\* relayReconnectLoop applies the netmap again only if it connected.
Wants(t) == at[t].do = "reconnected" => at[t].joined

\* reapplyNetmap reads the netmap before it waits for the lock.
Reapply(t) ==
    /\ at[t].do \in {"reapply", "reconnected"}
    /\ Goto(t, IF lastMap > 0 /\ Wants(t) THEN Waiting(lastMap) ELSE Idle)
    /\ missed' = (missed \/ (lastMap = 0 /\ (at[t].do = "reapply" \/ at[t].joined)))
    /\ UNCHANGED <<world, link, lock, books, wg, verdict, peerPath, traffic, probing, unbridged, proofs,
                   failed, tried>>

-----------------------------------------------------------------------------
(* The netmap transaction *)

Deliver ==
    /\ at["session"] = Idle
    /\ \E v \in lastMap + 1 .. Len(setting.maps) : Goto("session", Waiting(v))
    /\ UNCHANGED <<world, link, lock, books, wg, verdict, peerPath, traffic, probing, history>>

\* applyNetmapLocked from the lock to the relay of the candidate.
Begin(t) ==
    /\ at[t].do = "wait" /\ lock = Nobody
    /\ IF at[t].v < lastMap
       THEN /\ Goto(t, Idle)
            /\ missed' = (missed \/ t # "session")
            /\ UNCHANGED <<lock, dialing>>
       ELSE LET list == Map(at[t].v).relays
                dials == MayDial(list)
            IN
            /\ lock' = t
            /\ dialing' = (dialing \/ dials)
            /\ Goto(t, [do |-> IF dials THEN "dial" ELSE "read", v |-> at[t].v, prior |-> bridge,
                         rotate |-> bridge # Nil /\ spec \notin ToSet(list), joined |-> FALSE,
                         specs |-> list, next |-> "read", snap |-> Nil, closing |-> Nil,
                         endpoint |-> Absent, changed |-> FALSE, relayed |-> FALSE])
            /\ UNCHANGED missed
    /\ UNCHANGED <<world, bridge, spec, client, open, allowed, books, wg, verdict, peerPath, traffic,
                   probing, unbridged, proofs, failed, tried>>

\* The loop over peers reads the bridge and the verdict.
Read(t) ==
    LET p == Map(at[t].v)
        changed == p.member /\ epSeen # p.endpoints
    IN
    /\ at[t].do = "read"
    /\ Goto(t, [at[t] EXCEPT !.do = "endpoint", !.snap = bridge, !.changed = changed,
                             !.relayed = relayed /\ ~changed])
    /\ UNCHANGED <<world, link, lock, books, wg, verdict, peerPath, traffic, probing, history>>

Preferred(p) ==
    IF confirmed \in ToSet(p.endpoints) THEN confirmed
    ELSE p.endpoints[(index % Len(p.endpoints)) + 1]

\* Mutant: without a bridge even a forced peer gets its direct endpoint.
EndpointWith_Unforced(p, b, viaRelay) ==
    IF b # Nil /\ b \in open /\ (Force \/ viaRelay \/ p.endpoints = <<>>) THEN Via(b)
    ELSE IF p.endpoints = <<>> THEN NoEndpoint ELSE Direct(Preferred(p))

\* peerEndpointsWith: a bridge closed meanwhile has no endpoint to give.
EndpointWith(p, b, viaRelay) ==
    IF b # Nil /\ b \in open /\ (Force \/ viaRelay \/ p.endpoints = <<>>) THEN Via(b)
    ELSE IF Force \/ p.endpoints = <<>> THEN NoEndpoint ELSE Direct(Preferred(p))

Endpoint(t) ==
    LET p == Map(at[t].v) IN
    /\ at[t].do = "endpoint"
    /\ allowed' = IF p.member THEN allowed \cup ({at[t].snap} \ {Nil}) ELSE allowed
    /\ Goto(t, [at[t] EXCEPT !.do = "engine",
            !.endpoint = IF p.member THEN EndpointWith(p, at[t].snap, at[t].relayed) ELSE Absent])
    /\ UNCHANGED <<world, bridge, spec, dialing, client, open, lock, books, wg, verdict, peerPath,
                   traffic, probing, history>>

\* The engine takes the candidate.
Engine(t) ==
    /\ at[t].do = "engine"
    /\ wg' = at[t].endpoint
    /\ tried' = IF wg'.kind = "direct" THEN tried \cup {wg'.to} ELSE tried
    /\ Then(t, "commit")
    /\ UNCHANGED <<world, link, lock, books, verdict, peerPath, traffic, probing, missed, unbridged,
                   proofs, failed>>

\* Mutant: membership of the bridge is not reconciled.
RetainedBy_All(b, p) == allowed

\* RelayBridge.RetainPeers
RetainedBy(b, p) == IF b # Nil /\ ~p.member THEN allowed \ {b} ELSE allowed
PriorPeer == IF lastMap = 0 THEN [member |-> FALSE] ELSE Peer

\* Whether rollbackCandidateState finds a relay this transaction connected.
RollsBack(t) == at[t].joined /\ bridge # Nil /\ bridge # at[t].prior

\* A call up to the engine's fails: rollbackCandidateState.
Fail(t) ==
    /\ at[t].do = "engine" /\ "engine" \in setting.ops /\ budget > 0
    /\ budget' = budget - 1 /\ missed' = TRUE
    /\ unbridged' = (unbridged \/ at[t].prior = Nil)
    /\ IF RollsBack(t)
       THEN /\ Cleared
            /\ Goto(t, [at[t] EXCEPT !.do = "close", !.closing = bridge, !.next = "end"])
       ELSE Then(t, "end") /\ UNCHANGED <<bridge, spec>>
    /\ allowed' = RetainedBy(at[t].prior, PriorPeer)
    /\ UNCHANGED <<setting, works, relaysUp, dialing, client, open, lock, books, wg, verdict,
                   peerPath, traffic, probing, proofs, failed, tried>>

\* The path bookkeeping follows the engine, and the bridge the membership.
Commit(t) ==
    LET p == Map(at[t].v)
        forget == p.member /\ at[t].changed
        Or(zero, x) == IF forget THEN zero ELSE x
    IN
    /\ at[t].do = "commit"
    /\ epSeen' = Or(p.endpoints, epSeen)
    /\ relayed' = Or(FALSE, relayed) /\ directSince' = Or(Never, directSince)
    /\ relaySince' = Or(Never, relaySince) /\ cycle' = Or(0, cycle)
    /\ progress' = Or(NoProgress, progress) /\ index' = Or(0, index) /\ tries' = Or(0, tries)
    /\ relaySpecs' = p.relays
    /\ allowed' = RetainedBy(bridge, p)
    /\ tried' = Or(IF wg.kind = "direct" THEN {wg.to} ELSE {}, tried)
    /\ Then(t, "publish")
    /\ UNCHANGED <<world, bridge, spec, dialing, client, open, lock, lastMap, wg, peerPath, traffic,
                   probing, missed, unbridged, proofs, failed>>

\* PeerPath.SetCandidates, by refreshPaths.
Refreshed(p) ==
    IF p.member /\ p.endpoints # <<>>
    THEN /\ candidates' = ToSet(p.endpoints)
         /\ confirmed' = IF confirmed \in candidates' THEN confirmed ELSE 0
    ELSE UNCHANGED peerPath

\* The netmap becomes the last one and its candidates are raced.
Publish(t) ==
    LET p == Map(at[t].v)
        race == "probe" \in setting.ops /\ p.member /\ p.endpoints # <<>> /\ at["prober"] = Idle
        next == [at EXCEPT ![t].do = IF at[t].rotate THEN "rotate" ELSE "end"]
    IN
    /\ at[t].do = "publish"
    /\ lastMap' = at[t].v
    /\ Refreshed(p)
    /\ at' = IF race THEN [next EXCEPT !["prober"] = [do |-> "race", among |-> ToSet(p.endpoints)]]
             ELSE next
    /\ failed' = IF failed.fingerprint = Fingerprint(p) THEN failed ELSE NoFailure
    /\ UNCHANGED <<world, link, lock, relaySpecs, wg, verdict, traffic, probing, missed, unbridged,
                   proofs, tried>>

\* A relay that is advertised no more is replaced after the commit.
Rotate(t) ==
    /\ at[t].do = "rotate"
    /\ IF bridge = at[t].prior
       THEN /\ Cleared
            /\ Goto(t, [at[t] EXCEPT !.do = "close", !.closing = bridge, !.next = "redial"])
       ELSE Then(t, "end") /\ UNCHANGED <<bridge, spec>>
    /\ UNCHANGED <<world, dialing, client, open, allowed, lock, books, wg, verdict, peerPath, traffic,
                   probing, history>>

Redial(t) ==
    /\ at[t].do = "redial"
    /\ dialing' = (dialing \/ MayDial(at[t].specs))
    /\ Goto(t, [at[t] EXCEPT !.do = IF MayDial(at[t].specs) THEN "dial" ELSE "again", !.next = "again"])
    /\ UNCHANGED <<world, bridge, spec, client, open, allowed, lock, books, wg, verdict, peerPath,
                   traffic, probing, history>>

\* applyNetmap unlocks, and after a rotation applies the same netmap again.
End(t) ==
    /\ at[t].do \in {"end", "again"}
    /\ lock' = Nobody
    /\ Goto(t, IF at[t].do = "again" THEN Waiting(at[t].v) ELSE Idle)
    /\ UNCHANGED <<world, link, books, wg, verdict, peerPath, traffic, probing, history>>

-----------------------------------------------------------------------------
(* The switch loop: checkRelayTransitions on fresh stats *)

Serving == Flag("serving")
Gated == Flag("disco") /\ ~Force /\ bridge # Nil /\ Peer.disco # {}
Eligible == Peer.online /\ Gated /\ ~Serving /\ ~Flag("preferred")

Received == heard # {}
Progress == IF Received THEN 0 ELSE progress
Working(since) ==
    HandshakeIsFresh(since) \/ (Progress < LivenessWindow /\ After(Progress, since))

\* matchingDiscoDirectTrialLocked
Trial == upgrade # NoUpgrade /\ upgrade.trial /\ upgrade.fingerprint = Fingerprint(Peer)
Evidence == Trial /\ (upgrade.evidence \/ Received)
Healthy == IF Trial THEN Evidence ELSE Working(directSince)

\* What examining a direct path does to the trial.
Examined ==
    CASE upgrade # NoUpgrade /\ upgrade.trial /\ ~Trial -> NoUpgrade
      [] Evidence -> [upgrade EXCEPT !.trial = FALSE, !.failures = 0, !.wait = 0, !.evidence = FALSE]
      [] OTHER -> upgrade

\* Mutant: a failed trial belongs to the cycle before it.
Failed_OldCycle(c) ==
    LET k == Min({upgrade.failures + 1, 3}) IN
    IF ~Trial THEN Examined
    ELSE [upgrade EXCEPT !.trial = FALSE, !.failures = k, !.permit = Never,
                         !.wait = TrialBackoff[k], !.evidence = FALSE]

\* The trial fails with the fall to the relay that starts cycle c.
Failed(c) ==
    LET k == Min({upgrade.failures + 1, 3}) IN
    IF ~Trial THEN Examined
    ELSE [upgrade EXCEPT !.trial = FALSE, !.failures = k, !.cycle = c, !.permit = Never,
                         !.wait = TrialBackoff[k], !.evidence = FALSE]

Cycles == 1 .. MaxProbes + 3
NewCycle == Min(Cycles \ ({cycle} \cup {a.cycle : a \in probes \cup proofs}
                           \cup IF upgrade = NoUpgrade THEN {} ELSE {upgrade.cycle}))

\* The switch loop's goroutine has decided and will apply if something moved.
Decided(moved) ==
    Goto("switch", [do |-> "start", moved |-> moved])

Counted == progress' = Progress /\ heard' = {}
Stays == UNCHANGED <<relayed, relaySince, index, tries, cycle, confirmed, proofs, failed>>

\* Mutant: one candidate is skipped.
MoreCandidates_OneLess == bridge = Nil \/ tries < Len(Peer.endpoints) - 2

\* Mutant: candidates are tried in turn for ever.
MoreCandidates_Always == TRUE

\* Without a relay there is no terminal fallback; with one, each has one trial.
MoreCandidates == bridge = Nil \/ tries < Len(Peer.endpoints) - 1

Unjudged == Force \/ Peer.endpoints = <<>>
Rests == ~Peer.online \/ (~Unjudged /\ Serving /\ ~Flag("selected"))
OnDirect == Present /\ ~Rests /\ ~Unjudged /\ ~relayed
OnRelay == Present /\ ~Rests /\ ~Unjudged /\ relayed

Ignore ==
    /\ ~Present
    /\ Stays /\ UNCHANGED <<directSince, progress, heard, upgrade>> /\ Decided(FALSE)

\* No path to decide: offline, or a peer that does not use this exit, restarts
\* its trial.
Rest ==
    /\ Present /\ (Rests \/ Unjudged)
    /\ Counted /\ Stays /\ UNCHANGED upgrade
    /\ directSince' = IF Rests THEN 0 ELSE directSince
    /\ Decided(FALSE)

FirstSeen ==
    /\ OnDirect /\ directSince = Never
    /\ Counted /\ Stays /\ UNCHANGED upgrade
    /\ directSince' = 0
    /\ Decided(FALSE)

\* The next candidate is due.
Tries ==
    /\ ~Healthy /\ Len(Peer.endpoints) > 1
    /\ OlderThan(directSince, CandidateTrialAfter) /\ MoreCandidates

\* Relaying is a choice only while there is a bridge.
Falls == bridge # Nil /\ ~Healthy /\ OlderThan(directSince, RelayFallbackAfter)

NextCandidate ==
    /\ OnDirect /\ directSince # Never /\ Tries
    /\ index' = (index + 1) % Len(Peer.endpoints)
    /\ tries' = Min({tries + 1, Len(Peer.endpoints)})
    /\ directSince' = 0 /\ progress' = NoProgress /\ heard' = {} /\ confirmed' = 0
    /\ upgrade' = Examined
    /\ UNCHANGED <<relayed, relaySince, cycle, proofs, failed>>
    /\ Decided(TRUE)

FallBack ==
    /\ OnDirect /\ directSince # Never /\ ~Tries /\ Falls
    /\ relayed' = TRUE /\ relaySince' = 0 /\ cycle' = NewCycle
    /\ upgrade' = Failed(cycle')
    /\ failed' = IF Trial THEN [fingerprint |-> upgrade.fingerprint, left |-> TrialBackoff[1]]
                 ELSE failed
    /\ progress' = NoProgress /\ heard' = {}
    /\ UNCHANGED <<directSince, index, tries, confirmed, proofs>>
    /\ Decided(TRUE)

StayDirect ==
    /\ OnDirect /\ directSince # Never /\ ~Tries /\ ~Falls
    /\ Counted /\ upgrade' = Examined
    /\ failed' = IF Evidence THEN NoFailure ELSE failed
    /\ UNCHANGED <<directSince, relayed, relaySince, index, tries, cycle, confirmed, proofs>>
    /\ Decided(FALSE)

\* discoUpgradeStateLocked: another fingerprint or relay cycle starts afresh.
Upgrading ==
    IF upgrade # NoUpgrade /\ upgrade.fingerprint = Fingerprint(Peer) /\ upgrade.cycle = cycle
    THEN upgrade ELSE Upgrade(Fingerprint(Peer), cycle)

\* Mutant: a permit once given stays good.
Permitted_Ever == Upgrading.permit # Never

\* consumeDiscoUpgradePermitLocked's test.
Permitted == Upgrading.permit # Never /\ Upgrading.permit <= PermitLifetime

MayUpgrade ==
    /\ OnRelay /\ Working(relaySince) /\ ~Serving /\ ~Flag("preferred")
    /\ OlderThan(relaySince, UpgradeRetry)

LicensedBy == {x \in proofs : x.fingerprint = Fingerprint(Peer) /\ x.cycle = cycle}

\* A relayed peer tries the direct path again, with a permit if it is gated.
TryDirect ==
    /\ MayUpgrade /\ (Gated => wg # Absent /\ Permitted)
    /\ relayed' = FALSE /\ directSince' = 0 /\ progress' = NoProgress /\ heard' = {}
    /\ upgrade' = IF Gated THEN [Upgrading EXCEPT !.permit = Never, !.trial = TRUE, !.evidence = FALSE]
                  ELSE upgrade
    /\ proofs' = IF Gated THEN proofs \ LicensedBy ELSE proofs
    /\ failed' = IF Gated THEN failed ELSE NoFailure
    /\ UNCHANGED <<relaySince, index, tries, cycle, confirmed>>
    /\ Decided(TRUE)

StayRelayed ==
    /\ OnRelay /\ ~(MayUpgrade /\ (Gated => wg # Absent /\ Permitted))
    /\ Counted /\ Stays /\ UNCHANGED directSince
    /\ upgrade' = IF MayUpgrade /\ wg # Absent THEN [Upgrading EXCEPT !.permit = Never] ELSE upgrade
    /\ Decided(FALSE)

Check ==
    /\ at["switch"] = Idle
    /\ Ignore \/ Rest \/ FirstSeen \/ NextCandidate \/ FallBack \/ StayDirect \/ TryDirect
        \/ StayRelayed
    /\ UNCHANGED <<world, link, lock, books, wg, epSeen, candidates, handshake, probes, inFlight,
                   missed, unbridged, tried>>

-----------------------------------------------------------------------------
(* Probing before an upgrade *)

Moved == IF at["switch"].moved THEN [do |-> "reapply"] ELSE Idle

ProbeDue ==
    /\ inFlight < MaxProbes
    /\ Present /\ relayed /\ Eligible /\ OlderThan(relaySince, UpgradeRetry)
    /\ HandshakeIsFresh(relaySince) \/ (progress < LivenessWindow /\ progress < relaySince)
    /\ ~Upgrading.probing /\ Upgrading.wait = 0
    /\ Upgrading.permit = Never \/ Upgrading.permit > PermitLifetime

\* startDueDiscoUpgradeProbes, at the end of a round of the switch loop.
StartProbes ==
    LET id == Min((1 .. MaxProbes + 1) \ {a.id : a \in probes})
        looks == Flag("disco") /\ ~Force /\ bridge # Nil
    IN
    /\ at["switch"].do = "start"
    /\ IF looks /\ ProbeDue
       THEN /\ upgrade' = [Upgrading EXCEPT !.attempt = id, !.probing = TRUE, !.permit = Never,
                                            !.wait = ProbeRetry]
            /\ inFlight' = inFlight + 1
            /\ probes' = probes \cup {[id |-> id, fingerprint |-> Upgrading.fingerprint, cycle |-> cycle]}
       ELSE /\ upgrade' = IF looks /\ ~Present /\ upgrade # NoUpgrade /\ ~upgrade.probing
                          THEN NoUpgrade ELSE upgrade
            /\ UNCHANGED <<inFlight, probes>>
    /\ Goto("switch", Moved)
    /\ UNCHANGED <<world, link, lock, books, wg, verdict, peerPath, traffic, history>>

\* finishDiscoUpgradeProbe's first test: the answer belongs to the record.
Answers(a) ==
    /\ upgrade # NoUpgrade
    /\ upgrade.attempt = a.id /\ upgrade.fingerprint = a.fingerprint /\ upgrade.cycle = a.cycle

\* Its second: the record is still about the peer as it is.
StillWanted(a) ==
    /\ Present /\ relayed /\ Eligible
    /\ Fingerprint(Peer) = a.fingerprint /\ cycle = a.cycle

\* Mutant: only an answer that still counts is taken off the count.
FinishProbe_KeepsCount(a) ==
    /\ probes' = probes \ {a}
    /\ inFlight' = IF inFlight > 0 /\ Answers(a) THEN inFlight - 1 ELSE inFlight
    /\ \E success \in BOOLEAN :
        /\ success => works \cap a.fingerprint[2] # {}
        /\ proofs' = proofs
        /\ upgrade' = IF Answers(a) THEN [upgrade EXCEPT !.probing = FALSE] ELSE upgrade
    /\ UNCHANGED <<world, link, lock, at, books, wg, verdict, peerPath, traffic, missed, unbridged,
                   failed, tried>>

FinishProbe(a) ==
    /\ probes' = probes \ {a}
    /\ inFlight' = IF inFlight > 0 THEN inFlight - 1 ELSE inFlight
    /\ \E success \in BOOLEAN :
        /\ success => works \cap a.fingerprint[2] # {}
        /\ proofs' = IF success THEN {x \in proofs : x.fingerprint # a.fingerprint \/ x.cycle # a.cycle}
                                     \cup {[fingerprint |-> a.fingerprint, cycle |-> a.cycle, age |-> 0]}
                     ELSE proofs
        /\ upgrade' =
            IF ~Answers(a) THEN upgrade
            ELSE IF ~StillWanted(a) THEN [upgrade EXCEPT !.probing = FALSE, !.permit = Never]
            ELSE [upgrade EXCEPT !.probing = FALSE, !.wait = ProbeRetry,
                                 !.permit = IF success THEN 0 ELSE Never]
    /\ UNCHANGED <<world, link, lock, at, books, wg, verdict, peerPath, traffic, missed, unbridged,
                   failed, tried>>

-----------------------------------------------------------------------------
(* The endpoint prober and the world *)

\* directProbeLoop's round, when no race of this peer is running.
DirectProbe ==
    /\ "probe" \in setting.ops /\ at["prober"] = Idle
    /\ Present /\ Peer.endpoints # <<>>
    /\ Refreshed(Peer)
    /\ Goto("prober", [do |-> "race", among |-> ToSet(Peer.endpoints)])
    /\ UNCHANGED <<world, link, lock, books, wg, verdict, traffic, probing, history>>

\* startExactSocketProbe: a confirmed endpoint that answers is kept; otherwise
\* the first candidate to answer is confirmed, if it still is one.
Race ==
    /\ at["prober"].do = "race"
    /\ \E c \in (works \cap at["prober"].among) \cup {0} :
        IF c = 0 \/ c \notin candidates \/ confirmed \in works
        THEN UNCHANGED confirmed /\ Goto("prober", Idle)
        ELSE /\ confirmed' = c
             /\ Goto("prober", IF confirmed # c THEN [do |-> "reapply"] ELSE Idle)
    /\ UNCHANGED <<world, link, lock, books, wg, verdict, candidates, traffic, probing, history>>

\* Bytes of the peer arrive over the configured endpoint.
Hear ==
    /\ "hear" \in setting.ops
    /\ \/ wg.kind = "direct" /\ wg.to \in works /\ heard' = heard \cup {"direct"}
       \/ wg.kind = "relay" /\ client[wg.to] = "up" /\ wg.to \in open /\ heard' = heard \cup {"relay"}
    /\ handshake' \in {handshake, 0}
    /\ UNCHANGED <<world, link, lock, at, books, wg, verdict, peerPath, probing, history>>

Tick ==
    /\ directSince' = Later(directSince, DirectCap)
    /\ relaySince' = Later(relaySince, UpgradeRetry + 1)
    /\ progress' = Later(progress, NoProgress) /\ handshake' = Later(handshake, NoHandshake)
    /\ upgrade' = IF upgrade = NoUpgrade THEN upgrade
                  ELSE [upgrade EXCEPT !.permit = Later(@, PermitLifetime + 1),
                                       !.wait = IF @ = 0 THEN 0 ELSE @ - 1]
    /\ proofs' = {[x EXCEPT !.age = @ + 1] : x \in {y \in proofs : y.age < PermitLifetime}}
    /\ failed' = IF failed.left <= 1 THEN NoFailure ELSE [failed EXCEPT !.left = @ - 1]
    /\ UNCHANGED <<world, link, lock, at, books, wg, relayed, epSeen, index, tries, cycle, peerPath,
                   heard, probes, inFlight, missed, unbridged, tried>>

Spends(op) == op \in setting.ops /\ budget > 0 /\ budget' = budget - 1

Drop(b) ==
    /\ client[b] = "up" /\ Spends("drop")
    /\ client' = [client EXCEPT ![b] = "broken"]
    /\ UNCHANGED <<setting, works, relaysUp, bridge, spec, dialing, open, allowed, lock, at, books, wg,
                   verdict, peerPath, traffic, probing, history>>

\* A relay goes, with the connections to it, or comes back.
RelayFlips(r) ==
    /\ Spends("relay")
    /\ IF r \in relaysUp
       THEN relaysUp' = relaysUp \ {r} /\ client' = Superseded(r)
       ELSE relaysUp' = relaysUp \cup {r} /\ UNCHANGED client
    /\ UNCHANGED <<setting, works, bridge, spec, dialing, open, allowed, lock, at, books, wg,
                   verdict, peerPath, traffic, probing, history>>

DirectFlips(c) ==
    /\ Spends("direct")
    /\ works' = IF c \in works THEN works \ {c} ELSE works \cup {c}
    /\ UNCHANGED <<setting, relaysUp, link, lock, at, books, wg, verdict, peerPath, traffic, probing,
                   history>>

-----------------------------------------------------------------------------
Step(t) ==
    \/ Dial(t) \/ Close(t) \/ Reapply(t)
    \/ Begin(t) \/ Read(t) \/ Endpoint(t) \/ Engine(t) \/ Commit(t) \/ Publish(t)
    \/ Rotate(t) \/ Redial(t) \/ End(t)

Next ==
    \/ \E t \in Threads : Step(t) \/ Fail(t)
    \/ \E b \in Bridges : Disconnected(b) \/ Drop(b)
    \/ Deliver \/ Reconnect \/ Check \/ StartProbes \/ DirectProbe \/ Race
    \/ \E a \in probes : FinishProbe(a)
    \/ Hear \/ Tick
    \/ \E r \in UNION {ToSet(Map(v).relays) : v \in DOMAIN setting.maps} : RelayFlips(r)
    \/ \E c \in UNION {ToSet(Map(v).endpoints) : v \in DOMAIN setting.maps} : DirectFlips(c)

Spec == Init /\ [][Next]_vars

\* Goroutines run, time passes, and a session delivers; nothing else must happen.
FairSpec ==
    /\ Spec
    /\ \A t \in Threads : WF_vars(Step(t))
    /\ \A b \in Bridges : WF_vars(Disconnected(b))
    /\ WF_vars(Deliver) /\ WF_vars(Reconnect) /\ WF_vars(Check) /\ WF_vars(StartProbes)
    /\ WF_vars(Race) /\ WF_vars(Tick)

-----------------------------------------------------------------------------
(* Properties *)

Endpoints == {Absent, NoEndpoint} \cup [kind : {"direct"}, to : Nat] \cup [kind : {"relay"}, to : Bridges]

\* Types; only the lock's holder is inside a transaction; at most one dial.
TypeOK ==
    /\ bridge \in Bridges \cup {Nil} /\ dialing \in BOOLEAN /\ relayed \in BOOLEAN
    /\ client \in [Bridges -> {"none", "up", "broken", "ended", "closed"}]
    /\ open \subseteq Bridges /\ allowed \subseteq Bridges
    /\ lock \in Threads \cup {Nobody} /\ lastMap \in 0 .. Len(setting.maps)
    /\ wg \in Endpoints /\ heard \subseteq {"direct", "relay"}
    /\ directSince \in 0 .. DirectCap \cup {Never}
    /\ relaySince \in 0 .. UpgradeRetry + 1 \cup {Never}
    /\ progress \in 0 .. NoProgress /\ handshake \in 0 .. NoHandshake
    /\ \A t \in Threads : at[t].do \in {"read", "endpoint", "engine", "commit", "publish", "rotate",
                                         "redial", "end", "again"} => lock = t
    /\ Cardinality({t \in Threads : at[t].do = "dial"}) = IF dialing THEN 1 ELSE 0

BeingClosed == {at[t].closing : t \in {u \in Threads : at[u].do = "close"}}

\* A client still connected, or a bridge with its sockets, is the current one or
\* about to be closed (clearBridgeLocked's rotation leak).
NoneLeaked ==
    \A b \in Bridges :
        client[b] \in {"up", "broken", "ended"} \/ b \in open => b = bridge \/ b \in BeingClosed

\* Only a drop, a rotation or a rolled back netmap takes a connected client: no
\* late callback and no second dial does (onRelayDisconnect's reconnect storm).
LiveKept ==
    [][\A b \in Bridges : client[b] = "up" =>
          \/ client'[b] = "up" \/ budget' < budget
          \/ \E t \in Threads : at[t].do = "close" /\ at[t].closing = b /\ at[t].next \in {"redial", "end"}]_vars

\* -force-relay never lets a direct endpoint into the engine.
ForceNeverDirect == Force => wg.kind # "direct"

\* Nothing is in progress and no bridge has a callback to make.
Quiet ==
    /\ lock = Nobody /\ \A t \in Threads : at[t] = Idle
    /\ \A b \in Bridges : client[b] \in {"none", "up"}

\* What the verdict, the link and the last netmap call for.
Wanted ==
    IF ~Peer.member THEN {Absent}
    ELSE IF bridge # Nil /\ (Force \/ relayed \/ Peer.endpoints = <<>>) THEN {Via(bridge)}
    ELSE IF Force \/ Peer.endpoints = <<>> THEN {NoEndpoint}
    ELSE {Direct(c) : c \in ToSet(Peer.endpoints)}

\* The engine has what the verdict, the link and the netmap call for, once
\* everyone who changed one of them has finished.
Programmed == Quiet /\ lastMap > 0 => wg \in Wanted
ProgrammedUnlessMissed == ~missed => Programmed

\* A peer that left the netmap is not admitted by the current bridge
\* (RetainPeers), also when the next netmap fails.
MembersOnly ==
    Quiet /\ bridge \in allowed /\ ~unbridged => Present

\* Probes in flight are counted and bounded, and none is awaited that is not in
\* flight (finishDiscoUpgradeProbe's order of tests).
ProbesCounted ==
    /\ inFlight = Cardinality(probes) /\ inFlight <= MaxProbes
    /\ upgrade # NoUpgrade /\ upgrade.probing =>
          \E a \in probes : a.id = upgrade.attempt /\ a.fingerprint = upgrade.fingerprint

\* A gated trial of the direct path rests on a probe of the same endpoints that
\* succeeded in the same relay cycle, a permit's lifetime ago at most and used by
\* no other trial.
TrialLicensed ==
    [][(relayed /\ ~relayed' /\ lock' = lock /\ at["switch"] = Idle /\ at["switch"]' # Idle /\ Gated)
          => \E x \in proofs : x.fingerprint = Fingerprint(Peer) /\ x.cycle = cycle]_vars

\* After a failed trial nothing probes the same endpoints for a backoff.
BackoffKept ==
    [][\A a \in probes' \ probes : a.fingerprint # failed.fingerprint]_vars

\* A peer is given to the relay only when each of its candidates has been in the
\* engine since they were advertised.
EveryCandidateTried ==
    [][(~relayed /\ relayed' /\ ~missed /\ "probe" \notin setting.ops /\ epSeen = Peer.endpoints)
          => ToSet(Peer.endpoints) \subseteq tried]_vars

\* A trial is proven by bytes of the direct path
\* (src/internal/daemon/daemon.go:2390).
ProvenByDirect ==
    [][(Evidence /\ upgrade'.failures = 0 /\ ~upgrade'.trial /\ heard # {}) => "direct" \in heard]_vars

\* A peer whose direct path is dead is, again and again, on the relay while one
\* is connected.
RelayServes ==
    []<>(\/ ~Present \/ Rests \/ missed \/ bridge = Nil
         \/ works \cap ToSet(Peer.endpoints) # {}
         \/ wg = Via(bridge))

\* The books of the link and of the probes: no socket, member or probe that
\* nobody accounts for (ensureRelay, clearBridgeLocked, finishDiscoUpgradeProbe).
LinkSound == TypeOK /\ NoneLeaked /\ MembersOnly /\ ProbesCounted

\* The engine carries what was decided, and nothing that was forbidden
\* (applyNetmapLocked's choice of endpoints).
EngineFollows == ForceNeverDirect /\ ProgrammedUnlessMissed

\* A path is changed on evidence: a trial on a probe of its own endpoints, a new
\* probe after the backoff, the relay after every candidate (relaySwitchLoop).
TrialsEarned == TrialLicensed /\ BackoffKept /\ EveryCandidateTried
=============================================================================
