----------------------------- MODULE Diagnosis -----------------------------
(***************************************************************************)
(* One run of the Network Doctor: the bounded concurrent probe runner      *)
(* (internal/diagnose/doctor.go), what each probe reports of the world it  *)
(* observes (probes_*.go), the active path-MTU prober                      *)
(* (internal/doctorplatform/pathmtu.go), the report and the dry-run plan.  *)
(*                                                                         *)
(* A probe is a goroutine holding a slot of the Doctor's live budget; the  *)
(* runOne that spawned it waits for its result or for its deadline, and    *)
(* may leave it behind.  Time exists only inside the path-MTU prober,      *)
(* which spends its own deadline; every other deadline may fire at any     *)
(* moment.                                                                 *)
(***************************************************************************)
EXTENDS RouteCoverage, RepairCatalog

CONSTANTS Instances,  \* [setting, world]: what is registered and asked for, how its
                      \* probes behave and what deadlines fire; and what they look at
          Nil

VARIABLES setting, world,
          run,         \* runs started on this Doctor
          phase,       \* "idle", "running", "reported"
          wait,        \* per probe: "off", "start", "wait", "done"
          expired,     \* per probe: its context has fired
          live,        \* goroutines: [run, probe, sent], each holding a slot
          inbox,       \* per probe: the result in its buffered channel
          outcome,     \* per probe: what runOne returned
          mtu,         \* the path-MTU prober's progress
          report, plan

vars == <<setting, world, run, phase, wait, expired, live, inbox, outcome, mtu, report, plan>>

ProbeTimeout == 8000            \* DefaultConfig().ProbeTimeout, ms
OverallTimeout == 15000         \* pathMTUOverallTimeout
PerProbeBudget == 1200 + 120    \* pathMTUProbeTimeout and its scheduling slack
Samples == 3
MaxCandidates == 12
MaxCommands == 40
SafeFloor == 1280
SearchLow == 1200
StandardHigh == 1500

-----------------------------------------------------------------------------
(* The report's vocabulary. *)

Alarms == {"coordinator.unreachable", "coordinator.tls_error", "coordinator.unhealthy",
           "relay.unreachable", "relay.none_reachable",
           "exit.handshake_stale", "exit.route_missing", "exit.egress_blocked", "exit.egress_not_tested",
           "wireguard.interface_down", "wireguard.no_peers", "wireguard.handshake_stale",
           "wireguard.receive_stalled", "wireguard.counters_stalled",
           "mtu.probe_error", "mtu.suboptimal", "mtu.too_low",
           "dns.timeout", "dns.no_answer", "dns.poison_suspected",
           "ipv4.unreachable", "ipv6.unreachable", "ipv6.leak_risk",
           "routes.default_missing", "routes.exit_default_absent", "routes.physical_fallback",
           "media.intermittent", "media.target_unreachable", "media.path_unreachable",
           "media.https_fallback_failed",
           "probe.error", "probe.timeout", "probe.panic"}

Completed(codes) == [status |-> "completed", codes |-> codes, worked |-> TRUE]
Framework(status, code) == [status |-> status, codes |-> {code}, worked |-> FALSE]
TimedOut == Framework("timeout", "probe.timeout")

-----------------------------------------------------------------------------
(* What each probe reports of the world it sees.                           *)

CoordinatorCodes(w) ==
  {CASE w.coordinator = "none"      -> "coordinator.not_configured"
     [] w.coordinator = "down"      -> "coordinator.unreachable"
     [] w.coordinator = "tls"       -> "coordinator.tls_error"
     [] w.coordinator = "unhealthy" -> "coordinator.unhealthy"
     [] OTHER                       -> "coordinator.ok"}

RelayCodes(w) ==
  IF w.relays = {} THEN {"relay.none_configured"}
  ELSE (IF w.relays \subseteq w.relaysUp THEN {} ELSE {"relay.unreachable"}) \union
       (IF w.relays \intersect w.relaysUp = {} THEN {"relay.none_reachable"} ELSE {"relay.ok"})

\* Mutant: an exit whose egress nobody tested is healthy.
ExitCodes_Untested(w) ==
  LET e == w.exit
      faults == (IF e.stale THEN {"exit.handshake_stale"} ELSE {}) \union
                (IF e.route THEN {} ELSE {"exit.route_missing"})
  IN  CASE ~e.selected            -> {"exit.not_selected"}
        [] faults # {}            -> faults
        [] e.canary = "blocked"   -> {"exit.egress_blocked"}
        [] OTHER                  -> {"exit.ok"}

\* Live egress is tried only through a tunnel that looks usable.
ExitCodes(w) ==
  LET e == w.exit
      faults == (IF e.stale THEN {"exit.handshake_stale"} ELSE {}) \union
                (IF e.route THEN {} ELSE {"exit.route_missing"})
  IN  CASE ~e.selected            -> {"exit.not_selected"}
        [] faults # {}            -> faults
        [] e.canary = "none"      -> {"exit.egress_not_tested"}
        [] e.canary = "blocked"   -> {"exit.egress_blocked"}
        [] OTHER                  -> {"exit.ok"}

\* A peer is [stale, observed, window, rx, tx]: its handshake, whether a counter
\* baseline exists with traffic expected over a long enough window, and the deltas.
PeerCode(p) ==
  CASE p.stale                                              -> "wireguard.handshake_stale"
    [] p.observed /\ p.tx > 0 /\ p.rx = 0                   -> "wireguard.receive_stalled"
    [] p.observed /\ p.tx = 0 /\ p.rx = 0                   -> "wireguard.counters_stalled"
    [] OTHER                                                -> "wireguard.peer_counters"

WireGuardCodes(w) ==
  LET codes == {PeerCode(p) : p \in w.wg.peers} IN
  CASE ~w.wg.interface -> {"wireguard.not_configured"}
    [] ~w.wg.up        -> {"wireguard.interface_down"}
    [] w.wg.peers = {} -> {"wireguard.no_peers"}
    [] OTHER           -> codes \union (IF codes \subseteq {"wireguard.peer_counters"}
                                        THEN {"wireguard.ok"} ELSE {})

\* One unsafe answer in a mixed set is enough to suspect poisoning.
DNSCodes(w) ==
  LET slow == IF w.dns.slow THEN {"dns.slow"} ELSE {} IN
  CASE w.dns.result = "noResolver" -> {"dns.not_configured"}
    [] w.dns.result = "timeout"    -> {"dns.timeout"}
    [] w.dns.result = "error" \/ w.dns.answers = {} -> {"dns.no_answer"}
    [] "unsafe" \in w.dns.answers  -> {"dns.poison_suspected"} \union slow
    [] OTHER                       -> {"dns.ok"} \union slow

FamilyCodes(w, fam, unavailable, unreachable, ok) ==
  CASE fam \notin w.addresses -> {unavailable}
    [] fam \notin w.dials     -> {unreachable}
    [] OTHER                  -> {ok}

IPv4Codes(w) == FamilyCodes(w, "v4", "ipv4.unavailable", "ipv4.unreachable", "ipv4.ok")
IPv6Codes(w) == FamilyCodes(w, "v6", "ipv6.unavailable", "ipv6.unreachable", "ipv6.ok")
                \union ContainmentCodes(w.routes, w.addresses, w.exitActive)

\* A media target is [endpoint, source, trusted, good, slow, quic]: good of
\* MediaSamples ranged reads carried a real chunk.  Duplicates of an endpoint
\* are one target, trusted only if every duplicate names the same source.
MediaSamples == 5
UniqueTargets(targets) ==
  {LET same == {u \in targets : u.endpoint = e} IN
   [(CHOOSE u \in same : TRUE) EXCEPT
      !.trusted = \A u, v \in same : u.trusted /\ u.source = v.source]
     : e \in {t.endpoint : t \in targets}}

SampleCodes(t) ==
  CASE t.good = 0                    -> {"media.target_unreachable", "media.https_fallback_failed"}
    [] 10 * t.good < 8 * MediaSamples -> {"media.intermittent", "media.https_fallback_failed"}
    [] t.slow                        -> {"media.slow", "media.https_fallback_ok"}
    [] OTHER                         -> {"media.ok", "media.https_fallback_ok"}

QUICCode(t) == CASE t.quic = "ok" -> "media.quic_ok" [] t.quic = "failed" -> "media.quic_handshake_failed"
                 [] OTHER -> "media.quic_not_tested"

\* Mutant: two failed targets are two sources.
PathVerdict_CountsTargets(targets) ==
  LET dead == {t \in targets : t.good = 0} IN
  CASE dead = targets /\ Cardinality(targets) >= 2 -> {"media.path_unreachable"}
    [] Cardinality(targets) = 1 \/ dead # {}       -> {"media.evidence_inconclusive"}
    [] OTHER                                       -> {}

PathVerdict(targets) ==
  LET dead    == {t \in targets : t.good = 0}
      sources == {t.source : t \in {d \in dead : d.trusted}} IN
  CASE dead = targets /\ Cardinality(sources) >= 2 -> {"media.path_unreachable"}
    [] Cardinality(targets) = 1 \/ dead # {}       -> {"media.evidence_inconclusive"}
    [] OTHER                                       -> {}

MediaCodes(w) ==
  LET targets == UniqueTargets(w.media) IN
  IF targets = {} THEN {"media.not_configured"}
  ELSE UNION {SampleCodes(t) : t \in targets} \union {QUICCode(t) : t \in targets}
       \union PathVerdict(targets)

\* classifyMTU over a measurement (0 when only the link MTU is known).
ClassifyMTU(measured, link) ==
  LET effective == IF measured = 0 THEN link ELSE measured IN
  CASE effective < SafeFloor                              -> "mtu.too_low"
    [] measured > 0 /\ link > 0 /\ measured < link        -> "mtu.suboptimal"
    [] OTHER                                              -> "mtu.ok"

\* newDoctor narrows the search to the tunnel's link MTU.
SearchHigh(w) ==
  IF w.linkMTU >= SearchLow /\ w.linkMTU < StandardHigh THEN w.linkMTU ELSE StandardHigh

MTUCodes(w) ==
  CASE w.prober /\ mtu.result \in SearchLow..SearchHigh(w) -> {ClassifyMTU(mtu.result, w.linkMTU)}
    [] w.prober                                            -> {"mtu.probe_error"}
    [] w.linkMTU = 0                                       -> {"mtu.unknown"}
    [] OTHER                                               -> {ClassifyMTU(0, w.linkMTU)}

CodesOf(p, w) ==
  CASE p = "coordinator" -> CoordinatorCodes(w)
    [] p = "relay"       -> RelayCodes(w)
    [] p = "exit"        -> ExitCodes(w)
    [] p = "wireguard"   -> WireGuardCodes(w)
    [] p = "mtu"         -> MTUCodes(w)
    [] p = "dns"         -> DNSCodes(w)
    [] p = "ipv4"        -> IPv4Codes(w)
    [] p = "ipv6"        -> IPv6Codes(w)
    [] p = "routes"      -> RoutesCodes(w.routes, w.addresses, w.exitActive)
    [] p = "media"       -> MediaCodes(w)
    [] OTHER             -> {"framework.ok"}

-----------------------------------------------------------------------------
(* The snapshot a run works from: Capture blanks every field the operating  *)
(* system owns and could not refresh.  Linux keeps the family it could      *)
(* read; the other platforms keep no routes at all.                         *)

Observations == {"interfaces", "mtu", "routes4", "routes6"}

Observed(w, failed, platform) ==
  LET lost == {f \in Families : (IF f = "v4" THEN "routes4" ELSE "routes6") \in failed} IN
  [w EXCEPT !.addresses = IF "interfaces" \in failed THEN {} ELSE @,
            !.linkMTU   = IF failed \intersect {"interfaces", "mtu"} # {} \/ ~w.wg.interface
                          THEN 0 ELSE @,
            !.routes    = IF platform # "linux" /\ lost # {} THEN {}
                          ELSE {r \in @ : r.fam \notin lost}]

Registered == setting.registered
Unknown == setting.wanted \ Registered
Selected == IF setting.wanted = {} THEN Registered ELSE setting.wanted \intersect Registered

\* World is what is; seen is what the snapshot says of it.
Seen == Observed(world.truth, world.failed, setting.platform)

-----------------------------------------------------------------------------
(* The active path-MTU prober.                                             *)

\* The deadline the prober works under: its own, or the probe's if earlier.
Limit == IF setting.deadline < OverallTimeout THEN setting.deadline ELSE OverallTimeout

\* An evenly spaced grid; the IPv6 minimum takes the place of the nearest
\* interior candidate (the lower of two) when the grid misses it.
PathMTUCandidates(low, high) ==
  IF low = high THEN {low}
  ELSE LET count == IF high - low + 1 < MaxCandidates THEN high - low + 1 ELSE MaxCandidates
           grid  == {low + ((high - low) * i) \div (count - 1) : i \in 0..(count - 1)}
           inner == grid \ {low, high}
           far(c) == IF c > 1280 THEN c - 1280 ELSE 1280 - c
           nearest == CHOOSE c \in inner : \A d \in inner :
                        far(c) < far(d) \/ (far(c) = far(d) /\ c <= d)
       IN  IF 1280 <= low \/ 1280 >= high \/ 1280 \in grid THEN grid
           ELSE IF Cardinality(grid) < MaxCandidates THEN grid \union {1280}
           ELSE (grid \ {nearest}) \union {1280}

Idle == [stage |-> "off", left |-> {}, at |-> 0, sample |-> 0, fit |-> 0,
         best |-> 0, spent |-> 0, commands |-> 0, result |-> 0]

\* Mutant: the window of the final recheck is not kept.
HasBudget_NoReserve == Limit - mtu.spent >= Samples * PerProbeBudget

HasBudget == Limit - mtu.spent >= Samples * PerProbeBudget + Samples * PerProbeBudget

\* Mutant: an inconclusive sample counts as one that fits.
Quorum_Lossy(fit) == fit >= 0

Quorum(fit) == fit >= Samples \div 2 + 1

Working(p) == \E g \in live : g.run = run /\ g.probe = p /\ ~g.sent

\* Resolve the destination once; the literal target needs no lookup.
Resolve ==
  /\ Working("mtu") /\ Seen.prober /\ mtu.stage = "off"
  /\ \E cost \in IF Seen.target = "literal" THEN {0} ELSE setting.lookups :
       mtu' = [mtu EXCEPT !.spent = cost,
                          !.stage = IF cost >= Limit THEN "done" ELSE "scan",
                          !.left  = PathMTUCandidates(SearchLow, SearchHigh(Seen))]
  /\ expired' = [expired EXCEPT !["mtu"] = @ \/ mtu'.spent >= setting.deadline]
  /\ UNCHANGED <<setting, world, run, phase, wait, live, inbox, outcome, report, plan>>

\* Take the next candidate, or stop scanning and recheck the best.
PickCandidate ==
  /\ mtu.stage = "scan"
  /\ IF mtu.left # {} /\ HasBudget
     THEN LET next == CHOOSE c \in mtu.left : \A d \in mtu.left : c <= d IN
          mtu' = [mtu EXCEPT !.stage = "probe", !.at = next, !.left = @ \ {next},
                             !.sample = 0, !.fit = 0]
     ELSE mtu' = [mtu EXCEPT !.stage = IF mtu.best = 0 THEN "done" ELSE "recheck",
                             !.at = mtu.best, !.sample = 0, !.fit = 0]
  /\ UNCHANGED <<setting, world, run, phase, wait, expired, live, inbox, outcome, report, plan>>

\* What three samples of a candidate say.
Verdict(m) ==
  CASE m.stage = "probe"  -> [m EXCEPT !.stage = "scan", !.best = IF Quorum(m.fit) THEN m.at ELSE @]
    [] OTHER -> [m EXCEPT !.stage = "done", !.result = IF Quorum(m.fit) THEN m.at ELSE 0]

\* One ping: it fits, is lost or refused, or cannot be run at all.  A packet
\* larger than the path never fits.
Ping ==
  /\ mtu.stage \in {"probe", "recheck"}
  /\ \E p \in setting.pings :
       /\ p.kind = "fit" => mtu.at <= world.truth.pathMTU
       /\ LET m == [mtu EXCEPT !.spent = @ + p.cost, !.commands = @ + 1, !.sample = @ + 1,
                               !.fit = @ + (IF p.kind = "fit" THEN 1 ELSE 0)] IN
          mtu' = CASE mtu.commands >= MaxCommands -> [mtu EXCEPT !.stage = "done"]
                   [] m.spent >= Limit \/ p.kind = "broken" -> [m EXCEPT !.stage = "done"]
                   [] m.sample < Samples -> m
                   [] OTHER -> Verdict(m)
  /\ expired' = [expired EXCEPT !["mtu"] = @ \/ mtu'.spent >= setting.deadline]
  /\ UNCHANGED <<setting, world, run, phase, wait, live, inbox, outcome, report, plan>>

MTUStep == Resolve \/ PickCandidate \/ Ping

-----------------------------------------------------------------------------
(* The runner.                                                             *)

\* The slots of the Doctor's budget are held by goroutines, orphans included.
StartRun ==
  /\ phase \in {"idle", "reported"} /\ run < setting.runs
  /\ run' = run + 1 /\ phase' = "running"
  /\ wait' = [p \in Registered |-> CASE p \notin Selected -> "off"
                                     [] setting.nilContext -> "done"
                                     [] OTHER -> "start"]
  /\ outcome' = [p \in Registered |-> IF p \in Selected /\ setting.nilContext
                                      THEN Framework("error", "probe.error") ELSE Nil]
  /\ expired' = [p \in Registered |-> FALSE]
  /\ inbox' = [p \in Registered |-> Nil]
  /\ mtu' = Idle /\ report' = Nil /\ plan' = {}
  /\ UNCHANGED <<setting, world, live>>

\* Mutant: the budget is not asked.
HasSlot_Always == TRUE

HasSlot == Cardinality(live) < setting.budget

\* runOne takes a slot and spawns the probe, or refuses it at once.
Spawn(p) ==
  /\ wait[p] = "start"
  /\ IF HasSlot
     THEN /\ live' = live \union {[run |-> run, probe |-> p, sent |-> FALSE]}
          /\ wait' = [wait EXCEPT ![p] = "wait"] /\ UNCHANGED outcome
     ELSE /\ outcome' = [outcome EXCEPT ![p] = Framework("error", "probe.error")]
          /\ wait' = [wait EXCEPT ![p] = "done"] /\ UNCHANGED live
  /\ UNCHANGED <<setting, world, run, phase, expired, inbox, mtu, report, plan>>

\* What the probe's goroutine sends: its own result, a panic the wrapper caught,
\* a status it set itself, or the empty result of a probe that bailed out.
Result(p) ==
  LET habit == setting.habit[p] IN
  CASE habit = "panic" -> Framework("panic", "probe.panic")
    [] habit = "self"  -> TimedOut
    [] habit = "bail"  -> [status |-> "completed", codes |-> {}, worked |-> FALSE]
    [] OTHER           -> Completed(CodesOf(p, Seen))

MayFinish(g) ==
  CASE setting.habit[g.probe] = "bail" -> g.run < run \/ expired[g.probe]
    [] g.probe = "mtu" /\ Seen.prober  -> g.run < run \/ mtu.stage = "done"
    [] OTHER                           -> TRUE

\* The result goes to the buffered channel of the run that spawned the probe.
Finish(g) ==
  /\ g \in live /\ ~g.sent /\ MayFinish(g)
  /\ live' = (live \ {g}) \union {[g EXCEPT !.sent = TRUE]}
  /\ inbox' = IF g.run = run THEN [inbox EXCEPT ![g.probe] = Result(g.probe)] ELSE inbox
  /\ UNCHANGED <<setting, world, run, phase, wait, expired, outcome, mtu, report, plan>>

\* The slot comes back after the result is sent.
Release(g) ==
  /\ g \in live /\ g.sent
  /\ live' = live \ {g}
  /\ UNCHANGED <<setting, world, run, phase, wait, expired, inbox, outcome, mtu, report, plan>>

\* The deadline of a probe, or its caller's; the prober spends its own.
Expire(p) ==
  /\ wait[p] = "wait" /\ ~expired[p] /\ setting.timers /\ (p = "mtu" => ~Seen.prober)
  /\ expired' = [expired EXCEPT ![p] = TRUE]
  /\ UNCHANGED <<setting, world, run, phase, wait, live, inbox, outcome, mtu, report, plan>>

\* Mutant: whatever arrives first is believed.
TrustworthyOnExpiry_All(status) == TRUE

TrustworthyOnExpiry(status) == status \in {"panic", "timeout", "error"}

\* The select takes the result.
Take(p) ==
  /\ wait[p] = "wait" /\ inbox[p] # Nil
  /\ outcome' = [outcome EXCEPT ![p] = IF expired[p] /\ ~TrustworthyOnExpiry(inbox[p].status)
                                       THEN TimedOut ELSE inbox[p]]
  /\ wait' = [wait EXCEPT ![p] = "done"]
  /\ UNCHANGED <<setting, world, run, phase, expired, live, inbox, mtu, report, plan>>

\* Mutant: a probe that is given up on leaves no result.
GiveUp_Silent(p) ==
  /\ wait[p] = "wait" /\ expired[p]
  /\ wait' = [wait EXCEPT ![p] = "done"]
  /\ UNCHANGED <<setting, world, run, phase, expired, live, inbox, outcome, mtu, report, plan>>

\* Mutant: only the result is waited for.
GiveUp_Never(p) == wait[p] = "off" /\ UNCHANGED vars

\* The select takes the deadline, and the goroutine is left behind.
GiveUp(p) ==
  /\ wait[p] = "wait" /\ expired[p]
  /\ outcome' = [outcome EXCEPT ![p] = TimedOut]
  /\ wait' = [wait EXCEPT ![p] = "done"]
  /\ UNCHANGED <<setting, world, run, phase, expired, live, inbox, mtu, report, plan>>

\* measuredPathMTU: only a completed probe's own measurement, inside the window.
MeasuredPathMTU ==
  IF /\ "mtu" \in Selected /\ outcome["mtu"].status = "completed" /\ Seen.prober
     /\ mtu.result \in SearchLow..SearchHigh(Seen)
  THEN mtu.result ELSE 0

PlanEnv ==
  [resolver |-> Seen.dns.result # "noResolver", interface |-> Seen.wg.interface,
   exitSelected |-> Seen.exit.selected, relays |-> Cardinality(Seen.relays),
   coordinator |-> Seen.coordinator # "none", linkMTU |-> Seen.linkMTU,
   pathMTU |-> MeasuredPathMTU]

PlanOf(codes) == {[action |-> a, applicable |-> Applicable(a, PlanEnv)]
                    : a \in {b \in Actions : Fixes(b) \intersect codes # {}}}

\* Mutant: an unknown probe id is quietly dropped.
FrameworkCodes_Quiet == IF Selected = {} THEN {"probe.error"} ELSE {}

\* An unknown id, or nothing to run, is never silence.
FrameworkCodes == IF Unknown # {} \/ Selected = {} THEN {"probe.error"} ELSE {}

\* Every runOne has returned: the report and the plan are built from their results.
Report ==
  /\ phase = "running" /\ \A p \in Selected : wait[p] = "done"
  /\ LET codes == UNION {outcome[p].codes : p \in Selected} \union FrameworkCodes IN
     /\ report' = [ok |-> codes \intersect Alarms = {}, codes |-> codes]
     /\ plan' = PlanOf(codes)
  /\ phase' = "reported"
  /\ UNCHANGED <<setting, world, run, wait, expired, live, inbox, outcome, mtu>>

Runner == StartRun \/ Report \/ \E p \in Registered : Spawn(p) \/ Expire(p) \/ Take(p) \/ GiveUp(p)
Probes == \E g \in live : Finish(g) \/ Release(g)

Init ==
  /\ \E i \in Instances : setting = i.setting /\ world = i.world
  /\ run = 0 /\ phase = "idle" /\ live = {} /\ mtu = Idle
  /\ wait = [p \in Registered |-> "off"] /\ expired = [p \in Registered |-> FALSE]
  /\ inbox = [p \in Registered |-> Nil] /\ outcome = [p \in Registered |-> Nil]
  /\ report = Nil /\ plan = {}

Next == Runner \/ Probes \/ MTUStep

Spec == Init /\ [][Next]_vars

\* The runner's goroutines and timers make progress; a probe need not, unless it
\* is the prober, which keeps its own deadline, or no deadline is watched.
FairSpec ==
  /\ Spec /\ WF_vars(Runner) /\ WF_vars(MTUStep)
  /\ WF_vars(\E g \in live : (g.probe = "mtu" \/ ~setting.timers) /\ Finish(g))

-----------------------------------------------------------------------------
(* Properties.                                                             *)

\* The variables range over what the runner, the prober and the report can hold.
TypeOK ==
  /\ phase \in {"idle", "running", "reported"} /\ run \in 0..setting.runs
  /\ \A p \in Registered :
       /\ wait[p] \in {"off", "start", "wait", "done"} /\ expired[p] \in BOOLEAN
       /\ \A r \in {inbox[p], outcome[p]} : r # Nil => r.status \in {"completed", "timeout", "panic", "error"}
       /\ wait[p] = "done" <=> outcome[p] # Nil
  /\ \A g \in live : g.run \in 1..run /\ g.probe \in Registered /\ g.sent \in BOOLEAN
  /\ mtu.stage \in {"off", "scan", "probe", "recheck", "done"}
  /\ mtu.fit <= mtu.sample /\ mtu.sample <= Samples /\ mtu.commands <= MaxCommands
  /\ (phase = "reported") <=> (report # Nil)

\* However many probes hang, over however many runs of the same Doctor, the
\* goroutines left alive never exceed the budget (doctor.go:330-339).
LiveWithinBudget == Cardinality(live) <= setting.budget

\* A probe that bailed out because its context fired is never reported as
\* completed, whichever of the two the select picked (doctor.go:445-455).
CompletedIsReal ==
  \A p \in Registered : outcome[p] # Nil /\ outcome[p].status = "completed" => outcome[p].worked

\* A green report means that every probe asked for is known, was run and completed.
GreenMeansAllRan ==
  phase = "reported" /\ report.ok =>
    /\ Unknown = {} /\ Selected # {}
    /\ \A p \in Selected : outcome[p].status = "completed"

\* What is wrong with the world, in terms of the world alone.
Faulty(p, w) ==
  CASE p = "coordinator" -> w.coordinator \notin {"none", "ok"}
    [] p = "relay"       -> ~(w.relays \subseteq w.relaysUp)
    [] p = "exit"        -> w.exit.selected /\ (w.exit.stale \/ ~w.exit.route \/ w.exit.canary # "ok")
    [] p = "wireguard"   -> w.wg.interface /\ (~w.wg.up \/ w.wg.peers = {} \/ \E q \in w.wg.peers : q.stale)
    [] p = "mtu"         -> w.prober /\ w.pathMTU < (IF w.linkMTU > 0 THEN w.linkMTU ELSE SafeFloor)
    [] p = "dns"         -> w.dns.result \in {"timeout", "error"} \/ (w.dns.result = "answered" /\ w.dns.answers # {"safe"})
    [] p = "ipv4"        -> "v4" \in w.addresses \ w.dials
    [] p = "ipv6"        -> \/ "v6" \in w.addresses \ w.dials
                            \/ w.exitActive /\ "v6" \in w.addresses /\ EachAddress(w.routes, "v6") = "escape"
    [] p = "routes"      -> \/ w.exitActive /\ EachAddress(w.routes, "v4") # "contained"
                            \/ \E f \in w.addresses : ~Reached(w.routes, f)
    [] p = "media"       -> \E t \in w.media : \A u \in w.media : u.endpoint = t.endpoint => 10 * u.good < 8 * MediaSamples
    [] OTHER             -> FALSE

\* A green report over a complete snapshot means that nothing the probes look at is broken.
GreenIsHealthy ==
  phase = "reported" /\ report.ok /\ world.failed = {} =>
    \A p \in Selected : ~Faulty(p, world.truth)

\* The trie walk of the doctor agrees with longest-prefix match on every address,
\* and its completeness check with "some route matches every address".
CoverageAgrees ==
  phase = "reported" => \A fam \in Families :
    /\ DefaultCoverage(world.truth.routes, fam) = EachAddress(world.truth.routes, fam)
    /\ HasCompleteDefault(world.truth.routes, fam) <=> Reached(world.truth.routes, fam)

\* The path is condemned as a whole only on the word of two sources whose every
\* target was dead, and of no living target (probes_inet.go:193-203).
PathVerdictEarned ==
  phase = "reported" /\ "media.path_unreachable" \in report.codes =>
    /\ \A t \in world.truth.media : t.good = 0
    /\ \E t, u \in world.truth.media : t.trusted /\ u.trusted /\ t.source # u.source

\* A prober that has found a candidate always gets to recheck it: the time and the
\* command budget the scan leaves are enough (pathmtu.go:216-219).
RecheckReachable ==
  mtu.stage = "recheck" =>
    /\ Limit - mtu.spent >= (Samples - mtu.sample) * PerProbeBudget
    /\ MaxCommands - mtu.commands >= Samples - mtu.sample

\* A repair plan offers to lower the MTU only when that lowers it and the path
\* really carries the floor (repair.go:205-235, doctor.go:97-113).
LoweringIsSafe ==
  [action |-> "lowerMTU", applicable |-> TRUE] \in plan =>
    RepairFloorMTU <= world.truth.pathMTU /\ RepairFloorMTU < world.truth.linkMTU

\* A run always returns, whatever its probes do (doctor.go:67-70).
RunEnds == phase = "running" ~> phase = "reported"

\* code.go:137: mtu.too_low is "path MTU is below the safe floor".
TooLowIsTrue ==
  phase = "reported" /\ "mtu.too_low" \in report.codes => world.truth.pathMTU < SafeFloor

\* The runner and the prober keep within their means and what they return is what
\* was found (doctor.go's runOne, pathmtu.go's scan).
RunnerSound == TypeOK /\ LiveWithinBudget /\ CompletedIsReal /\ RecheckReachable

\* What the report says of the world, and the plan makes of it, is so
\* (Report.OK, the probes, the dry-run planner).
VerdictsEarned == GreenMeansAllRan /\ GreenIsHealthy /\ PathVerdictEarned /\ LoweringIsSafe
=============================================================================
