---------------------------- MODULE MCDiagnosis ----------------------------
(***************************************************************************)
(* Instances of Diagnosis: each setting asks one question of one run, with *)
(* the worlds that tell its answers apart.                                 *)
(***************************************************************************)
EXTENDS Diagnosis

AllProbes == {"coordinator", "relay", "exit", "wireguard", "mtu", "dns", "ipv4", "ipv6", "routes", "media"}

Route(fam, dst, kind) == [fam |-> fam, dst |-> dst, kind |-> kind]
Physical == {Route("v4", <<>>, "physical"), Route("v6", <<>>, "physical")}
Split == {Route(f, <<b>>, "tunnel") : f \in Families, b \in {0, 1}}

Healthy ==
  [coordinator |-> "ok", relays |-> {1, 2}, relaysUp |-> {1, 2},
   exit |-> [selected |-> TRUE, stale |-> FALSE, route |-> TRUE, canary |-> "ok"],
   exitActive |-> TRUE,
   wg |-> [interface |-> TRUE, up |-> TRUE,
           peers |-> {[stale |-> FALSE, observed |-> TRUE, rx |-> 1, tx |-> 1]}],
   dns |-> [result |-> "answered", answers |-> {"safe"}, slow |-> FALSE],
   addresses |-> {"v4", "v6"}, dials |-> {"v4", "v6"}, routes |-> Physical \union Split,
   media |-> {}, linkMTU |-> 1420, pathMTU |-> 1500, prober |-> FALSE, target |-> "literal"]

World(truth) == [truth |-> truth, failed |-> {}]

S(registered) ==
  [registered |-> registered, wanted |-> {}, habit |-> [p \in registered |-> "real"],
   budget |-> 64, runs |-> 1, nilContext |-> FALSE, platform |-> "linux", timers |-> FALSE,
   deadline |-> ProbeTimeout, lookups |-> {20}, pings |-> {}]

Over(s, worlds) == {[setting |-> s, world |-> w] : w \in worlds}

\* Every table of at most two routes on three levels, of at most four on two.
RoutesOn(levels, kinds) == {Route("v4", p, k) : p \in {q \in Prefixes : Len(q) <= levels}, k \in kinds}
TwoDeep == {{a, b} : a, b \in RoutesOn(3, {"physical", "tunnel", "garbage"})}
FourShallow == {{a, b, c, d} : a, b, c, d \in RoutesOn(2, {"legacyPhysical", "blackhole"})}
OddThree == {{a, b, c} : a, b, c \in RoutesOn(2, {"physical", "legacyTunnel", "garbage"})}
Tables == {{}} \union TwoDeep \union FourShallow \union OddThree

RouteWorlds == {World([Healthy EXCEPT !.routes = t, !.addresses = {"v4"}]) : t \in Tables}
SixTables == {{Route("v6", r.dst, r.kind) : r \in t} :
                t \in {{a, b, c} : a, b, c \in RoutesOn(1, {"physical", "tunnel", "garbage"})}}
SixWorlds == {World([Healthy EXCEPT !.routes = t \union {q \in Physical \union Split : q.fam = "v4"},
                                    !.exitActive = x, !.addresses = a, !.dials = d])
                : t \in SixTables, x \in BOOLEAN, a \in {{}, {"v4"}, {"v4", "v6"}}, d \in {{"v4"}, {"v4", "v6"}}}

\* What a partial capture hides.
PartialWorlds == {[truth |-> [Healthy EXCEPT !.routes = t, !.prober = FALSE], failed |-> f]
                    : t \in {Physical, Split, Physical \union Split}, f \in SUBSET Observations}

ControlWorlds ==
  {World([Healthy EXCEPT !.coordinator = c, !.relays = r, !.relaysUp = u])
     : c \in {"none", "down", "tls", "unhealthy", "ok"}, r \in SUBSET {1, 2}, u \in SUBSET {1, 2}}
ExitWorlds ==
  {World([Healthy EXCEPT !.exit = [selected |-> s, stale |-> t, route |-> r, canary |-> c]])
     : s, t, r \in BOOLEAN, c \in {"none", "ok", "blocked"}}
WireGuardWorlds ==
  {World([Healthy EXCEPT !.wg = [interface |-> i, up |-> u, peers |-> ps]])
     : i, u \in BOOLEAN, ps \in {{}} \union {{p, q} : p, q \in [stale : BOOLEAN, observed : BOOLEAN, rx : {0, 1}, tx : {0, 1}]}}
DNSWorlds ==
  {World([Healthy EXCEPT !.dns = [result |-> r, answers |-> a, slow |-> s]])
     : r \in {"noResolver", "timeout", "error", "answered"}, a \in SUBSET {"safe", "unsafe"}, s \in BOOLEAN}
Targets == [endpoint : {1, 2}, source : {"a", "b"}, trusted : BOOLEAN, good : {0, 3, 5},
            slow : {FALSE}, quic : {"ok"}]
MediaWorlds == {World([Healthy EXCEPT !.media = {t, u}]) : t, u \in Targets}
               \union {World([Healthy EXCEPT !.media = {[t EXCEPT !.slow = TRUE, !.quic = q]}])
                         : t \in Targets, q \in {"failed", "none"}}

MTUWorlds(paths, links, target) ==
  {World([Healthy EXCEPT !.pathMTU = p, !.linkMTU = l, !.prober = TRUE, !.target = target,
                                    !.exitActive = (target = "literal")])
     : p \in paths, l \in links}
Quick == {[kind |-> "fit", cost |-> 30], [kind |-> "lost", cost |-> 30]}
Slow == {[kind |-> "fit", cost |-> 1200], [kind |-> "lost", cost |-> PerProbeBudget]}

RunnerProbes == {"a", "b", "c"}
Habit(x, y, z) == [p \in RunnerProbes |-> CASE p = "a" -> x [] p = "b" -> y [] OTHER -> z]
Runner3(h, budget, runs) ==
  [S(RunnerProbes) EXCEPT !.habit = h, !.budget = budget, !.runs = runs, !.timers = TRUE]

RouteInstances ==
  Over(S({"routes"}), RouteWorlds) \union Over(S({"ipv6", "routes"}), SixWorlds)
  \union Over(S({"ipv4", "routes"}), PartialWorlds)
  \union Over([S({"routes"}) EXCEPT !.platform = "darwin"], PartialWorlds)

ProbeInstances ==
  Over(S({"coordinator", "relay"}), ControlWorlds)
  \union Over([S({"exit"}) EXCEPT !.timers = TRUE], ExitWorlds)
  \union Over(S({"wireguard"}), WireGuardWorlds)
  \union Over(S({"dns"}), DNSWorlds) \union Over(S({"media"}), MediaWorlds)

MTUInstances ==
  \* The prober under its own deadline: losses anywhere, quick or slow.
  Over([S({"mtu"}) EXCEPT !.deadline = 30000, !.pings = Slow \union {[kind |-> "fit", cost |-> 30]}],
       MTUWorlds({1270, 1290, 1500}, {1280, 1420}, "literal"))
  \* Under the Doctor's deadline.
  \union Over([S({"mtu"}) EXCEPT !.pings = Quick \union {[kind |-> "broken", cost |-> 10]},
                                 !.lookups = {10, 60, 200, 8000}],
              MTUWorlds({1230, 1400}, {0, 1240, 1420}, "media"))
  \* No prober: the link's MTU alone.
  \union Over([S({"mtu"}) EXCEPT !.timers = TRUE],
              {World([Healthy EXCEPT !.linkMTU = l]) : l \in {0, 1200, 1280, 1420}})

\* The runner: hung, panicking, bailing and refused probes, twice.
RunnerInstances ==
  UNION {Over(s, {World(Healthy)}) : s \in
    { Runner3(Habit("real", "hang", "bail"), 3, 2),
      Runner3(Habit("panic", "self", "hang"), 2, 2),
      [Runner3(Habit("real", "real", "panic"), 64, 1) EXCEPT !.wanted = {"a", "typo"}],
      [Runner3(Habit("real", "real", "real"), 64, 1) EXCEPT !.wanted = {"typo"}],
      [Runner3(Habit("real", "real", "real"), 64, 1) EXCEPT !.nilContext = TRUE],
      S({}) }}

MCInstances == RouteInstances \union ProbeInstances \union MTUInstances \union RunnerInstances

\* The Doctor's own deadline, the canary's name to resolve, and a path of 1500
\* whose every ping answers in 30 ms.
MCDoctorMTU ==
  Over([S({"mtu"}) EXCEPT !.pings = {[kind |-> "fit", cost |-> 30]}],
       MTUWorlds({1500}, {1420}, "media"))
=============================================================================
