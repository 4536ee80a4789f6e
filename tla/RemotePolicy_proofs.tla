------------------------- MODULE RemotePolicy_proofs -------------------------
(***************************************************************************)
(* Proofs about temporary remote access, for any netmaps, policies, grants   *)
(* and settings.                                                            *)
(*                                                                          *)
(* The invariant follows a transaction from the floor it began with to the   *)
(* rules it installs: the file never falls below that floor, what a round   *)
(* accepted is in the directory by then, and the launchers and rules that    *)
(* wait in the call were granted under it.  The schedule of the expiry loop  *)
(* is a chain: rules, remoteExpiry, timer.                                  *)
(***************************************************************************)
EXTENDS RemotePolicy, FiniteSetTheorems, WellFoundedInduction, TLAPS

\* A directory that cannot be synced lets the next round report the floor kept
\* without a sync, and what is proved below does not hold then.
SyncsWork == \A s \in Settings : "sync" \notin s.faults

Kept == [policy : Policies, at : Times]
Views == [grants : SUBSET Grants, allowed : BOOLEAN, floor : Times \cup {None}]
Targets == [required : BOOLEAN, rules : SUBSET Grants]
Calls == [op : {"none", "apply", "source", "expiry"}, nm : {0} \cup DOMAIN Maps,
          stage : {"none", "auth", "derive", "reconcile", "source"},
          real : Times, now : Times, obs : Floors, base : Floors, view : Views,
          target : Targets]
Places == {"idle", "look", "read", "advance", "sync", "conceal", "install", "engine"}

Typed ==
    /\ setting \in Settings /\ wall \in Times /\ jumped \in BOOLEAN /\ wake \in BOOLEAN
    /\ iface \in BOOLEAN
    /\ file \in Floors /\ durable \in Floors /\ acked \in Floors /\ basis \in Floors
    /\ guard \in [remote : BOOLEAN, rules : SUBSET Grants]
    /\ lastMap \in {0} \cup DOMAIN Maps /\ installed \in {0} \cup DOMAIN Maps
    /\ view \in Views
    /\ expiry \in Nat \cup {None} /\ timer \in Nat \cup {None}
    /\ loop \in {"arm", "wait", "due", "busy"} /\ fired \in Times
    /\ pc \in [Users -> Places] /\ call \in [Users -> Calls]

Rounds == {"look", "read", "advance", "sync"}

\* Where a call may be in each of its rounds, and with what.
StagedFor(u) ==
    /\ u = "src" => pc[u] \in {"idle"} \cup Rounds
    /\ pc[u] # "idle" => call[u].nm # 0
    /\ pc[u] \in {"read", "advance", "sync"} =>
          call[u].obs \in Kept /\ call[u].obs.policy = Maps[call[u].nm].policy
    /\ pc[u] \in Rounds => call[u].stage # "none" /\ (call[u].stage = "source" <=> u = "src")
    /\ pc[u] \in Rounds /\ call[u].stage = "reconcile" => Maps[call[u].nm].policy.enabled

Staged == \A u \in Users : StagedFor(u)

\* One user at most is between the rename and the sync; else the directory has
\* what the file has.
Stored ==
    /\ Keeps(acked, durable) /\ Keeps(durable, file)
    /\ (\A u \in Users : pc[u] # "sync") => durable = file
    /\ \A u, w \in Users : pc[u] = "sync" /\ pc[w] = "sync" => u = w
    /\ \A u \in Users : pc[u] = "sync" => file = call[u].obs

\* The floor has not fallen below the one a transaction began with.
Grounded == pc["tx"] # "idle" => Keeps(call["tx"].base, file)

\* A grant that a transaction honours under the floor it began with.
Honours(g, base) ==
    /\ g.v >= base.policy.v
    /\ g.v = base.policy.v => base.policy.enabled /\ base.at < g.until

\* The launchers and the rules that wait in the call.
Pending ==
    pc["tx"] # "idle" =>
        /\ \A g \in call["tx"].view.grants :
              /\ g \in Maps[call["tx"].nm].grants /\ call["tx"].view.floor < g.until
              /\ durable.policy.v >= g.v
        /\ \A g \in call["tx"].target.rules :
              Honours(g, call["tx"].base) /\ durable.policy.v >= g.v

\* The expiry that is set covers every rule, from the moment the rules are
\* installed by a netmap that is about to be committed.
Covered ==
    lastMap # 0 \/ pc["tx"] = "engine" =>
        \A g \in guard.rules :
            expiry # None /\ (~jumped => expiry <= Later(g.until, wall + 1))

\* The timer that runs is the one for that expiry, or the loop is about to look.
Timed ==
    loop = "wait" /\ ~wake /\ expiry # None =>
        timer # None /\ (~jumped => wall + timer <= Later(expiry, wall))

PolicyInv ==
    /\ Typed /\ Staged /\ Stored /\ Grounded /\ Pending
    /\ NothingRevived /\ RulesAreDurable /\ LaunchersCommitted
    /\ Covered /\ Timed
-----------------------------------------------------------------------------
(* The floor. *)

LEMMA FloorShape ==
    ASSUME NEW f \in Floors
    PROVE  /\ f = NoFloor \/ f \in Kept
           /\ f # NoFloor => /\ f.policy \in Policies /\ f.policy.v \in Nat \ {0}
                            /\ f.policy.enabled \in BOOLEAN /\ f.at \in Times /\ f.at \in Nat
BY DataAssumption DEF Floors, Kept, Policy, Times

LEMMA KeepsRefl == \A f \in Floors : Keeps(f, f)
BY FloorShape DEF Keeps

LEMMA KeepsTransitive ==
    ASSUME NEW a \in Floors, NEW b \in Floors, NEW c \in Floors, Keeps(a, b), Keeps(b, c)
    PROVE  Keeps(a, c)
<1>1. CASE a = NoFloor
  BY <1>1 DEF Keeps
<1>2. CASE a # NoFloor /\ b = NoFloor
  BY <1>2, FloorShape DEF Keeps, NoFloor, NoPolicy
<1>3. CASE a # NoFloor /\ b # NoFloor
  <2>1. c # NoFloor
    BY <1>3, FloorShape DEF Keeps, NoFloor, NoPolicy
  <2>. QED
    BY <1>3, <2>1, FloorShape DEF Keeps
<1>. QED
  BY <1>1, <1>2, <1>3

LEMMA AdvancesKeeps ==
    ASSUME NEW a \in Floors, NEW b \in Floors, Advances(a, b)
    PROVE  Keeps(a, b)
BY DEF Advances, Keeps

-----------------------------------------------------------------------------
(* The first expiry among some rules. *)

LEMMA NearestIsFirst ==
    ASSUME NEW rules \in SUBSET Grants, rules # {}
    PROVE  /\ NearestExpiry(rules) \in Nat
           /\ \A g \in rules : NearestExpiry(rules) <= g.until
<1>. DEFINE ends == {g.until : g \in rules}
<1>1. ends # {} /\ ends \subseteq Nat
  BY DataAssumption DEF Grant
<1>. DEFINE less == OpToRel(<, Nat)
<1>0. \A x, y \in Nat : x < y => <<x, y>> \in less
  BY DEF OpToRel
<1>2. PICK first \in ends : \A e \in ends : ~(<<e, first>> \in less)
  BY <1>1, NatLessThanWellFounded, WFMin
<1>3. ASSUME NEW e \in ends
      PROVE  first <= e
  <2>. HIDE DEF ends, less
  <2>1. e \in Nat /\ first \in Nat
    BY <1>1
  <2>2. e < first => <<e, first>> \in less
    BY <1>0, <2>1
  <2>3. ~(<<e, first>> \in less)
    BY <1>2
  <2>. QED
    BY <2>1, <2>2, <2>3
<1>4. Min(ends) \in ends /\ \A e \in ends : Min(ends) <= e
  BY <1>3 DEF Min
<1>. QED
  BY <1>1, <1>4 DEF NearestExpiry

-----------------------------------------------------------------------------
(* What a round that ends leaves of its call. *)

\* The call goes on with the same netmap and base, to another round or out of
\* the rounds, or is over.
Turned(u) ==
    /\ pc' \in [Users -> Places] /\ call' \in [Users -> Calls]
    /\ \A w \in Users \ {u} : pc'[w] = pc[w] /\ call'[w] = call[w]
    /\ pc'[u] \in {"idle", "look", "conceal", "install"}
    /\ u = "src" => pc'[u] = "idle"
    /\ pc'[u] # "idle" => call'[u].nm = call[u].nm /\ call'[u].base = call[u].base
    /\ pc'[u] = "look" => call'[u].stage \in {"derive", "reconcile"}

LEMMA Moves ==
    ASSUME Typed, NEW u \in Users, NEW label \in Places, NEW d \in Calls,
           Goto(u, label), call' = [call EXCEPT ![u] = d]
    PROVE  /\ pc' \in [Users -> Places] /\ call' \in [Users -> Calls]
           /\ \A w \in Users \ {u} : pc'[w] = pc[w] /\ call'[w] = call[w]
           /\ pc'[u] = label /\ call'[u] = d
BY DEF Typed, Goto

LEMMA CallFields ==
    ASSUME NEW c \in Calls
    PROVE  /\ \A v \in Views : [c EXCEPT !.view = v] \in Calls
           /\ \A t \in Targets : [c EXCEPT !.target = t] \in Calls
           /\ \A s \in {"auth", "derive", "reconcile", "source"}, n \in Times :
                 [c EXCEPT !.stage = s, !.now = n] \in Calls
           /\ \A f \in Floors : [c EXCEPT !.obs = f] \in Calls
BY DEF Calls

\* Where ToDerive leads: to another round, or on to the installation.
LEMMA DeriveTurns ==
    ASSUME Typed, NEW u \in Users, NEW d \in Calls, ToDerive(u, d)
    PROVE  /\ pc' \in [Users -> Places] /\ call' \in [Users -> Calls]
           /\ \A w \in Users \ {u} : pc'[w] = pc[w] /\ call'[w] = call[w]
           /\ \/ pc'[u] = "look" /\ call'[u] = [d EXCEPT !.stage = "derive", !.now = d.real]
              \/ pc'[u] = "conceal" /\ call'[u] = d
<1>. DEFINE e == [d EXCEPT !.stage = "derive", !.now = d.real]
<1>1. d.real \in Times
  BY DEF Calls
<1>2. e \in Calls
  BY <1>1, CallFields
<1>3. CASE Maps[d.nm].policy # NoPolicy \/ guard.remote
  <2>1. Goto(u, "look") /\ call' = [call EXCEPT ![u] = e]
    BY <1>3 DEF ToDerive, Round
  <2>. HIDE DEF e
  <2>2. pc' \in [Users -> Places] /\ call' \in [Users -> Calls]
        /\ (\A w \in Users \ {u} : pc'[w] = pc[w] /\ call'[w] = call[w])
        /\ pc'[u] = "look" /\ call'[u] = e
    BY <1>2, <2>1, Moves DEF Places
  <2>. QED
    BY <2>2, Zenon DEF e
<1>4. CASE ~(Maps[d.nm].policy # NoPolicy \/ guard.remote)
  <2>1. Goto(u, "conceal") /\ call' = [call EXCEPT ![u] = d]
    BY <1>4 DEF ToDerive
  <2>. QED
    BY <2>1, Moves DEF Places
<1>. QED
  BY <1>3, <1>4

LEMMA InstallTurns ==
    ASSUME Typed, NEW u \in Users, NEW d \in Calls, ToInstall(u, d)
    PROVE  /\ pc' \in [Users -> Places] /\ call' \in [Users -> Calls]
           /\ \A w \in Users \ {u} : pc'[w] = pc[w] /\ call'[w] = call[w]
           /\ pc'[u] \in {"conceal", "install"} /\ call'[u] = d
BY Moves DEF ToInstall, Places

LEMMA SourceTurns ==
    ASSUME Typed, NEW u \in Users, EndSource(u)
    PROVE  /\ pc' \in [Users -> Places] /\ call' \in [Users -> Calls]
           /\ \A w \in Users \ {u} : pc'[w] = pc[w] /\ call'[w] = call[w]
           /\ pc'[u] = "idle"
<1>1. NoCall \in Calls
  BY DataAssumption DEF NoCall, Calls, Views, Targets, NoView, NotRequired, Floors, Times
<1>. QED
  BY <1>1, Moves DEF EndSource, Places

LEMMA RefusedTurns ==
    ASSUME Typed, Staged, NEW u \in Users, pc[u] \in Rounds,
           NEW floor \in Times \cup {None}, Refused(u, floor)
    PROVE  /\ Turned(u)
           /\ pc'[u] = "look" => call'[u].stage = "derive"
           /\ pc'[u] # "idle" =>
                 /\ call'[u].view.grants = {} \/ call'[u].view = call[u].view
                 /\ call'[u].target.rules \in {{}, call[u].target.rules}
<1>. DEFINE c == call[u]
<1>0. c \in Calls
  BY DEF Typed
<1>1. CASE c.stage = "auth"
  <2>. DEFINE v == [NoView EXCEPT !.floor = floor]
  <2>1. v \in Views /\ v.grants = {}
    BY DEF Views, NoView
  <2>2. [c EXCEPT !.view = v] \in Calls
    BY <1>0, <2>1, CallFields
  <2>3. ToDerive(u, [c EXCEPT !.view = v])
    BY <1>1 DEF Refused
  <2>4. u # "src"
    BY <1>1 DEF Staged, StagedFor, Rounds
  <2>. DEFINE d == [c EXCEPT !.view = v]
           e == [d EXCEPT !.stage = "derive", !.now = d.real]
  <2>5. /\ d.nm = c.nm /\ d.base = c.base /\ d.view = v /\ d.target = c.target
        /\ e.nm = c.nm /\ e.base = c.base /\ e.view = v /\ e.target = c.target /\ e.stage = "derive"
    BY <1>0 DEF Calls
  <2>. HIDE DEF v, d, e
  <2>6. /\ pc' \in [Users -> Places] /\ call' \in [Users -> Calls]
        /\ \A w \in Users \ {u} : pc'[w] = pc[w] /\ call'[w] = call[w]
        /\ \/ pc'[u] = "look" /\ call'[u] = e
           \/ pc'[u] = "conceal" /\ call'[u] = d
    BY <2>2, <2>3, DeriveTurns DEF e, d
  <2>. QED
    BY <2>1, <2>4, <2>5, <2>6 DEF Turned
<1>2. CASE c.stage = "source"
  BY <1>2, SourceTurns DEF Refused, Turned
<1>3. CASE c.stage \in {"derive", "reconcile"}
  <2>1. Closed \in Targets /\ Closed.rules = {}
    BY DEF Closed, Targets
  <2>2. [c EXCEPT !.target = Closed] \in Calls
    BY <1>0, <2>1, CallFields
  <2>3. ToInstall(u, [c EXCEPT !.target = Closed])
    BY <1>3 DEF Refused
  <2>. QED
    BY <1>0, <1>3, <2>1, <2>2, <2>3, InstallTurns DEF Turned, Staged, StagedFor, Calls
<1>. QED
  BY <1>0, <1>1, <1>2, <1>3 DEF Staged, StagedFor, Rounds, Calls

\* A round that is accepted may add launchers of the netmap, or rules of an
\* enabled policy, that stand at the time of the floor.
LEMMA AcceptedTurns ==
    ASSUME Typed, Staged, NEW u \in Users, pc[u] \in {"advance", "sync"}, Accepted(u)
    PROVE  LET c == call[u] IN
           /\ Turned(u)
           /\ pc'[u] = "look" /\ call'[u].stage = "reconcile" => c.obs.policy.enabled
           /\ pc'[u] # "idle" =>
                 /\ \/ call'[u].view = c.view
                    \/ \A g \in call'[u].view.grants :
                          g \in Maps[c.nm].grants /\ call'[u].view.floor < g.until /\ g.v = c.obs.policy.v
                 /\ \/ call'[u].target.rules \in {{}, c.target.rules}
                    \/ /\ c.obs.policy.enabled
                       /\ \A g \in call'[u].target.rules : g.v = c.obs.policy.v /\ c.obs.at < g.until
<1>. DEFINE c == call[u]
            m == Maps[c.nm]
            policy == c.obs.policy
            now == c.obs.at
            activated == TargetVerified(m, policy, now)
<1>0. /\ c \in Calls /\ c.obs \in Kept /\ now \in Times /\ policy \in Policies
      /\ c.nm \in DOMAIN Maps /\ policy = m.policy
      /\ c.stage \in {"auth", "derive", "reconcile", "source"}
      /\ (c.stage = "source" <=> u = "src")
  <2>1. c \in Calls
    BY DEF Typed
  <2>2. c.obs \in Kept /\ policy = m.policy /\ c.nm # 0 /\ c.stage # "none"
    BY DEF Staged, StagedFor, Rounds
  <2>3. c.stage = "source" <=> u = "src"
    BY DEF Staged, StagedFor, Rounds
  <2>. QED
    BY <2>1, <2>2, <2>3 DEF Calls, Kept
<1>0a. m.grants \subseteq Grants
  BY <1>0, DataAssumption
<1>1. CASE c.stage = "auth"
  <2>. DEFINE v == [grants |-> IF policy.enabled /\ activated THEN Launchers(m, policy, now) ELSE {},
                    allowed |-> policy.enabled /\ activated /\ m.target.enabled,
                    floor |-> now]
              d == [c EXCEPT !.view = v]
              e == [d EXCEPT !.stage = "derive", !.now = d.real]
  <2>1. /\ v.grants \subseteq m.grants /\ v.floor = now
        /\ \A g \in v.grants : now < g.until /\ g.v = policy.v
    BY DEF Launchers, GrantForSelf, GrantValid
  <2>2. v \in Views
    BY <1>0, <1>0a, <2>1 DEF Views
  <2>3. ToDerive(u, d)
    BY <1>1 DEF Accepted
  <2>4. u # "src"
    BY <1>0, <1>1
  <2>. HIDE DEF v
  <2>5. /\ d.nm = c.nm /\ d.base = c.base /\ d.view = v /\ d.target = c.target
        /\ e.nm = c.nm /\ e.base = c.base /\ e.view = v /\ e.target = c.target /\ e.stage = "derive"
    BY <1>0 DEF Calls
  <2>6. d \in Calls
    BY <1>0, <2>2, CallFields
  <2>. HIDE DEF d, e
  <2>7. /\ pc' \in [Users -> Places] /\ call' \in [Users -> Calls]
        /\ \A w \in Users \ {u} : pc'[w] = pc[w] /\ call'[w] = call[w]
        /\ \/ pc'[u] = "look" /\ call'[u] = e
           \/ pc'[u] = "conceal" /\ call'[u] = d
    BY <2>3, <2>6, DeriveTurns DEF e
  <2>. QED
    BY <2>1, <2>4, <2>5, <2>7 DEF Turned
<1>2. CASE c.stage = "derive"
  <2>0. u # "src"
    BY <1>0, <1>2
  <2>1. CASE Refused(u, now)
    BY <1>0, <2>0, <2>1, RefusedTurns DEF Rounds
  <2>2. CASE ToInstall(u, [c EXCEPT !.target = NotRequired])
    <3>. DEFINE d == [c EXCEPT !.target = NotRequired]
    <3>0. NotRequired \in Targets /\ NotRequired.rules = {}
      BY DEF NotRequired, Targets
    <3>1. d \in Calls /\ d.nm = c.nm /\ d.base = c.base /\ d.view = c.view /\ d.target = NotRequired
      BY <1>0, <3>0, CallFields, ZenonT(60) DEF Calls
    <3>. HIDE DEF d
    <3>. QED
      BY <2>0, <2>2, <3>0, <3>1, InstallTurns DEF Turned, d
  <2>3. CASE Round(u, "reconcile", now, c) /\ policy.enabled
    <3>. DEFINE d == [c EXCEPT !.stage = "reconcile", !.now = now]
    <3>1. d \in Calls /\ d.nm = c.nm /\ d.base = c.base /\ d.view = c.view /\ d.target = c.target
          /\ d.stage = "reconcile"
      BY <1>0, CallFields, ZenonT(60) DEF Calls
    <3>2. Goto(u, "look") /\ call' = [call EXCEPT ![u] = d]
      BY <2>3 DEF Round
    <3>. HIDE DEF d
    <3>. QED
      BY <2>0, <2>3, <3>1, <3>2, Moves, ZenonT(60) DEF Turned, Places
  <2>. QED
    BY <1>2, <2>1, <2>2, <2>3 DEF Accepted
<1>3. CASE c.stage = "reconcile"
  <2>. DEFINE t == [required |-> TRUE, rules |-> Rules(m, policy, now)]
              d == [c EXCEPT !.target = t]
  <2>1. policy.enabled
    BY <1>0, <1>3 DEF Staged, StagedFor, Rounds
  <2>2. /\ t.rules \subseteq m.grants
        /\ \A g \in t.rules : g.v = policy.v /\ now < g.until
    BY DEF Rules, GrantVerified, GrantValid
  <2>3. t \in Targets
    BY <1>0a, <2>2 DEF Targets
  <2>4. ToInstall(u, d)
    BY <1>3 DEF Accepted
  <2>. HIDE DEF t
  <2>5. d \in Calls /\ d.nm = c.nm /\ d.base = c.base /\ d.view = c.view /\ d.target = t
    BY <1>0, <2>3, CallFields, ZenonT(60) DEF Calls
  <2>6. u # "src"
    BY <1>0, <1>3
  <2>. HIDE DEF d
  <2>. QED
    BY <2>1, <2>2, <2>4, <2>5, <2>6, InstallTurns DEF Turned
<1>4. CASE c.stage = "source"
  BY <1>0, <1>4, SourceTurns DEF Accepted, Turned
<1>. QED
  BY <1>0, <1>1, <1>2, <1>3, <1>4

-----------------------------------------------------------------------------
(* The rounds. *)

LEMMA KeepsGrows ==
    ASSUME NEW a \in Floors, NEW b \in Floors, Keeps(a, b)
    PROVE  a.policy.v \in Nat /\ b.policy.v \in Nat /\ a.policy.v <= b.policy.v
<1>1. a.policy.v \in Nat /\ b.policy.v \in Nat
  BY FloorShape DEF NoFloor, NoPolicy
<1>. QED
  BY <1>1, FloorShape DEF Keeps, NoFloor, NoPolicy

\* What a round leaves alone needs no argument: the firewall, what is shown and
\* the schedule.
LEMMA RoundKeeps ==
    ASSUME PolicyInv, NEW u \in Users, pc[u] \in Rounds,
           UNCHANGED <<wallState, shown, schedule, world>>,
           pc' \in [Users -> Places], call' \in [Users -> Calls],
           \A w \in Users \ {u} : pc'[w] = pc[w] /\ call'[w] = call[w],
           pc'[u] \in Rounds \cup {"idle", "conceal", "install"},
           pc'[u] # "idle" => call'[u].base = call[u].base,
           file' \in Floors, durable' \in Floors, acked' \in Floors,
           Keeps(file, file'), Keeps(durable, durable'),
           Stored', StagedFor(u)',
           u = "tx" => Pending'
    PROVE  PolicyInv'
<1>. USE DEF PolicyInv, wallState, shown, schedule, world
<1>1. Typed'
  BY DEF Typed
<1>2. Staged'
  BY DEF Staged, StagedFor
<1>3. Grounded'
  <2>1. CASE pc'["tx"] # "idle"
    <3>1. pc["tx"] # "idle" /\ call'["tx"].base = call["tx"].base /\ call["tx"].base \in Floors
      BY <2>1 DEF Users, Rounds, Typed, Calls
    <3>2. Keeps(call["tx"].base, file) /\ file \in Floors
      BY <3>1 DEF Grounded, Typed
    <3>. QED
      BY <3>1, <3>2, KeepsTransitive DEF Grounded
  <2>. QED
    BY <2>1 DEF Grounded
<1>4. durable.policy.v \in Nat /\ durable'.policy.v \in Nat /\ durable.policy.v <= durable'.policy.v
  BY KeepsGrows DEF Typed
<1>4a. \A g \in Grants : g.v \in Nat
  BY DataAssumption DEF Grant
<1>5. Pending'
  <2>1. CASE u = "src"
    <3>1. pc'["tx"] = pc["tx"] /\ call'["tx"] = call["tx"] /\ call["tx"] \in Calls
      BY <2>1 DEF Users, Typed
    <3>2. call["tx"].view.grants \subseteq Grants /\ call["tx"].target.rules \subseteq Grants
      BY <3>1 DEF Calls, Views, Targets
    <3>. QED
      BY <1>4, <1>4a, <3>1, <3>2 DEF Pending, Honours
  <2>. QED
    BY <2>1 DEF Users
<1>6. RulesAreDurable'
  <2>1. guard.rules \cup view.grants \subseteq Grants
    BY DEF Typed, Views
  <2>. QED
    BY <1>4, <1>4a, <2>1 DEF RulesAreDurable
<1>7. NothingRevived' /\ LaunchersCommitted' /\ Timed'
  BY DEF NothingRevived, LaunchersCommitted, Timed
<1>8. Covered'
  <2>1. pc'["tx"] = "engine" => pc["tx"] = "engine"
    BY DEF Users, Rounds
  <2>. QED
    BY <2>1 DEF Covered
<1>. QED
  BY <1>1, <1>2, <1>3, <1>5, <1>6, <1>7, <1>8

LEMMA RefusedStep ==
    ASSUME PolicyInv, NEW u \in Users, pc[u] \in {"look", "read", "advance"},
           NEW floor \in Times \cup {None}, Refused(u, floor),
           UNCHANGED <<store, wallState, shown, schedule, world>>
    PROVE  PolicyInv'
<1>. USE DEF PolicyInv, store
<1>1. Turned(u)
  BY RefusedTurns DEF Rounds
<1>2. /\ pc'[u] = "look" => call'[u].stage = "derive"
      /\ pc'[u] # "idle" =>
            /\ call'[u].view.grants = {} \/ call'[u].view = call[u].view
            /\ call'[u].target.rules \in {{}, call[u].target.rules}
  BY RefusedTurns DEF Rounds
<1>3. Keeps(file, file') /\ Keeps(durable, durable')
  BY KeepsRefl DEF Typed
<1>4. Stored'
  BY <1>1 DEF Stored, Turned
<1>5. StagedFor(u)'
  BY <1>1, <1>2 DEF Turned, Staged, StagedFor, Rounds, world
<1>6. u = "tx" => Pending'
  BY <1>1, <1>2 DEF Turned, Pending, Honours
<1>. QED
  BY <1>1, <1>3, <1>4, <1>5, <1>6, RoundKeeps DEF Turned, Typed, Rounds

\* A round is accepted with the floor it asked for in the file and the directory.
LEMMA AcceptedStep ==
    ASSUME PolicyInv, NEW u \in Users, pc[u] \in {"advance", "sync"}, Accepted(u),
           file = call[u].obs, file' = file, durable' = file, acked' = file,
           \A w \in Users \ {u} : pc[w] # "sync",
           UNCHANGED <<wallState, shown, schedule, world>>
    PROVE  PolicyInv'
<1>. USE DEF PolicyInv
<1>. DEFINE c == call[u]
<1>0. c \in Calls /\ c.obs \in Kept /\ c.nm \in DOMAIN Maps /\ c.obs.policy = Maps[c.nm].policy
  BY DEF Typed, Staged, StagedFor, Calls
<1>1. Turned(u)
  BY AcceptedTurns
<1>2. /\ pc'[u] = "look" /\ call'[u].stage = "reconcile" => c.obs.policy.enabled
      /\ pc'[u] # "idle" =>
            /\ \/ call'[u].view = c.view
               \/ \A g \in call'[u].view.grants :
                     g \in Maps[c.nm].grants /\ call'[u].view.floor < g.until /\ g.v = c.obs.policy.v
            /\ \/ call'[u].target.rules \in {{}, c.target.rules}
               \/ /\ c.obs.policy.enabled
                  /\ \A g \in call'[u].target.rules : g.v = c.obs.policy.v /\ c.obs.at < g.until
  BY AcceptedTurns
<1>3. Keeps(file, file') /\ Keeps(durable, durable') /\ Keeps(acked', durable')
  BY KeepsRefl DEF Typed, Stored
<1>4. Stored'
  BY <1>1, <1>3 DEF Stored, Turned
<1>5. StagedFor(u)'
  BY <1>0, <1>1, <1>2 DEF Turned, Staged, StagedFor, Rounds, world
<1>6. ASSUME u = "tx"
      PROVE  Pending'
  <2>. SUFFICES ASSUME pc'["tx"] # "idle"
                PROVE  Pending'
    BY DEF Pending
  <2>1. call'[u] \in Calls /\ call'[u].nm = c.nm /\ call'[u].base = c.base /\ c.base \in Floors
    BY <1>0, <1>1, <1>6 DEF Turned, Calls
  <2>2. /\ call'[u].view.grants \subseteq Grants /\ call'[u].target.rules \subseteq Grants
        /\ \A g \in Grants : g.v \in Nat \ {0} /\ g.until \in Nat
    BY <2>1, DataAssumption DEF Calls, Views, Targets, Grant
  <2>3. /\ durable.policy.v \in Nat /\ durable'.policy.v = c.obs.policy.v
        /\ durable.policy.v <= c.obs.policy.v /\ c.obs.policy.v \in Nat
    BY <1>3, KeepsGrows DEF Typed
  <2>4. Keeps(c.base, c.obs)
    BY <1>6 DEF Grounded
  <2>5. ASSUME NEW g \in call'[u].view.grants
        PROVE  /\ g \in Maps[c.nm].grants /\ call'[u].view.floor < g.until
               /\ durable'.policy.v >= g.v
    <3>1. CASE call'[u].view = c.view
      BY <1>6, <2>2, <2>3, <2>5, <3>1 DEF Pending
    <3>2. CASE g.v = c.obs.policy.v /\ g \in Maps[c.nm].grants /\ call'[u].view.floor < g.until
      BY <2>2, <2>3, <3>2
    <3>. QED
      BY <1>2, <1>6, <2>5, <3>1, <3>2
  <2>6. ASSUME NEW g \in call'[u].target.rules
        PROVE  Honours(g, c.base) /\ durable'.policy.v >= g.v
    <3>1. CASE g \in c.target.rules
      BY <1>6, <2>2, <2>3, <2>6, <3>1 DEF Pending
    <3>2. CASE c.obs.policy.enabled /\ g.v = c.obs.policy.v /\ c.obs.at < g.until
      <4>1. durable'.policy.v >= g.v /\ g.v \in Nat \ {0}
        BY <2>2, <2>3, <2>6, <3>2
      <4>2. CASE c.base = NoFloor
        BY <4>1, <4>2 DEF Honours, NoFloor, NoPolicy
      <4>3. CASE c.base # NoFloor
        <5>1. c.base.policy.v \in Nat /\ c.base.at \in Nat /\ c.obs.at \in Nat
          BY <1>0, <2>1, <4>3, FloorShape DEF Kept, Times
        <5>. QED
          BY <2>2, <2>3, <2>4, <2>6, <3>2, <4>1, <4>3, <5>1 DEF Honours, Keeps
      <4>. QED
        BY <4>1, <4>2, <4>3
    <3>. QED
      BY <1>2, <1>6, <2>6, <3>1, <3>2
  <2>. QED
    BY <1>6, <2>1, <2>5, <2>6 DEF Pending
<1>. QED
  BY <1>1, <1>3, <1>4, <1>5, <1>6, RoundKeeps DEF Turned, Typed, Rounds

LEMMA TimeFloorTyped ==
    ASSUME Typed, NEW now \in Times
    PROVE  TimeFloor(now) \in Times
BY FloorShape DEF TimeFloor, Later, Typed, NoFloor, None, Times

LEMMA LookStep ==
    ASSUME PolicyInv, NEW u \in Users, Look(u)
    PROVE  PolicyInv'
<1>. USE DEF PolicyInv
<1>. DEFINE c == call[u]
            m == Maps[c.nm]
            obs == [policy |-> m.policy, at |-> TimeFloor(c.now)]
            d == [c EXCEPT !.obs = obs]
<1>0. /\ pc[u] = "look" /\ c \in Calls /\ c.nm \in DOMAIN Maps /\ TimeFloor(c.now) \in Times
      /\ UNCHANGED <<store, wallState, shown, schedule, world>>
  BY TimeFloorTyped DEF Look, Typed, Staged, StagedFor, Calls
<1>1. CASE \E floor \in Times \cup {None} : Refused(u, floor)
  BY <1>0, <1>1, RefusedStep
<1>2. CASE PolicyVerified(m, TimeFloor(c.now)) /\ call' = [call EXCEPT ![u].obs = obs] /\ Goto(u, "read")
  <2>1. obs \in Kept
    BY <1>0, <1>2, DataAssumption DEF PolicyVerified, Kept
  <2>2. d \in Calls /\ d.nm = c.nm /\ d.base = c.base /\ d.view = c.view /\ d.target = c.target
        /\ d.stage = c.stage /\ d.obs = obs
    BY <1>0, <2>1 DEF Calls, Floors, Kept
  <2>3. call' = [call EXCEPT ![u] = d]
    BY <1>2 DEF Typed
  <2>4. obs.policy = m.policy
    OBVIOUS
  <2>. HIDE DEF obs, d
  <2>5. /\ pc' \in [Users -> Places] /\ call' \in [Users -> Calls]
        /\ \A w \in Users \ {u} : pc'[w] = pc[w] /\ call'[w] = call[w]
        /\ pc'[u] = "read" /\ call'[u] = d
    BY <1>2, <2>2, <2>3, Moves DEF Places
  <2>6. Keeps(file, file') /\ Keeps(durable, durable')
    BY <1>0, KeepsRefl DEF Typed, store
  <2>7. Stored'
    BY <1>0, <2>5 DEF Stored, store
  <2>8. StagedFor(u)'
    BY <1>0, <2>1, <2>2, <2>4, <2>5 DEF Staged, StagedFor, Rounds
  <2>9. u = "tx" => Pending'
    BY <1>0, <2>2, <2>5 DEF Pending, Honours, store
  <2>. QED
    BY <1>0, <2>2, <2>5, <2>6, <2>7, <2>8, <2>9, RoundKeeps DEF Typed, Rounds, store
<1>. QED
  BY <1>0, <1>1, <1>2 DEF Look

LEMMA ReadStep ==
    ASSUME PolicyInv, NEW u \in Users, Read(u)
    PROVE  PolicyInv'
<1>. USE DEF PolicyInv
<1>. DEFINE c == call[u]
            obs == Observed(c.obs.policy, c.obs.at, c.now)
            d == [c EXCEPT !.obs = obs]
<1>0. /\ pc[u] = "read" /\ c \in Calls /\ c.nm \in DOMAIN Maps /\ c.obs \in Kept
      /\ c.obs.policy = Maps[c.nm].policy
      /\ UNCHANGED <<store, wallState, shown, schedule, world>>
  BY DEF Read, Typed, Staged, StagedFor, Calls
<1>1. obs \in Kept /\ obs.policy = c.obs.policy
  BY <1>0 DEF Observed, Kept, Calls
<1>. HIDE DEF obs
<1>2. CASE Refused(u, obs.at)
  BY <1>0, <1>1, <1>2, RefusedStep DEF Kept
<1>3. CASE Goto(u, "advance") /\ call' = [call EXCEPT ![u].obs = obs]
  <2>1. d \in Calls /\ d.nm = c.nm /\ d.base = c.base /\ d.view = c.view /\ d.target = c.target
        /\ d.stage = c.stage /\ d.obs = obs
    BY <1>0, <1>1 DEF Calls, Floors, Kept
  <2>2. call' = [call EXCEPT ![u] = d]
    BY <1>3 DEF Typed
  <2>. HIDE DEF d
  <2>3. /\ pc' \in [Users -> Places] /\ call' \in [Users -> Calls]
        /\ \A w \in Users \ {u} : pc'[w] = pc[w] /\ call'[w] = call[w]
        /\ pc'[u] = "advance" /\ call'[u] = d
    BY <1>3, <2>1, <2>2, Moves DEF Places
  <2>4. Keeps(file, file') /\ Keeps(durable, durable')
    BY <1>0, KeepsRefl DEF Typed, store
  <2>5. Stored'
    BY <1>0, <2>3 DEF Stored, store
  <2>6. StagedFor(u)'
    BY <1>0, <1>1, <2>1, <2>3 DEF Staged, StagedFor, Rounds
  <2>7. u = "tx" => Pending'
    BY <1>0, <2>1, <2>3 DEF Pending, Honours, store
  <2>. QED
    BY <1>0, <2>1, <2>3, <2>4, <2>5, <2>6, <2>7, RoundKeeps DEF Typed, Rounds, store
<1>. QED
  BY <1>0, <1>2, <1>3 DEF Read, obs

LEMMA AdvanceStep ==
    ASSUME PolicyInv, NEW u \in Users, Advance(u)
    PROVE  PolicyInv'
<1>. USE DEF PolicyInv
<1>. DEFINE c == call[u]
<1>0. /\ pc[u] = "advance" /\ c \in Calls /\ c.obs \in Kept /\ c.obs \in Floors
      /\ \A w \in Users \ {u} : pc[w] # "sync"
      /\ UNCHANGED <<durable, wallState, shown, schedule, world>>
  BY DEF Advance, Unlocked, Typed, Staged, StagedFor, Calls
<1>1. durable = file
  BY <1>0 DEF Stored
<1>2. CASE Refused(u, c.obs.at) /\ UNCHANGED <<file, acked>>
  BY <1>0, <1>2, RefusedStep DEF Kept, store
<1>3. CASE file = c.obs /\ Accepted(u) /\ acked' = file /\ UNCHANGED file
  BY <1>0, <1>1, <1>3, AcceptedStep
<1>4. CASE Advances(file, c.obs) /\ file' = c.obs /\ Goto(u, "sync") /\ UNCHANGED <<acked, call>>
  <2>1. /\ pc' \in [Users -> Places] /\ call' \in [Users -> Calls]
        /\ \A w \in Users \ {u} : pc'[w] = pc[w] /\ call'[w] = call[w]
        /\ pc'[u] = "sync" /\ call'[u] = c
    BY <1>4 DEF Typed, Goto, Places
  <2>2. Keeps(file, file') /\ Keeps(durable, durable')
    BY <1>0, <1>4, AdvancesKeeps, KeepsRefl DEF Typed
  <2>3. Stored'
    BY <1>0, <1>1, <1>4, <2>1, <2>2 DEF Stored
  <2>4. StagedFor(u)'
    BY <1>0, <2>1 DEF Staged, StagedFor, Rounds
  <2>5. u = "tx" => Pending'
    BY <1>0, <2>1 DEF Pending, Honours
  <2>. QED
    BY <1>0, <1>4, <2>1, <2>2, <2>3, <2>4, <2>5, RoundKeeps DEF Typed, Rounds
<1>. QED
  BY <1>0, <1>2, <1>3, <1>4 DEF Advance

LEMMA SyncStep ==
    ASSUME SyncsWork, PolicyInv, NEW u \in Users, Sync(u)
    PROVE  PolicyInv'
<1>1. ~Fails("sync")
  BY DEF SyncsWork, PolicyInv, Typed, Fails
<1>2. /\ pc[u] = "sync" /\ durable' = file /\ acked' = file /\ Accepted(u)
      /\ UNCHANGED <<file, wallState, shown, schedule, world>>
  BY <1>1 DEF Sync
<1>3. file = call[u].obs /\ \A w \in Users \ {u} : pc[w] # "sync"
  BY <1>2 DEF PolicyInv, Stored
<1>. QED
  BY <1>2, <1>3, AcceptedStep

-----------------------------------------------------------------------------
(* Transactions. *)

LEMMA Values ==
    /\ NoCall \in Calls /\ NoCall.view.grants = {} /\ NoCall.target.rules = {}
    /\ NoView \in Views /\ NoView.grants = {} /\ NoFloor \in Floors /\ 0 \in Times
BY DataAssumption DEF NoCall, Calls, Views, Targets, NoView, NotRequired, Floors, Times

LEMMA Numbered == \A n \in DOMAIN Maps : n \in Nat \ {0}
<1>. DEFINE last == Cardinality(DOMAIN Maps)
<1>1. DOMAIN Maps = 1 .. last
  BY DataAssumption
<1>. HIDE DEF last
<1>. QED
  BY <1>1

\* A call begins with the floor of the moment, and with nothing in it.
LEMMA Begins ==
    ASSUME PolicyInv, NEW u \in Users, pc[u] = "idle",
           NEW d \in Calls, d.nm # 0, d.base = file, d.view.grants = {}, d.target.rules = {},
           d.stage \in {"auth", "derive", "source"}, d.stage = "source" <=> u = "src",
           Goto(u, "look"), call' = [call EXCEPT ![u] = d],
           UNCHANGED <<store, wallState, shown, world, expiry, wake>>,
           timer' \in Nat \cup {None}, loop' \in {"arm", "wait", "due", "busy"},
           fired' \in Times, Timed'
    PROVE  PolicyInv'
<1>. USE DEF PolicyInv, store, wallState, shown, world
<1>1. /\ pc' \in [Users -> Places] /\ call' \in [Users -> Calls]
      /\ \A w \in Users \ {u} : pc'[w] = pc[w] /\ call'[w] = call[w]
      /\ pc'[u] = "look" /\ call'[u] = d
  BY Moves DEF Places
<1>2. Typed'
  BY <1>1 DEF Typed
<1>3. Staged'
  BY <1>1 DEF Staged, StagedFor, Rounds
<1>4. Stored'
  BY <1>1 DEF Stored
<1>5. Grounded'
  BY <1>1, KeepsRefl DEF Grounded, Typed, Users
<1>6. Pending'
  BY <1>1 DEF Pending, Honours, Users
<1>7. NothingRevived' /\ RulesAreDurable' /\ LaunchersCommitted'
  BY DEF NothingRevived, RulesAreDurable, LaunchersCommitted
<1>8. Covered'
  BY <1>1 DEF Covered, Users
<1>. QED
  BY <1>2, <1>3, <1>4, <1>5, <1>6, <1>7, <1>8

LEMMA BeginApplyStep ==
    ASSUME PolicyInv, BeginApply
    PROVE  PolicyInv'
<1>. USE DEF PolicyInv
<1>1. PICK n \in setting.maps :
          Round("tx", "auth", wall,
                [NoCall EXCEPT !.op = "apply", !.nm = n, !.real = wall, !.base = file])
  BY DEF BeginApply
<1>. DEFINE d == [NoCall EXCEPT !.op = "apply", !.nm = n, !.real = wall, !.base = file,
                                !.stage = "auth", !.now = wall]
<1>2. /\ pc["tx"] = "idle" /\ UNCHANGED <<store, wallState, shown, schedule, world>>
      /\ Goto("tx", "look") /\ call' = [call EXCEPT !["tx"] = d]
  BY <1>1 DEF BeginApply, Round, NoCall
<1>3. n \in DOMAIN Maps /\ n # 0
  BY SettingsAssumption, Numbered DEF Typed, Setting
<1>4. /\ d \in Calls /\ d.nm = n /\ d.base = file /\ d.view = NoCall.view /\ d.target = NoCall.target
      /\ d.stage = "auth"
  BY <1>3, Values DEF Typed, Calls, NoCall
<1>. HIDE DEF d
<1>5. Timed'
  BY <1>2 DEF Timed, schedule, world
<1>. QED
  BY <1>2, <1>3, <1>4, <1>5, Values, Begins DEF Users, Typed, schedule

LEMMA BeginSourceStep ==
    ASSUME PolicyInv, BeginSource
    PROVE  PolicyInv'
<1>. USE DEF PolicyInv
<1>1. PICK n \in setting.maps :
          Round("src", "source", wall, [NoCall EXCEPT !.op = "source", !.nm = n, !.base = file])
  BY DEF BeginSource
<1>. DEFINE d == [NoCall EXCEPT !.op = "source", !.nm = n, !.base = file,
                                !.stage = "source", !.now = wall]
<1>2. /\ pc["src"] = "idle" /\ UNCHANGED <<store, wallState, shown, schedule, world>>
      /\ Goto("src", "look") /\ call' = [call EXCEPT !["src"] = d]
  BY <1>1 DEF BeginSource, Round, NoCall
<1>3. n \in DOMAIN Maps /\ n # 0
  BY SettingsAssumption, Numbered DEF Typed, Setting
<1>4. /\ d \in Calls /\ d.nm = n /\ d.base = file /\ d.view = NoCall.view /\ d.target = NoCall.target
      /\ d.stage = "source"
  BY <1>3, Values DEF Typed, Calls, NoCall
<1>. HIDE DEF d
<1>5. Timed'
  BY <1>2 DEF Timed, schedule, world
<1>. QED
  BY <1>2, <1>3, <1>4, <1>5, Values, Begins DEF Users, Typed, schedule

LEMMA BeginExpiryStep ==
    ASSUME PolicyInv, BeginExpiry
    PROVE  PolicyInv'
<1>. USE DEF PolicyInv
<1>1. CASE lastMap = 0
  <2>1. /\ SetExpiry(None) /\ UNCHANGED locals /\ loop' = "arm" /\ pc["tx"] = "idle"
        /\ fired' \in Times /\ UNCHANGED <<timer, store, wallState, shown, world>>
    BY <1>1, DataAssumption DEF BeginExpiry, Times
  <2>. USE <2>1 DEF SetExpiry, locals, store, wallState, shown, world
  <2>2. wake' \in BOOLEAN
    BY DEF Typed
  <2>3. Typed'
    BY <2>2 DEF Typed
  <2>4. Staged' /\ Stored' /\ Grounded' /\ Pending'
    BY DEF Staged, StagedFor, Stored, Grounded, Pending, Honours
  <2>5. NothingRevived' /\ RulesAreDurable' /\ LaunchersCommitted'
    BY DEF NothingRevived, RulesAreDurable, LaunchersCommitted
  <2>6. Covered' /\ Timed'
    BY <1>1 DEF Covered, Timed
  <2>. QED
    BY <2>3, <2>4, <2>5, <2>6
<1>2. CASE lastMap # 0
  <2>. DEFINE d == [NoCall EXCEPT !.op = "expiry", !.nm = lastMap, !.real = fired, !.base = file,
                                  !.stage = "derive", !.now = fired]
  <2>1. /\ pc["tx"] = "idle" /\ UNCHANGED <<store, wallState, shown, world, expiry, wake, timer>>
        /\ Goto("tx", "look") /\ call' = [call EXCEPT !["tx"] = d] /\ loop' = "busy"
        /\ fired' \in Times
    BY <1>2, DataAssumption DEF BeginExpiry, Round, NoCall, Times
  <2>2. /\ d \in Calls /\ d.nm = lastMap /\ d.base = file /\ d.view = NoCall.view
        /\ d.target = NoCall.target /\ d.stage = "derive"
    BY Values DEF Typed, Calls, NoCall
  <2>. HIDE DEF d
  <2>3. Timed'
    BY <2>1 DEF Timed
  <2>. QED
    BY <1>2, <2>1, <2>2, <2>3, Values, Begins DEF Users, Typed
<1>. QED
  BY <1>1, <1>2

LEMMA TxEnds ==
    ASSUME Typed, EndTx
    PROVE  /\ pc' \in [Users -> Places] /\ call' \in [Users -> Calls]
           /\ \A w \in Users \ {"tx"} : pc'[w] = pc[w] /\ call'[w] = call[w]
           /\ pc'["tx"] = "idle"
BY Values, Moves DEF EndTx, Places, Users

LEMMA ConcealStep ==
    ASSUME PolicyInv, Conceal
    PROVE  PolicyInv'
<1>. USE DEF PolicyInv, store, wallState, schedule, world
<1>1. /\ pc["tx"] = "conceal" /\ pc' \in [Users -> Places] /\ pc'["tx"] = "install"
      /\ pc'["src"] = pc["src"]
      /\ view' = NoView /\ UNCHANGED <<store, wallState, lastMap, schedule, call, world>>
  BY DEF Conceal, Goto, Typed, Users, Places
<1>2. Typed'
  BY <1>1, Values DEF Typed
<1>3. Staged' /\ Stored'
  BY <1>1 DEF Staged, StagedFor, Stored, Users, Rounds
<1>4. Grounded' /\ Pending'
  BY <1>1 DEF Grounded, Pending, Honours
<1>5. NothingRevived' /\ RulesAreDurable' /\ LaunchersCommitted'
  BY <1>1, Values DEF NothingRevived, RulesAreDurable, LaunchersCommitted
<1>6. Covered' /\ Timed'
  BY <1>1 DEF Covered, Timed
<1>. QED
  BY <1>2, <1>3, <1>4, <1>5, <1>6

\* A change of the expiry wakes the loop.
LEMMA ExpirySet ==
    ASSUME PolicyInv, NEW e \in Nat \cup {None}, SetExpiry(e), UNCHANGED <<loop, timer, world>>
    PROVE  Timed' /\ expiry' = e /\ wake' \in BOOLEAN
<1>1. expiry' = e /\ wake' = (wake \/ e # expiry)
  BY DEF SetExpiry
<1>. QED
  BY <1>1 DEF PolicyInv, Timed, world

\* What follows for a transaction at its installation from the firewall it leaves
\* and the expiry it sets.
LEMMA Installing ==
    ASSUME PolicyInv, pc["tx"] = "install", UNCHANGED <<store, shown, loop, timer, fired, world>>,
           EndTx \/ (Goto("tx", "engine") /\ UNCHANGED call),
           guard' \in [remote : BOOLEAN, rules : SUBSET Grants], basis' \in Floors,
           installed' \in {0} \cup DOMAIN Maps,
           expiry' \in Nat \cup {None}, wake' \in BOOLEAN,
           \A g \in guard'.rules : Honours(g, basis') /\ durable.policy.v >= g.v,
           Covered', Timed'
    PROVE  PolicyInv'
<1>. USE DEF PolicyInv, store, shown, world
<1>1. /\ pc' \in [Users -> Places] /\ call' \in [Users -> Calls]
      /\ pc'["src"] = pc["src"] /\ call'["src"] = call["src"]
      /\ \/ pc'["tx"] = "idle"
         \/ pc'["tx"] = "engine" /\ call'["tx"] = call["tx"]
  <2>1. CASE EndTx
    BY <2>1, TxEnds DEF Users
  <2>2. CASE Goto("tx", "engine") /\ UNCHANGED call
    BY <2>2 DEF Goto, Typed, Users, Places
  <2>. QED
    BY <2>1, <2>2
<1>2. Typed'
  BY <1>1 DEF Typed
<1>3. Staged' /\ Stored'
  BY <1>1 DEF Staged, StagedFor, Stored, Users, Rounds
<1>4. Grounded' /\ Pending'
  BY <1>1 DEF Grounded, Pending, Honours
<1>5. NothingRevived' /\ RulesAreDurable'
  BY DEF NothingRevived, RulesAreDurable, Honours
<1>6. LaunchersCommitted'
  BY DEF LaunchersCommitted
<1>. QED
  BY <1>2, <1>3, <1>4, <1>5, <1>6

LEMMA InstallStep ==
    ASSUME PolicyInv, Install
    PROVE  PolicyInv'
<1>. USE DEF PolicyInv
<1>. DEFINE c == call["tx"]
            policy == IF Composes(c) THEN Desired(c) ELSE [guard EXCEPT !.rules = {}]
            loads == Installs(c, policy)
            fails == policy # guard /\ Fails("guard") /\ UNCHANGED wallState
<1>0. /\ pc["tx"] = "install" /\ c \in Calls /\ c.nm \in DOMAIN Maps /\ c.base \in Floors
      /\ c.target \in Targets /\ wall \in Nat
      /\ UNCHANGED <<store, shown, loop, timer, fired, world>>
  BY DEF Install, Typed, Staged, StagedFor, Calls, Users, Times
<1>0a. \A g \in Grants : g.until \in Nat
  BY DataAssumption DEF Grant
<1>1. ASSUME NEW e \in Nat \cup {None}, SetExpiry(e)
      PROVE  Timed' /\ expiry' = e /\ wake' \in BOOLEAN
  BY <1>0, <1>1, ExpirySet
<1>2. ASSUME Installs(c, policy)
      PROVE  /\ basis' = c.base /\ installed' \in {0} \cup DOMAIN Maps
             /\ guard' = policy /\ guard' \in [remote : BOOLEAN, rules : SUBSET Grants]
             /\ \A g \in guard'.rules : Honours(g, basis') /\ durable.policy.v >= g.v
  <2>1. /\ basis' = c.base /\ guard' = policy
        /\ installed' = IF c.op = "apply" THEN c.nm ELSE installed
    BY <1>2 DEF Installs, Load
  <2>2. installed' \in {0} \cup DOMAIN Maps
    BY <1>0, <2>1 DEF Typed
  <2>3. CASE Composes(c)
    <3>1. guard' = [remote |-> c.target.required, rules |-> c.target.rules]
      BY <2>1, <2>3 DEF Desired
    <3>. QED
      BY <1>0, <2>1, <2>2, <3>1 DEF Pending, Targets
  <2>4. CASE ~Composes(c)
    <3>1. guard' = [guard EXCEPT !.rules = {}]
      BY <2>1, <2>4
    <3>. QED
      BY <2>1, <2>2, <3>1 DEF Typed
  <2>. QED
    BY <2>3, <2>4
<1>3. ASSUME UNCHANGED wallState
      PROVE  /\ guard' = guard /\ basis' \in Floors /\ installed' \in {0} \cup DOMAIN Maps
             /\ guard' \in [remote : BOOLEAN, rules : SUBSET Grants]
             /\ \A g \in guard'.rules : Honours(g, basis') /\ durable.policy.v >= g.v
  BY <1>3 DEF wallState, Typed, NothingRevived, RulesAreDurable, Honours
<1>. HIDE DEF policy
<1>4. CASE ~Composes(c) /\ (loads \/ fails) /\ SetExpiry(wall + 1) /\ EndTx
  <2>1. Timed' /\ expiry' = wall + 1 /\ wake' \in BOOLEAN
    BY <1>0, <1>1, <1>4
  <2>2. guard'.rules = {} \/ guard' = guard
    BY <1>2, <1>3, <1>4 DEF policy, Typed
  <2>3. guard' \in [remote : BOOLEAN, rules : SUBSET Grants]
    BY <1>2, <1>3, <1>4
  <2>4. Covered'
    BY <1>0, <1>0a, <2>1, <2>2, <2>3 DEF Covered, Later, None, world
  <2>. QED
    BY <1>0, <1>2, <1>3, <1>4, <2>1, <2>4, Installing
<1>5. CASE /\ Composes(c) /\ loads /\ SetExpiry(NearestExpiry(c.target.rules))
           /\ IF c.op = "apply" THEN Goto("tx", "engine") /\ UNCHANGED call ELSE EndTx
  <2>1. c.target.rules \subseteq Grants /\ guard'.rules = c.target.rules
    BY <1>0, <1>2, <1>5 DEF policy, Desired, Targets
  <2>2. NearestExpiry(c.target.rules) \in Nat \cup {None}
    BY <2>1, NearestIsFirst DEF NearestExpiry
  <2>3. Timed' /\ expiry' = NearestExpiry(c.target.rules) /\ wake' \in BOOLEAN
    BY <1>0, <1>1, <1>5, <2>2
  <2>4. Covered'
    <3>1. ASSUME NEW g \in guard'.rules
          PROVE  expiry' \in Nat /\ expiry' <= g.until /\ g.until \in Nat
      BY <1>0a, <2>1, <2>3, <3>1, NearestIsFirst
    <3>. QED
      BY <1>0, <3>1 DEF Covered, Later, None, world
  <2>. QED
    BY <1>0, <1>2, <1>5, <2>2, <2>3, <2>4, Installing
<1>6. CASE /\ Composes(c) /\ fails /\ EndTx
           /\ IF c.op = "apply" THEN UNCHANGED <<expiry, wake>> ELSE SetExpiry(wall + 1)
  <2>1. guard' = guard /\ guard.rules \subseteq Grants
    BY <1>3, <1>6 DEF Typed
  <2>2. pc'["tx"] = "idle"
    BY <1>6, TxEnds
  <2>3. CASE UNCHANGED <<expiry, wake>>
    <3>1. Timed' /\ expiry' \in Nat \cup {None} /\ wake' \in BOOLEAN
      BY <1>0, <2>3 DEF Timed, Typed, world
    <3>2. Covered'
      BY <1>0, <2>1, <2>2, <2>3 DEF Covered, shown, world
    <3>. QED
      BY <1>0, <1>3, <1>6, <3>1, <3>2, Installing
  <2>4. CASE SetExpiry(wall + 1)
    <3>1. Timed' /\ expiry' = wall + 1 /\ wake' \in BOOLEAN
      BY <1>0, <1>1, <2>4
    <3>2. Covered'
      BY <1>0, <1>0a, <2>1, <3>1 DEF Covered, Later, None, world
    <3>. QED
      BY <1>0, <1>3, <1>6, <3>1, <3>2, Installing
  <2>. QED
    BY <1>6, <2>3, <2>4
<1>. QED
  BY <1>4, <1>5, <1>6 DEF Install, policy

LEMMA EngineStep ==
    ASSUME PolicyInv, Engine
    PROVE  PolicyInv'
<1>. USE DEF PolicyInv, store, wallState, schedule, world
<1>. DEFINE c == call["tx"]
<1>0. /\ pc["tx"] = "engine" /\ c \in Calls /\ c.nm \in DOMAIN Maps /\ c.view \in Views /\ EndTx
      /\ UNCHANGED <<store, wallState, schedule, world>>
      /\ \/ lastMap' = c.nm /\ view' = c.view
         \/ UNCHANGED shown
  BY DEF Engine, Typed, Staged, StagedFor, Calls, Users
<1>1. /\ pc' \in [Users -> Places] /\ call' \in [Users -> Calls]
      /\ pc'["src"] = pc["src"] /\ call'["src"] = call["src"] /\ pc'["tx"] = "idle"
  BY <1>0, TxEnds DEF Users
<1>2. Typed'
  BY <1>0, <1>1 DEF Typed, shown
<1>3. Staged' /\ Stored'
  BY <1>0, <1>1 DEF Staged, StagedFor, Stored, Users, Rounds
<1>4. Grounded' /\ Pending'
  BY <1>1 DEF Grounded, Pending
<1>5. NothingRevived'
  BY <1>0 DEF NothingRevived
<1>6. RulesAreDurable' /\ LaunchersCommitted'
  <2>1. CASE lastMap' = c.nm /\ view' = c.view
    BY <1>0, <2>1, Numbered DEF RulesAreDurable, LaunchersCommitted, Pending
  <2>2. CASE UNCHANGED shown
    BY <1>0, <2>2 DEF RulesAreDurable, LaunchersCommitted, shown
  <2>. QED
    BY <1>0, <2>1, <2>2
<1>7. Covered' /\ Timed'
  BY <1>0, <1>1 DEF Covered, Timed
<1>. QED
  BY <1>2, <1>3, <1>4, <1>5, <1>6, <1>7

-----------------------------------------------------------------------------
(* The loop and the world. *)

\* The later of two times is one of them, and before neither.
LEMMA LaterBounds ==
    ASSUME NEW a \in Int, NEW b \in Int
    PROVE  /\ Later(a, b) \in Int /\ a <= Later(a, b) /\ b <= Later(a, b)
           /\ a \in Nat \/ b \in Nat => Later(a, b) \in Nat
BY DEF Later

\* A time is still one after the clock has moved on.
LEMMA LaterNext ==
    ASSUME NEW a \in Nat, NEW b \in Nat
    PROVE  Later(a, b + 1) \in Nat
BY DEF Later

\* A timer counts down no slower than the clock moves on.
LEMMA CountingDown ==
    ASSUME NEW w \in Nat, NEW w2 \in Nat, NEW t \in Nat \ {0}, NEW e \in Nat,
           w <= w2, w2 <= w + 1
    PROVE  /\ t - 1 \in Nat /\ t - 1 # None
           /\ w + t <= Later(e, w) => w2 + (t - 1) <= Later(e, w2)
BY DEF Later, None

\* What is neither a round nor a transaction leaves most of the invariant alone.
LEMMA Elsewhere ==
    ASSUME PolicyInv, UNCHANGED <<store, wallState, shown, expiry, locals, setting>>, Typed',
           Covered', Timed'
    PROVE  PolicyInv'
<1>. USE DEF PolicyInv, store, wallState, shown, locals
<1>1. Staged' /\ Stored' /\ Grounded' /\ Pending'
  BY DEF Staged, StagedFor, Stored, Grounded, Pending, Honours
<1>2. NothingRevived' /\ RulesAreDurable' /\ LaunchersCommitted'
  BY DEF NothingRevived, RulesAreDurable, LaunchersCommitted
<1>. QED
  BY <1>1, <1>2

LEMMA LoopStep ==
    ASSUME PolicyInv, Arm \/ Woken \/ Fire \/ Handled
    PROVE  PolicyInv'
<1>. USE DEF PolicyInv, store, wallState, shown, locals, world
<1>0. wall \in Nat /\ UNCHANGED <<expiry, store, wallState, shown, locals, world>>
  BY DEF Arm, Woken, Fire, Handled, Typed, Times
<1>1. Typed'
  <2>1. expiry # None => Later(expiry - wall, 0) \in Nat
    <3>1. expiry # None => expiry - wall \in Int
      BY <1>0 DEF Typed
    <3>2. \A d \in Int : Later(d, 0) \in Nat
      BY LaterBounds
    <3>. QED
      BY <3>1, <3>2
  <2>2. timer' \in Nat \cup {None}
    BY <2>1 DEF Arm, Woken, Fire, Handled, Typed
  <2>3. wake' \in BOOLEAN
    BY DEF Arm, Woken, Fire, Handled, Typed
  <2>4. loop' \in {"arm", "wait", "due", "busy"} /\ fired' \in Times
    BY DEF Arm, Woken, Fire, Handled, Typed
  <2>. QED
    BY <1>0, <2>2, <2>3, <2>4 DEF Typed
<1>2. Covered'
  BY <1>0 DEF Covered
<1>3. Timed'
  <2>1. CASE Arm
    BY <1>0, <2>1 DEF Timed, Typed, Arm, Later, None
  <2>2. CASE Woken \/ Fire \/ Handled
    BY <2>2 DEF Timed, Woken, Fire, Handled
  <2>. QED
    BY <2>1, <2>2
<1>. QED
  BY <1>0, <1>1, <1>2, <1>3, Elsewhere

LEMMA TickStep ==
    ASSUME PolicyInv, Tick
    PROVE  PolicyInv'
<1>. USE DEF PolicyInv
<1>0. /\ wall \in Nat /\ wall' \in Times /\ wall' \in Nat /\ wall <= wall' /\ wall' <= wall + 1
      /\ timer' \in Nat \cup {None}
      /\ UNCHANGED <<expiry, wake, loop, fired, jumped, iface, setting, store, wallState, shown, locals>>
  <2>1. setting.time \in Times
    BY SettingsAssumption DEF Typed, Setting
  <2>. QED
    BY <2>1, DataAssumption DEF Tick, Typed, Times, None
<1>1. Typed'
  BY <1>0 DEF Typed, store, wallState, shown, locals
<1>2. Covered'
  <2>1. \A g \in guard.rules : g.until \in Nat
    BY DataAssumption DEF Typed, Grant
  <2>2. \A g \in guard.rules : Later(g.until, wall + 1) <= Later(g.until, wall' + 1)
    BY <1>0, <2>1 DEF Later
  <2>3. \A g \in guard.rules : Later(g.until, wall + 1) \in Nat /\ Later(g.until, wall' + 1) \in Nat
    <3>. SUFFICES ASSUME NEW g \in guard.rules
                  PROVE  Later(g.until, wall + 1) \in Nat /\ Later(g.until, wall' + 1) \in Nat
      OBVIOUS
    <3>1. g.until \in Nat
      BY <2>1
    <3>2. wall \in Nat /\ wall' \in Nat
      BY <1>0
    <3>. QED
      BY <3>1, <3>2, LaterNext
  <2>4. expiry \in Int
    BY DEF Typed, None
  <2>. QED
    BY <1>0, <2>2, <2>3, <2>4 DEF Covered, wallState, shown, locals
<1>3. Timed'
  <2>. SUFFICES ASSUME loop = "wait", ~wake, expiry # None
                PROVE  timer' # None /\ (~jumped => wall' + timer' <= Later(expiry, wall'))
    BY <1>0 DEF Timed
  <2>1. timer # None /\ (~jumped => wall + timer <= Later(expiry, wall))
    BY DEF Timed
  <2>2. timer \in Nat /\ expiry \in Nat
    BY <2>1 DEF Typed
  <2>3. CASE timer = 0
    <3>1. timer' = 0
      BY <2>3 DEF Tick
    <3>2. wall' <= Later(expiry, wall')
      BY <1>0, <2>2, LaterBounds
    <3>. QED
      BY <1>0, <3>1, <3>2 DEF None
  <2>4. CASE timer # 0
    <3>1. timer' = timer - 1
      BY <2>2, <2>4 DEF Tick
    <3>2. timer \in Nat \ {0} /\ jumped' = jumped
      BY <1>0, <2>2, <2>4
    <3>. QED
      BY <1>0, <2>1, <2>2, <3>1, <3>2, CountingDown
  <2>. QED
    BY <2>3, <2>4
<1>. QED
  BY <1>0, <1>1, <1>2, <1>3, Elsewhere

LEMMA WorldStep ==
    ASSUME PolicyInv, Jump \/ InterfaceChanges
    PROVE  PolicyInv'
<1>. USE DEF PolicyInv, store, wallState, shown, schedule, locals
<1>0. /\ UNCHANGED <<store, wallState, shown, schedule, locals, setting>>
      /\ wall' \in Times /\ jumped' \in BOOLEAN /\ iface' \in BOOLEAN
      /\ jumped' \/ (jumped' = jumped /\ wall' = wall)
  <2>1. CASE Jump
    <3>1. setting.time \in Times
      BY SettingsAssumption DEF Typed, Setting
    <3>. QED
      BY <2>1, <3>1, DataAssumption DEF Jump, Typed, Times
  <2>2. CASE InterfaceChanges
    BY <2>2 DEF InterfaceChanges, Typed
  <2>. QED
    BY <2>1, <2>2
<1>1. Typed'
  BY <1>0 DEF Typed
<1>2. Covered' /\ Timed'
  BY <1>0 DEF Covered, Timed
<1>. QED
  BY <1>0, <1>1, <1>2, Elsewhere

\* A power failure leaves an empty firewall and no transaction.
LEMMA RebootStep ==
    ASSUME PolicyInv, Reboot
    PROVE  PolicyInv'
<1>. USE DEF PolicyInv, world
<1>1. Typed'
  BY Values, DataAssumption DEF Reboot, Typed, Open, Places
<1>2. Staged' /\ Grounded' /\ Pending'
  BY DEF Reboot, Staged, StagedFor, Grounded, Pending, Users, Rounds
<1>3. Stored'
  <2>1. Keeps(acked, file) /\ Keeps(acked, durable)
    BY KeepsTransitive DEF Stored, Typed
  <2>2. file' = durable' /\ file' \in {file, durable} /\ acked' = acked
    BY DEF Reboot
  <2>3. Keeps(acked', durable') /\ Keeps(durable', file')
    BY <2>1, <2>2, KeepsRefl DEF Typed
  <2>. QED
    BY <2>2, <2>3 DEF Reboot, Stored, Users
<1>4. NothingRevived' /\ RulesAreDurable' /\ LaunchersCommitted' /\ Covered' /\ Timed'
  BY DEF Reboot, NothingRevived, RulesAreDurable, LaunchersCommitted, Covered, Timed, Open, NoView
<1>. QED
  BY <1>1, <1>2, <1>3, <1>4

-----------------------------------------------------------------------------
(* The theorems. *)

LEMMA InitInv == Init => PolicyInv
<1>. SUFFICES ASSUME Init
              PROVE  PolicyInv
  OBVIOUS
<1>1. Typed
  BY Values, DataAssumption DEF Init, Typed, Open, Places, Users
<1>2. Staged /\ Grounded /\ Pending
  BY DEF Init, Staged, StagedFor, Grounded, Pending, Users, Rounds
<1>3. Stored
  BY Values, KeepsRefl DEF Init, Stored, Users
<1>4. NothingRevived /\ RulesAreDurable /\ LaunchersCommitted /\ Covered /\ Timed
  BY DEF Init, NothingRevived, RulesAreDurable, LaunchersCommitted, Covered, Timed, Open, NoView
<1>. QED
  BY <1>1, <1>2, <1>3, <1>4 DEF PolicyInv

LEMMA NextInv ==
    ASSUME SyncsWork, PolicyInv, [Next]_vars
    PROVE  PolicyInv'
<1>1. CASE BeginApply \/ BeginSource
  BY <1>1, BeginApplyStep, BeginSourceStep
<1>2. CASE Transaction
  BY <1>2, LookStep, ReadStep, AdvanceStep, SyncStep, ConcealStep, InstallStep, EngineStep DEF Transaction
<1>3. CASE Loop
  BY <1>3, LoopStep, BeginExpiryStep DEF Loop
<1>4. CASE Tick \/ Jump \/ InterfaceChanges \/ Reboot
  BY <1>4, TickStep, WorldStep, RebootStep
<1>5. CASE UNCHANGED vars
  <2>1. UNCHANGED <<store, wallState, shown, schedule, locals, world>>
    BY <1>5 DEF vars
  <2>2. Typed' /\ Covered' /\ Timed'
    BY <2>1 DEF PolicyInv, Typed, Covered, Timed, store, wallState, shown, schedule, locals, world
  <2>. QED
    BY <2>1, <2>2, Elsewhere DEF schedule, world
<1>. QED
  BY <1>1, <1>2, <1>3, <1>4, <1>5 DEF Next

LEMMA Invariance ==
    ASSUME SyncsWork
    PROVE  Spec => []PolicyInv
<1>1. PolicyInv /\ [Next]_vars => PolicyInv'
  BY NextInv
<1>. QED
  BY InitInv, <1>1, PTL DEF Spec

LEMMA Scheduling ==
    ASSUME PolicyInv
    PROVE  ExpiryScheduled
<1>. SUFFICES ASSUME lastMap # 0, NEW g \in guard.rules
              PROVE  Scheduled(g)
  BY DEF ExpiryScheduled
<1>1. expiry # None /\ (~jumped => expiry <= Later(g.until, wall + 1))
  BY DEF PolicyInv, Covered
<1>2. g.until \in Nat /\ wall \in Nat /\ expiry \in Nat
  BY <1>1, DataAssumption DEF PolicyInv, Typed, Grant, Times
<1>3. CASE loop \in {"arm", "busy"} \/ wake
  BY <1>1, <1>3 DEF Scheduled
<1>4. CASE loop = "wait" /\ ~wake
  <2>1. timer # None /\ (~jumped => wall + timer <= Later(expiry, wall))
    BY <1>1, <1>4 DEF PolicyInv, Timed
  <2>2. timer \in Nat
    BY <2>1 DEF PolicyInv, Typed
  <2>3. ~jumped => wall + timer <= Later(g.until, wall + 1)
    BY <1>1, <1>2, <2>1, <2>2 DEF Later
  <2>. QED
    BY <1>4, <2>1, <2>3 DEF Scheduled
<1>. QED
  BY <1>3, <1>4 DEF PolicyInv, Typed, Scheduled

\* The state is well formed and a floor that an Advance reported kept is never
\* lost or undercut, by another version's payload, by a clock set back, by the
\* other process or by a power failure, if directories can be synced
\* (FilePolicyFloorStore).
THEOREM FloorIsKept ==
    ASSUME SyncsWork
    PROVE  Spec => []FloorHolds
<1>1. PolicyInv => FloorHolds
  <2>. SUFFICES ASSUME PolicyInv
                PROVE  FloorHolds
    OBVIOUS
  <2>1. 0 .. Cardinality(DOMAIN Maps) = {0} \cup DOMAIN Maps
    <3>. DEFINE last == Cardinality(DOMAIN Maps)
    <3>1. DOMAIN Maps = 1 .. last
      BY DataAssumption
    <3>2. last \in Nat
      BY <3>1, DataAssumption, FS_CardinalityType
    <3>. HIDE DEF last
    <3>3. 0 .. last = {0} \cup 1 .. last
      BY <3>2
    <3>. QED
      BY <3>1, <3>3 DEF last
  <2>2. TypeOK
    BY <2>1 DEF PolicyInv, Typed, TypeOK, Views, Places
  <2>3. AckedFloorSurvives
    BY KeepsTransitive DEF PolicyInv, Stored, Typed, AckedFloorSurvives
  <2>. QED
    BY <2>2, <2>3 DEF FloorHolds
<1>. QED
  BY <1>1, Invariance, PTL

\* What is open is granted under a durable floor, what is shown by the netmap that was
\* committed; once a netmap is committed, what is open is so for as long only as
\* something scheduled will close it (applyNetmapLocked, reconcileRemoteTargetExpiry).
THEOREM OnlyLicensedRules ==
    ASSUME SyncsWork
    PROVE  Spec => []RulesLicensed
<1>1. PolicyInv => RulesLicensed
  BY Scheduling DEF PolicyInv, RulesLicensed
<1>. QED
  BY <1>1, Invariance, PTL
=============================================================================
