------------------------------- MODULE Repair -------------------------------
(***************************************************************************)
(* The Network Doctor's repairs: the daemon's one-slot API that issues a   *)
(* one-use plan and redeems it (internal/daemon/doctor_api.go), and the    *)
(* engine that executes a plan it does not trust                           *)
(* (internal/diagnose/repair_exec.go).                                     *)
(*                                                                         *)
(* The host is one number per resource: 0 is cleared or torn, 1 what was   *)
(* found, 2 repaired, larger ones the choices of others; the MTUs are      *)
(* themselves.  Users and the rest of the daemon change it at any moment.  *)
(***************************************************************************)
EXTENDS RepairCatalog

CONSTANTS Settings, Clients, Nil

VARIABLES setting,
          host,      \* [resource -> value], and 1 or 0: whether the exit is routed
          daemon,    \* [session, up, resolver]: the n-th Run, alive or over
          slot,      \* the client that holds NetworkDoctor.run
          call,      \* per client: what it is in the middle of
          auth,      \* the plan authorisation, with its age
          begun,     \* diagnoses begun
          issued,    \* history: [token, session] of every token handed out
          grants,    \* history: the consumptions, in order
          exec,      \* the execution in progress
          results,   \* history: [action, status] of finished repairs
          moves      \* steps of others taken

vars == <<setting, host, daemon, slot, call, auth, begun, issued, grants, exec, results, moves>>

Resource(action) ==
  [flushDNS |-> "dns", reconnectCoordinator |-> "coordinator", reselectRelay |-> "relay",
   rearmKillSwitch |-> "guard", lowerMTU |-> "mtu", reapplyRoutes |-> "routes",
   restartWireGuard |-> "wireguard", rebuildExit |-> "exit"][action]

Statuses == {"applied", "rolled_back", "postcondition_failed", "uncertain",
             "rollback_failed", "snapshot_failed", "skipped"}
Restored == {"rolled_back", "postcondition_failed"}

Idle == [stage |-> "idle", action |-> Nil, token |-> 0]

Resources == {"dns", "coordinator", "relay", "guard", "mtu", "path", "routes", "wireguard", "exit"}
Hosts == [Resources \cup {"routed"} -> Nat]

\* A setting has the daemon's API or one library caller with a plan, of any
\* actions and recipes.  Others change what is found on a host, not its kind.
ASSUME SettingsAssumption ==
  \A s \in Settings :
    /\ s.hosts \subseteq Hosts /\ s.resolver \in BOOLEAN /\ s.runs \in Nat
    /\ s.touchable \subseteq Resources /\ s.values \subseteq Nat
    /\ s.plan \in Seq([action : STRING, recipe : STRING]) /\ (s.plan # <<>> => s.runs = 0)
ASSUME NilAssumption == Nil \notin Clients /\ Nil \notin Statuses

-----------------------------------------------------------------------------
(* The session, and everyone else. *)

StartSession ==
  /\ ~daemon.up /\ daemon.session < setting.sessions
  /\ daemon' = [daemon EXCEPT !.up = TRUE, !.session = @ + 1]
  /\ UNCHANGED <<setting, host, slot, call, auth, begun, issued, grants, exec, results, moves>>

EndSession ==
  /\ daemon.up
  /\ daemon' = [daemon EXCEPT !.up = FALSE]
  /\ UNCHANGED <<setting, host, slot, call, auth, begun, issued, grants, exec, results, moves>>

\* The context of the daemon's Run: absent before the first, over after each.
SessionOver == daemon.session > 0 /\ ~daemon.up

Others ==
  /\ moves < setting.moves
  /\ \E r \in setting.touchable, v \in setting.values :
       /\ host' = [host EXCEPT ![r] = v, !.routed = IF r = "exit" THEN 0 ELSE @]
       /\ host' # host
       /\ exec' = IF exec = Nil THEN Nil ELSE [exec EXCEPT !.others = @ \union {r}]
  /\ moves' = moves + 1
  /\ UNCHANGED <<setting, daemon, slot, call, auth, begun, issued, grants, results>>

\* The next netmap installs the route of the selected exit.
Routed ==
  /\ host.exit # 0 /\ host.routed = 0
  /\ host' = [host EXCEPT !.routed = 1]
  /\ UNCHANGED <<setting, daemon, slot, call, auth, begun, issued, grants, exec, results, moves>>

Lapse ==
  /\ auth # Nil /\ ~auth.lapsed
  /\ auth' = [auth EXCEPT !.lapsed = TRUE]
  /\ UNCHANGED <<setting, host, daemon, slot, call, begun, issued, grants, exec, results, moves>>

-----------------------------------------------------------------------------
(* The API: Run.                                                           *)

Place(c, stage, action, token) ==
  call' = [call EXCEPT ![c] = [stage |-> stage, action |-> action, token |-> token]]
Return(c) == call' = [call EXCEPT ![c] = Idle]

\* The deferred release of the slot.
Release(c) == Return(c) /\ slot' = Nil

Findings(h) ==
  (IF h.dns = 1 THEN {"dns.poison_suspected"} ELSE {}) \union
  (IF h.exit # 0 /\ h.routed = 0 THEN {"exit.route_missing"} ELSE {})

Env(h) ==
  [resolver |-> setting.dnsServers, interface |-> TRUE, exitSelected |-> h.exit # 0,
   relays |-> 1, coordinator |-> TRUE, linkMTU |-> h.mtu,
   pathMTU |-> IF setting.seeded THEN h.path ELSE 0]

Planned(h) == {a \in Actions : Fixes(a) \intersect Findings(h) # {} /\ Applicable(a, Env(h))}

SupportedDoctorRepair(action) == action = "flushDNS"
CanExecuteRepair(action) ==
  SupportedDoctorRepair(action) /\ daemon.resolver /\ ~SessionOver

\* Mutant: a diagnosis leaves the previous authorisation in place.
Cleared_Kept == auth

Cleared == Nil

\* Acquire the slot, forget every older authorisation, and diagnose.
BeginRun(c) ==
  /\ call[c] = Idle /\ slot = Nil /\ begun < setting.runs
  /\ slot' = c /\ begun' = begun + 1 /\ auth' = Cleared
  /\ Place(c, "diagnose", Nil, begun + 1)
  /\ UNCHANGED <<setting, host, daemon, issued, grants, exec, results, moves>>

\* The diagnosis: what it finds, and which of it this daemon can execute.
Diagnose(c) ==
  /\ call[c].stage = "diagnose"
  /\ LET available == {a \in Planned(host) : CanExecuteRepair(a)} IN
     IF available # {}
     THEN Place(c, "issue", available, call[c].token) /\ UNCHANGED <<slot, auth>>
     ELSE Release(c) /\ auth' = Nil
  /\ UNCHANGED <<setting, host, daemon, begun, issued, grants, exec, results, moves>>

\* issuePlan, or no randomness for a token.
Issue(c) ==
  /\ call[c].stage = "issue"
  /\ \/ /\ auth' = [token |-> call[c].token, actions |-> call[c].action,
                    session |-> daemon.session, lapsed |-> FALSE]
        /\ issued' = issued \union {[token |-> call[c].token, session |-> daemon.session]}
     \/ UNCHANGED <<auth, issued>>
  /\ Release(c)
  /\ UNCHANGED <<setting, host, daemon, begun, grants, exec, results, moves>>

-----------------------------------------------------------------------------
(* The API: Repair.                                                        *)

Tokens == {i.token : i \in issued} \union {0}

\* Mutant: a repair does not wait for its turn.
MayEnter_Always == TRUE

MayEnter == slot = Nil

\* Unsupported and busy calls change nothing; any other takes the slot.
BeginRepair(c) ==
  /\ call[c] = Idle /\ MayEnter /\ Len(grants) < setting.repairs
  /\ \E t \in Tokens, a \in setting.asked :
       /\ CanExecuteRepair(a)
       /\ Place(c, "consume", a, t)
  /\ slot' = c
  /\ UNCHANGED <<setting, host, daemon, auth, begun, issued, grants, exec, results, moves>>

\* The session the authorisation was issued in is over, or its five minutes are.
Expired == auth.lapsed \/ (auth.session > 0 /\ (daemon.session > auth.session \/ ~daemon.up))

\* consumePlan: one use, only what it names; a wrong guess leaves it standing.
Consume(c) ==
  /\ call[c].stage = "consume"
  /\ LET refuse == Release(c) /\ UNCHANGED grants IN
     IF call[c].token = 0 \/ auth = Nil THEN refuse /\ UNCHANGED auth
     ELSE IF Expired THEN refuse /\ auth' = Nil
     ELSE IF auth.token # call[c].token \/ call[c].action \notin auth.actions
     THEN refuse /\ UNCHANGED auth
     ELSE /\ auth' = Nil
          /\ grants' = Append(grants, [token |-> auth.token, action |-> call[c].action,
                                       newest |-> begun, session |-> daemon.session, up |-> daemon.up])
          /\ Place(c, "replan", call[c].action, call[c].token) /\ UNCHANGED slot
  /\ UNCHANGED <<setting, host, daemon, begun, issued, exec, results, moves>>

\* An execution of a plan; every plan is untrusted.
Fresh(c, plan) ==
  [by |-> c, plan |-> plan, at |-> 1, stage |-> "env", k |-> 1, late |-> FALSE,
   env |-> Nil, captured |-> Nil, base |-> host, others |-> {},
   attempted |-> FALSE, wrote |-> FALSE, cause |-> Nil, rollbackOK |-> TRUE, status |-> Nil]

\* The authorised action is diagnosed and planned anew before it is executed.
Replan(c) ==
  /\ call[c].stage = "replan"
  /\ IF call[c].action \in Planned(host)
     THEN /\ exec' = Fresh(c, <<[action |-> call[c].action, recipe |-> "catalog"]>>)
          /\ Place(c, "execute", call[c].action, call[c].token) /\ UNCHANGED slot
     ELSE Release(c) /\ UNCHANGED exec
  /\ UNCHANGED <<setting, host, daemon, auth, begun, issued, grants, results, moves>>

\* A library caller of diagnose.Execute, with a plan of its own making.
Library(c) ==
  /\ setting.plan # <<>> /\ call[c] = Idle /\ exec = Nil /\ results = <<>>
  /\ exec' = Fresh(c, setting.plan)
  /\ Place(c, "execute", Nil, 0)
  /\ UNCHANGED <<setting, host, daemon, slot, auth, begun, issued, grants, results, moves>>

-----------------------------------------------------------------------------
(* The engine.                                                             *)

ThisRepair == exec.plan[exec.at]
Act == ThisRepair.action
Step(next) == exec' = next
EngineOnly == UNCHANGED <<setting, daemon, slot, call, auth, begun, issued, grants, moves>>

\* Mutant: the repair ends without a status.
Close_Bare(e, status) == [e EXCEPT !.stage = "closed"]

Close(e, status) == [e EXCEPT !.stage = "closed", !.status = status]

\* The environment the preconditions are judged in.
Observe ==
  /\ exec # Nil /\ exec.stage = "env"
  /\ Step([exec EXCEPT !.env = Env(host), !.stage = "check"])
  /\ UNCHANGED <<host, results>> /\ EngineOnly

\* Mutant: an action may be named twice.
Refused_TwiceOK == ThisRepair.recipe # "catalog" \/ Act \notin Actions

\* A repeated action, a forbidden operation, an unknown action, a recipe that is
\* not the catalogue's.
Refused ==
  \/ \E i \in 1..(exec.at - 1) : exec.plan[i].action = Act
  \/ ThisRepair.recipe # "catalog" \/ Act \notin Actions

Check ==
  /\ exec # Nil /\ exec.stage = "check"
  /\ Step(IF Refused THEN Close(exec, "skipped")
          ELSE IF ~Applicable(Act, exec.env) THEN Close(exec, "skipped")
          ELSE [exec EXCEPT !.stage = "capture"])
  /\ UNCHANGED <<host, results>> /\ EngineOnly

\* The execution's deadline, or the caller giving up.
Late ==
  /\ exec # Nil /\ exec.stage \in {"capture", "apply", "verify"} /\ ~exec.late /\ setting.deadlines
  /\ Step([exec EXCEPT !.late = TRUE])
  /\ UNCHANGED <<host, results>> /\ EngineOnly

\* What the executor can capture and run: the daemon's own knows the exit alone.
CanCapture(kind) == setting.executor = "any" \/ (kind = "exit" /\ host.exit # 0)
CanApply(op) == setting.executor = "any" \/ op \in {"flush", "clearExit", "setExit"}
CanCheck(action) == setting.executor = "any" \/ action \in {"flushDNS", "rearmKillSwitch", "rebuildExit"}

\* Every snapshot before anything is applied; the path MTU may be missing.
Capture ==
  /\ exec # Nil /\ exec.stage = "capture"
  /\ LET kinds == Snapshots(Act)
         taken(h) == [exec EXCEPT !.stage = "guard", !.captured = h, !.base = host, !.others = {}] IN
     \/ kinds # <<>> /\ Step(Close(exec, "snapshot_failed"))
     \/ kinds = <<>> /\ Step(taken(Nil))
     \/ /\ kinds # <<>> /\ CanCapture(kinds[1])
        /\ \E path \in {0, host.path} : Step(taken([host EXCEPT !.path = path]))
  /\ UNCHANGED <<host, results>> /\ EngineOnly

\* Mutant: the link as captured is not asked for.
GuardHolds_PathOnly(captured) == RepairFloorMTU <= captured.path

\* mtuLowerExecuteGuard on the captured evidence: 0 is no evidence.
GuardHolds(captured) == RepairFloorMTU <= captured.mtu /\ RepairFloorMTU <= captured.path

Guard ==
  /\ exec # Nil /\ exec.stage = "guard"
  /\ Step(IF Act = "lowerMTU" /\ ~GuardHolds(exec.captured) THEN Close(exec, "skipped")
          ELSE [exec EXCEPT !.stage = "apply"])
  /\ UNCHANGED <<host, results>> /\ EngineOnly

\* What an operation does to the host when it works.
Effect(op, h, captured) ==
  IF op = "clearExit" THEN [r \in DOMAIN h |-> IF r \in {"exit", "routed"} THEN 0 ELSE h[r]]
  ELSE IF op = "setMTU" THEN [h EXCEPT !.mtu = RepairFloorMTU]
  ELSE IF op \in {"setExit", "restoreMTU", "restoreRoutes", "restoreWG"}
  THEN [h EXCEPT ![Resource(Act)] = captured[Resource(Act)]]
  ELSE [h EXCEPT ![Resource(Act)] = 2]

\* And when it fails: nothing, everything, or the resource torn.
Torn(op, h, captured) == {h, Effect(op, h, captured), [h EXCEPT ![Resource(Act)] = 0]}

Works(op) == CanApply(op) /\ ~(setting.executor = "daemon" /\ op = "flush" /\ (SessionOver \/ ~daemon.resolver))

\* Mutant: whatever failed, the rollback is run.
AfterFailure_Always(e) == [e EXCEPT !.stage = "rollback", !.k = 1, !.cause = "apply"]

\* Nothing was attempted: nothing is undone.
AfterFailure(e) ==
  IF e.attempted THEN [e EXCEPT !.stage = "rollback", !.k = 1, !.cause = "apply"]
  ELSE Close(e, "rolled_back")

ApplyStep ==
  /\ exec # Nil /\ exec.stage = "apply"
  /\ LET steps == ApplySteps(Act)
         op    == steps[exec.k]
         tried == [exec EXCEPT !.attempted = TRUE, !.wrote = TRUE] IN
     \/ exec.late /\ Step(AfterFailure(exec)) /\ UNCHANGED host
     \/ /\ ~exec.late /\ Works(op) /\ host' = Effect(op, host, exec.captured)
        /\ Step(IF exec.k = Len(steps) THEN [tried EXCEPT !.stage = "verify"]
                ELSE [tried EXCEPT !.k = @ + 1])
     \/ /\ ~exec.late /\ Step(AfterFailure(tried))
        /\ IF CanApply(op) THEN host' \in Torn(op, host, exec.captured) ELSE UNCHANGED host
  /\ UNCHANGED results /\ EngineOnly

\* What the postcondition of an action asks of the host.
PostHolds(action, h) ==
  IF action = "lowerMTU" THEN h.mtu <= h.path
  ELSE IF action = "rebuildExit" THEN h.routed = 1 /\ h.exit # 0
  ELSE h[Resource(action)] = 2

\* Mutant: the check waits for the route whatever the deadline says.
Waits_Forever(action) == action = "rebuildExit" /\ ~PostHolds(action, host)

\* The daemon's check of an exit's route polls until it is there or time is up.
Waits(action) ==
  setting.executor = "daemon" /\ action = "rebuildExit" /\ ~PostHolds(action, host) /\ ~exec.late

Verify ==
  /\ exec # Nil /\ exec.stage = "verify" /\ ~Waits(Act)
  /\ \/ CanCheck(Act) /\ PostHolds(Act, host) /\ Step(Close(exec, "applied"))
     \/ /\ ~(CanCheck(Act) /\ PostHolds(Act, host) /\ setting.exact)
        /\ Step([exec EXCEPT !.stage = "rollback", !.k = 1, !.cause = "post"])
  /\ UNCHANGED <<host, results>> /\ EngineOnly

\* Mutant: without a recipe there is nothing left to restore.
Outcome_NoUncertain(e) ==
  IF ~e.rollbackOK THEN "rollback_failed"
  ELSE IF e.cause = "apply" THEN "rolled_back" ELSE "postcondition_failed"

Outcome(e) ==
  IF ~e.rollbackOK THEN "rollback_failed"
  ELSE IF RollbackSteps(Act) = <<>> THEN "uncertain"
  ELSE IF e.cause = "apply" THEN "rolled_back" ELSE "postcondition_failed"

\* Every rollback step is run, under a deadline of its own.
Rollback ==
  /\ exec # Nil /\ exec.stage = "rollback"
  /\ LET steps == RollbackSteps(Act) IN
     IF exec.k > Len(steps)
     THEN Step(Close(exec, Outcome(exec))) /\ UNCHANGED host
     ELSE LET op == steps[exec.k]
              next == [exec EXCEPT !.k = @ + 1, !.wrote = TRUE] IN
          \/ Works(op) /\ host' = Effect(op, host, exec.captured) /\ Step(next)
          \/ /\ host' \in (IF CanApply(op) THEN Torn(op, host, exec.captured) ELSE {host})
             /\ Step([next EXCEPT !.rollbackOK = FALSE])
  /\ UNCHANGED results /\ EngineOnly

\* The next repair of the plan, or the answer to the caller.
NextRepair ==
  /\ exec # Nil /\ exec.stage = "closed"
  /\ results' = Append(results, [action |-> Act, status |-> exec.status])
  /\ IF exec.at < Len(exec.plan)
     THEN /\ exec' = [Fresh(exec.by, exec.plan) EXCEPT !.at = exec.at + 1, !.env = exec.env, !.stage = "check"]
          /\ UNCHANGED <<call, slot>>
     ELSE /\ exec' = Nil /\ Return(exec.by)
          /\ slot' = IF slot = exec.by THEN Nil ELSE slot
  /\ UNCHANGED <<setting, host, daemon, auth, begun, issued, grants, moves>>

Engine == Observe \/ Check \/ Capture \/ Guard \/ ApplyStep \/ Verify \/ Rollback \/ NextRepair

Calls(c) == Diagnose(c) \/ Issue(c) \/ Consume(c) \/ Replan(c)

Init ==
  /\ setting \in Settings /\ host \in setting.hosts
  /\ daemon = [session |-> 0, up |-> FALSE, resolver |-> setting.resolver]
  /\ slot = Nil /\ call = [c \in Clients |-> Idle] /\ auth = Nil
  /\ begun = 0 /\ issued = {} /\ grants = <<>> /\ exec = Nil /\ results = <<>> /\ moves = 0

Next ==
  \/ \E c \in Clients : BeginRun(c) \/ BeginRepair(c) \/ Library(c) \/ Calls(c)
  \/ Engine \/ Late
  \/ StartSession \/ EndSession \/ Others \/ Routed \/ Lapse

Spec == Init /\ [][Next]_vars

\* Calls proceed, an executor's calls return, and the execution's deadline comes.
FairSpec ==
  Spec /\ WF_vars(Engine) /\ WF_vars(Late) /\ \A c \in Clients : WF_vars(Calls(c))

-----------------------------------------------------------------------------
(* Properties.                                                             *)

Busy(c) == call[c].stage # "idle"

\* The variables range over what the API and the engine can hold.
TypeOK ==
  /\ slot \in Clients \union {Nil} /\ begun \in 0..setting.runs
  /\ \A c \in Clients : call[c].stage \in {"idle", "diagnose", "issue", "consume", "replan", "execute"}
  /\ auth # Nil => auth.token \in 1..begun /\ auth.session <= daemon.session
  /\ \A i \in 1..Len(results) : results[i].status \in Statuses
  /\ exec # Nil =>
       /\ exec.stage \in {"env", "check", "capture", "guard", "apply", "verify", "rollback", "closed"}
       /\ exec.at \in 1..Len(exec.plan) /\ exec.stage = "closed" <=> exec.status # Nil
       /\ Busy(exec.by) /\ call[exec.by].stage = "execute"

\* Probes and privileged repairs of different callers never run together
\* (doctor_api.go:85-87); only a library caller is outside the slot.
OneAtATime ==
  \A c, d \in Clients : Busy(c) /\ Busy(d) /\ c # d => setting.plan # <<>>

\* A token is redeemed once, for the newest diagnosis begun, while the session it
\* was issued in, if any, lives: no older plan stays executable (doctor_api.go:222-224).
OneUse ==
  \A i \in 1..Len(grants) :
    /\ grants[i].token = grants[i].newest
    /\ \A j \in 1..Len(grants) : grants[i].token = grants[j].token => i = j
    /\ \E t \in issued : t.token = grants[i].token /\
         (t.session = 0 \/ (t.session = grants[i].session /\ grants[i].up))

\* A plan nobody planned changes nothing: what is applied is the catalogue's recipe,
\* once per action, judged applicable in the environment of the execution.
PlanIsUntrusted ==
  exec # Nil /\ exec.wrote =>
    /\ ThisRepair.recipe = "catalog" /\ Act \in Actions
    /\ IF setting.plan # <<>>
       THEN \A i \in 1..Len(results) : results[i].action = Act => results[i].status = "skipped"
       ELSE SupportedDoctorRepair(Act)

\* A status that reads "no lasting change" is only given when there is none, except
\* where others changed the same thing; "applied" only when the goal was reached
\* (repair_exec.go:44-90).
HonestStatus ==
  exec # Nil /\ exec.stage = "closed" =>
    /\ exec.status \in {"skipped", "snapshot_failed"} => ~exec.wrote
    /\ exec.status \in Restored =>
         \A r \in DOMAIN host \ ({"routed"} \union exec.others) : host[r] = exec.base[r]
    /\ exec.status = "applied" =>
         \/ PostHolds(Act, host)
         \/ exec.others \intersect {Resource(Act), "path"} # {}

\* What the engine changes is the resource of the action it has attempted; a repair
\* that applied nothing restores nothing, and so overwrites nobody
\* (repair_exec.go:288-296).
OthersSurvive ==
  [][\A r \in DOMAIN host \ {"routed"} : host'[r] # host[r] /\ moves' = moves
       => exec'.attempted /\ r = Resource(Act)]_vars

\* Applying the MTU repair never raises the link's MTU above what was captured of
\* the link and of the path, unless others changed it since (repair.go:300-306).
NeverRaises ==
  [][exec # Nil /\ exec.stage = "apply" /\ host'.mtu > host.mtu /\ moves' = moves
       => "mtu" \in exec.others]_vars

\* Every call returns, and with it the slot (doctor_api.go:128, repair_exec.go:226).
CallsEnd == \A c \in Clients : Busy(c) ~> ~Busy(c)

\* A plan is executed for the caller who was given it, once, alone, and as far as
\* the catalogue and the environment of the moment allow (doctor_api.go, Execute).
PlansSound == TypeOK /\ OneAtATime /\ OneUse /\ PlanIsUntrusted

\* A repair changes what it is for, in the direction it is for (apply, rollback).
OthersKept == OthersSurvive /\ NeverRaises
=============================================================================
