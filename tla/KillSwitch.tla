------------------------------ MODULE KillSwitch ------------------------------
(***************************************************************************)
(* How the daemon routes a host through an exit and keeps it from leaking:  *)
(* the netmap transaction (applyNetmap), the calls that change the exit and *)
(* the internet fallback, the loops that demote, rebuild and re-arm, and    *)
(* start, stop and death of the process.                                    *)
(*                                                                          *)
(* Three things must agree and are changed one after the other: what the    *)
(* user wants (preferred, fallback, and their files), what the engine has   *)
(* installed (default routes through an exit), and what the firewall lets   *)
(* through.  applyMu serializes transactions; the flags around it are under *)
(* another mutex and change at any time.                                    *)
(*                                                                          *)
(* The daemon runs with -kill-switch.  A firewall policy is the tunnel      *)
(* interface it admits, or Off; its remote-access half is left out.         *)
(***************************************************************************)
EXTENDS Integers

CONSTANTS
    Procs,         \* goroutines: the session, the loops and API callers
    NoProc,
    Exits, NoExit,
    MaxVersion,    \* netmap versions
    MaxIface,      \* tunnel interfaces created
    Settings       \* what may happen; one of these does

ASSUME NamesAssumption == NoProc \notin Procs /\ NoExit \notin Exits
ASSUME BoundsAssumption == MaxVersion \in Nat \ {0} /\ MaxIface \in Nat \ {0}

Versions == 1 .. MaxVersion
Off == 0
Policies == 0 .. MaxIface

\* A setting: the goroutines; what they do; which calls fail; and the usable
\* exits (listed, and verified by applyNetmap) of each netmap version.
Setting == [procs : SUBSET Procs,
            ops : SUBSET {"set", "clear", "fallback", "reapply", "drop", "roam", "health",
                          "silent", "stop", "late", "kill"},
            faults : SUBSET {"guard", "engine", "routes", "save", "stats", "recover", "down"},
            fallback : BOOLEAN,
            maps : SUBSET [Versions -> SUBSET Exits]]

ASSUME SettingsAssumption == Settings \subseteq Setting

VARIABLES
    preferred, fallback,        \* preferredExit and internetFallback
    savedExit, savedFallback,   \* their files
    applied,                    \* lastNetmap.Version
    savedMap,                   \* the version of the last-known-good file
    exitKey, exitRouted,        \* what the daemon believes the engine routes
    status,                     \* the KillSwitch and SelectedExit it reports
    up, iface,                  \* the engine's device
    cfg, routes,                \* the exit of its last accepted configuration; of its routes
    guard,                      \* the firewall policy in the kernel
    current,                    \* the one the enforcer remembers
    fresh,                      \* exits whose handshake is recent enough
    latest,                     \* the coordinator's newest version
    recovering,                 \* networkRecoveryInProgress
    cleanup,                    \* the cleanup-pending file
    phase,                      \* of the process
    applyMu,
    pc, call,                   \* each goroutine's place and locals
    setting, maps               \* never change

intent == <<preferred, fallback, savedExit, savedFallback>>
books == <<applied, savedMap, exitKey, exitRouted, status>>
device == <<up, iface, cfg, routes>>
wall == <<guard, current>>
world == <<fresh, latest, setting, maps>>
life == <<recovering, cleanup, phase>>
locals == <<applyMu, pc, call>>
vars == <<intent, books, device, wall, world, life, locals>>

\* What a call has read and computed.
NoCall == [op |-> "none", nm |-> 0, exit |-> NoExit, flag |-> FALSE, routed |-> FALSE,
           want |-> FALSE, prior |-> Off, desired |-> Off, tries |-> 0]

NoStatus == [killSwitch |-> FALSE, selected |-> NoExit]

Init ==
    /\ setting \in Settings
    /\ maps \in setting.maps
    /\ preferred = NoExit /\ savedExit = NoExit
    /\ fallback = setting.fallback /\ savedFallback = fallback
    /\ applied = 0 /\ savedMap = 0
    /\ exitKey = NoExit /\ exitRouted = FALSE
    /\ status = NoStatus
    /\ up = TRUE /\ iface = 1 /\ cfg = NoExit /\ routes = NoExit
    /\ guard = Off /\ current = Off
    /\ fresh = {}
    /\ latest = 1
    /\ recovering = FALSE
    /\ cleanup = TRUE
    /\ phase = "running"
    /\ applyMu = NoProc
    /\ pc = [p \in Procs |-> "idle"]
    /\ call = [p \in Procs |-> NoCall]

-----------------------------------------------------------------------------
(* Helpers. *)

Goto(p, label) == pc' = [pc EXCEPT ![p] = label]
Fails(f) == f \in setting.faults
Busy(op) == \E p \in Procs : call[p].op = op

\* The exit of netmap version v the user's preference matches.
Selected(v) == IF v > 0 /\ preferred \in maps[v] THEN preferred ELSE NoExit

\* Calls and loops overlap the shutdown: Run does not wait for them.
Late == "late" \in setting.ops

\* A goroutine begins an operation.
Begins(p, op) ==
    /\ p \in setting.procs /\ op \in setting.ops \cup {"sync"}
    /\ phase = "running" \/ (Late /\ phase # "down")
    /\ pc[p] = "idle"

\* ... which applies netmap version nm, and remembers what it replaced.
Applies(p, op, nm, exit, flag) ==
    call' = [call EXCEPT ![p] = [NoCall EXCEPT !.op = op, !.nm = nm, !.exit = exit, !.flag = flag]]

\* It returns.
Ends(p) == Goto(p, "idle") /\ call' = [call EXCEPT ![p] = NoCall]

-----------------------------------------------------------------------------
(* The operations. *)

\* The session registers or polls, and applies what the coordinator has.
Sync(p) ==
    /\ Begins(p, "sync")
    /\ ~Busy("sync") /\ phase = "running"
    /\ Applies(p, "sync", latest, NoExit, FALSE)
    /\ Goto(p, "wait")
    /\ UNCHANGED <<intent, books, device, wall, world, life, applyMu>>

\* A relay, a direct path or the exit's handshake changed: reapplyNetmap.
Reapply(p) ==
    /\ Begins(p, "reapply")
    /\ applied > 0
    /\ Applies(p, "reapply", applied, NoExit, FALSE)
    /\ Goto(p, "wait")
    /\ UNCHANGED <<intent, books, device, wall, world, life, applyMu>>

\* onRelayDisconnect: the exit was behind that relay; its handshake proves
\* nothing for the next path.
RelayDrop(p) ==
    /\ Begins(p, "drop")
    /\ applied > 0
    /\ exitRouted' = FALSE
    /\ fresh' = fresh \ {exitKey}
    /\ Applies(p, "drop", applied, NoExit, FALSE)
    /\ Goto(p, "wait")
    /\ UNCHANGED <<intent, applied, savedMap, exitKey, status, device, wall, latest, setting,
                   maps, life, applyMu>>

\* SetExit holds applyMu from here to its end.
SetExit(p) ==
    /\ Begins(p, "set")
    /\ applyMu = NoProc
    /\ applied > 0
    /\ \E x \in maps[applied] : preferred' = x
    /\ Applies(p, "set", applied, preferred, FALSE)
    /\ applyMu' = p
    /\ Goto(p, "apply")
    /\ UNCHANGED <<fallback, savedExit, savedFallback, books, device, wall, world, life>>

\* ClearExit first persists DIRECT ...
ClearExit(p) ==
    /\ Begins(p, "clear")
    /\ savedExit' = NoExit
    /\ Applies(p, "clear", 0, NoExit, FALSE)
    /\ Goto(p, "clear")
    /\ UNCHANGED <<preferred, fallback, savedFallback, books, device, wall, world, life, applyMu>>

\* ... then waits for applyMu, which it also holds to its end.
ClearPreferred(p) ==
    /\ pc[p] = "clear"
    /\ applyMu = NoProc
    /\ preferred' = NoExit
    /\ Applies(p, "clear", applied, preferred, FALSE)
    /\ applyMu' = p
    /\ Goto(p, "apply")
    /\ UNCHANGED <<fallback, savedExit, savedFallback, books, device, wall, world, life>>

\* SetInternetFallback changes the flag, then applies the netmap it saw.
SetInternetFallback(p) ==
    /\ Begins(p, "fallback")
    /\ fallback' \in BOOLEAN
    /\ call' = [call EXCEPT ![p] = [NoCall EXCEPT !.op = "fallback", !.nm = applied,
                                      !.flag = fallback, !.want = fallback']]
    /\ Goto(p, "wait")
    /\ UNCHANGED <<preferred, savedExit, savedFallback, books, device, wall, world, life, applyMu>>

\* recoverSilentExitPath stages the exit before the socket is rebuilt.
Silent(p) ==
    /\ Begins(p, "silent")
    /\ ~Busy("silent") /\ ~Busy("health")
    /\ exitRouted /\ applied > 0
    /\ exitRouted' = FALSE
    /\ fresh' = fresh \ {exitKey}
    /\ Applies(p, "silent", applied, NoExit, FALSE)
    /\ Goto(p, "wait")
    /\ UNCHANGED <<intent, applied, savedMap, exitKey, status, device, wall, latest, setting,
                   maps, life, applyMu>>

\* recoverNetworkPath, one at a time, and recordDataPlaneHealth, which is the
\* health loop finding the device dead.
Recover(p, op) ==
    /\ Begins(p, op)
    /\ op \in {"roam", "health"}
    /\ applied > 0
    /\ IF op = "roam" THEN ~recovering ELSE ~up /\ ~Busy("silent") /\ ~Busy("health")
    /\ recovering' = (recovering \/ op = "roam")
    /\ call' = [call EXCEPT ![p] = [NoCall EXCEPT !.op = op]]
    /\ Goto(p, "demote")
    /\ UNCHANGED <<intent, books, device, wall, world, cleanup, phase, applyMu>>

\* demoteExitForInternetFallback.
Demote(p) ==
    /\ pc[p] = "demote"
    /\ IF fallback /\ exitRouted
       THEN /\ exitRouted' = FALSE
            /\ fresh' = fresh \ {exitKey}
            /\ Applies(p, call[p].op, applied, NoExit, FALSE)
            /\ Goto(p, "wait")
       ELSE /\ Goto(p, "rebuild")
            /\ UNCHANGED <<exitRouted, fresh, call>>
    /\ UNCHANGED <<intent, applied, savedMap, exitKey, status, device, wall, latest, setting,
                   maps, life, applyMu>>

-----------------------------------------------------------------------------
(* The netmap transaction. *)

\* Mutant: a transaction begins beside another.
Lock_Beside(p) ==
    /\ pc[p] = "wait"
    /\ applyMu' = p
    /\ Goto(p, "apply")
    /\ UNCHANGED <<intent, books, device, wall, world, life, call>>

\* applyNetmap waits for applyMu.
Lock(p) ==
    /\ pc[p] = "wait"
    /\ applyMu = NoProc
    /\ applyMu' = p
    /\ Goto(p, "apply")
    /\ UNCHANGED <<intent, books, device, wall, world, life, call>>

\* It keeps applyMu only in SetExit and ClearExit.
Unlock(p) == applyMu' = IF call[p].op \in {"set", "clear"} THEN applyMu ELSE NoProc

Fail(p) == Goto(p, "failed") /\ Unlock(p)

\* A version older than the last, or no netmap yet: the node is not its own.
Refuse(p) ==
    /\ pc[p] = "apply"
    /\ call[p].nm < applied \/ call[p].nm = 0
    /\ Fail(p)
    /\ UNCHANGED <<intent, books, device, wall, world, life, call>>

\* exitReadyForPeer: a fresh handshake; when the statistics cannot be read, an
\* exit that is routed stays so.
Ready(x) ==
    IF x = NoExit THEN {FALSE}
    ELSE {x \in fresh} \cup (IF Fails("stats") THEN {exitKey = x /\ exitRouted} ELSE {})

\* applyNetmapLocked reads the preference and whether its exit may be routed.
ReadExit(p) ==
    /\ pc[p] = "apply"
    /\ call[p].nm >= applied
    /\ \E ready \in Ready(Selected(call[p].nm)) : call' = [call EXCEPT ![p].routed = ready]
    /\ Goto(p, "guard")
    /\ UNCHANGED <<intent, books, device, wall, world, life, applyMu>>

\* killSwitchPolicy: armed for a selected exit, staged or routed, unless the
\* user prefers availability.
Policy(v) == IF Selected(v) # NoExit /\ ~fallback THEN iface ELSE Off

\* The enforcer loads a policy in one transaction, or keeps the old one.
Load(policy) == guard' = policy /\ current' = policy

\* Mutant: the kill switch follows the routes instead of the selection.
Policy_Routed(p) == IF call[p].routed /\ ~fallback THEN iface ELSE Off
ArmFirst_Routed(p) ==
    LET desired == Policy_Routed(p)
        held == IF current # Off /\ desired = Off THEN current ELSE desired IN
    /\ pc[p] = "guard"
    /\ IF held = current THEN UNCHANGED wall ELSE Load(held)
    /\ call' = [call EXCEPT ![p].prior = current, ![p].desired = desired]
    /\ Goto(p, "engine")
    /\ UNCHANGED <<applyMu, intent, books, device, world, life>>

\* Mutant: the firewall is disarmed before the routes are gone.
ArmFirst_Disarms(p) ==
    LET desired == Policy(call[p].nm) IN
    /\ pc[p] = "guard"
    /\ IF desired = current THEN UNCHANGED wall ELSE Load(desired)
    /\ call' = [call EXCEPT ![p].prior = current, ![p].desired = desired]
    /\ Goto(p, "engine")
    /\ UNCHANGED <<applyMu, intent, books, device, world, life>>

\* The firewall is armed before the routes change; disarming waits for them.
ArmFirst(p) ==
    LET desired == Policy(call[p].nm)
        held == IF current # Off /\ desired = Off THEN current ELSE desired IN
    /\ pc[p] = "guard"
    /\ \/ /\ IF held = current THEN UNCHANGED wall ELSE Load(held)
          /\ call' = [call EXCEPT ![p].prior = current, ![p].desired = desired]
          /\ Goto(p, "engine")
          /\ UNCHANGED applyMu
       \/ /\ Fails("guard") /\ held # Off
          /\ Fail(p)
          /\ UNCHANGED <<wall, call>>
    /\ UNCHANGED <<intent, books, device, world, life>>

\* Mutant: what was armed stays armed.
Reconfigure_StaysArmed(p) ==
    LET x == IF call[p].routed THEN Selected(call[p].nm) ELSE NoExit IN
    /\ pc[p] = "engine"
    /\ up
    /\ cfg' = x /\ routes' = x
    /\ Goto(p, "commit")
    /\ UNCHANGED <<intent, books, up, iface, wall, world, life, call, applyMu>>

\* engine.Reconfigure.  It refuses without a device; it can also fail with the
\* routes already cleared, or half installed.
Reconfigure(p) ==
    LET x == IF call[p].routed THEN Selected(call[p].nm) ELSE NoExit IN
    /\ pc[p] = "engine"
    /\ \/ /\ up
          /\ cfg' = x /\ routes' = x
          /\ Goto(p, IF current = call[p].desired THEN "commit" ELSE "disarm")
       \/ /\ ~up \/ Fails("engine")
          /\ Goto(p, "rollback")
          /\ UNCHANGED <<cfg, routes>>
       \/ /\ up /\ Fails("routes")
          /\ routes' \in {routes, NoExit, x}
          /\ Goto(p, "rollback")
          /\ UNCHANGED cfg
    /\ UNCHANGED <<intent, books, up, iface, wall, world, life, call, applyMu>>

\* The engine refused: the predecessor's policy returns, if it can.
Rollback(p) ==
    /\ pc[p] = "rollback"
    /\ \/ IF current = call[p].prior THEN UNCHANGED wall ELSE Load(call[p].prior)
       \/ Fails("guard") /\ current # call[p].prior /\ UNCHANGED wall
    /\ Fail(p)
    /\ UNCHANGED <<intent, books, device, world, life, call>>

\* The routes are gone: now the firewall may open.
Disarm(p) ==
    /\ pc[p] = "disarm"
    /\ \/ /\ Load(call[p].desired)
          /\ Goto(p, "commit")
          /\ UNCHANGED applyMu
       \/ /\ Fails("guard")
          /\ Fail(p)
          /\ UNCHANGED wall
    /\ UNCHANGED <<intent, books, device, world, life, call>>

\* Mutant: the books only ever learn of a promotion.
Commit_Promotes(p) ==
    /\ pc[p] = "commit"
    /\ applied' = call[p].nm
    /\ exitKey' = Selected(call[p].nm)
    /\ exitRouted' = (call[p].routed \/ exitRouted)
    /\ status' = [killSwitch |-> call[p].desired # Off, selected |-> Selected(call[p].nm)]
    /\ savedMap' = IF call[p].nm > applied THEN call[p].nm ELSE savedMap
    /\ Goto(p, "done")
    /\ Unlock(p)
    /\ UNCHANGED <<intent, device, wall, world, life, call>>

\* Mutant: the status follows the selection, whatever the fallback.
Commit_Selected(p) ==
    /\ pc[p] = "commit"
    /\ applied' = call[p].nm
    /\ exitKey' = Selected(call[p].nm)
    /\ exitRouted' = call[p].routed
    /\ status' = [killSwitch |-> exitKey' # NoExit, selected |-> exitKey']
    /\ savedMap' = IF call[p].nm > applied THEN call[p].nm ELSE savedMap
    /\ Goto(p, "done")
    /\ Unlock(p)
    /\ UNCHANGED <<intent, device, wall, world, life, call>>

\* The books follow the accepted candidate; a newer netmap is cached.
Commit(p) ==
    /\ pc[p] = "commit"
    /\ applied' = call[p].nm
    /\ exitKey' = Selected(call[p].nm)
    /\ exitRouted' = call[p].routed
    /\ status' = [killSwitch |-> call[p].desired # Off, selected |-> Selected(call[p].nm)]
    /\ \/ savedMap' = IF call[p].nm > applied THEN call[p].nm ELSE savedMap
       \/ Fails("save") /\ UNCHANGED savedMap
    /\ Goto(p, "done")
    /\ Unlock(p)
    /\ UNCHANGED <<intent, device, wall, world, life, call>>

-----------------------------------------------------------------------------
(* How the operations end. *)

\* The session, a reapply and a lost relay have no more to do; a failure is logged.
EndApply(p) ==
    /\ pc[p] \in {"done", "failed"}
    /\ call[p].op \in {"sync", "reapply", "drop"}
    /\ Ends(p)
    /\ UNCHANGED <<intent, books, device, wall, world, life, applyMu>>

\* SetExit and ClearExit, applied: SetExit persists the choice, if it can.
EndChoice(p) ==
    /\ pc[p] = "done"
    /\ call[p].op \in {"set", "clear"}
    /\ \/ savedExit' = IF call[p].op = "set" THEN preferred ELSE savedExit
       \/ Fails("save") /\ UNCHANGED savedExit
    /\ applyMu' = NoProc
    /\ Ends(p)
    /\ UNCHANGED <<preferred, fallback, savedFallback, books, device, wall, world, life>>

\* Mutant: a failed ClearExit leaves its file behind.
UndoChoice_Memory(p) ==
    /\ pc[p] = "failed"
    /\ call[p].op \in {"set", "clear"}
    /\ preferred' = call[p].exit
    /\ applyMu' = NoProc
    /\ Ends(p)
    /\ UNCHANGED <<fallback, savedExit, savedFallback, books, device, wall, world, life>>

\* ... and refused: the preference returns, and the file ClearExit wrote.
UndoChoice(p) ==
    /\ pc[p] = "failed"
    /\ call[p].op \in {"set", "clear"}
    /\ preferred' = call[p].exit
    /\ \/ savedExit' = IF call[p].op = "clear" THEN call[p].exit ELSE savedExit
       \/ Fails("save") /\ UNCHANGED savedExit
    /\ applyMu' = NoProc
    /\ Ends(p)
    /\ UNCHANGED <<fallback, savedFallback, books, device, wall, world, life>>

\* SetInternetFallback persists the flag, or takes it back.
EndFallback(p) ==
    /\ call[p].op = "fallback"
    /\ \/ /\ pc[p] = "done"
          /\ \/ savedFallback' = call[p].want
             \/ Fails("save") /\ UNCHANGED savedFallback
          /\ UNCHANGED fallback
       \/ /\ pc[p] = "failed"
          /\ fallback' = call[p].flag
          /\ UNCHANGED savedFallback
    /\ Ends(p)
    /\ UNCHANGED <<preferred, savedExit, books, device, wall, world, life, applyMu>>

\* recoverSilentExitPath goes on to recoverNetworkPath, unless one is running.
EndSilent(p) ==
    /\ pc[p] = "done"
    /\ call[p].op = "silent"
    /\ IF recovering
       THEN Ends(p) /\ UNCHANGED recovering
       ELSE /\ recovering' = TRUE
            /\ call' = [call EXCEPT ![p] = [NoCall EXCEPT !.op = "roam"]]
            /\ Goto(p, "demote")
    /\ UNCHANGED <<intent, books, device, wall, world, cleanup, phase, applyMu>>

\* It could not stage the exit: the books are set back.
UndoSilent(p) ==
    /\ pc[p] = "failed"
    /\ call[p].op = "silent"
    /\ exitRouted' = TRUE
    /\ Ends(p)
    /\ UNCHANGED <<intent, applied, savedMap, exitKey, status, device, wall, world, life, applyMu>>

\* A demotion is followed by the rebuild, whether or not it was applied.
EndDemote(p) ==
    /\ pc[p] \in {"done", "failed"}
    /\ call[p].op \in {"roam", "health"}
    /\ Goto(p, "rebuild")
    /\ UNCHANGED <<intent, books, device, wall, world, life, applyMu, call>>

\* A recovery returns.
EndRecovery(p) ==
    /\ recovering' = (recovering /\ call[p].op # "roam")
    /\ Ends(p)

NextIface == (iface % MaxIface) + 1

\* Mutant: the recovery forgets to re-pin the firewall.
Rebuild_KeepsPolicy(p) ==
    /\ pc[p] = "rebuild"
    /\ up' = TRUE /\ iface' = NextIface /\ routes' = cfg
    /\ EndRecovery(p)
    /\ UNCHANGED <<intent, books, cfg, wall, world, cleanup, phase, applyMu>>

\* RecoverNetworkPath and RecoverDataPlane (which leaves a healthy device alone)
\* create a new device and replay the last accepted configuration.
Rebuild(p) ==
    /\ pc[p] = "rebuild"
    /\ \/ /\ IF call[p].op = "health" /\ up
             THEN UNCHANGED <<up, iface, routes>>
             ELSE up' = TRUE /\ iface' = NextIface /\ routes' = cfg
          /\ Goto(p, "refresh")
          /\ UNCHANGED <<recovering, call>>
       \/ /\ Fails("recover")
          /\ \/ up' = FALSE /\ routes' = NoExit
             \/ UNCHANGED <<up, routes>>
          /\ EndRecovery(p)
          /\ UNCHANGED iface
    /\ UNCHANGED <<intent, books, cfg, wall, world, cleanup, phase, applyMu>>

\* refreshKillSwitch takes a snapshot outside applyMu ...
Snapshot(p) ==
    /\ pc[p] = "refresh"
    /\ call' = [call EXCEPT ![p].nm = applied, ![p].exit = preferred, ![p].flag = fallback]
    /\ Goto(p, "rearm")
    /\ UNCHANGED <<intent, books, device, wall, world, life, applyMu>>

Current(p) == call[p].nm = applied /\ call[p].exit = preferred /\ call[p].flag = fallback

\* ... and uses it in a transaction of its own if it still holds.
Rearm(p) ==
    /\ pc[p] = "rearm"
    /\ applyMu = NoProc
    /\ Current(p)
    /\ \/ /\ IF Policy(applied) = current THEN UNCHANGED wall ELSE Load(Policy(applied))
          /\ status' = [status EXCEPT !.killSwitch = Policy(applied) # Off]
       \/ /\ Fails("guard") /\ Policy(applied) # current
          /\ status' = [status EXCEPT !.killSwitch = FALSE]
          /\ UNCHANGED wall
    /\ EndRecovery(p)
    /\ UNCHANGED <<intent, applied, savedMap, exitKey, exitRouted, device, world, cleanup, phase,
                   applyMu>>

\* Otherwise it tries again, three times in all.
RearmStale(p) ==
    /\ pc[p] = "rearm"
    /\ applyMu = NoProc
    /\ ~Current(p)
    /\ IF call[p].tries < 2
       THEN /\ call' = [call EXCEPT ![p].tries = @ + 1]
            /\ Goto(p, "refresh")
            /\ UNCHANGED <<status, recovering>>
       ELSE /\ status' = [status EXCEPT !.killSwitch = current # Off]
            /\ EndRecovery(p)
    /\ UNCHANGED <<intent, applied, savedMap, exitKey, exitRouted, device, wall, world, cleanup,
                   phase, applyMu>>

-----------------------------------------------------------------------------
(* The world. *)

\* The coordinator publishes a netmap.
Publish ==
    /\ latest < MaxVersion
    /\ latest' = latest + 1
    /\ UNCHANGED <<intent, books, device, wall, fresh, setting, maps, life, locals>>

\* A handshake with an exit completes, or has become too old.
Handshake ==
    /\ \E x \in Exits : fresh' \in {fresh \cup {x}, fresh \ {x}}
    /\ UNCHANGED <<intent, books, device, wall, latest, setting, maps, life, locals>>

\* The device dies, and takes its routes along.
DeviceDies ==
    /\ "health" \in setting.ops
    /\ up
    /\ up' = FALSE /\ routes' = NoExit
    /\ UNCHANGED <<intent, books, iface, cfg, wall, world, life, locals>>

-----------------------------------------------------------------------------
(* The process. *)

\* Run's context is cancelled; its own goroutine is the session's, and is idle.
Stop ==
    /\ "stop" \in setting.ops
    /\ phase = "running"
    /\ ~Busy("sync")
    /\ Late \/ \A p \in Procs : pc[p] = "idle"
    /\ phase' = "stopping"
    /\ UNCHANGED <<intent, books, device, wall, world, recovering, cleanup, locals>>

\* Mutant: the firewall opens although the teardown is incomplete.
TearDown_Anyway ==
    /\ phase = "stopping"
    /\ phase' = "clearing"
    /\ \/ up' = FALSE /\ routes' = NoExit
       \/ Fails("down") /\ UNCHANGED <<up, routes>>
    /\ UNCHANGED <<intent, books, iface, cfg, wall, world, recovering, cleanup, locals>>

\* engine.Down; the firewall stays armed unless it succeeds.
TearDown ==
    /\ phase = "stopping"
    /\ \/ /\ up' = FALSE /\ routes' = NoExit
          /\ phase' = "clearing"
       \/ /\ Fails("down")
          /\ phase' = "exiting"
          /\ routes' \in {routes, NoExit} /\ up' \in {up, FALSE}
    /\ UNCHANGED <<intent, books, iface, cfg, wall, world, recovering, cleanup, locals>>

\* guard.Clear.
ClearGuard ==
    /\ phase = "clearing"
    /\ \/ Load(Off) /\ phase' = "clean"
       \/ Fails("guard") /\ phase' = "exiting" /\ UNCHANGED wall
    /\ UNCHANGED <<intent, books, device, world, recovering, cleanup, locals>>

\* clearCleanupPending.
ClearIntent ==
    /\ phase = "clean"
    /\ phase' = "exiting"
    /\ cleanup' = FALSE \/ (Fails("save") /\ UNCHANGED cleanup)
    /\ UNCHANGED <<intent, books, device, wall, world, recovering, locals>>

\* Every goroutine is gone, in the middle of whatever it did.
Gone ==
    /\ phase' = "down"
    /\ recovering' = FALSE
    /\ applyMu' = NoProc
    /\ pc' = [p \in Procs |-> "idle"]
    /\ call' = [p \in Procs |-> NoCall]
    /\ UNCHANGED <<intent, books, iface, cfg, wall, world, cleanup>>

Exit == phase = "exiting" /\ Gone /\ UNCHANGED <<up, routes>>

\* SIGKILL: a userspace device goes, a kernel one stays, and so does the firewall.
Kill ==
    /\ "kill" \in setting.ops
    /\ phase # "down"
    /\ up' = FALSE
    /\ routes' \in {routes, NoExit}
    /\ Gone

\* The daemon starts: the intent is written ahead, the route ledger undone, the
\* state read, and the session restores the last-known-good netmap.
Start ==
    /\ phase = "down"
    /\ phase' = "running"
    /\ cleanup' = TRUE
    /\ preferred' = savedExit /\ fallback' = savedFallback
    /\ applied' = 0 /\ exitKey' = NoExit /\ exitRouted' = FALSE
    /\ status' = NoStatus
    /\ up' = TRUE /\ iface' = NextIface /\ cfg' = NoExit /\ routes' = NoExit
    /\ current' = Off
    /\ fresh' = {}
    /\ \E p \in setting.procs :
          IF savedMap = 0 THEN UNCHANGED <<pc, call>>
          ELSE Applies(p, "sync", savedMap, NoExit, FALSE) /\ Goto(p, "wait")
    /\ UNCHANGED <<savedExit, savedFallback, savedMap, guard, latest, setting, maps, recovering,
                   applyMu>>

-----------------------------------------------------------------------------

Begin(p) ==
    \/ Sync(p) \/ Reapply(p) \/ RelayDrop(p) \/ SetExit(p) \/ ClearExit(p) \/ ClearPreferred(p)
    \/ SetInternetFallback(p) \/ Silent(p) \/ Demote(p)
    \/ \E op \in {"roam", "health"} : Recover(p, op)

Transact(p) ==
    \/ Lock(p) \/ Refuse(p) \/ ReadExit(p) \/ ArmFirst(p) \/ Reconfigure(p) \/ Rollback(p)
    \/ Disarm(p) \/ Commit(p)

End(p) ==
    \/ EndApply(p) \/ EndChoice(p) \/ UndoChoice(p) \/ EndFallback(p) \/ EndSilent(p)
    \/ UndoSilent(p) \/ EndDemote(p) \/ Rebuild(p) \/ Snapshot(p) \/ Rearm(p) \/ RearmStale(p)

Next ==
    \/ \E p \in Procs : Begin(p) \/ Transact(p) \/ End(p)
    \/ Publish \/ Handshake \/ DeviceDies
    \/ Stop \/ TearDown \/ ClearGuard \/ ClearIntent \/ Exit \/ Kill \/ Start

Spec == Init /\ [][Next]_vars

-----------------------------------------------------------------------------
(* Correctness. *)

\* Types; and applyMu is held by the goroutine that is inside a transaction.
TypeOK ==
    /\ {preferred, savedExit, exitKey, cfg, routes, status.selected} \subseteq Exits \cup {NoExit}
    /\ {fallback, savedFallback, exitRouted, up, recovering, cleanup, status.killSwitch} \subseteq BOOLEAN
    /\ {applied, savedMap} \subseteq 0 .. MaxVersion /\ latest \in Versions
    /\ iface \in 1 .. MaxIface /\ {guard, current} \subseteq Policies
    /\ fresh \subseteq Exits
    /\ phase \in {"running", "stopping", "clearing", "clean", "exiting", "down"}
    /\ \A p \in Procs : pc[p] \in {"apply", "guard", "engine", "rollback", "disarm", "commit"}
          => applyMu = p

\* Nothing is in progress.
Settled == phase = "running" /\ \A p \in Procs : pc[p] = "idle"

\* ... and one thing happens at a time.
Alone == \E p \in Procs : setting.procs = {p}

\* Nobody changes the fallback beside another call: beside a transaction that
\* obeys it, a change that is taken back leaves the firewall open.
Careful == Alone \/ "fallback" \notin setting.ops

\* The user's traffic leaves through the exit, not at all, or in the clear.
Egress == IF up /\ routes # NoExit THEN "tunnel" ELSE IF guard # Off THEN "blocked" ELSE "direct"

\* The user chose to be unprotected: by the fallback (a change of it takes effect
\* when it is applied), by clearing the exit, by selecting one the coordinator no
\* longer offers, or by stopping the daemon: cleanup opens the firewall once the
\* routes are gone (and a call that overlaps the shutdown runs beside that).
Unprotected ==
    \/ fallback \/ Busy("fallback") \/ preferred = NoExit
    \/ phase = "clearing" \/ (Late /\ phase # "running")
    \/ \E v \in applied + 1 .. latest : preferred \notin maps[v]

\* No step of a transaction, a recovery, a failure, an incomplete shutdown, a kill
\* or a restart lets traffic of a committed exit out in the clear (the firewall is
\* armed before the routes change, stays armed while the exit is staged, and opens
\* after they are gone).  A restarted daemon has committed nothing yet: its status
\* names no exit until its first transaction commits, and one that fails before
\* that opens what a killed predecessor left armed.
NoLeak ==
    [][Careful /\ Egress # "direct" /\ Egress' = "direct"
          => status.selected = NoExit \/ Unprotected]_vars

\* At rest, the firewall is armed whenever an exit is selected and the fallback
\* is off (refreshKillSwitch's comment).
Protected == Settled /\ Selected(applied) # NoExit /\ ~fallback => guard # Off
ProtectedAlone == Careful => Protected

\* At rest, a host whose user is on DIRECT, or prefers availability, is not blocked.
DirectIsOpen ==
    Settled /\ applied > 0 /\ (Selected(applied) = NoExit \/ fallback) => guard = Off
\* (Not after a process that left the firewall as it was, killed or incompletely
\* stopped; and not when a fallback is taken back that another call has obeyed.)
Orderly == setting.ops \cap {"kill", "late"} = {} /\ setting.faults \cap {"guard", "down"} = {}
DirectIsOpenOrderly == Careful /\ Orderly => DirectIsOpen

\* At rest, the daemon believes what the engine was told, so that the health
\* loop promotes and demotes what is there (recoverSilentExitPath's comment).
BooksMatch == Settled /\ up => cfg = IF exitRouted THEN exitKey ELSE NoExit
\* (Not when a demotion can fail: it is booked before, and then not taken back.)
Unfailing ==
    /\ setting.ops \cap {"silent", "health"} = {}
    /\ setting.faults \cap {"engine", "routes", "guard", "recover"} = {}
BooksMatchUnfailing == Unfailing => BooksMatch

\* The status never claims a protection that is not loaded (applyKillSwitchPolicy).
StatusHonest == phase = "running" /\ applyMu = NoProc /\ status.killSwitch => guard # Off

\* At rest, the files hold the user's choice: a restart is not a change of mind.
\* (ClearExit's file is written before it has applyMu: not with a SetExit beside it;
\* nor with two fallbacks, which nothing orders.)
IntentDurable == Settled => savedExit = preferred /\ savedFallback = fallback
Saving == Careful /\ (Alone \/ "clear" \notin setting.ops) /\ "save" \notin setting.faults
IntentDurableAlone == Saving => IntentDurable

\* At rest, an armed firewall admits the device there is: a rebuilt tunnel is not
\* cut off by the policy of its predecessor.
FollowsDevice == Settled /\ current # Off => current = iface
\* (Not when choices are taken back beside a recovery: it gives up when its snapshot
\* was stale three times, and who takes a choice back restores the old policy.)
Following ==
    /\ setting.faults \cap {"guard", "recover"} = {}
    /\ Alone \/ (setting.ops \cap {"fallback", "health"} = {}
                 /\ setting.faults \cap {"engine", "routes"} = {})
FollowsDeviceFollowing == Following => FollowsDevice

\* A process that left no cleanup intent behind left nothing to clean up (Run's
\* comment), if no call overlapped the shutdown.
CleanExit == phase = "down" /\ ~cleanup => guard = Off /\ routes = NoExit
CleanExitQuiet == ~Late => CleanExit

\* When nothing is in progress the firewall, the engine, the device, the books and
\* the files tell one story (applyNetmap, and what its callers do with its result).
AtRest == DirectIsOpenOrderly /\ BooksMatchUnfailing /\ IntentDurableAlone
          /\ FollowsDeviceFollowing
=============================================================================
