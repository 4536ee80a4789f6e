--------------------------- MODULE RepairCatalog ---------------------------
(***************************************************************************)
(* The closed catalogue of repairs of the Network Doctor                   *)
(* (internal/diagnose/repair.go): which findings an action addresses, what *)
(* must hold before it, what it captures, applies, rolls back and checks.  *)
(* The dry-run planner (Diagnosis) and the executor (Repair) both read it. *)
(***************************************************************************)
EXTENDS Integers, Sequences, FiniteSets

Actions == {"flushDNS", "reconnectCoordinator", "reselectRelay", "rearmKillSwitch",
            "lowerMTU", "reapplyRoutes", "restartWireGuard", "rebuildExit"}

RepairFloorMTU == 1280

Fixes(action) ==
  CASE action = "flushDNS"             -> {"dns.poison_suspected", "dns.timeout", "dns.no_answer"}
    [] action = "reconnectCoordinator" -> {"coordinator.unreachable", "coordinator.unhealthy", "coordinator.tls_error"}
    [] action = "reselectRelay"        -> {"relay.none_reachable", "relay.unreachable"}
    [] action = "rearmKillSwitch"      -> {"ipv6.leak_risk"}
    [] action = "lowerMTU"             -> {"mtu.suboptimal"}
    [] action = "reapplyRoutes"        -> {"routes.default_missing", "routes.exit_default_absent", "routes.physical_fallback"}
    [] action = "restartWireGuard"     -> {"wireguard.interface_down", "wireguard.handshake_stale", "exit.handshake_stale"}
    [] action = "rebuildExit"          -> {"exit.egress_blocked", "exit.route_missing"}

Preconditions(action) ==
  CASE action = "flushDNS"             -> {"dns_capable"}
    [] action = "reconnectCoordinator" -> {"coordinator_configured"}
    [] action = "reselectRelay"        -> {"relay_configured"}
    [] action = "lowerMTU"             -> {"wireguard_configured", "mtu_lower_safe"}
    [] action \in {"rearmKillSwitch", "rebuildExit"} -> {"exit_selected"}
    [] action \in {"reapplyRoutes", "restartWireGuard"} -> {"wireguard_configured"}

\* pcMTULowerSafe: unknown evidence refuses.
MTULowerSafe(path, link) ==
  path > 0 /\ link > 0 /\ RepairFloorMTU <= path /\ RepairFloorMTU <= link

\* An environment's answer to a precondition; env has the fields read here.
PreconditionHolds(pre, env) ==
  CASE pre = "dns_capable"            -> env.resolver
    [] pre = "wireguard_configured"   -> env.interface
    [] pre = "exit_selected"          -> env.exitSelected
    [] pre = "relay_configured"       -> env.relays > 0
    [] pre = "coordinator_configured" -> env.coordinator
    [] pre = "mtu_lower_safe"         -> MTULowerSafe(env.pathMTU, env.linkMTU)

Applicable(action, env) == \A pre \in Preconditions(action) : PreconditionHolds(pre, env)

\* The resource of the host an action changes, captured before it does.
Snapshots(action) ==
  LET of == [lowerMTU |-> "mtu", reapplyRoutes |-> "routes", restartWireGuard |-> "wireguard",
             rebuildExit |-> "exit"] IN
  IF action \in DOMAIN of THEN <<of[action]>> ELSE <<>>

ApplySteps(action) ==
  LET of == [flushDNS |-> "flush", reconnectCoordinator |-> "reconnect", reselectRelay |-> "reselect",
             rearmKillSwitch |-> "rearm", lowerMTU |-> "setMTU", reapplyRoutes |-> "reapply",
             restartWireGuard |-> "restartWG"] IN
  IF action = "rebuildExit" THEN <<"clearExit", "setExit">> ELSE <<of[action]>>

RollbackSteps(action) ==
  LET of == [lowerMTU |-> "restoreMTU", reapplyRoutes |-> "restoreRoutes",
             restartWireGuard |-> "restoreWG", rebuildExit |-> "setExit"] IN
  IF action \in DOMAIN of THEN <<of[action]>> ELSE <<>>
=============================================================================
