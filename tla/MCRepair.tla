------------------------------ MODULE MCRepair ------------------------------
(***************************************************************************)
(* Instances of Repair: the daemon's API with two clients, and the engine  *)
(* under plans of a caller's own.                                          *)
(***************************************************************************)
EXTENDS Repair

Found == [dns |-> 1, coordinator |-> 1, relay |-> 1, guard |-> 1, mtu |-> 1420, path |-> 1300,
          routes |-> 1, wireguard |-> 1, exit |-> 1, routed |-> 0]

API == [hosts |-> {Found}, dnsServers |-> TRUE, seeded |-> FALSE, resolver |-> TRUE, sessions |-> 2,
        runs |-> 2, repairs |-> 2, asked |-> {"flushDNS", "rebuildExit"}, plan |-> <<>>,
        executor |-> "daemon", exact |-> FALSE, deadlines |-> TRUE,
        moves |-> 1, touchable |-> {"dns"}, values |-> {1, 2}]

Catalogue(actions) == [i \in 1..Len(actions) |-> [action |-> actions[i], recipe |-> "catalog"]]

Engine1(plan) ==
  [API EXCEPT !.runs = 0, !.repairs = 0, !.sessions = 1, !.plan = plan, !.executor = "any",
              !.seeded = TRUE, !.moves = 1]

MTUHosts == {[Found EXCEPT !.mtu = m, !.path = p] : m \in {1200, 1280, 1420}, p \in {1200, 1300}}

MCSettings ==
  { API,
    [Engine1(Catalogue(<<"lowerMTU", "lowerMTU">>)) EXCEPT
       !.hosts = MTUHosts, !.touchable = {"mtu", "path"}, !.values = {1200, 1400}],
    [Engine1(Catalogue(<<"rebuildExit", "flushDNS">>)) EXCEPT !.touchable = {"exit"}, !.values = {0, 3}],
    [Engine1(Catalogue(<<"rebuildExit", "reapplyRoutes">>)) EXCEPT
       !.executor = "daemon", !.touchable = {"exit"}, !.values = {0, 3}],
    [Engine1(Catalogue(<<"reapplyRoutes", "restartWireGuard">>)) EXCEPT !.touchable = {"routes"}, !.values = {3}],
    [Engine1(Catalogue(<<"reconnectCoordinator", "reselectRelay", "rearmKillSwitch">>)) EXCEPT
       !.touchable = {"guard"}, !.values = {3}, !.exact = TRUE],
    Engine1(<<[action |-> "flushDNS", recipe |-> "tampered"], [action |-> "flushDNS", recipe |-> "catalog"],
              [action |-> "bogus", recipe |-> "catalog"], [action |-> "restartWireGuard", recipe |-> "catalog"]>>) }
=============================================================================
