---------------------------- MODULE RouteLedger ----------------------------
(***************************************************************************)
(* The routes RatelMesh adds to the host's table, and the file that         *)
(* remembers them.                                                          *)
(*                                                                          *)
(* The engine writes the intent to add a route to route-owners-v1.json      *)
(* before it asks the kernel, and takes the entry out after the kernel has   *)
(* dropped the route, so that the next start can remove what a killed        *)
(* daemon left behind.  It also keeps two lists in memory: the owners, which *)
(* are what the file says, and the routes and pins it has programmed, which  *)
(* are what a cleanup walks over.                                           *)
(*                                                                          *)
(* All of it runs under RealEngine.mu, so that a call meets only the kernel, *)
(* the file system, the network and SIGKILL.  This module has the start, the *)
(* end and the Unix calls; WindowsRoutes adds those of Windows.             *)
(*                                                                          *)
(* A route is a destination and the way its packets leave.  Destinations of  *)
(* one kind are walked over in any order.                                   *)
(***************************************************************************)
EXTENDS Naturals, Sequences, FiniteSets

CONSTANTS
    Systems,        \* the operating systems to start on
    Configs,        \* what the daemon may ask for
    Networks,       \* the default routes a host may have, as sequences
    Foreign,        \* sets of routes that others may have added
    V4, V6,         \* defaultRouteHalves of both families
    Endpoints,      \* transport addresses
    Budgets,        \* how often calls, faults, crashes and roams may happen
    Nil

\* A default route is by a gateway that is no tunnel of RatelMesh's.
ASSUME RoutesAssumption ==
    /\ Systems \subseteq {"linux", "darwin", "windows"}
    /\ V4 \cap V6 = {} /\ Endpoints \cap (V4 \cup V6) = {}
    /\ Nil \notin Endpoints \cup {"tunnel", "null"}
    /\ \A c \in Configs :
        /\ DOMAIN c = {"default", "v6", "kill", "ep", "phys", "net", "direct", "block"}
        /\ c.default \in BOOLEAN /\ c.v6 \in BOOLEAN /\ c.kill \in BOOLEAN
        /\ c.ep \in Endpoints \cup {Nil} /\ c.phys \subseteq Endpoints
        /\ Nil # c
    /\ \A n \in Networks : \A i \in DOMAIN n :
        /\ DOMAIN n = 1 .. Len(n) /\ Len(n) \in Nat
        /\ n[i].metric \in Nat /\ n[i].via \notin {"tunnel", "null", Nil}
    /\ \A b \in Budgets : b.roams \in Nat

VARIABLES
    os,         \* runtime.GOOS
    network,    \* the host's default routes
    kernel,     \* the routes in the kernel's table: [to, via, own]
    link,       \* whether the tunnel interface exists
    dev,        \* the configuration WireGuard runs, or Nil
    disk,       \* the owners in route-owners-v1.json
    owners,     \* routeOwners and pinOwners; on Windows windowsRoutes
    routed, residual, pinned,   \* the destinations in the lists of RealEngine
    applied,    \* routesApplied; on Windows windowsApplied
    scrubbed,   \* routesScrubbed
    cfg,        \* RealEngine.cfg
    at,         \* what the process is doing
    mode,       \* the call it is in
    call,       \* the configuration the call applies
    todo,       \* what the loop it is in has left
    cur, ret,   \* the route being installed, and the loop to go back to
    added,      \* the pins or routes that a failure of the loop takes back
    after,      \* what a sweep is for
    err, tries, \* whether a sweep failed, and how often it may still run
    outcome,    \* how the last call or process ended
    budget, calls, faults, crashes, roams,  \* what may happen, and has
    moved       \* the network has changed under the routes of this process

host == <<os, network, kernel, link, dev, disk>>
lists == <<owners, routed, residual, pinned>>
engine == <<applied, scrubbed, cfg>>
control == <<at, mode, call, todo, cur, ret, added, after, err, tries>>
counters == <<budget, calls, faults, crashes, roams, moved>>
vars == <<host, lists, engine, control, outcome, counters>>
-----------------------------------------------------------------------------
\* What a configuration asks for.

Tunnel == "tunnel"
Null == "null"      \* a blackhole

\* The configuration of an engine that has been given none.
Empty == [default |-> FALSE, v6 |-> FALSE, kill |-> FALSE, ep |-> Nil, phys |-> {},
          net |-> {}, direct |-> {}, block |-> {}]

Route(to, via) == [to |-> to, via |-> via]

\* The addresses that must keep leaving by the physical network.
DesiredPins(c) ==
    IF c.default THEN c.phys \cup ({c.ep} \ {Nil}) ELSE {}

\* Mutant: the kill-switch, which decides whether a part may fail, is not compared.
SameRoutes_Unkilled(c, d) ==
    <<c.direct, c.block, c.default, c.v6, c.net>> = <<d.direct, d.block, d.default, d.v6, d.net>>

\* Nothing but transport addresses differs.
SameRoutes(c, d) ==
    <<c.kill, c.direct, c.block, c.default, c.v6, c.net>>
        = <<d.kill, d.direct, d.block, d.default, d.v6, d.net>>

\* The best default route that is not a tunnel's, as lowest metric and, among
\* equals, the first; Nil when there is none.  On macOS it is the one `route get`
\* reports, be it another tunnel's.
PhysicalPath ==
    LET usable == {i \in DOMAIN network : os = "darwin" \/ ~network[i].tunnel}
        less(i, j) == \/ network[i].metric < network[j].metric
                      \/ network[i].metric = network[j].metric /\ i < j
    IN IF usable = {} THEN Nil
       ELSE network[CHOOSE i \in usable : \A j \in usable \ {i} : less(i, j)].via

Gateways(n) == {n[i].via : i \in DOMAIN n}

\* A route of the plan: where it belongs in the order, and how it leaves.
Item(rank, to, via) == [rank |-> rank, to |-> to, via |-> via]

\* The route plan.  The pins are already there when it is carried out.  IPv6
\* comes before IPv4 when no firewall would block what fails to be captured.
\* A direct route without a physical network to go to is left out.
Plan(c) ==
    {Item(1, p, Tunnel) : p \in c.net}
    \cup IF ~c.default THEN {} ELSE
         {Item(3, p, Tunnel) : p \in V4}
         \cup {Item(IF c.kill THEN 4 ELSE 2, p, Tunnel) : p \in IF c.v6 THEN V6 ELSE {}}
         \cup {Item(5, p, PhysicalPath) : p \in IF PhysicalPath = Nil THEN {} ELSE c.direct}
         \cup {Item(6, p, Null) : p \in c.block}

\* Among what is left of a plan, what comes next.
Next1(items) == {i \in items : \A j \in items : i.rank <= j.rank}
-----------------------------------------------------------------------------
\* The kernel's table, the file, and the budgets.

Matches(k, r) == k.to = r.to /\ k.via = r.via
Present(r) == \E k \in kernel : Matches(k, r)
Without(r) == {k \in kernel : ~Matches(k, r)}
Taken(to) == \E k \in kernel : k.to = to
Own == {k \in kernel : k.own}
OffTunnel == {k \in kernel : k.via # Tunnel}    \* what outlives the interface

NoFault == UNCHANGED faults
Fault == faults < budget.faults /\ faults' = faults + 1

\* persistRouteLedgerLocked: the file is replaced by the owners, or it stays.
Persist(o, ok) ==
    IF ok THEN disk' = o /\ NoFault ELSE UNCHANGED disk /\ Fault

OwnerOf(to) == {o \in owners : o.to = to}
Disowned(to) == owners \ OwnerOf(to)

\* A call ends.  A rebuild that fails halfway stops the device again.
Finish(result) ==
    /\ at' = "idle" /\ outcome' = result
    /\ mode' = "none" /\ call' = Empty
    /\ todo' = {} /\ cur' = Nil /\ ret' = "none" /\ added' = {}
    /\ after' = "none" /\ err' = FALSE /\ tries' = 0

Fails ==
    /\ Finish("error")
    /\ IF mode = "recover"
       THEN link' = FALSE /\ dev' = Nil /\ kernel' = OffTunnel
       ELSE UNCHANGED <<link, dev, kernel>>

\* The memory of a process that is gone.
Forget ==
    /\ owners' = {} /\ routed' = {} /\ residual' = {} /\ pinned' = {}
    /\ applied' = FALSE /\ scrubbed' = FALSE /\ cfg' = Empty
    /\ mode' = "none" /\ call' = Empty /\ todo' = {} /\ cur' = Nil /\ ret' = "none"
    /\ added' = {} /\ after' = "none" /\ err' = FALSE /\ tries' = 0
    /\ moved' = FALSE

\* A macOS device lives in the process; the others outlive it.
DeviceDies ==
    IF os = "darwin"
    THEN link' = FALSE /\ dev' = Nil /\ kernel' = OffTunnel
    ELSE UNCHANGED <<link, dev, kernel>>
-----------------------------------------------------------------------------
\* Deleting a route.

\* Mutant: a route that could not be deleted is taken for gone.
Drop_Hopeful(to, ok) ==
    /\ UNCHANGED <<os, network, link, dev>>
    /\ \/ /\ OwnerOf(to) # {}
          /\ kernel' = {k \in kernel : \A o \in OwnerOf(to) : ~Matches(k, o)}
          /\ owners' = Disowned(to) /\ Persist(owners', ok)
       \/ /\ ok /\ \E o \in OwnerOf(to) : Present(o)
          /\ Fault /\ owners' = Disowned(to) /\ disk' = owners' /\ UNCHANGED kernel
       \/ ~ok /\ OwnerOf(to) = {} /\ NoFault /\ UNCHANGED <<kernel, owners, disk>>

\* delRoute and delHostRoute.  A route that is not there counts as deleted; the
\* owner is forgotten then, whether or not the file can be written.  A route
\* that could not be deleted, or not proved absent, keeps its owner.  Without
\* an owner there is nothing to delete by.
Drop(to, ok) ==
    /\ UNCHANGED <<os, network, link, dev>>
    /\ \/ /\ OwnerOf(to) # {}
          /\ kernel' = {k \in kernel : \A o \in OwnerOf(to) : ~Matches(k, o)}
          /\ owners' = Disowned(to) /\ Persist(owners', ok)
       \/ /\ ~ok /\ OwnerOf(to) # {} /\ Fault /\ UNCHANGED <<kernel, owners, disk>>
       \/ ~ok /\ OwnerOf(to) = {} /\ NoFault /\ UNCHANGED <<kernel, owners, disk>>

\* The list an entry is in forgets it when it is gone.
Unlist(to, ok) ==
    IF ok THEN /\ routed' = routed \ {to}
               /\ residual' = residual \ {to}
               /\ pinned' = pinned \ {to}
          ELSE UNCHANGED <<routed, residual, pinned>>

\* A walk goes over the routes, then the deferred ones, then the pins.
Earliest ==
    IF todo \cap routed # {} THEN todo \cap routed
    ELSE IF todo \cap residual # {} THEN todo \cap residual
    ELSE todo

SweepOne ==
    /\ at = "sweep" /\ os # "windows"
    /\ \E to \in Earliest, ok \in BOOLEAN :
        /\ Drop(to, ok) /\ Unlist(to, ok)
        /\ todo' = todo \ {to}
        /\ err' = (err \/ ~ok)
    /\ UNCHANGED <<engine, at, mode, call, cur, ret, added, after, tries, outcome,
                   budget, calls, crashes, roams, moved>>

\* What a sweep begins with: everything, or all but the pins still wanted.
Sweep(why, keep, n) ==
    /\ at' = "sweep" /\ after' = why /\ tries' = n /\ err' = FALSE
    /\ todo' = (routed \cup residual \cup pinned) \ keep

\* The daemon exits with what it could not do; the next start begins anew.
Exit(result) == at' = "down" /\ outcome' = result /\ Forget
-----------------------------------------------------------------------------
\* Starting: the routes of the last process go before anything else is done.

Start ==
    /\ at = "down" /\ at' = "clean" /\ todo' = disk /\ outcome' = "none"
    /\ UNCHANGED <<host, lists, engine, mode, call, cur, ret, added, after, err,
                   tries, counters>>

\* Mutant: routes that cannot be deleted are left for a later start.
CleanOne_Tolerant ==
    /\ at = "clean" /\ todo # {}
    /\ \E r \in todo :
        /\ todo' = todo \ {r}
        /\ \/ kernel' = Without(r) /\ NoFault
           \/ Fault /\ UNCHANGED kernel
    /\ UNCHANGED <<os, network, link, dev, disk, lists, engine, at, mode, call, cur, ret,
                   added, after, err, tries, outcome, budget, calls, crashes, roams, moved>>

\* PreparePersistentCleanup.  Routes come before pins, as the file has them.  A
\* route that is not there is passed over; one that stays ends the process.
CleanOne ==
    /\ at = "clean" /\ todo # {}
    /\ \E r \in todo :
        /\ r.to \in Endpoints => \A o \in todo : o.to \in Endpoints
        /\ \/ /\ kernel' = Without(r) /\ NoFault
              /\ todo' = todo \ {r}
              /\ UNCHANGED <<lists, engine, at, mode, call, cur, ret, added, after, err,
                             tries, outcome, moved>>
           \/ Fault /\ Exit("error") /\ UNCHANGED kernel
    /\ UNCHANGED <<os, network, link, dev, disk, budget, calls, crashes, roams>>

Cleaned ==
    /\ at = "clean" /\ todo = {}
    /\ \/ /\ Persist({}, TRUE) /\ at' = "bringUp"
          /\ UNCHANGED <<lists, engine, mode, call, todo, cur, ret, added, after, err,
                         tries, outcome, moved>>
       \/ Persist({}, FALSE) /\ Exit("error")
    /\ UNCHANGED <<os, network, kernel, link, dev, budget, calls, crashes, roams>>

\* Up.  On Linux the interface must not exist yet: `ip link add` refuses a name
\* that is taken, and so does wireguard-go after it.  On Windows the tunnel
\* service makes the adapter later.
BringUp ==
    /\ at = "bringUp"
    /\ \/ /\ os = "linux" => ~link
          /\ at' = "idle" /\ link' = (link \/ os # "windows") /\ NoFault
          /\ UNCHANGED <<lists, engine, mode, call, todo, cur, ret, added, after, err,
                         tries, outcome, moved>>
       \/ /\ os = "linux" /\ link /\ Exit("noStart") /\ NoFault /\ UNCHANGED link
       \/ /\ os # "windows" /\ Fault /\ Exit("error") /\ UNCHANGED link
    /\ UNCHANGED <<os, network, kernel, dev, disk, budget, calls, crashes, roams>>

\* Nothing in the repository removes the interface of a killed Linux daemon.
OperatorRemovesLink ==
    /\ at = "down" /\ os = "linux" /\ link
    /\ link' = FALSE /\ dev' = Nil /\ kernel' = OffTunnel
    /\ UNCHANGED <<os, network, disk, lists, engine, control, outcome, counters>>

\* SIGKILL, at any point.
Crash ==
    /\ at # "down" /\ crashes < budget.crashes /\ crashes' = crashes + 1
    /\ Exit("killed") /\ DeviceDies
    /\ UNCHANGED <<os, network, disk, budget, calls, faults, roams>>

\* Between two calls the host joins another network.  Routes by a gateway it no
\* longer has are gone from the table; nobody tells the engine.
Roam ==
    /\ at = "idle" /\ roams < budget.roams /\ roams' = roams + 1
    /\ \E n \in Networks \ {network} :
        /\ network' = n
        /\ kernel' = {k \in kernel : k.via \in {Tunnel, Null} \cup Gateways(n)}
    /\ moved' = TRUE
    /\ UNCHANGED <<os, link, dev, disk, lists, engine, control, outcome, budget, calls, faults,
                   crashes>>
-----------------------------------------------------------------------------
\* Installing: intent, then route.

\* Mutant: the route is programmed first and recorded when it is there.
Intent_Late(r, back, ok) ==
    /\ ok /\ at' = "add" /\ cur' = r /\ ret' = back
    /\ owners' = Disowned(r.to) \cup {r} /\ NoFault /\ UNCHANGED disk

\* The first half of installManagedRoute and installManagedPin, when it succeeds
\* and when the file cannot be written.
Intent(r, back, ok) ==
    IF ok THEN /\ at' = "add" /\ cur' = r /\ ret' = back
               /\ owners' = Disowned(r.to) \cup {r} /\ Persist(owners', TRUE)
          ELSE owners' = Disowned(r.to) /\ Fault /\ UNCHANGED disk

\* What a loop does about a route it could not install.  Staged pins are taken
\* back; half an IPv6 pair is, when a firewall covers for it; else the whole
\* plan goes, but for the pins WireGuard now relies on.
Recovers(back) ==
    CASE back = "stage" -> at' = "unstage" /\ UNCHANGED <<todo, after, err, tries, applied>>
      [] back = "install" /\ (\A i \in Next1(todo) : i.rank = 4) ->
            /\ at' = "undo6" /\ todo' = {i \in todo : i.rank > 4}
            /\ UNCHANGED <<after, err, tries, applied>>
      [] OTHER -> Sweep("failed", DesiredPins(call), 1) /\ applied' = FALSE

\* The table has the route and a list takes it up.
Programs(table) ==
    /\ kernel' = table \cup {[to |-> cur.to, via |-> cur.via, own |-> TRUE]}
    /\ at' = ret /\ cur' = Nil /\ ret' = "none"
    /\ IF ret = "stage"
       THEN pinned' = pinned \cup {cur.to} /\ UNCHANGED <<routed, todo>>
       ELSE /\ routed' = routed \cup {cur.to} /\ UNCHANGED pinned
            /\ todo' = {i \in todo : ~Matches(i, cur)}
    /\ added' = added \cup IF ret = "stage" \/ cur.to \in V6 THEN {cur.to} ELSE {}
    /\ UNCHANGED <<os, network, link, dev, disk, owners, residual, engine, mode, call,
                   after, err, tries, outcome, budget, calls, faults, crashes, roams, moved>>

\* Mutant: the route replaces whatever leads to its destination.
Add_Replaces ==
    /\ at = "add" /\ os # "windows"
    /\ Programs({k \in kernel : k.to # cur.to})

\* The second half: the kernel adds the route.
Add ==
    /\ at = "add" /\ os # "windows" /\ ~Taken(cur.to)
    /\ Programs(kernel)

\* Or it refuses, because the destination has a route or for another reason, and
\* the intent is withdrawn.
AddFails ==
    /\ at = "add" /\ os # "windows"
    /\ owners' = Disowned(cur.to)
    /\ \/ Taken(cur.to) /\ \E ok \in BOOLEAN : Persist(owners', ok)
       \/ Fault /\ disk' = owners'
    /\ Recovers(ret) /\ cur' = Nil /\ ret' = "none"
    /\ UNCHANGED <<os, network, kernel, link, dev, routed, residual, pinned, scrubbed, cfg,
                   mode, call, added, outcome, budget, calls, crashes, roams, moved>>
-----------------------------------------------------------------------------
\* Reconfigure on Linux and macOS.

Configure ==
    /\ at = "idle" /\ os # "windows" /\ calls < budget.calls /\ calls' = calls + 1
    /\ \E c \in Configs :
        IF link THEN /\ at' = "stage" /\ mode' = "configure" /\ call' = c
                     /\ UNCHANGED outcome
                ELSE outcome' = "error" /\ UNCHANGED <<at, mode, call>>
    /\ UNCHANGED <<host, lists, engine, todo, cur, ret, added, after, err, tries,
                   budget, faults, crashes, roams, moved>>

\* Mutant: a pin without a physical path is left for later.
Stage_Skips ==
    /\ at = "stage"
    /\ LET new == DesiredPins(call) \ pinned
       IN IF new = {} \/ PhysicalPath = Nil
          THEN at' = "device" /\ NoFault /\ UNCHANGED <<disk, owners, cur, ret>>
          ELSE \E to \in new, ok \in BOOLEAN :
                  /\ Intent(Route(to, PhysicalPath), "stage", ok)
                  /\ ~ok => at' = "unstage" /\ UNCHANGED <<cur, ret>>
    /\ UNCHANGED <<os, network, kernel, link, dev, routed, residual, pinned, engine, mode,
                   call, todo, added, after, err, tries, outcome, budget, calls, crashes, roams, moved>>

\* stageEndpointPinsLocked: a route for every new endpoint, before WireGuard
\* hears of it.
Stage ==
    /\ at = "stage"
    /\ LET new == DesiredPins(call) \ pinned
       IN \/ /\ new = {} /\ at' = "device"
             /\ NoFault /\ UNCHANGED <<disk, owners, cur, ret>>
          \/ /\ new # {} /\ PhysicalPath = Nil /\ at' = "unstage"
             /\ NoFault /\ UNCHANGED <<disk, owners, cur, ret>>
          \/ /\ PhysicalPath # Nil
             /\ \E to \in new, ok \in BOOLEAN :
                    /\ Intent(Route(to, PhysicalPath), "stage", ok)
                    /\ ~ok => at' = "unstage" /\ UNCHANGED <<cur, ret>>
    /\ UNCHANGED <<os, network, kernel, link, dev, routed, residual, pinned, engine, mode,
                   call, todo, added, after, err, tries, outcome, budget, calls, crashes, roams, moved>>

\* rollbackStagedPinsLocked: a pin that cannot be taken back stays in the list.
Unstage ==
    /\ at = "unstage"
    /\ IF added = {}
       THEN /\ Fails /\ NoFault /\ UNCHANGED <<os, network, disk, lists, engine>>
       ELSE \E to \in added, ok \in BOOLEAN :
              /\ Drop(to, ok) /\ Unlist(to, ok) /\ added' = added \ {to}
              /\ UNCHANGED <<engine, at, mode, call, todo, cur, ret, after, err, tries, outcome>>
    /\ UNCHANGED <<budget, calls, crashes, roams, moved>>

\* WireGuard takes the configuration, then addresses and link state follow.  The
\* first apply of a process removes split defaults it finds on its interface.
Device ==
    /\ at = "device"
    /\ \/ /\ Fault /\ at' = "unstage"
          /\ UNCHANGED <<host, scrubbed, todo, added, mode, call, cur, ret, after, err,
                         tries, outcome>>
       \/ /\ mode # "recover" /\ Fault /\ dev' = call /\ Finish("error")
          /\ UNCHANGED <<os, network, kernel, link, disk, scrubbed>>
       \/ /\ mode = "recover" /\ Fault /\ Fails /\ UNCHANGED <<os, network, disk, scrubbed>>
       \/ /\ NoFault /\ dev' = call /\ scrubbed' = TRUE
          /\ kernel' = IF scrubbed THEN kernel
                       ELSE {k \in kernel : k.to \notin V4 \cup V6 \/ k.via # Tunnel}
          /\ at' = "residual" /\ todo' = residual /\ added' = {}
          /\ UNCHANGED <<os, network, link, disk, mode, call, cur, ret, after, err, tries,
                         outcome>>
    /\ UNCHANGED <<lists, applied, cfg, budget, calls, crashes, roams, moved>>

\* The routes a rollback could not delete are tried again.
Residual ==
    /\ at = "residual" /\ todo # {}
    /\ \E to \in todo, ok \in BOOLEAN :
        /\ Drop(to, ok) /\ Unlist(to, ok)
        /\ todo' = todo \ {to} /\ err' = (err \/ ~ok)
    /\ UNCHANGED <<engine, at, mode, call, cur, ret, added, after, tries, outcome, budget, calls,
                   crashes, roams, moved>>

\* Mutant: every netmap takes the route plan down and up again.
Replan_Always ==
    /\ at = "residual" /\ todo = {}
    /\ \/ err /\ Fails /\ UNCHANGED applied
       \/ /\ ~err /\ applied' = FALSE /\ Sweep("install", DesiredPins(call), 1)
          /\ UNCHANGED <<kernel, link, dev, outcome, mode, call, cur, ret, added>>
    /\ UNCHANGED <<os, network, disk, lists, scrubbed, cfg, counters>>

\* A plan that is in place and would not change stays, and only pins go; else
\* all but the wanted pins is removed.
Replan ==
    /\ at = "residual" /\ todo = {}
    /\ \/ /\ applied /\ SameRoutes(cfg, call) /\ at' = "sweep" /\ after' = "refreshed"
          /\ todo' = pinned \ DesiredPins(call) /\ err' = FALSE
          /\ UNCHANGED <<kernel, link, dev, applied, outcome, mode, call, cur, ret, added, tries>>
       \/ /\ ~(applied /\ SameRoutes(cfg, call)) /\ err /\ Fails /\ UNCHANGED applied
       \/ /\ ~(applied /\ SameRoutes(cfg, call)) /\ ~err
          /\ applied' = FALSE /\ Sweep("install", DesiredPins(call), 1)
          /\ UNCHANGED <<kernel, link, dev, outcome, mode, call, cur, ret, added>>
    /\ UNCHANGED <<os, network, disk, lists, scrubbed, cfg, counters>>

Install ==
    /\ at = "install" /\ todo # {}
    /\ \E i \in Next1(todo), ok \in BOOLEAN :
        /\ Intent(Route(i.to, i.via), "install", ok)
        /\ IF ok THEN UNCHANGED <<todo, after, err, tries, applied>>
                 ELSE Recovers("install") /\ UNCHANGED <<cur, ret>>
    /\ UNCHANGED <<os, network, kernel, link, dev, routed, residual, pinned, scrubbed, cfg,
                   mode, call, added, outcome, budget, calls, crashes, roams, moved>>

\* Mutant: a half that could not be deleted is in both lists.
Undo6_Both ==
    /\ at = "undo6"
    /\ IF added = {}
       THEN at' = "install" /\ NoFault /\ UNCHANGED <<host, lists, added>>
       ELSE \E to \in added, ok \in BOOLEAN :
              /\ Drop(to, ok) /\ added' = added \ {to} /\ UNCHANGED <<at, pinned>>
              /\ routed' = IF ok THEN routed \ {to} ELSE routed
              /\ residual' = IF ok THEN residual ELSE residual \cup {to}
    /\ UNCHANGED <<engine, mode, call, todo, cur, ret, after, err, tries, outcome, budget, calls,
                   crashes, roams, moved>>

\* removeRoutedFromLocked and deferFailedRollbackLocked, for the IPv6 pair.
Undo6 ==
    /\ at = "undo6"
    /\ IF added = {}
       THEN at' = "install" /\ NoFault /\ UNCHANGED <<host, lists, added>>
       ELSE \E to \in added, ok \in BOOLEAN :
              /\ Drop(to, ok) /\ added' = added \ {to} /\ UNCHANGED <<at, pinned>>
              /\ routed' = routed \ {to}
              /\ residual' = IF ok THEN residual ELSE residual \cup {to}
    /\ UNCHANGED <<engine, mode, call, todo, cur, ret, after, err, tries, outcome, budget, calls,
                   crashes, roams, moved>>

Installed ==
    /\ at = "install" /\ todo = {}
    /\ applied' = TRUE /\ cfg' = call /\ Finish("ok")
    /\ UNCHANGED <<host, lists, scrubbed, counters>>
-----------------------------------------------------------------------------
\* Rebuilding the macOS data plane, and Down.

\* recoverDataPlane, after the daemon found the device or the network path dead.
Recover ==
    /\ at = "idle" /\ os = "darwin" /\ calls < budget.calls /\ calls' = calls + 1
    /\ mode' = "recover" /\ call' = cfg /\ applied' = FALSE
    /\ Sweep("rebuild", {}, 2)
    /\ UNCHANGED <<host, lists, scrubbed, cfg, cur, ret, added, outcome, budget, faults, crashes,
                   roams, moved>>

Relink ==
    /\ at = "relink"
    /\ \/ /\ NoFault /\ link' = TRUE /\ at' = "stage"
          /\ UNCHANGED <<os, network, kernel, dev, disk, mode, call, todo, cur, ret, added,
                         after, err, tries, outcome>>
       \/ Fault /\ Finish("error") /\ UNCHANGED host
    /\ UNCHANGED <<lists, engine, budget, calls, crashes, roams, moved>>

Down ==
    /\ at = "idle" /\ mode' = "down"
    /\ applied' = (os = "windows" /\ applied)
    /\ IF os = "windows"
       THEN /\ at' = "sweep" /\ after' = "stop" /\ tries' = 3 /\ err' = FALSE
            /\ todo' = owners
       ELSE Sweep("stop", {}, 3)
    /\ UNCHANGED <<host, lists, scrubbed, cfg, call, cur, ret, added, outcome, counters>>

\* What follows a sweep of the Unix lists.
SweepEnd ==
    /\ at = "sweep" /\ os # "windows" /\ todo = {}
    /\ CASE after = "install" /\ ~err ->
              /\ at' = "install" /\ todo' = Plan(call) /\ added' = {}
              /\ after' = "none" /\ tries' = 0
              /\ UNCHANGED <<kernel, link, dev, cfg, mode, call, cur, ret, err, outcome, moved>>
         [] (after = "install" /\ err) \/ after = "failed" ->
              Fails /\ UNCHANGED <<cfg, moved>>
         [] after = "refreshed" ->
              Finish("ok") /\ cfg' = call /\ UNCHANGED <<kernel, link, dev, moved>>
         [] after \in {"stop", "rebuild"} /\ err /\ tries > 1 ->
              /\ Sweep(after, {}, tries - 1)
              /\ UNCHANGED <<kernel, link, dev, cfg, mode, call, cur, ret, added, outcome, moved>>
         [] after = "rebuild" /\ err /\ tries = 1 ->
              Finish("error") /\ UNCHANGED <<kernel, link, dev, cfg, moved>>
         [] after = "rebuild" /\ ~err ->
              /\ at' = "relink" /\ link' = FALSE /\ dev' = Nil /\ kernel' = OffTunnel
              /\ after' = "none" /\ tries' = 0 /\ moved' = FALSE
              /\ UNCHANGED <<cfg, mode, call, todo, cur, ret, added, err, outcome>>
         [] OTHER ->
              /\ at' = "unlink" /\ after' = "none" /\ tries' = 0
              /\ UNCHANGED <<kernel, link, dev, cfg, mode, call, todo, cur, ret, added, err,
                             outcome, moved>>
    /\ UNCHANGED <<os, network, disk, lists, applied, scrubbed, budget, calls, faults, crashes, roams>>

\* The end of Down and of the process.  It says whether anything was left.
Unlink ==
    /\ at = "unlink"
    /\ \/ /\ NoFault /\ link' = FALSE /\ dev' = Nil /\ kernel' = OffTunnel
          /\ Exit(IF err THEN "error" ELSE "stopped")
       \/ /\ os # "darwin" /\ link /\ Fault /\ Exit("error")
          /\ UNCHANGED <<link, dev, kernel>>
    /\ UNCHANGED <<os, network, disk, budget, calls, crashes, roams>>
-----------------------------------------------------------------------------
InitRoutes ==
    /\ os \in Systems /\ network \in Networks
    /\ kernel \in {{[to |-> r.to, via |-> r.via, own |-> FALSE] : r \in f} : f \in Foreign}
    /\ \A k \in kernel : k.via \in Gateways(network)
    /\ link = FALSE /\ dev = Nil /\ disk = {}
    /\ owners = {} /\ routed = {} /\ residual = {} /\ pinned = {}
    /\ applied = FALSE /\ scrubbed = FALSE /\ cfg = Empty
    /\ at = "down" /\ mode = "none" /\ call = Empty /\ todo = {} /\ cur = Nil
    /\ ret = "none" /\ added = {} /\ after = "none" /\ err = FALSE /\ tries = 0
    /\ outcome = "none"
    /\ budget \in Budgets /\ calls = 0 /\ faults = 0 /\ crashes = 0 /\ roams = 0 /\ moved = FALSE

\* What a call or a start that has begun does next.
UnixStep ==
    \/ CleanOne \/ Cleaned \/ BringUp
    \/ Stage \/ Add \/ AddFails \/ Unstage \/ Device \/ Residual \/ Replan
    \/ Install \/ Undo6 \/ Installed
    \/ SweepOne \/ SweepEnd \/ Relink \/ Unlink

\* What begins from outside.
Arrives == Start \/ Configure \/ Recover \/ Down \/ Crash \/ Roam \/ OperatorRemovesLink
=============================================================================
