--------------------------- MODULE WindowsRoutes ---------------------------
(***************************************************************************)
(* The engine's calls on Windows, and the whole behaviour of the engine.    *)
(*                                                                          *)
(* The official tunnel service owns the adapter and the routes of the peers *)
(* (`dev` is what it runs); the engine adds host routes for transport       *)
(* addresses, direct and blocked prefixes.  A netmap that changes nothing   *)
(* is skipped, one that changes transport addresses is given to the live    *)
(* adapter, and any other reinstalls the service.                           *)
(***************************************************************************)
EXTENDS RouteLedger

Pins == {o \in owners : o.to \in Endpoints}     \* windowsPins

\* An endpoint has no physical path when Nil is where its route would go.
PinRoutes(c) == {Route(to, PhysicalPath) : to \in DesiredPins(c)}

\* The routes beside the service's own: the direct ones, then the blocked ones.
Extra(c) ==
    IF ~c.default THEN {}
    ELSE {Item(5, p, PhysicalPath) : p \in c.direct} \cup {Item(6, p, Null) : p \in c.block}

WithoutTransport(c) == [c EXCEPT !.ep = Nil, !.phys = {}]

\* clearRoutesWithRetriesLocked, with what is to follow.
WClear(why, n) ==
    /\ at' = "sweep" /\ after' = why /\ tries' = n /\ err' = FALSE /\ todo' = owners'

Loop == <<todo, after, tries, err>>

\* The ways reconfigureWindowsLocked may take.
WConfigure ==
    /\ at = "idle" /\ os = "windows" /\ calls < budget.calls /\ calls' = calls + 1
    /\ UNCHANGED owners
    /\ \E c \in Configs :
        /\ ~(c.kill /\ c.direct # {})
        /\ IF applied /\ c = cfg
           THEN outcome' = "ok" /\ UNCHANGED <<at, mode, call, Loop>>
           ELSE /\ mode' = "configure" /\ call' = c /\ UNCHANGED outcome
                /\ IF applied /\ WithoutTransport(c) = WithoutTransport(cfg)
                   THEN at' = "wstage" /\ UNCHANGED Loop
                   ELSE WClear("remove", 2)
    /\ UNCHANGED <<host, routed, residual, pinned, engine, cur, ret, added, budget, faults, crashes,
                   roams, moved>>
-----------------------------------------------------------------------------
\* Installing one route, installWindowsRoute.

\* Back to a state without the new plan; on a live adapter to none at all.
Abandon(loop) ==
    WClear(CASE loop = "wstage" -> "remove" [] loop = "wpins" -> "failed" [] OTHER -> "failedLive", 2)

WIntent(r, loop) ==
    \/ /\ owners' = owners \cup {r} /\ Persist(owners', TRUE)
       /\ at' = "add" /\ cur' = r /\ ret' = loop /\ UNCHANGED Loop
    \/ /\ UNCHANGED <<owners, disk, cur, ret>> /\ Fault /\ Abandon(loop)

\* The routes of a loop, one after the other, then the next step.
WEach(loop, routes, then) ==
    /\ at = loop
    /\ \/ /\ routes = {} /\ at' = then
          /\ NoFault /\ UNCHANGED <<disk, owners, cur, ret, Loop>>
       \/ \E r \in routes :
            IF r.via = Nil
            THEN NoFault /\ UNCHANGED <<disk, owners, cur, ret>> /\ Abandon(loop)
            ELSE WIntent(Route(r.to, r.via), loop)
    /\ UNCHANGED <<os, network, kernel, link, dev, routed, residual, pinned, engine, mode,
                   call, added, outcome, budget, calls, crashes, roams, moved>>

WAdd ==
    /\ at = "add" /\ os = "windows" /\ ~Taken(cur.to)
    /\ kernel' = kernel \cup {[to |-> cur.to, via |-> cur.via, own |-> TRUE]}
    /\ todo' = {i \in todo : ~Matches(i, cur)}
    /\ at' = ret /\ cur' = Nil /\ ret' = "none"
    /\ UNCHANGED <<os, network, link, dev, disk, lists, engine, mode, call, added, after, err,
                   tries, outcome, budget, calls, faults, crashes, roams, moved>>

\* A destination that has a route is a conflict, whoever's route it is.
WAddFails ==
    /\ at = "add" /\ os = "windows"
    /\ owners' = owners \ {cur}
    /\ \/ Taken(cur.to) /\ \E ok \in BOOLEAN : Persist(owners', ok)
       \/ Fault /\ disk' = owners'
    /\ Abandon(ret) /\ cur' = Nil /\ ret' = "none"
    /\ UNCHANGED <<os, network, kernel, link, dev, routed, residual, pinned, engine, mode, call,
                   added, outcome, budget, calls, crashes, roams, moved>>
-----------------------------------------------------------------------------
\* New transport addresses on the live adapter.

\* Mutant: the adapter gets its new endpoint before the endpoint has its route.
WStage_Later == WEach("wstage", {}, "wsync")

\* stageWindowsPinsLocked.
WStage == WEach("wstage", PinRoutes(call) \ owners, "wsync")

\* syncconfWindowsLocked, and the pins it makes obsolete.  What it cannot do, a
\* reinstallation may.
WSync ==
    /\ at = "wsync"
    /\ UNCHANGED owners
    /\ \/ /\ NoFault /\ dev' = call /\ at' = "wdrop" /\ todo' = Pins \ PinRoutes(call)
          /\ UNCHANGED <<after, tries, err>>
       \/ Fault /\ UNCHANGED dev /\ WClear("remove", 2)
    /\ UNCHANGED <<os, network, kernel, link, disk, routed, residual, pinned, engine, mode, call,
                   cur, ret, added, outcome, budget, calls, crashes, roams, moved>>

\* The list forgets the pin; the file is not written.
WDrop ==
    /\ at = "wdrop" /\ todo # {}
    /\ \E r \in todo :
        /\ todo' = todo \ {r}
        /\ \/ kernel' = Without(r) /\ owners' = owners \ {r} /\ NoFault
           \/ Fault /\ UNCHANGED <<kernel, owners>>
    /\ UNCHANGED <<os, network, link, dev, disk, routed, residual, pinned, engine, at, mode,
                   call, cur, ret, added, after, err, tries, outcome, budget, calls, crashes, roams, moved>>

WSynced ==
    /\ at = "wdrop" /\ todo = {} /\ cfg' = call /\ Finish("ok")
    /\ UNCHANGED <<host, lists, applied, scrubbed, counters>>
-----------------------------------------------------------------------------
\* Clearing, and installing the service anew.

\* clearWindowsRoutesLocked.
WSweepOne ==
    /\ at = "sweep" /\ os = "windows"
    /\ \E r \in todo :
        /\ todo' = todo \ {r}
        /\ \/ kernel' = Without(r) /\ owners' = owners \ {r} /\ NoFault /\ UNCHANGED err
           \/ Fault /\ err' = TRUE /\ UNCHANGED <<kernel, owners>>
    /\ UNCHANGED <<os, network, link, dev, disk, routed, residual, pinned, engine, at, mode,
                   call, cur, ret, added, after, tries, outcome, budget, calls, crashes, roams, moved>>

WSweepEnd ==
    /\ at = "sweep" /\ os = "windows" /\ todo = {}
    /\ UNCHANGED owners
    /\ \E ok \in BOOLEAN :
        LET failed == err \/ ~ok
            again == failed /\ tries > 1
        IN /\ Persist(owners, ok)
           /\ CASE again ->
                    WClear(after, tries - 1) /\ UNCHANGED <<mode, call, cur, ret, added, outcome>>
                [] ~again /\ (after = "failed" \/ (after = "remove" /\ failed)) ->
                    Finish("error")
                [] OTHER ->
                    /\ at' = CASE after = "remove" -> "wremove"
                               [] after = "stop" -> "unlink"
                               [] OTHER -> "wuninstall"
                    /\ err' = failed /\ after' = "none" /\ tries' = 0
                    /\ UNCHANGED <<mode, call, todo, cur, ret, added, outcome>>
    /\ UNCHANGED <<os, network, kernel, link, dev, routed, residual, pinned, engine, budget, calls,
                   crashes, roams, moved>>

\* The service and the adapter must be gone before a new one is installed.
WRemove ==
    /\ at = "wremove"
    /\ \/ /\ NoFault /\ link' = FALSE /\ dev' = Nil /\ applied' = FALSE
          /\ at' = "wpins" /\ todo' = PinRoutes(call)
          /\ UNCHANGED <<mode, call, cur, ret, added, after, err, tries, outcome>>
       \/ Fault /\ Finish("error") /\ UNCHANGED <<link, dev, applied>>
    /\ UNCHANGED <<os, network, kernel, disk, lists, scrubbed, cfg, budget, calls, crashes, roams, moved>>

WPins == WEach("wpins", todo, "wservice")

\* The service is installed and its adapter awaited.
WService ==
    /\ at = "wservice" /\ UNCHANGED owners
    /\ \/ /\ NoFault /\ link' = TRUE /\ dev' = call
          /\ at' = "wroutes" /\ todo' = Extra(call) /\ UNCHANGED <<after, err, tries>>
       \/ Fault /\ UNCHANGED <<link, dev>> /\ WClear("failed", 2)
       \/ Fault /\ link' = TRUE /\ dev' = call /\ WClear("failedLive", 2)
    /\ UNCHANGED <<os, network, kernel, disk, routed, residual, pinned, engine, mode, call, cur,
                   ret, added, outcome, budget, calls, crashes, roams, moved>>

WRoutes == WEach("wroutes", Next1(todo), "wdone")

WInstalled ==
    /\ at = "wdone" /\ applied' = TRUE /\ cfg' = call /\ Finish("ok")
    /\ UNCHANGED <<host, lists, scrubbed, counters>>

\* Best effort: the error of the command is not looked at.
WUninstall ==
    /\ at = "wuninstall" /\ Finish("error")
    /\ \/ NoFault /\ link' = FALSE /\ dev' = Nil
       \/ Fault /\ UNCHANGED <<link, dev>>
    /\ UNCHANGED <<os, network, kernel, disk, lists, engine, budget, calls, crashes, roams, moved>>

WindowsStep ==
    \/ WStage \/ WAdd \/ WAddFails \/ WSync \/ WDrop \/ WSynced
    \/ WSweepOne \/ WSweepEnd \/ WRemove \/ WPins \/ WService \/ WRoutes \/ WInstalled
    \/ WUninstall
-----------------------------------------------------------------------------
EngineStep == UnixStep \/ WindowsStep
RoutesNext == EngineStep \/ Arrives \/ WConfigure

RoutesSpec == InitRoutes /\ [][RoutesNext]_vars

-----------------------------------------------------------------------------
\* Every route in the lists can still be deleted: its identity is known.
Retained == os # "windows" => \A to \in routed \cup residual \cup pinned : OwnerOf(to) # {}

\* The halves of the default route that the kernel sends into the tunnel.
Halves == {k \in kernel : k.to \in V4 \cup V6 /\ k.via = Tunnel}

\* Every transport address of a configuration has a route of its own.
PinsLive(c) == \A to \in DesiredPins(c) : \E k \in kernel : k.to = to /\ k.via # Tunnel

\* Where a route may lead, and how it may leave.
Destinations ==
    V4 \cup V6 \cup Endpoints \cup {r.to : r \in UNION Foreign}
    \cup UNION {c.net \cup c.direct \cup c.block : c \in Configs}
Ways == {Tunnel, Null} \cup UNION {Gateways(n) : n \in Networks}
Routes == [to : Destinations, via : Ways]

\* The types, with one owner for a destination on Unix, and lists apart.
TypeOK ==
    /\ os \in Systems /\ network \in Networks
    /\ \A k \in kernel : Route(k.to, k.via) \in Routes /\ k.own \in BOOLEAN
    /\ link \in BOOLEAN /\ dev \in Configs \cup {Nil, Empty}
    /\ disk \subseteq Routes /\ owners \subseteq Routes
    /\ os # "windows" => \A o, p \in owners : o.to = p.to => o = p
    /\ routed \cap residual = {} /\ (routed \cup residual) \cap pinned = {}
    /\ applied \in BOOLEAN /\ cfg \in Configs \cup {Empty} /\ call \in Configs \cup {Empty}
    /\ outcome \in {"none", "ok", "error", "killed", "stopped", "noStart"}

\* The file names every route RatelMesh has in the table, whatever was killed or
\* failed, so that the next start knows what to remove: an intent is written
\* before the route, and an entry leaves the file after it
\* (installManagedRoute, delRoute, installWindowsRoute).
LedgerCovers == \A k \in Own : Route(k.to, k.via) \in disk

\* A process that says it stopped cleanly has left no route behind
\* (Down; the daemon then clears the firewall and the cleanup marker).
CleanStop == at = "down" /\ outcome = "stopped" => Own = {}

\* On Linux and macOS, while a plan is in place, or being put in place, nothing
\* that WireGuard must send goes back into its own tunnel: the endpoints of the
\* device are pinned as long as a half of the default route is there
\* (applyRoutes, and the two phases of an endpoint update).  Only a ledger that
\* could not be written, and a network that changed, are excused.  On Windows
\* the tunnel service owns the default route, and PinsFirst is the guarantee.
NoSelfLoop ==
    (applied \/ at = "install" \/ ret = "install") /\ Retained /\ ~moved
    /\ dev # Nil /\ Halves # {} => PinsLive(dev)

\* What the engine takes for applied is in the table: a netmap that changes
\* nothing is skipped on the strength of it.  On Windows only as long as no
\* command and no write has failed: a reinstallation that fails while it clears
\* leaves the old plan marked as applied (reconfigureWindowsLocked).  The IPv6
\* halves are optional where a firewall covers for them.
AppliedIsInstalled ==
    /\ os # "windows" /\ at = "idle" /\ applied /\ Retained /\ ~moved =>
        \A i \in Plan(cfg) : i.rank = 4 \/ Present(Route(i.to, i.via))
    /\ os = "windows" /\ at = "idle" /\ applied /\ faults = 0 /\ ~moved =>
        \A r \in PinRoutes(cfg) \cup Extra(cfg) : Present(r)

\* A tunnel that captures the default route is given transport addresses only
\* once they are pinned, on a fresh service and on a live adapter.
PinsFirst ==
    [][ os = "windows" /\ dev' # dev /\ dev' # Nil => PinsLive(dev') ]_vars

\* A netmap that changes only transport addresses takes no route out of the
\* tunnel, not for a moment (unixTunnelRouteInputsEqual).
RefreshKeepsRoutes ==
    [][ mode = "configure" /\ outcome = "ok" /\ os # "windows" /\ SameRoutes(cfg, call)
          /\ ~moved /\ crashes' = crashes =>
          \A k \in kernel : k.own /\ k.via = Tunnel /\ k.to \in routed => k \in kernel' ]_vars

\* A route someone else has added is not removed by a running daemon; only the
\* start after a kill between intent and refusal can take it for its own.
ForeignSpared ==
    [][ network' = network /\ at # "clean" =>
          \A k \in kernel : ~k.own => k \in kernel' ]_vars

\* What a killed daemon has left is removed, however the starts that follow end.
LeftoversGo == at = "down" /\ Own # {} ~> Own = {}

\* The table, the ledger, the device and what the engine believes of them agree
\* through every failed call, kill and start (RealEngine).
RoutesSound == TypeOK /\ LedgerCovers /\ CleanStop /\ NoSelfLoop /\ AppliedIsInstalled

\* A call disturbs neither the traffic of a live tunnel nor other people's routes
\* (Reconfigure, reconfigureWindowsLocked).
RoutesKept == PinsFirst /\ RefreshKeepsRoutes /\ ForeignSpared
=============================================================================
