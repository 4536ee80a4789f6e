------------------------------- MODULE MCHost -------------------------------
(***************************************************************************)
(* What the daemon does to its host: the routes and the resolver.  They share *)
(* the daemon and nothing else, and a behaviour follows one of them.          *)
(* One peer that may be an exit, two transport addresses, two networks; two   *)
(* settings of the host's resolver.                                           *)
(***************************************************************************)
EXTENDS WindowsRoutes, SystemResolver

CONSTANT Parts
VARIABLE part


Half4 == {"0/1"}
Half6 == {"::/1", "8000::/1"}
Addresses == {"e1", "e2"}

Via(gateway, metric) == [via |-> gateway, tunnel |-> FALSE, metric |-> metric]
Home == <<[via |-> "vpn", tunnel |-> TRUE, metric |-> 0], Via("g2", 2), Via("g1", 1)>>
Away == <<Via("g2", 1)>>
Offline == <<>>
Nets == {Home, Away, Offline}

Mesh == [Empty EXCEPT !.net = {"net"}]
Exit1 == [Mesh EXCEPT !.default = TRUE, !.ep = "e1", !.direct = {"lan"}, !.block = Half6]
Exit2 == [Exit1 EXCEPT !.ep = "e2"]
Armed == [Mesh EXCEPT !.default = TRUE, !.ep = "e1", !.v6 = TRUE, !.kill = TRUE]
Bare == [Armed EXCEPT !.kill = FALSE, !.phys = {"e2"}]
Wanted == {Mesh, Exit1, Exit2, Armed, Bare}

\* A user who keeps direct what a subnet router advertises.
Overlapping == {[Exit1 EXCEPT !.net = {"net", "lan"}]}

May(c, f, k, r) == [calls |-> c, faults |-> f, crashes |-> k, roams |-> r]
Allowed == {May(2, 2, 0, 0), May(1, 1, 1, 0), May(2, 0, 1, 1), May(3, 0, 0, 0)}

Faultless == {May(2, 0, 0, 0)}

Nobody == {{}}
Others == Nobody \cup {{Route("lan", "g1")}}

Resolvers == {"s1", "s2"}
Attempts == [starts |-> 2, failures |-> 1, edits |-> 1, choices |-> 2]
-----------------------------------------------------------------------------
RoutesRest == os = "linux" /\ network = Offline /\ kernel = {} /\ budget = CHOOSE b \in Budgets : TRUE
ResolverRests == platform = "linux" /\ setting = "s1"

HostInit ==
    /\ part \in Parts /\ InitRoutes /\ InitResolver
    /\ part = "routes" => ResolverRests
    /\ part = "resolver" => RoutesRest

HostNext ==
    \/ part = "routes" /\ RoutesNext /\ UNCHANGED <<part, resolverVars>>
    \/ part = "resolver" /\ ResolverNext /\ UNCHANGED <<part, vars>>

\* The process that runs goes on, and the service manager starts it again.
HostFairness ==
    /\ WF_vars(part = "routes" /\ (EngineStep \/ Start))
    /\ WF_resolverVars(part = "resolver" /\ Supervise)

HostSpec == HostInit /\ [][HostNext]_<<part, vars, resolverVars>> /\ HostFairness

\* Starts and supervisors come round to what a kill or a late network has left
\* undone (cleanStaleRoutes, superviseSystemResolver).
ComesRound == LeftoversGo /\ TakesOver
=============================================================================
