----------------------------- MODULE MCRelayPath -----------------------------
(* One peer with one or two candidates, two relays. *)
EXTENDS RelayPath

Backoffs == <<4, 5, 6>>

M(relays, endpoints) ==
    [relays |-> relays, endpoints |-> endpoints, disco |-> {}, member |-> TRUE, online |-> TRUE]

S(flags, maps, up, carry, ops, n) ==
    [flags |-> flags, maps |-> maps, relays |-> up, works |-> carry, ops |-> ops, budget |-> n]

One == M(<<"r1">>, <<1>>)
Two == M(<<"r1">>, <<1, 2>>)
Gone == [One EXCEPT !.member = FALSE]
Other == [One EXCEPT !.relays = <<"r2">>]
Bare == [One EXCEPT !.endpoints = <<>>]
Offline == [One EXCEPT !.online = FALSE]
Probed == [One EXCEPT !.disco = {1}]
Roamed == [Probed EXCEPT !.endpoints = <<2>>]

\* A link that drops, verdicts that change with it; a peer that leaves, a relay
\* that is replaced, and an engine that refuses; candidates of which some carry
\* traffic for a while; probed upgrades; an exit, a peer offline or without
\* endpoints.
SafeSettings ==
    {S({}, <<One>>, {"r1"}, {}, {"drop"}, 1),
     S({"force"}, <<One, Gone>>, {"r1"}, {}, {"engine", "drop"}, 1),
     S({"force"}, <<One, Other>>, {"r1", "r2"}, {}, {"engine", "drop"}, 1),
     S({}, <<Two>>, {"r1"}, {}, {"relay", "hear"}, 1),
     S({}, <<Two>>, {"r1"}, {}, {"probe", "direct"}, 1),
     S({"disco"}, <<Probed>>, {"r1"}, {1}, {"direct", "hear"}, 1),
     S({"disco"}, <<Probed, Roamed>>, {"r1"}, {1}, {"hear"}, 0),
     S({"force"}, <<One>>, {"r1"}, {}, {"relay"}, 2),
     S({"serving"}, <<One, Offline>>, {"r1"}, {}, {}, 0),
     S({"serving", "selected"}, <<One>>, {"r1"}, {}, {"hear"}, 0),
     S({"preferred"}, <<Bare, One>>, {"r1"}, {}, {"hear"}, 0)}

\* A relay that answers only later, and two netmaps.
RecoverySettings == {S({"force"}, <<One, Two>>, {}, {}, {"relay"}, 1)}

\* A probe port that answers, and a direct path that carries nothing else.
TrialSettings == {S({"disco"}, <<Probed>>, {"r1"}, {1}, {"hear", "direct"}, 1)}
=============================================================================
