---------------------------- MODULE MCRemotePolicy ----------------------------
(* One node, one peer, two policy versions and a repeated one. *)
EXTENDS RemotePolicy

MCMaxTime == 3
MCSkew == 1

P1 == [v |-> 1, enabled |-> TRUE, issued |-> 0]
P1x == [v |-> 1, enabled |-> FALSE, issued |-> 1]
P2 == [v |-> 2, enabled |-> FALSE, issued |-> 1]
MCPolicies == {P1, P1x, P2}

G(id, body, v, until, inbound, port) ==
    [id |-> id, body |-> body, v |-> v, from |-> 0, until |-> until, inbound |-> inbound,
     peer |-> 1, ip |-> 1, port |-> port, genuine |-> TRUE]
A == G(1, 1, 1, 1, TRUE, 22)
B == G(2, 1, 1, 2, TRUE, 80)
B2 == G(2, 2, 1, 3, TRUE, 80)
C == G(3, 1, 2, 3, TRUE, 22)
D == G(4, 1, 1, 2, FALSE, 22)
MCGrants == {A, B, B2, C, D}

M(policy, grants) ==
    [policy |-> policy, genuine |-> TRUE, echo |-> policy.v,
     target |-> [policy |-> policy, mine |-> TRUE, enabled |-> TRUE, genuine |-> TRUE],
     grants |-> grants, peers |-> {<<1, 1>>}, ports |-> {22, 80}]

MCMaps == <<M(P1, {A, B, C, D}), M(P1, {A, D}), M(P1, {A, B, B2}), M(P1x, {A, B}),
            M(P2, {B, C}), [M(P1, {A}) EXCEPT !.genuine = FALSE],
            [M(P2, {A}) EXCEPT !.echo = 1]>>

S(ops, faults, maps, time) == [ops |-> ops, faults |-> faults, maps |-> maps, time |-> time]

\* The other process; power failures and a clock set; a store that fails; an
\* interface that comes and goes; a firewall that fails.
SafeSettings ==
    {S({"apply", "source"}, {}, {2, 5}, 0),
     S({"apply", "reboot", "jump"}, {"engine"}, {2, 5}, 1),
     S({"apply", "reboot"}, {"store"}, {2, 4}, 0),
     S({"apply", "jump"}, {"engine"}, {2, 6, 7}, 1),
     S({"apply", "iface"}, {"guard"}, {1}, 1),
     S({"apply"}, {"guard", "engine"}, {3}, 2)}

RevivedSettings == {S({"apply"}, {"engine"}, {1, 2}, 2)}
=============================================================================
