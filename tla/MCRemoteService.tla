--------------------------- MODULE MCRemoteService ---------------------------
(* Two requests and up to three confirmations. *)
EXTENDS RemoteService

S(targets, backend, faults, ops, tokens) ==
    [targets |-> targets, backend |-> backend, faults |-> faults, ops |-> ops, tokens |-> tokens]

\* Replayed and expiring confirmations; the production backend, which only
\* detects; every command line platform and the native adapter, each against
\* faults, cancellation or an administrator; two services of one host.
MCSettings ==
    {S({"linux"}, "detect", {"presence"}, {"replay", "time"}, 2),
     S({"linux"}, "detect", {}, {"cancel", "restart"}, 2),
     S({"linux"}, "cli", {"command"}, {"admin"}, 1),
     S({"mac"}, "cli", {"command", "inspect"}, {"admin"}, 1),
     S({"winssh"}, "cli", {}, {"cancel", "admin"}, 1),
     S({"rdp"}, "cli", {"command"}, {"admin"}, 1),
     S({"rdp"}, "atomic", {}, {"cancel"}, 2),
     S({"winssh", "rdp"}, "atomic", {}, {}, 2),
     S({"rdp"}, "atomic", {"command", "inspect"}, {"admin"}, 1)}
=============================================================================
