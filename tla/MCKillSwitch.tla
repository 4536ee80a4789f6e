----------------------------- MODULE MCKillSwitch -----------------------------
(* The settings KillSwitch is checked in. *)
EXTENDS KillSwitch

CONSTANTS p1, p2, e1, e2

\* The coordinator offers an exit and withdraws it, or the other way round.
Coming == <<{}, {e1}>>
Going == <<{e1}, {}>>
Staying == <<{e1}, {e1}>>

\* A user changes the exit while netmaps arrive and calls fail.
Choosing == [procs |-> {p1, p2}, ops |-> {"set", "clear"}, faults |-> {"guard", "engine", "routes"},
             fallback |-> FALSE, maps |-> {Coming, Going, <<{e1, e2}, {e2}>>}]
\* The network changes under a protected, and under an available, host.
Roaming == [procs |-> {p1, p2}, ops |-> {"set", "roam", "drop", "reapply"}, faults |-> {},
            fallback |-> FALSE, maps |-> {Staying, Going}]
Available == [Roaming EXCEPT !.fallback = TRUE]
\* ... and the device dies under it.
Dying == [Roaming EXCEPT !.ops = {"set", "roam", "health"}, !.maps = {Staying}]
\* One caller at a time; everything fails.
Failing == [procs |-> {p1}, ops |-> {"set", "clear", "fallback", "roam", "silent", "health"},
            faults |-> {"guard", "engine", "routes", "stats", "recover"},
            fallback |-> FALSE, maps |-> {Staying, Coming, Going}]
\* ... but the firewall and the recovery.
Refusing == [Failing EXCEPT !.ops = @ \ {"silent"}, !.faults = {"engine", "routes", "stats"},
                            !.maps = {Coming, Going}]
\* It stops, starts and dies.
Stopping == [procs |-> {p1}, ops |-> {"set", "clear", "fallback", "stop", "kill"},
             faults |-> {"guard", "down", "save"}, fallback |-> FALSE, maps |-> {Staying, Going}]

\* ... in the middle of a call.
Overrun == [Stopping EXCEPT !.ops = @ \cup {"late"}, !.faults = {}]

SafeSettings == {Choosing, Roaming, Available, Dying, Failing, Refusing, Stopping, Overrun}

Killed == {[procs |-> {p1}, ops |-> {"set", "clear", "kill"}, faults |-> {}, fallback |-> FALSE,
            maps |-> {Staying}]}
Fallback == {[procs |-> {p1, p2}, ops |-> {"set", "fallback"}, faults |-> {}, fallback |-> FALSE,
              maps |-> {Staying}]}
Silenced == {[procs |-> {p1, p2}, ops |-> {"set", "silent"}, faults |-> {}, fallback |-> FALSE,
              maps |-> {Staying}]}
=============================================================================
