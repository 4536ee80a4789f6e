---------------------------- MODULE MCReceiver ----------------------------
(* The settings Receiver is checked in. *)
EXTENDS Receiver

CONSTANTS p1, p2

\* Two processes through crashes, failing syncs and a user's own file.
Crash == [procs |-> {p1, p2}, ops |-> {}, faults |-> {"kill", "power", "syncfail", "foreign"},
          dirs |-> 3, crashes |-> 2]
\* Received bytes rot.
Decay == [procs |-> {p1}, ops |-> {}, faults |-> {"kill", "power", "rot", "foreign"}, dirs |-> 3, crashes |-> 2]
\* It is cancelled and collected, and the power fails.
Withdrawn == [procs |-> {p1}, ops |-> {"cancel", "gc"}, faults |-> {"power", "skew"}, dirs |-> 3, crashes |-> 2]
\* It is cancelled at any time, and syncs fail too.
Unsynced == [procs |-> {p1}, ops |-> {"cancel", "cancelFinalized"},
             faults |-> {"power", "syncfail"}, dirs |-> 2, crashes |-> 1]
\* One caller who tries again.
Retried == [procs |-> {p1}, ops |-> {}, faults |-> {"kill", "power"}, dirs |-> 4, crashes |-> 3]
\* Two processes, one of which cancels or collects.
Contended == [procs |-> {p1, p2}, ops |-> {"cancel", "gc"}, faults |-> {}, dirs |-> 3, crashes |-> 0]
\* A collector killed between its rename and its sync.
Residual == [procs |-> {p1}, ops |-> {"cancel", "gc"}, faults |-> {"kill"}, dirs |-> 3, crashes |-> 2]

SafeSettings == {Crash, Decay, Withdrawn, Unsynced}
RetriedOnly == {Retried}
ContendedOnly == {Contended}
ResidualOnly == {Residual}
=============================================================================
