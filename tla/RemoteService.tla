---------------------------- MODULE RemoteService ----------------------------
(*****************************************************************************)
(* The confirmed start of a remote-access service (internal/remoteservice):  *)
(* the Confirmer's one-use confirmations, the Manager's transaction with its *)
(* admission and per-target locks, and the SystemBackend's inspection, start *)
(* and rollback, against an administrator who changes the same service.      *)
(*                                                                           *)
(* An inspection returns everything a ServiceRevision digests, so the        *)
(* service's record is its own revision: the current run (its pid and        *)
(* generation; 0 is stopped), the parts that are switched on, and whether    *)
(* the firewall rules admit the mesh alone.  A step between two calls that   *)
(* leave the process is one action.                                          *)
(*****************************************************************************)
EXTENDS Integers, Sequences, FiniteSets, Functions

CONSTANTS
    Callers,            \* the requests being served
    TTL,                \* Config.ConfirmationTTL
    MaxConfirmations,   \* Config.MaxConfirmations
    MaxTransactions,    \* Config.MaxTransactions
    MaxTime,            \* bound on the clock
    MaxTokens,          \* bound on confirmations ever minted, in any setting
    MaxRuns,            \* bound on the runs before the administrator begins no more
    Settings            \* targets, backend, what fails and who else acts

ASSUME CapacityAssumption ==
    /\ TTL \in Nat \ {0} /\ MaxTime \in Nat /\ MaxTokens \in Nat /\ MaxRuns \in Nat
    /\ MaxConfirmations \in Nat /\ MaxTransactions \in Nat
    /\ IsFiniteSet(Callers)

\* The administrator is none of the requests (starters tells them apart).
ASSUME ActorsAssumption == "administrator" \notin Callers

Kinds == {"linux", "mac", "winssh", "rdp"}

ASSUME SettingsAssumption ==
    Settings \subseteq [targets : SUBSET Kinds, backend : {"detect", "cli", "atomic"},
                        faults : SUBSET {"presence", "inspect", "command"},
                        ops : SUBSET {"replay", "time", "cancel", "restart", "admin"},
                        tokens : 0..MaxTokens]

VARIABLES
    setting,    \* [targets, backend, faults, ops, tokens]: tokens bounds confirmations
    now,
    records,    \* Confirmer.records: token -> [target, expires, used]
    inFlight,   \* Confirmer.inFlight
    admission,  \* the number of transactions in Manager.admission
    locks,      \* Manager.locks: target -> [id, refs]
    held,       \* the lock objects that are held
    call,       \* what each request is doing
    service,    \* target -> the service's state in the operating system
    granted,    \* history: every confirmation, as minted
    uses,       \* history: how often each was consumed
    starters,   \* history: who began each run
    mine        \* history: what each call switched on that still is

confirmer == <<records, inFlight>>
manager == <<admission, locks, held>>
history == <<granted, uses, starters, mine>>
vars == <<setting, now, confirmer, manager, call, service, history>>

-----------------------------------------------------------------------------
(* The service as the backend sees it *)

Parts(t) == IF t = "rdp" THEN {"policy", "rules", "start"} ELSE {"unit"}
States == [run : Nat, on : SUBSET {"unit", "policy", "rules", "start"},
           shape : {"mesh", "wide"}]

Enabled(t, s) == Parts(t) \subseteq s.on /\ (t = "rdp" => s.shape = "mesh")
Running(t, s) == s.run > 0 /\ (t # "linux" => Enabled(t, s))

\* ServiceState, which inspections are compared by.
State(t, s) == [running |-> Running(t, s), enabled |-> Enabled(t, s)]
Healthy(t, s) == Running(t, s) /\ Enabled(t, s)

Stopped == [run |-> 0, on |-> {}, shape |-> "mesh"]
NoReceipt == [kind |-> "none", after |-> Stopped]
Owned(after) == [kind |-> "owned", after |-> after]
Observed(after) == [kind |-> "observed", after |-> after]
Uncertain == [kind |-> "uncertain", after |-> Stopped]
Changed(receipt) == receipt.kind # "none"

\* Mutant: an observed change authorises a stop.
RollbackAuthorized_Observed(receipt) == receipt.kind \in {"owned", "observed"}

RollbackAuthorized(receipt) == receipt.kind = "owned"

AuthorizesRollback(receipt, current) ==
    RollbackAuthorized(receipt) /\ receipt.after = current

\* A command line tool's change, judged by what is seen afterwards.
Classified(before, after) == IF after = before THEN NoReceipt ELSE Observed(after)

\* SystemBackend.Start's reading of what the native adapter returned: the
\* receipt and whether the start is an error.
Judged(t, before, result) ==
    LET verdict(receipt, failed) == [receipt |-> receipt, failed |-> failed \/ result.failed] IN
    IF result.unchanged THEN verdict(IF result.attempted THEN Uncertain ELSE NoReceipt, TRUE)
    ELSE IF ~result.known
    THEN verdict(IF result.attempted \/ result.failed THEN Uncertain ELSE NoReceipt, TRUE)
    ELSE IF ~result.owned
    THEN verdict(IF result.after # before THEN Observed(result.after)
                 ELSE IF result.attempted THEN Uncertain ELSE NoReceipt, TRUE)
    ELSE IF ~result.attempted \/ State(t, result.after) = State(t, before)
    THEN verdict(Uncertain, TRUE)
    ELSE verdict(Owned(result.after), ~Running(t, result.after))

-----------------------------------------------------------------------------
(* Confirmations *)

Tokens == 1..MaxTokens
Locks == 1..Cardinality(Callers) + MaxTokens
Idle == [at |-> "idle", live |-> TRUE, result |-> "none", target |-> "none", token |-> 0,
         lock |-> 0, since |-> 0, before |-> Stopped, step |-> 0,
         receipt |-> NoReceipt, failed |-> FALSE]
Inside == {"capture", "health", "inspect", "guard", "preflight", "enable", "enabled",
           "again", "start", "started", "atomic", "judge", "verify", "undo", "undoing", "restored"}
Locking == Inside \cup {"locked", "release"}
Referencing == Locking \cup {"waiting", "unreference"}
Admitted == Referencing \cup {"admitted", "validated", "leave"}

Init ==
    /\ setting \in Settings
    /\ now = 0
    /\ records = <<>> /\ inFlight = 0
    /\ admission = 0 /\ locks = <<>> /\ held = {}
    /\ call = [c \in Callers |-> Idle]
    /\ \E shape \in {"mesh", "wide"}, on \in {{}, {"unit", "start", "rules"}, {"unit", "start"}} :
        service = [t \in setting.targets |->
                    [run |-> 0, on |-> on \cap Parts(t), shape |-> IF t = "rdp" THEN shape ELSE "mesh"]]
    /\ granted = <<>> /\ uses = [k \in Tokens |-> 0] /\ starters = <<>>
    /\ mine = [c \in Callers |-> {}]

Fails(c, op) == op \in setting.faults \/ ~call[c].live
With(f, x, value) == [y \in DOMAIN f \cup {x} |-> IF y = x THEN value ELSE f[y]]
Goto(c, at) == call' = [call EXCEPT ![c].at = at]
EndsWith(c, at, result) == call' = [call EXCEPT ![c].at = at, ![c].result = result]

Pruned(at) == Restrict(records, {k \in DOMAIN records : at < records[k].expires})

\* Confirmer.Confirm as far as the local question.
Confirm(c) ==
    /\ call[c].at \in {"idle", "over"}
    /\ Len(granted) + inFlight < setting.tokens
    /\ records' = Pruned(now)
    /\ \E t \in setting.targets :
        IF Cardinality(DOMAIN records') + inFlight >= MaxConfirmations
        THEN UNCHANGED inFlight /\ call' = [call EXCEPT ![c] = Idle]
        ELSE /\ inFlight' = inFlight + 1
             /\ call' = [call EXCEPT ![c] = [Idle EXCEPT !.at = "ask", !.target = t]]
    /\ mine' = [mine EXCEPT ![c] = {}]
    /\ UNCHANGED <<setting, now, manager, service, granted, uses, starters>>

\* Mutant: the deferred call also gives the reservation back.
Approve_Twice(c) ==
    /\ call[c].at = "ask" /\ call[c].live
    /\ LET k == Len(granted) + 1
           record == [target |-> call[c].target, expires |-> now + TTL]
       IN  /\ records' = With(records, k, [target |-> record.target, expires |-> record.expires, used |-> FALSE])
           /\ granted' = Append(granted, record)
           /\ call' = [call EXCEPT ![c].at = "granted", ![c].token = k]
    /\ inFlight' = inFlight - 2
    /\ UNCHANGED <<setting, now, manager, service, uses, starters, mine>>

\* The answer is yes: the token is minted.
Approve(c) ==
    /\ call[c].at = "ask" /\ call[c].live
    /\ LET k == Len(granted) + 1
           record == [target |-> call[c].target, expires |-> now + TTL]
       IN  /\ records' = With(records, k, [target |-> record.target, expires |-> record.expires, used |-> FALSE])
           /\ granted' = Append(granted, record)
           /\ call' = [call EXCEPT ![c].at = "granted", ![c].token = k]
    /\ inFlight' = inFlight - 1
    /\ UNCHANGED <<setting, now, manager, service, uses, starters, mine>>

\* Mutant: a denial keeps its reservation.
Deny_Leaks(c) ==
    /\ call[c].at = "ask" /\ Fails(c, "presence")
    /\ call' = [call EXCEPT ![c] = Idle]
    /\ UNCHANGED <<setting, now, records, inFlight, manager, service, history>>

\* Denied, out of time, canceled, or no randomness.
Deny(c) ==
    /\ call[c].at = "ask" /\ Fails(c, "presence")
    /\ inFlight' = inFlight - 1
    /\ call' = [call EXCEPT ![c] = Idle]
    /\ UNCHANGED <<setting, now, records, manager, service, history>>

\* validateLocked: what it decides, and the records it leaves.
Valid(t, k) ==
    /\ k \in DOMAIN records /\ now < records[k].expires
    /\ ~records[k].used /\ records[k].target = t
Validated(k) ==
    IF k \notin DOMAIN records THEN Pruned(now)
    ELSE IF now >= records[k].expires THEN Restrict(records, DOMAIN records \ {k})
    ELSE records

-----------------------------------------------------------------------------
(* The manager's transaction: admission, validation, lock, consumption *)

\* EnsureRunning, with the caller's own token or, in the settings that ask for
\* it, any token and target.
Admit(c) ==
    /\ \/ call[c].at = "granted"
       \/ "replay" \in setting.ops /\ call[c].at \in {"idle", "over"}
    /\ \E t \in setting.targets, k \in 1..Len(granted) :
        /\ "replay" \notin setting.ops => t = call[c].target /\ k = call[c].token
        /\ IF call[c].live /\ admission < MaxTransactions
           THEN /\ admission' = admission + 1
                /\ call' = [call EXCEPT ![c] =
                     [Idle EXCEPT !.at = "admitted", !.target = t, !.token = k]]
           ELSE UNCHANGED admission /\ call' = [call EXCEPT ![c] = Idle]
    /\ mine' = [mine EXCEPT ![c] = {}]
    /\ UNCHANGED <<setting, now, confirmer, locks, held, service, granted, uses, starters>>

Validate(c) ==
    /\ call[c].at = "admitted"
    /\ IF Valid(call[c].target, call[c].token)
       THEN Goto(c, "validated") /\ UNCHANGED records
       ELSE EndsWith(c, "leave", "failed") /\ records' = Validated(call[c].token)
    /\ UNCHANGED <<setting, now, inFlight, manager, service, history>>

\* referenceLock: the target's lock object, or a new one.
Reference(c) ==
    /\ call[c].at = "validated"
    /\ LET t == call[c].target
           used == {locks[u].id : u \in DOMAIN locks} \cup held
                   \cup {call[d].lock : d \in {d \in Callers : call[d].at \in Referencing}}
           lock == IF t \in DOMAIN locks THEN [locks[t] EXCEPT !.refs = @ + 1]
                   ELSE [id |-> CHOOSE id \in Locks \ used : TRUE, refs |-> 1]
       IN  locks' = With(locks, t, lock) /\ call' = [call EXCEPT ![c].at = "waiting", ![c].lock = lock.id]
    /\ UNCHANGED <<setting, now, confirmer, admission, held, service, history>>

Lock(c) ==
    /\ call[c].at = "waiting" /\ call[c].lock \notin held
    /\ held' = held \cup {call[c].lock}
    /\ Goto(c, "locked")
    /\ UNCHANGED <<setting, now, confirmer, admission, locks, service, history>>

GiveUp(c) ==
    /\ call[c].at = "waiting" /\ ~call[c].live
    /\ EndsWith(c, "unreference", "failed")
    /\ UNCHANGED <<setting, now, confirmer, manager, service, history>>

\* Mutant: the validation made before the wait for the lock is relied on.
Consume_Trusting(c) ==
    /\ call[c].at = "locked"
    /\ records' = [k \in DOMAIN records |->
                    IF k = call[c].token THEN [records[k] EXCEPT !.used = TRUE] ELSE records[k]]
    /\ uses' = [uses EXCEPT ![call[c].token] = @ + 1]
    /\ call' = [call EXCEPT ![c].at = "capture", ![c].since = now]
    /\ UNCHANGED <<setting, now, inFlight, manager, service, granted, starters, mine>>

\* consume validates twice and marks the record within the second lock; the
\* two validations see the same records but for the clock, so one stands for both.
Consume(c) ==
    /\ call[c].at = "locked"
    /\ IF Valid(call[c].target, call[c].token)
       THEN /\ records' = [records EXCEPT ![call[c].token].used = TRUE]
            /\ uses' = [uses EXCEPT ![call[c].token] = @ + 1]
            /\ call' = [call EXCEPT ![c].at = "capture", ![c].since = now]
       ELSE /\ records' = Validated(call[c].token)
            /\ EndsWith(c, "release", "failed")
            /\ UNCHANGED uses
    /\ UNCHANGED <<setting, now, inFlight, manager, service, granted, starters, mine>>

-----------------------------------------------------------------------------
(* Inspection, and the checks between inspections *)

Seen(c) == service[call[c].target]
Before(c) == State(call[c].target, call[c].before)
SameState(c) == State(call[c].target, Seen(c)) = Before(c) /\ ~Running(call[c].target, Seen(c))
CallOnly == UNCHANGED <<setting, now, confirmer, manager, service, history>>

Capture(c) ==
    /\ call[c].at = "capture"
    /\ \/ Fails(c, "inspect") /\ EndsWith(c, "release", "failed")
       \/ /\ call[c].live
          /\ IF Running(call[c].target, Seen(c)) THEN Goto(c, "health")
             ELSE call' = [call EXCEPT ![c].at = "inspect", ![c].before = Seen(c)]
    /\ CallOnly

\* The health of a service found running.
Health(c) ==
    /\ call[c].at = "health"
    /\ \/ Fails(c, "inspect") /\ EndsWith(c, "release", "failed")
       \/ call[c].live /\ EndsWith(c, "release",
            IF Healthy(call[c].target, Seen(c)) THEN "already_running" ELSE "failed")
    /\ CallOnly

\* SystemBackend.Start's own inspection; the production backend goes no further.
Inspect(c) ==
    /\ call[c].at = "inspect"
    /\ \/ /\ setting.backend = "detect" \/ Fails(c, "inspect") \/ ~SameState(c)
          /\ EndsWith(c, "release", "failed")
       \/ /\ setting.backend # "detect" /\ call[c].live /\ SameState(c)
          /\ call' = [call EXCEPT ![c].at = IF setting.backend = "atomic" THEN "atomic" ELSE "guard",
                                  ![c].before = Seen(c)]
    /\ CallOnly

\* The guard immediately before the first command; for RDP two, which must
\* also see the same firewall rules.
Guard(c) ==
    /\ call[c].at \in {"guard", "preflight"}
    /\ LET t == call[c].target
           before == call[c].before
           same == SameState(c) /\ (t = "rdp" => Seen(c).shape = before.shape
                                      /\ ("rules" \in Seen(c).on) = ("rules" \in before.on))
       IN  \/ /\ Fails(c, "inspect") \/ ~same
              /\ EndsWith(c, "release", "failed")
           \/ /\ call[c].live /\ same
              /\ IF t = "rdp" /\ call[c].at = "guard" THEN Goto(c, "preflight")
                 ELSE IF Enabled(t, before) THEN Goto(c, "again")
                 ELSE call' = [call EXCEPT ![c].at = "enable", ![c].step = 1]
    /\ CallOnly

\* An enabled service is looked at once more directly before the start.
Again(c) ==
    /\ call[c].at = "again"
    /\ \/ /\ Fails(c, "inspect") \/ ~SameState(c)
          /\ EndsWith(c, "release", "failed")
       \/ call[c].live /\ SameState(c) /\ Goto(c, "start")
    /\ CallOnly

-----------------------------------------------------------------------------
(* The fixed commands *)

\* What one command does to the service it finds: the new state, or none when
\* the command refuses.
Begun(s) == IF s.run > 0 THEN s ELSE [s EXCEPT !.run = Len(starters) + 1]
Switched(s, part) == [s EXCEPT !.on = @ \cup {part}]

\* Mutant: the final command enables the rules without looking at them.
Command_Unchecked(name, s) ==
    CASE name = "switch" -> {Switched(s, "unit")}
      [] name = "login" -> {Begun(Switched(s, "unit"))}
      [] name = "rules off" -> {[s EXCEPT !.on = @ \ {"rules"}]}
      [] name = "filters" -> {[s EXCEPT !.shape = "mesh", !.on = @ \ {"rules"}]}
      [] name = "check off" -> {s}
      [] name = "rules on" -> {Switched(s, "rules")}
      [] name = "check on" -> {s}
      [] name = "policy" -> {Switched(s, "policy")}
      [] name = "demand" -> {Switched(s, "start")}
      [] name = "start" -> {Begun(s)}

Command(name, s) ==
    CASE name = "switch" -> {Switched(s, "unit")}
      [] name = "login" -> {Begun(Switched(s, "unit"))}
      [] name = "rules off" -> {[s EXCEPT !.on = @ \ {"rules"}]}
      [] name = "filters" -> {[s EXCEPT !.shape = "mesh", !.on = @ \ {"rules"}]}
      [] name = "check off" -> {u \in {s} : u.shape = "mesh" /\ "rules" \notin u.on}
      [] name = "rules on" -> {u \in {Switched(s, "rules")} : u.shape = "mesh" /\ "rules" \notin s.on}
      [] name = "check on" -> {u \in {s} : u.shape = "mesh" /\ "rules" \in u.on}
      [] name = "policy" -> {Switched(s, "policy")}
      [] name = "demand" -> {Switched(s, "start")}
      [] name = "start" -> {Begun(s)}

EnableCommands(t) ==
    IF t = "rdp"
    THEN <<"rules off", "filters", "check off", "rules on", "check on", "policy", "demand">>
    ELSE IF t = "mac" THEN <<"login">>
    ELSE <<"switch">>
StartCommand(t) == IF t = "mac" THEN "login" ELSE "start"

\* A command of c takes the service from s to u.
Effect(c, t, u) ==
    LET s == service[t]
        gained == (u.on \ s.on) \cup (IF u.run # s.run /\ u.run > 0 THEN {"run"} ELSE {})
        lost == (s.on \ u.on) \cup (IF u.run # s.run THEN {"run"} ELSE {})
                \cup (IF u.shape # s.shape THEN {"rules"} ELSE {})
    IN  /\ service' = [service EXCEPT ![t] = u]
        /\ starters' = IF u.run > Len(starters) THEN Append(starters, c) ELSE starters
        /\ mine' = [d \in Callers |->
                     IF call[d].at # "idle" /\ call[d].target = t
                     THEN (mine[d] \ lost) \cup (IF d = c THEN gained ELSE {})
                     ELSE mine[d]]
\* A command runs: it succeeds, or fails having had its effect or not.
Runs(c, name, then, otherwise) ==
    LET t == call[c].target
        done == Command(name, Seen(c))
    IN  \/ \E u \in done : call[c].live /\ Effect(c, t, u) /\ then
        \/ \E u \in done : Fails(c, "command") /\ Effect(c, t, u) /\ otherwise
        \/ /\ done = {} \/ Fails(c, "command")
           /\ UNCHANGED <<service, starters, mine>> /\ otherwise

\* inspectAfterAttempt: not subject to the request's cancellation.
Receives(c, receipt, failed) ==
    call' = [call EXCEPT ![c].at = "judge", ![c].receipt = receipt, ![c].failed = failed]

EnableStep(c) ==
    /\ call[c].at = "enable"
    /\ LET t == call[c].target
           n == call[c].step
           commands == EnableCommands(t)
       IN  Runs(c, commands[n],
                IF n < Len(commands) THEN call' = [call EXCEPT ![c].at = "enable", ![c].step = n + 1]
                ELSE call' = [call EXCEPT ![c].at = "enabled", ![c].failed = FALSE],
                IF t = "rdp" THEN Receives(c, Uncertain, TRUE)
                ELSE call' = [call EXCEPT ![c].at = "enabled", ![c].failed = TRUE])
    /\ UNCHANGED <<setting, now, confirmer, manager, granted, uses>>

AfterEnable(c) ==
    /\ call[c].at = "enabled"
    /\ LET t == call[c].target
           s == Seen(c)
       IN  \/ "inspect" \in setting.faults /\ Receives(c, Uncertain, TRUE)
           \/ /\ call[c].failed
              /\ Receives(c, Classified(call[c].before, s), TRUE)
           \/ /\ ~call[c].failed /\ Running(t, s)
              /\ IF t \in {"mac", "rdp"} THEN Receives(c, Observed(s), FALSE)
                 ELSE Receives(c, Classified(call[c].before, s), TRUE)
           \/ /\ ~call[c].failed /\ ~Running(t, s) /\ ~Enabled(t, s)
              /\ Receives(c, IF t = "rdp" THEN Uncertain ELSE Classified(call[c].before, s), TRUE)
           \/ /\ ~call[c].failed /\ ~Running(t, s) /\ Enabled(t, s)
              /\ Goto(c, "start")
    /\ CallOnly

StartFixed(c) ==
    /\ call[c].at = "start"
    /\ Runs(c, StartCommand(call[c].target),
            call' = [call EXCEPT ![c].at = "started", ![c].failed = FALSE],
            call' = [call EXCEPT ![c].at = "started", ![c].failed = TRUE])
    /\ UNCHANGED <<setting, now, confirmer, manager, granted, uses>>

\* Mutant: a failed start is compared with the service as this call enabled it.
AfterStart_SinceEnable(c) ==
    /\ call[c].at = "started"
    /\ LET t == call[c].target
           s == Seen(c)
           unresolved == IF t = "rdp" THEN Uncertain
                         ELSE Classified([call[c].before EXCEPT !.on = @ \cup Parts(t)], s)
       IN  \/ "inspect" \in setting.faults /\ Receives(c, Uncertain, TRUE)
           \/ call[c].failed /\ Receives(c, unresolved, TRUE)
           \/ ~call[c].failed /\ ~Running(t, s) /\ Receives(c, unresolved, TRUE)
           \/ ~call[c].failed /\ Running(t, s) /\ Receives(c, Observed(s), FALSE)
    /\ CallOnly

AfterStart(c) ==
    /\ call[c].at = "started"
    /\ LET t == call[c].target
           s == Seen(c)
           unresolved == IF t = "rdp" THEN Uncertain ELSE Classified(call[c].before, s)
       IN  \/ "inspect" \in setting.faults /\ Receives(c, Uncertain, TRUE)
           \/ call[c].failed /\ Receives(c, unresolved, TRUE)
           \/ ~call[c].failed /\ ~Running(t, s) /\ Receives(c, unresolved, TRUE)
           \/ ~call[c].failed /\ Running(t, s) /\ Receives(c, Observed(s), FALSE)
    /\ CallOnly

-----------------------------------------------------------------------------
(* The native adapter's atomic transition, as its interface promises it *)

Result(after, owned, attempted, known, unchanged) ==
    [after |-> after, owned |-> owned, attempted |-> attempted, known |-> known,
     unchanged |-> unchanged, failed |-> FALSE]
Started(t, s) == Begun([s EXCEPT !.on = @ \cup Parts(t), !.shape = "mesh"])

\* What the adapter may do with the service as it finds it: the new state and
\* what it reports.
Adapter(t, before, s, faulty) ==
    LET u == Started(t, s) IN
    {<<s, Result(s, FALSE, FALSE, FALSE, TRUE)>>}
    \cup (IF s # before THEN {<<s, Result(s, FALSE, FALSE, TRUE, FALSE)>>}
          ELSE {<<u, Result(u, TRUE, TRUE, TRUE, FALSE)>>})
    \cup (IF faulty /\ s = before
          THEN {<<u, Result(u, FALSE, TRUE, FALSE, FALSE)>>, <<s, Result(s, FALSE, TRUE, FALSE, FALSE)>>,
                <<u, Result(u, FALSE, TRUE, TRUE, FALSE)>>, <<s, Result(s, FALSE, TRUE, TRUE, FALSE)>>}
          ELSE {})

StartAtomic(c) ==
    /\ call[c].at = "atomic"
    /\ LET t == call[c].target IN
       \E out \in Adapter(t, call[c].before, Seen(c), Fails(c, "command")), failed \in BOOLEAN :
        /\ failed => Fails(c, "command")
        /\ ~call[c].live => failed
        /\ Effect(c, t, out[1])
        /\ LET verdict == Judged(t, call[c].before, [out[2] EXCEPT !.failed = failed])
           IN  Receives(c, verdict.receipt, verdict.failed)
    /\ UNCHANGED <<setting, now, confirmer, manager, granted, uses>>

-----------------------------------------------------------------------------
(* The manager's judgement, verification and rollback *)

\* failAndMaybeRollback, and the manual cleanup it may come to.
FailWith(c) ==
    IF ~Changed(call[c].receipt) THEN EndsWith(c, "release", "failed")
    ELSE IF ~RollbackAuthorized(call[c].receipt) THEN EndsWith(c, "release", "manual_cleanup")
    ELSE Goto(c, "undo")

Judge(c) ==
    /\ call[c].at = "judge"
    /\ IF call[c].failed \/ ~call[c].live \/ ~Changed(call[c].receipt) THEN FailWith(c)
       ELSE Goto(c, "verify")
    /\ CallOnly

Verify(c) ==
    /\ call[c].at = "verify"
    /\ \/ /\ Fails(c, "inspect") \/ ~Healthy(call[c].target, Seen(c))
          /\ FailWith(c)
       \/ /\ call[c].live /\ Healthy(call[c].target, Seen(c))
          /\ EndsWith(c, "release", "started")
    /\ CallOnly

\* Mutant: the rollback runs under the request's own context.
Undo_Attached(c) ==
    /\ call[c].at = "undo"
    /\ \/ Fails(c, "inspect") /\ EndsWith(c, "release", "rollback_failed")
       \/ /\ ~AuthorizesRollback(call[c].receipt, Seen(c))
          /\ EndsWith(c, "release", "rollback_failed")
       \/ AuthorizesRollback(call[c].receipt, Seen(c)) /\ Goto(c, "undoing")
    /\ CallOnly

\* SystemBackend.Rollback looks first; its context is not the request's.
Undo(c) ==
    /\ call[c].at = "undo"
    /\ \/ "inspect" \in setting.faults /\ EndsWith(c, "release", "rollback_failed")
       \/ /\ ~AuthorizesRollback(call[c].receipt, Seen(c))
          /\ EndsWith(c, "release", "rollback_failed")
       \/ AuthorizesRollback(call[c].receipt, Seen(c)) /\ Goto(c, "undoing")
    /\ CallOnly

\* RollbackAtomic: the adapter restores only the generation it is given.
RollbackAtomic(c) ==
    /\ call[c].at = "undoing"
    /\ LET t == call[c].target IN
       \/ /\ Seen(c) = call[c].receipt.after
          /\ Effect(c, t, call[c].before)
          /\ \/ Goto(c, "restored")
             \/ "command" \in setting.faults /\ EndsWith(c, "release", "rollback_failed")
       \/ /\ Seen(c) # call[c].receipt.after \/ "command" \in setting.faults
          /\ EndsWith(c, "release", "rollback_failed")
          /\ UNCHANGED <<service, starters, mine>>
    /\ UNCHANGED <<setting, now, confirmer, manager, granted, uses>>

Restored(c) ==
    /\ call[c].at = "restored"
    /\ \/ "inspect" \in setting.faults /\ EndsWith(c, "release", "rollback_failed")
       \/ EndsWith(c, "release",
            IF State(call[c].target, Seen(c)) = Before(c) THEN "rolled_back" ELSE "rollback_failed")
    /\ CallOnly

\* Mutant: the lock is not given back.
Release_Keeps(c) ==
    /\ call[c].at = "release"
    /\ Goto(c, "unreference")
    /\ UNCHANGED <<setting, now, confirmer, admission, locks, held, service, history>>

\* The deferred calls: the lock, its reference, the admission.
Release(c) ==
    /\ call[c].at = "release"
    /\ held' = held \ {call[c].lock}
    /\ Goto(c, "unreference")
    /\ UNCHANGED <<setting, now, confirmer, admission, locks, service, history>>

\* Mutant: the entry is deleted whoever still refers to it.
Unreference_Deletes(c) ==
    /\ call[c].at = "unreference"
    /\ locks' = Restrict(locks, DOMAIN locks \ {call[c].target})
    /\ Goto(c, "leave")
    /\ UNCHANGED <<setting, now, confirmer, admission, held, service, history>>

Unreference(c) ==
    /\ call[c].at = "unreference"
    /\ LET t == call[c].target IN
       locks' = IF locks[t].refs = 1 THEN Restrict(locks, DOMAIN locks \ {t})
                ELSE [locks EXCEPT ![t].refs = @ - 1]
    /\ Goto(c, "leave")
    /\ UNCHANGED <<setting, now, confirmer, admission, held, service, history>>

Leave(c) ==
    /\ call[c].at = "leave"
    /\ admission' = admission - 1
    /\ call' = [call EXCEPT ![c] = [Idle EXCEPT !.at = "over", !.target = call[c].target,
                                             !.result = call[c].result]]
    /\ UNCHANGED <<setting, now, confirmer, locks, held, service, history>>

-----------------------------------------------------------------------------
(* The surroundings *)

Cancel(c) ==
    /\ "cancel" \in setting.ops
    /\ call[c].at \notin {"idle", "over"} /\ call[c].live
    /\ call' = [call EXCEPT ![c].live = FALSE]
    /\ UNCHANGED <<setting, now, confirmer, manager, service, history>>

Tick ==
    /\ "time" \in setting.ops /\ now < MaxTime
    /\ now' = now + 1
    /\ UNCHANGED <<setting, confirmer, manager, call, service, history>>

\* An administrator starts, stops, enables, disables, or edits the rules.
Administrator ==
    /\ "admin" \in setting.ops
    /\ \E t \in setting.targets :
        LET s == service[t] IN
        \E u \in (IF Len(starters) < MaxRuns THEN {Begun(s)} ELSE {}) \cup {[s EXCEPT !.run = 0]}
                 \cup {[s EXCEPT !.on = Parts(t)], [s EXCEPT !.on = {}]}
                 \cup (IF t = "rdp" THEN {[s EXCEPT !.shape = "wide"]} ELSE {}) :
            /\ u # s
            /\ Effect("administrator", t, u)
    /\ UNCHANGED <<setting, now, confirmer, manager, call, granted, uses>>

\* The daemon is killed and starts again: every confirmation is gone.
Restart ==
    /\ "restart" \in setting.ops
    /\ records' = <<>> /\ inFlight' = 0
    /\ admission' = 0 /\ locks' = <<>> /\ held' = {}
    /\ call' = [c \in Callers |-> Idle]
    /\ mine' = [c \in Callers |-> {}]
    /\ UNCHANGED <<setting, now, service, granted, uses, starters>>

Step(c) ==
    \/ Approve(c) \/ Deny(c) \/ Validate(c) \/ Reference(c) \/ GiveUp(c) \/ Consume(c)
    \/ Capture(c) \/ Health(c) \/ Inspect(c) \/ Guard(c) \/ Again(c)
    \/ EnableStep(c) \/ AfterEnable(c) \/ StartFixed(c) \/ AfterStart(c) \/ StartAtomic(c)
    \/ Judge(c) \/ Verify(c) \/ Undo(c) \/ RollbackAtomic(c) \/ Restored(c)
    \/ Release(c) \/ Unreference(c) \/ Leave(c)

Next ==
    \/ \E c \in Callers : Step(c) \/ Lock(c) \/ Confirm(c) \/ Admit(c) \/ Cancel(c)
    \/ Tick \/ Administrator \/ Restart

Spec == Init /\ [][Next]_vars

\* Every call to the operating system has a deadline, so a request always goes
\* on; the lock's channel serves those who wait for it in turn.
FairSpec ==
    /\ Spec
    /\ \A c \in Callers : WF_vars(Step(c)) /\ SF_vars(Lock(c))

-----------------------------------------------------------------------------
(* Properties *)

\* Types of the state.
TypeOK ==
    /\ setting \in Settings /\ now \in 0..MaxTime
    /\ DOMAIN records \subseteq Tokens /\ inFlight \in 0..MaxConfirmations
    /\ \A k \in DOMAIN records : records[k].target \in setting.targets /\ records[k].used \in BOOLEAN
    /\ admission \in Nat /\ DOMAIN locks \subseteq setting.targets
    /\ held \subseteq Locks
    /\ \A t \in setting.targets : service[t] \in States /\ service[t].run <= Len(starters)
    /\ \A c \in Callers : call[c].at \in Admitted \cup {"idle", "ask", "granted", "over"}

\* The books balance whatever was denied, canceled or lost: every reservation
\* belongs to a question being asked, every admission to a transaction, every
\* lock entry to those who refer to it; and neither capacity is exceeded.
Accounted ==
    /\ inFlight = Cardinality({c \in Callers : call[c].at = "ask"})
    /\ Cardinality(DOMAIN records) + inFlight <= MaxConfirmations
    /\ admission = Cardinality({c \in Callers : call[c].at \in Admitted})
    /\ admission <= MaxTransactions
    /\ \A t \in setting.targets :
        LET refs == {c \in Callers : call[c].at \in Referencing /\ call[c].target = t}
        IN  (t \in DOMAIN locks) = (refs # {}) /\ (refs # {} => locks[t].refs = Cardinality(refs))

\* A local confirmation is authority for one transaction, on its own target,
\* begun before it expires (manager.go:116: it is not a queue ticket), and none
\* survives a restart.
Licensed ==
    /\ \A k \in Tokens : uses[k] <= 1
    /\ \A c \in Callers : call[c].at \in Inside =>
        /\ call[c].target = granted[call[c].token].target
        /\ call[c].since < granted[call[c].token].expires

\* Two transactions never work on one target at a time, however lock entries
\* come and go.
OneAtATime ==
    \A c, d \in Callers :
        c # d /\ call[c].at \in Locking /\ call[d].at \in Locking => call[c].target # call[d].target

\* An answer that promises nothing was left behind tells the truth: what this
\* call switched on was on before it, is off again, or is somebody else's now.
NoSilentChange ==
    \A c \in Callers :
        call[c].at \in {"release", "unreference", "leave"}
            /\ call[c].result \in {"failed", "rolled_back"}
            /\ mine[c] # {} => mine[c] \subseteq call[c].before.on

\* A cancellation alone never leaves an owned change in place: without faults
\* and other actors, every rollback succeeds.
CancelIsUndone ==
    setting.faults = {} /\ "admin" \notin setting.ops =>
        \A c \in Callers : call[c].result # "rollback_failed"

\* Rules this call enabled admit the mesh alone, even if an administrator
\* edited them in the middle and a later command failed.
MeshOnly ==
    \A c \in Callers : "rules" \in mine[c] => service[call[c].target].shape = "mesh"

\* A rollback stops only a run its own transaction began.
StopsOnlyItsOwn ==
    [][\A c \in Callers : call[c].at = "undoing" /\ call'[c].at # "undoing" =>
        LET t == call[c].target IN
        service[t].run # 0 /\ service'[t].run # service[t].run => starters[service[t].run] = c]_vars

\* Every request ends, also one that waits for another's transaction.
EveryRequestEnds ==
    \A c \in Callers : (call[c].at \in Admitted \cup {"ask"}) ~> (call[c].at \in {"idle", "over", "granted"})

\* The manager and its confirmer, on every denied, cancelled, expired and failed
\* path: the books balance, a confirmation licenses one transaction, and a target
\* has one transaction at a time (Manager.Start).
ManagerSound == TypeOK /\ Accounted /\ Licensed /\ OneAtATime

\* A call that promises nothing was left behind has left nothing behind, a mere
\* cancellation can always promise that, and what stays admits the mesh alone
\* (SystemBackend.Rollback).
NothingLeftBehind == NoSilentChange /\ CancelIsUndone /\ MeshOnly
=============================================================================
