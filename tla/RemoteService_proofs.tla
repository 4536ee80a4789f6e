------------------------- MODULE RemoteService_proofs -------------------------
(***************************************************************************)
(* Proofs about the confirmed start of remote-access services, for any      *)
(* finite set of requests, any capacities and any of the settings.          *)
(*                                                                          *)
(* The books are counts of the calls in certain places, so the invariant    *)
(* says of every call where it may be and with what.  Exclusion does not    *)
(* follow from the mutexes alone, which come and go with the entries of     *)
(* Manager.locks: it needs that all who refer to a target hold the id of    *)
(* the entry, that two entries never share one, and that an id is not given *)
(* out again while anybody holds or waits for it.                           *)
(***************************************************************************)
EXTENDS RemoteService, FiniteSetTheorems, SequenceTheorems, TLAPS

Places == Admitted \cup {"idle", "ask", "granted", "over"}
Receipts == [kind : {"none", "owned", "observed", "uncertain"}, after : States]
Results == {"none", "failed", "already_running", "started", "manual_cleanup",
            "rolled_back", "rollback_failed"}
Calls == [at : Places, live : BOOLEAN, result : Results, target : Kinds \cup {"none"},
          token : Nat, lock : Nat, since : Nat, before : States, step : Nat,
          receipt : Receipts, failed : BOOLEAN]
Confirmation == [target : Kinds, expires : Nat]
Record == [target : Kinds, expires : Nat, used : BOOLEAN]

Typed ==
    /\ setting \in Settings /\ now \in 0..MaxTime
    /\ inFlight \in Nat /\ admission \in Nat
    /\ call \in [Callers -> Calls]
    /\ granted \in Seq(Confirmation) /\ uses \in [Tokens -> Nat]
    /\ service \in [setting.targets -> States]
    /\ starters \in Seq(Callers \cup {"administrator"})

\* A run that is known of has begun.
RunsKnown ==
    /\ \A t \in setting.targets : service[t].run <= Len(starters)
    /\ \A c \in Callers : call[c].before.run <= Len(starters)

\* What a record says of its confirmation.
Tells(k) ==
    /\ records[k] \in Record /\ records[k].target \in setting.targets
    /\ records[k].target = granted[k].target /\ records[k].expires = granted[k].expires
    /\ ~records[k].used => uses[k] = 0

Confirmed ==
    /\ Len(granted) + inFlight <= setting.tokens
    /\ DOMAIN records \subseteq 1..Len(granted)
    /\ \A k \in DOMAIN records : Tells(k)
    /\ \A k \in Tokens : uses[k] <= 1 /\ (k > Len(granted) => uses[k] = 0)

\* What a call that has come so far carries.
Carries(c) ==
    /\ call[c].at \in Admitted \cup {"ask", "granted"} => call[c].target \in setting.targets
    /\ call[c].at \in Admitted => call[c].token \in 1..Len(granted)
    /\ call[c].at \in Inside => /\ call[c].target = granted[call[c].token].target
                                /\ call[c].since < granted[call[c].token].expires

Carried == \A c \in Callers : Carries(c)

Asking == {c \in Callers : call[c].at = "ask"}
InAdmission == {c \in Callers : call[c].at \in Admitted}
RefersTo(t) == {c \in Callers : call[c].at \in Referencing /\ call[c].target = t}

Booked ==
    /\ inFlight = Cardinality(Asking)
    /\ Cardinality(DOMAIN records) + inFlight <= MaxConfirmations
    /\ admission = Cardinality(InAdmission) /\ admission <= MaxTransactions

\* An entry exists while somebody refers to it, and counts them.
Entries ==
    /\ DOMAIN locks \subseteq setting.targets
    /\ \A t \in DOMAIN locks : locks[t] \in [id : Locks, refs : Nat]
    /\ \A t \in setting.targets :
          /\ (t \in DOMAIN locks) <=> (RefersTo(t) # {})
          /\ t \in DOMAIN locks => locks[t].refs = Cardinality(RefersTo(t))

\* Those who refer to a target have its entry's lock, and no two entries share one.
Shared ==
    /\ \A c \in Callers : call[c].at \in Referencing =>
          call[c].target \in DOMAIN locks /\ call[c].lock = locks[call[c].target].id
    /\ \A t, u \in DOMAIN locks : locks[t].id = locks[u].id => t = u

\* A lock that is held has one holder.
Exclusive ==
    /\ held \subseteq {call[c].lock : c \in {d \in Callers : call[d].at \in Locking}}
    /\ \A c \in Callers : call[c].at \in Locking => call[c].lock \in held
    /\ \A c, d \in Callers : /\ call[c].at \in Locking /\ call[d].at \in Locking
                             /\ call[c].lock = call[d].lock
                             => c = d

\* A receipt that authorises a rollback names a run of the call's own, or the one
\* it found.
OwnsItsRun(c) ==
    /\ call[c].at \in {"undo", "undoing"} => call[c].receipt.kind = "owned"
    /\ call[c].at \in {"judge", "verify", "undo", "undoing"} /\ call[c].receipt.kind = "owned" =>
          LET run == call[c].receipt.after.run IN
          run = call[c].before.run \/ (run \in 1..Len(starters) /\ starters[run] = c)

\* The command a call has come to is one of those that enable its target.
InStep(c) ==
    call[c].at = "enable" => call[c].step \in 1..Len(EnableCommands(call[c].target))

AtItsWork == \A c \in Callers : OwnsItsRun(c) /\ InStep(c)

ServiceInv ==
    /\ Typed /\ RunsKnown /\ Confirmed /\ Carried /\ Booked
    /\ Entries /\ Shared /\ Exclusive /\ AtItsWork
-----------------------------------------------------------------------------
(* Counting the calls. *)

LEMMA CallsFinite == \A S \in SUBSET Callers : IsFiniteSet(S) /\ Cardinality(S) \in Nat
BY CapacityAssumption, FS_Subset, FS_CardinalityType

LEMMA OneMore ==
    ASSUME NEW S \in SUBSET Callers, NEW c \in Callers, c \notin S
    PROVE  Cardinality(S \cup {c}) = Cardinality(S) + 1
BY CallsFinite, FS_AddElement

LEMMA OneLess ==
    ASSUME NEW S \in SUBSET Callers, NEW c \in Callers, c \in S
    PROVE  Cardinality(S \ {c}) = Cardinality(S) - 1
BY CallsFinite, FS_RemoveElement

\* The confirmations recorded are finitely many.
LEMMA RecordsFinite ==
    ASSUME Typed, Confirmed
    PROVE  IsFiniteSet(DOMAIN records) /\ Cardinality(DOMAIN records) \in Nat
<1>1. Len(granted) \in Nat
  BY DEF Typed
<1>2. IsFiniteSet(1..Len(granted))
  BY <1>1, FS_Interval
<1>. QED
  BY <1>2, FS_Subset, FS_CardinalityType DEF Confirmed

\* The places are disjoint where the invariant needs them to be.
LEMMA Phases ==
    /\ Inside \subseteq Locking /\ Locking \subseteq Referencing /\ Referencing \subseteq Admitted
    /\ Admitted \subseteq Places
    /\ "release" \in Locking /\ "release" \notin Inside
    /\ "locked" \in Locking /\ "locked" \notin Inside
    /\ "waiting" \in Referencing /\ "waiting" \notin Locking
    /\ "unreference" \in Referencing /\ "unreference" \notin Locking
    /\ \A at \in {"admitted", "validated", "leave"} : at \in Admitted /\ at \notin Referencing
    /\ \A at \in {"idle", "ask", "granted", "over"} : at \in Places /\ at \notin Admitted
    /\ \A at \in {"capture", "health", "inspect", "guard", "preflight", "enable", "enabled", "again",
                  "start", "started", "atomic", "judge", "verify", "undo", "undoing", "restored"} :
          at \in Inside
BY DEF Inside, Locking, Referencing, Admitted, Places

\* Every setting is one of those described.
LEMMA SettingShape ==
    ASSUME Typed
    PROVE  /\ setting.targets \subseteq Kinds /\ setting.tokens \in Nat /\ setting.tokens <= MaxTokens
           /\ MaxTokens \in Nat /\ MaxTime \in Nat /\ TTL \in Nat /\ TTL > 0
           /\ MaxConfirmations \in Nat /\ MaxTransactions \in Nat /\ now \in Nat
           /\ Len(granted) \in Nat /\ Len(starters) \in Nat
BY SettingsAssumption, CapacityAssumption DEF Typed

-----------------------------------------------------------------------------
(* What a step leaves alone. *)

\* Nobody took, waits for or gave back a lock.
LEMMA LocksAside ==
    ASSUME Entries, Shared, Exclusive,
           UNCHANGED <<locks, held>>, setting'.targets = setting.targets,
           \A c \in Callers :
              /\ call'[c].at \in Referencing <=> call[c].at \in Referencing
              /\ call'[c].at \in Locking <=> call[c].at \in Locking
              /\ call[c].at \in Referencing =>
                    call'[c].target = call[c].target /\ call'[c].lock = call[c].lock
    PROVE  Entries' /\ Shared' /\ Exclusive'
<1>1. \A t : RefersTo(t)' = RefersTo(t)
  BY DEF RefersTo
<1>2. Entries'
  BY <1>1 DEF Entries
<1>3. Shared'
  BY DEF Shared
<1>4. Exclusive'
  BY Phases DEF Exclusive
<1>. QED
  BY <1>2, <1>3, <1>4

\* Nobody asked, answered, entered or left; records may have been dropped.
LEMMA BooksAside ==
    ASSUME Typed, Confirmed, Booked, UNCHANGED <<inFlight, admission>>,
           DOMAIN records' \subseteq DOMAIN records,
           \A c \in Callers :
              /\ call'[c].at = "ask" <=> call[c].at = "ask"
              /\ call'[c].at \in Admitted <=> call[c].at \in Admitted
    PROVE  Booked'
<1>1. Asking' = Asking /\ InAdmission' = InAdmission
  BY DEF Asking, InAdmission
<1>2. Cardinality(DOMAIN records') <= Cardinality(DOMAIN records)
      /\ Cardinality(DOMAIN records') \in Nat
  BY RecordsFinite, FS_Subset, FS_CardinalityType
<1>. QED
  BY <1>1, <1>2, RecordsFinite, SettingShape, SMTT(60) DEF Booked, Typed

\* No confirmation was granted or used; records may have been dropped.
LEMMA GrantsAside ==
    ASSUME Confirmed, UNCHANGED <<setting, inFlight, granted, uses>>,
           DOMAIN records' \subseteq DOMAIN records,
           \A k \in DOMAIN records' : records'[k] = records[k]
    PROVE  Confirmed'
BY DEF Confirmed, Tells

\* The service and the runs were not touched.
LEMMA RunsAside ==
    ASSUME Typed, RunsKnown, AtItsWork, UNCHANGED <<setting, service, starters>>,
           \A c \in Callers : call'[c].before.run \in {call[c].before.run, 0},
           \A c \in Callers :
              call'[c].at \in {"enable", "judge", "verify", "undo", "undoing"} =>
                 /\ call'[c].at = call[c].at /\ call'[c].target = call[c].target
                 /\ call'[c].before = call[c].before /\ call'[c].receipt = call[c].receipt
                 /\ call'[c].step = call[c].step
    PROVE  RunsKnown' /\ AtItsWork'
<1>1. RunsKnown'
  <2>1. Len(starters) \in Nat
    BY SettingShape
  <2>. QED
    BY <2>1 DEF RunsKnown
<1>2. \A c \in Callers : OwnsItsRun(c)'
  BY DEF AtItsWork, OwnsItsRun
<1>3. \A c \in Callers : InStep(c)'
  BY DEF AtItsWork, InStep
<1>. QED
  BY <1>1, <1>2, <1>3 DEF AtItsWork

-----------------------------------------------------------------------------
(* Transactions at work: between the consumption and the release. *)

\* A run that has begun is not forgotten.
Grows ==
    /\ starters' \in Seq(Callers \cup {"administrator"})
    /\ Len(starters) <= Len(starters')
    /\ \A i \in 1..Len(starters) : starters'[i] = starters[i]

ServiceGoesOn ==
    /\ Grows
    /\ service' \in [setting.targets -> States]
    /\ \A t \in setting.targets : service'[t].run <= Len(starters')

\* A call moves on with what it carries.
Proceeds(c) ==
    /\ call' \in [Callers -> Calls]
    /\ \A d \in Callers \ {c} : call'[d] = call[d]
    /\ call'[c].at \in Inside \cup {"release"}
    /\ call'[c].target = call[c].target /\ call'[c].token = call[c].token
    /\ call'[c].lock = call[c].lock /\ call'[c].since = call[c].since

LEMMA Working ==
    ASSUME ServiceInv, NEW c \in Callers, call[c].at \in Inside, Proceeds(c), ServiceGoesOn,
           call'[c].before.run <= Len(starters'), OwnsItsRun(c)', InStep(c)',
           UNCHANGED <<setting, now, confirmer, manager, granted, uses>>
    PROVE  ServiceInv'
<1>. USE DEF ServiceInv, confirmer, manager
<1>1. \A d \in Callers :
        /\ call'[d].at \in Referencing <=> call[d].at \in Referencing
        /\ call'[d].at \in Locking <=> call[d].at \in Locking
        /\ call'[d].at \in Admitted <=> call[d].at \in Admitted
        /\ call'[d].at = "ask" <=> call[d].at = "ask"
        /\ call'[d].target = call[d].target /\ call'[d].lock = call[d].lock
  BY Phases DEF Proceeds
<1>2. Entries' /\ Shared' /\ Exclusive'
  BY <1>1, LocksAside
<1>3. Booked'
  BY <1>1, BooksAside
<1>4. Confirmed'
  BY GrantsAside
<1>5. Carried'
  BY Phases DEF Carried, Carries, Proceeds
<1>6. Typed'
  BY DEF Typed, Proceeds, ServiceGoesOn, Grows
<1>7. RunsKnown'
  <2>1. \A d \in Callers : call[d].before.run \in Nat /\ call'[d].before.run \in Nat
    BY <1>6 DEF Typed, Calls, States
  <2>2. Len(starters) \in Nat /\ Len(starters') \in Nat
    BY <1>6, SettingShape DEF ServiceGoesOn, Grows
  <2>. QED
    BY <2>1, <2>2 DEF RunsKnown, Proceeds, ServiceGoesOn, Grows
<1>8. AtItsWork'
  <2>1. Len(starters) \in Nat /\ Len(starters') \in Nat
    BY <1>6, SettingShape DEF ServiceGoesOn, Grows
  <2>. QED
    BY <2>1 DEF AtItsWork, OwnsItsRun, InStep, Proceeds, ServiceGoesOn, Grows
<1>. QED
  BY <1>2, <1>3, <1>4, <1>5, <1>6, <1>7, <1>8

\* A call goes to a place, with what it remembers of the service and its receipt.
Moved(c, at, before, receipt) ==
    /\ call' \in [Callers -> Calls]
    /\ \A d \in Callers \ {c} : call'[d] = call[d]
    /\ call'[c].at = at /\ call'[c].before = before /\ call'[c].receipt = receipt
    /\ call'[c].target = call[c].target /\ call'[c].token = call[c].token
    /\ call'[c].lock = call[c].lock /\ call'[c].since = call[c].since

LEMMA Moves ==
    ASSUME Typed, NEW c \in Callers, NEW at \in Places
    PROVE  LET before == call[c].before
               receipt == call[c].receipt
           IN  /\ Goto(c, at) => Moved(c, at, before, receipt)
               /\ \A result \in Results : EndsWith(c, at, result) => Moved(c, at, before, receipt)
               /\ \A failed \in BOOLEAN :
                     call' = [call EXCEPT ![c].at = at, ![c].failed = failed]
                     => Moved(c, at, before, receipt)
               /\ \A n \in Nat :
                     call' = [call EXCEPT ![c].at = at, ![c].step = n]
                     => Moved(c, at, before, receipt) /\ call'[c].step = n
               /\ \A s \in States :
                     call' = [call EXCEPT ![c].at = at, ![c].before = s] => Moved(c, at, s, receipt)
               /\ \A r \in Receipts, failed \in BOOLEAN :
                     call' = [call EXCEPT ![c].at = at, ![c].receipt = r, ![c].failed = failed]
                     => Moved(c, at, before, r)
<1>1. call \in [Callers -> Calls] /\ call[c] \in Calls
  BY DEF Typed
<1>2. Goto(c, at) => Moved(c, at, call[c].before, call[c].receipt)
  BY <1>1 DEF Goto, Calls, Moved
<1>3. ASSUME NEW result \in Results, EndsWith(c, at, result)
      PROVE  Moved(c, at, call[c].before, call[c].receipt)
  BY <1>1, <1>3 DEF EndsWith, Calls, Moved
<1>4. ASSUME NEW failed \in BOOLEAN,
             call' = [call EXCEPT ![c].at = at, ![c].failed = failed]
      PROVE  Moved(c, at, call[c].before, call[c].receipt)
  BY <1>1, <1>4 DEF Calls, Moved
<1>5. ASSUME NEW n \in Nat,
             call' = [call EXCEPT ![c].at = at, ![c].step = n]
      PROVE  Moved(c, at, call[c].before, call[c].receipt) /\ call'[c].step = n
  BY <1>1, <1>5 DEF Calls, Moved
<1>6. ASSUME NEW s \in States, call' = [call EXCEPT ![c].at = at, ![c].before = s]
      PROVE  Moved(c, at, s, call[c].receipt)
  BY <1>1, <1>6 DEF Calls, Moved
<1>7. ASSUME NEW r \in Receipts, NEW failed \in BOOLEAN,
             call' = [call EXCEPT ![c].at = at, ![c].receipt = r, ![c].failed = failed]
      PROVE  Moved(c, at, call[c].before, r)
  BY <1>1, <1>7 DEF Calls, Moved
<1>. QED
  BY <1>2, <1>3, <1>4, <1>5, <1>6, <1>7

\* The call acts on the service, or only looks, and stays at work.
LEMMA Acts ==
    ASSUME ServiceInv, NEW c \in Callers, call[c].at \in Inside,
           UNCHANGED <<setting, now, confirmer, manager, granted, uses>>, ServiceGoesOn,
           NEW at \in Inside \cup {"release"}, NEW before, NEW receipt,
           Moved(c, at, before, receipt),
           before.run <= Len(starters'),
           at \in {"undo", "undoing"} => receipt.kind = "owned",
           at \in {"judge", "verify", "undo", "undoing"} /\ receipt.kind = "owned" =>
              \/ receipt.after.run = before.run
              \/ receipt.after.run \in 1..Len(starters') /\ starters'[receipt.after.run] = c,
           at = "enable" => call'[c].step \in 1..Len(EnableCommands(call[c].target))
    PROVE  ServiceInv'
<1>1. Proceeds(c)
  BY DEF Moved, Proceeds
<1>2. OwnsItsRun(c)' /\ InStep(c)'
  BY DEF OwnsItsRun, InStep, Moved
<1>. QED
  BY <1>1, <1>2, Working DEF Moved

\* Nothing but the call changes, and it stays at work.
LEMMA OnlyMoves ==
    ASSUME ServiceInv, NEW c \in Callers, call[c].at \in Inside, CallOnly,
           NEW at \in Inside \cup {"release"}, NEW before, NEW receipt,
           Moved(c, at, before, receipt),
           before.run <= Len(starters),
           at \in {"undo", "undoing"} => receipt.kind = "owned",
           at \in {"judge", "verify", "undo", "undoing"} /\ receipt.kind = "owned" =>
              \/ receipt.after.run = before.run
              \/ receipt.after.run \in 1..Len(starters) /\ starters[receipt.after.run] = c,
           at = "enable" => call'[c].step \in 1..Len(EnableCommands(call[c].target))
    PROVE  ServiceInv'
<1>1. ServiceGoesOn
  BY SettingShape DEF CallOnly, ServiceInv, Typed, RunsKnown, ServiceGoesOn, Grows, history
<1>. QED
  BY <1>1, Acts DEF CallOnly, history

\* What a call at work knows of itself.
LEMMA AtWork ==
    ASSUME ServiceInv, NEW c \in Callers, call[c].at \in Inside
    PROVE  /\ Typed /\ call[c].target \in setting.targets
           /\ call[c].before \in States /\ call[c].before.run \in Nat
           /\ call[c].before.run <= Len(starters)
           /\ call[c].receipt \in Receipts /\ call[c].failed \in BOOLEAN /\ call[c].step \in Nat
           /\ Seen(c) \in States /\ Seen(c).run <= Len(starters)
           /\ OwnsItsRun(c) /\ InStep(c)
<1>. USE DEF ServiceInv
<1>1. call[c] \in Calls /\ call[c].target \in setting.targets
  BY Phases DEF Typed, Carried, Carries
<1>. QED
  BY <1>1 DEF Typed, Calls, States, RunsKnown, Seen, AtItsWork

\* Where a call must bring a receipt or a step.
Settled == {"enable", "judge", "verify", "undo", "undoing"}

\* An inspection, or a check, and where it leads.
LEMMA Looks ==
    ASSUME ServiceInv, NEW c \in Callers, call[c].at \in Inside, CallOnly,
           \/ \E at \in Inside \ Settled : Goto(c, at)
           \/ \E result \in Results : EndsWith(c, "release", result)
           \/ \E at \in Inside \ Settled :
                 call' = [call EXCEPT ![c].at = at, ![c].before = Seen(c)]
           \/ call' = [call EXCEPT ![c].at = "enable", ![c].step = 1]
           \/ \E receipt \in Receipts, failed \in BOOLEAN :
                 receipt.kind # "owned" /\ Receives(c, receipt, failed)
    PROVE  ServiceInv'
<1>0. /\ Typed /\ call[c].before.run <= Len(starters)
      /\ Seen(c) \in States /\ Seen(c).run <= Len(starters)
  BY AtWork
<1>1. ASSUME NEW at \in Inside \ Settled, Goto(c, at)
      PROVE  ServiceInv'
  <2>1. Moved(c, at, call[c].before, call[c].receipt)
    BY <1>0, <1>1, Moves, Phases
  <2>. QED
    BY <1>0, <2>1, OnlyMoves DEF Settled
<1>2. ASSUME NEW result \in Results, EndsWith(c, "release", result)
      PROVE  ServiceInv'
  <2>1. Moved(c, "release", call[c].before, call[c].receipt)
    BY <1>0, <1>2, Moves, Phases
  <2>. QED
    BY <1>0, <2>1, OnlyMoves
<1>3. ASSUME NEW at \in Inside \ Settled, call' = [call EXCEPT ![c].at = at, ![c].before = Seen(c)]
      PROVE  ServiceInv'
  <2>1. Moved(c, at, Seen(c), call[c].receipt)
    BY <1>0, <1>3, Moves, Phases
  <2>. QED
    BY <1>0, <2>1, OnlyMoves DEF Settled
<1>4. ASSUME call' = [call EXCEPT ![c].at = "enable", ![c].step = 1]
      PROVE  ServiceInv'
  <2>1. Moved(c, "enable", call[c].before, call[c].receipt) /\ call'[c].step = 1
    BY <1>0, <1>4, Moves, Phases
  <2>2. 1 \in 1..Len(EnableCommands(call[c].target))
    BY DEF EnableCommands
  <2>. QED
    BY <1>0, <2>1, <2>2, OnlyMoves, Phases
<1>5. ASSUME NEW receipt \in Receipts, NEW failed \in BOOLEAN, receipt.kind # "owned",
             Receives(c, receipt, failed)
      PROVE  ServiceInv'
  <2>1. Moved(c, "judge", call[c].before, receipt)
    BY <1>0, <1>5, Moves, Phases DEF Receives
  <2>. QED
    BY <1>0, <1>5, <2>1, OnlyMoves, Phases
<1>. QED
  BY <1>1, <1>2, <1>3, <1>4, <1>5

LEMMA ReceiptKinds ==
    /\ NoReceipt \in Receipts /\ NoReceipt.kind # "owned"
    /\ Uncertain \in Receipts /\ Uncertain.kind # "owned"
    /\ \A s \in States : Observed(s) \in Receipts /\ Observed(s).kind # "owned"
    /\ \A s \in States : Owned(s) \in Receipts /\ Owned(s).after = s
    /\ \A s, b \in States : Classified(b, s) \in Receipts /\ Classified(b, s).kind # "owned"
<1>1. Stopped \in States
  BY DEF Stopped, States
<1>. QED
  BY <1>1 DEF Receipts, NoReceipt, Uncertain, Observed, Owned, Classified

LEMMA CheckStep ==
    ASSUME ServiceInv, NEW c \in Callers,
           Capture(c) \/ Health(c) \/ Inspect(c) \/ Guard(c) \/ Again(c)
    PROVE  ServiceInv'
<1>1. CASE Capture(c)
  BY <1>1, Looks, Phases DEF Capture, Results, Settled
<1>2. CASE Health(c)
  BY <1>2, Looks, Phases DEF Health, Results, Settled
<1>3. CASE Inspect(c)
  BY <1>3, Looks, Phases DEF Inspect, Results, Settled
<1>4. CASE Guard(c)
  BY <1>4, Looks, Phases DEF Guard, Results, Settled
<1>5. CASE Again(c)
  BY <1>5, Looks, Phases DEF Again, Results, Settled
<1>. QED
  BY <1>1, <1>2, <1>3, <1>4, <1>5

LEMMA AfterStep ==
    ASSUME ServiceInv, NEW c \in Callers, AfterEnable(c) \/ AfterStart(c) \/ Restored(c)
    PROVE  ServiceInv'
<1>1. CASE AfterEnable(c)
  BY <1>1, Looks, AtWork, ReceiptKinds, Phases DEF AfterEnable, Settled
<1>2. CASE AfterStart(c)
  BY <1>2, Looks, AtWork, ReceiptKinds, Phases DEF AfterStart, Settled
<1>3. CASE Restored(c)
  BY <1>3, Looks, Phases DEF Restored, Results
<1>. QED
  BY <1>1, <1>2, <1>3

LEMMA JudgeStep ==
    ASSUME ServiceInv, NEW c \in Callers, Judge(c) \/ Verify(c) \/ Undo(c)
    PROVE  ServiceInv'
<1>. DEFINE at == call[c].at
<1>0. /\ at \in Inside /\ CallOnly /\ Typed /\ OwnsItsRun(c)
      /\ call[c].before.run <= Len(starters)
  BY Phases, AtWork DEF Judge, Verify, Undo
<1>1. CASE \E result \in Results : EndsWith(c, "release", result)
  BY <1>0, <1>1, Looks
<1>2. CASE /\ at \in {"judge", "verify", "undo"}
           /\ \E to \in {"verify", "undo", "undoing"} :
                 Goto(c, to) /\ (to # "verify" => call[c].receipt.kind = "owned")
  <2>1. PICK to \in {"verify", "undo", "undoing"} :
                 Goto(c, to) /\ (to # "verify" => call[c].receipt.kind = "owned")
    BY <1>2
  <2>2. Moved(c, to, call[c].before, call[c].receipt)
    BY <1>0, <2>1, Moves, Phases, ZenonT(60)
  <2>3. call[c].receipt.kind = "owned" =>
              \/ call[c].receipt.after.run = call[c].before.run
              \/ call[c].receipt.after.run \in 1..Len(starters) /\ starters[call[c].receipt.after.run] = c
    BY <1>0, <1>2 DEF OwnsItsRun
  <2>. QED
    BY <1>0, <2>1, <2>2, <2>3, OnlyMoves, Phases
<1>. QED
  BY <1>1, <1>2 DEF Judge, Verify, Undo, FailWith, RollbackAuthorized, AuthorizesRollback, Results

-----------------------------------------------------------------------------
(* Commands: what changes the service. *)

\* A state a command may leave: of a run already begun, or of the next.
Reachable(u) == u \in States /\ u.run <= Len(starters) + 1

LEMMA EffectGoesOn ==
    ASSUME Typed, RunsKnown, NEW c \in Callers \cup {"administrator"},
           NEW t \in setting.targets, NEW u, Reachable(u), Effect(c, t, u), UNCHANGED setting
    PROVE  /\ ServiceGoesOn
           /\ u.run > Len(starters) => u.run \in 1..Len(starters') /\ starters'[u.run] = c
<1>1. /\ service' = [service EXCEPT ![t] = u]
      /\ starters' = IF u.run > Len(starters) THEN Append(starters, c) ELSE starters
  BY DEF Effect
<1>2. u \in States /\ u.run \in Nat /\ u.run <= Len(starters) + 1
  BY DEF Reachable, States
<1>3. /\ starters \in Seq(Callers \cup {"administrator"}) /\ Len(starters) \in Nat
      /\ service \in [setting.targets -> States] /\ \A v \in setting.targets : service[v].run \in Nat
  BY SettingShape DEF Typed, States
<1>4. Append(starters, c) \in Seq(Callers \cup {"administrator"})
      /\ Len(Append(starters, c)) = Len(starters) + 1
      /\ (\A i \in 1..Len(starters) : Append(starters, c)[i] = starters[i])
      /\ Append(starters, c)[Len(starters) + 1] = c
  BY <1>3, AppendProperties
<1>5. service' \in [setting.targets -> States]
      /\ \A v \in setting.targets : service'[v] = IF v = t THEN u ELSE service[v]
  BY <1>1, <1>2, <1>3
<1>6. CASE u.run > Len(starters)
  <2>1. starters' = Append(starters, c) /\ u.run = Len(starters) + 1
    BY <1>1, <1>2, <1>3, <1>6
  <2>2. Grows /\ Len(starters') = Len(starters) + 1
    BY <1>3, <1>4, <2>1 DEF Grows
  <2>3. \A v \in setting.targets : service'[v].run <= Len(starters')
    BY <1>3, <1>5, <2>1, <2>2 DEF RunsKnown
  <2>4. u.run \in 1..Len(starters') /\ starters'[u.run] = c
    BY <1>3, <1>4, <2>1, <2>2
  <2>. QED
    BY <1>5, <2>2, <2>3, <2>4 DEF ServiceGoesOn
<1>7. CASE ~(u.run > Len(starters))
  <2>1. starters' = starters
    BY <1>1, <1>7
  <2>2. \A v \in setting.targets : service'[v].run <= Len(starters')
    BY <1>2, <1>3, <1>5, <1>7, <2>1 DEF RunsKnown
  <2>. QED
    BY <1>3, <1>5, <1>7, <2>1, <2>2 DEF ServiceGoesOn, Grows
<1>. QED
  BY <1>6, <1>7

LEMMA BegunReachable ==
    ASSUME Typed, NEW s \in States, s.run <= Len(starters)
    PROVE  Reachable(s) /\ Reachable(Begun(s))
BY SettingShape DEF Reachable, Begun, States

FixedCommands == {"switch", "login", "rules off", "filters", "check off", "rules on", "check on",
                   "policy", "demand", "start"}

LEMMA CommandReachable ==
    ASSUME Typed, NEW s \in States, s.run <= Len(starters), NEW name \in FixedCommands
    PROVE  \A u \in Command(name, s) : Reachable(u)
<1>0. /\ Len(starters) \in Nat /\ s.run \in Nat
      /\ \A part \in {"unit", "rules", "policy", "start"} :
            Switched(s, part) \in States /\ Switched(s, part).run = s.run
  BY SettingShape DEF States, Switched
<1>1. /\ Reachable(s) /\ Reachable(Begun(s)) /\ Reachable(Begun(Switched(s, "unit")))
      /\ \A part \in {"unit", "rules", "policy", "start"} : Reachable(Switched(s, part))
  BY <1>0, BegunReachable
<1>2. ASSUME NEW shape \in {"mesh", "wide"}
      PROVE  Reachable([s EXCEPT !.shape = shape, !.on = @ \ {"rules"}])
  <2>. DEFINE rest == s.on \ {"rules"}
  <2>1. rest \in SUBSET {"unit", "policy", "rules", "start"}
    BY DEF States
  <2>2. [s EXCEPT !.shape = shape, !.on = @ \ {"rules"}] = [s EXCEPT !.shape = shape, !.on = rest]
    BY DEF States
  <2>. HIDE DEF rest
  <2>. DEFINE shaped == [s EXCEPT !.shape = shape]
  <2>3. shaped \in States /\ shaped.run = s.run
    BY DEF States
  <2>4. \A r \in States : [r EXCEPT !.on = rest] \in States /\ [r EXCEPT !.on = rest].run = r.run
    BY <2>1 DEF States
  <2>5. [s EXCEPT !.shape = shape, !.on = rest] = [shaped EXCEPT !.on = rest]
    OBVIOUS
  <2>. HIDE DEF shaped
  <2>6. Reachable([s EXCEPT !.shape = shape, !.on = rest])
    BY <1>0, <2>3, <2>4, <2>5 DEF Reachable
  <2>. QED
    BY <2>2, <2>6
<1>3. Reachable([s EXCEPT !.on = @ \ {"rules"}])
  <2>. DEFINE rest == s.on \ {"rules"}
  <2>1. rest \in SUBSET {"unit", "policy", "rules", "start"}
    BY DEF States
  <2>2. [s EXCEPT !.on = @ \ {"rules"}] = [s EXCEPT !.on = rest]
    OBVIOUS
  <2>. HIDE DEF rest
  <2>3. Reachable([s EXCEPT !.on = rest])
    BY <1>0, <2>1 DEF Reachable, States
  <2>. QED
    BY <2>2, <2>3
<1>4. CASE name = "switch"
  BY <1>1, <1>4 DEF Command
<1>5. CASE name = "login"
  BY <1>1, <1>5 DEF Command
<1>6. CASE name = "rules off"
  BY <1>3, <1>6 DEF Command
<1>7. CASE name = "filters"
  <2>1. Command(name, s) = {[s EXCEPT !.shape = "mesh", !.on = @ \ {"rules"}]}
    BY <1>7 DEF Command
  <2>. QED
    BY <1>2, <2>1
<1>8. CASE name \in {"check off", "check on"}
  <2>1. Command(name, s) \subseteq {s}
    BY <1>8 DEF Command
  <2>. QED
    BY <1>1, <2>1
<1>9. CASE name = "rules on"
  <2>1. Command(name, s) \subseteq {Switched(s, "rules")}
    BY <1>9 DEF Command
  <2>. QED
    BY <1>1, <2>1
<1>10. CASE name = "policy"
  BY <1>1, <1>10 DEF Command
<1>11. CASE name = "demand"
  BY <1>1, <1>11 DEF Command
<1>12. CASE name = "start"
  BY <1>1, <1>12 DEF Command
<1>. QED
  BY <1>4, <1>5, <1>6, <1>7, <1>8, <1>9, <1>10, <1>11, <1>12 DEF FixedCommands

\* A command of a call at work, and where the call goes after it.
LEMMA Commanded ==
    ASSUME ServiceInv, NEW c \in Callers, call[c].at \in Inside,
           UNCHANGED <<setting, now, confirmer, manager, granted, uses>>,
           \/ \E u : Reachable(u) /\ Effect(c, call[c].target, u)
           \/ UNCHANGED <<service, starters, mine>>
    PROVE  ServiceGoesOn /\ call[c].before.run <= Len(starters')
<1>1. /\ Typed /\ RunsKnown /\ call[c].target \in setting.targets
      /\ call[c].before.run \in Nat /\ call[c].before.run <= Len(starters)
  BY AtWork DEF ServiceInv
<1>2. ServiceGoesOn
  <2>1. CASE \E u : Reachable(u) /\ Effect(c, call[c].target, u)
    BY <1>1, <2>1, EffectGoesOn
  <2>2. CASE UNCHANGED <<service, starters, mine>>
    BY <1>1, <2>2, SettingShape DEF Typed, RunsKnown, ServiceGoesOn, Grows
  <2>. QED
    BY <2>1, <2>2
<1>3. Len(starters) \in Nat /\ Len(starters') \in Nat
  BY <1>1, <1>2, SettingShape DEF ServiceGoesOn, Grows
<1>. QED
  BY <1>1, <1>2, <1>3 DEF ServiceGoesOn, Grows

LEMMA EnableCommandsFixed ==
    \A t \in Kinds : /\ EnableCommands(t) \in Seq(FixedCommands)
                     /\ StartCommand(t) \in FixedCommands
<1>1. <<"rules off", "filters", "check off", "rules on", "check on", "policy", "demand">>
      \in Seq(FixedCommands)
  BY DEF FixedCommands
<1>2. <<"login">> \in Seq(FixedCommands) /\ <<"switch">> \in Seq(FixedCommands)
  BY DEF FixedCommands
<1>. QED
  BY <1>1, <1>2 DEF EnableCommands, StartCommand, FixedCommands

LEMMA EnableStepStep ==
    ASSUME ServiceInv, NEW c \in Callers, EnableStep(c)
    PROVE  ServiceInv'
<1>. DEFINE t == call[c].target
            n == call[c].step
            commands == EnableCommands(t)
<1>0. /\ call[c].at = "enable" /\ call[c].at \in Inside /\ Typed /\ t \in setting.targets /\ t \in Kinds
      /\ Seen(c) \in States /\ Seen(c).run <= Len(starters)
      /\ n \in 1..Len(commands) /\ n \in Nat
      /\ UNCHANGED <<setting, now, confirmer, manager, granted, uses>>
  BY Phases, AtWork, SettingShape DEF EnableStep, InStep
<1>1. commands[n] \in FixedCommands /\ Len(commands) \in Nat
  BY <1>0, EnableCommandsFixed, ElementOfSeq, LenProperties
<1>2. \A u \in Command(commands[n], Seen(c)) : Reachable(u)
  BY <1>0, <1>1, CommandReachable
<1>3. /\ \/ \E u : Reachable(u) /\ Effect(c, t, u)
         \/ UNCHANGED <<service, starters, mine>>
      /\ \/ n < Len(commands) /\ call' = [call EXCEPT ![c].at = "enable", ![c].step = n + 1]
         \/ \E failed \in BOOLEAN : call' = [call EXCEPT ![c].at = "enabled", ![c].failed = failed]
         \/ Receives(c, Uncertain, TRUE)
  BY <1>2 DEF EnableStep, Runs
<1>4. ServiceGoesOn /\ call[c].before.run <= Len(starters')
  BY <1>0, <1>3, Commanded
<1>5. CASE n < Len(commands) /\ call' = [call EXCEPT ![c].at = "enable", ![c].step = n + 1]
  <2>1. n + 1 \in Nat /\ n + 1 \in 1..Len(commands)
    BY <1>0, <1>1, <1>5
  <2>2. Moved(c, "enable", call[c].before, call[c].receipt) /\ call'[c].step = n + 1
    BY <1>0, <1>5, <2>1, Moves, Phases
  <2>. QED
    BY <1>0, <1>4, <2>1, <2>2, Acts, Phases
<1>6. CASE \E failed \in BOOLEAN : call' = [call EXCEPT ![c].at = "enabled", ![c].failed = failed]
  <2>1. Moved(c, "enabled", call[c].before, call[c].receipt)
    BY <1>0, <1>6, Moves, Phases
  <2>. QED
    BY <1>0, <1>4, <2>1, Acts, Phases
<1>7. CASE Receives(c, Uncertain, TRUE)
  <2>1. Moved(c, "judge", call[c].before, Uncertain)
    BY <1>0, <1>7, Moves, Phases, ReceiptKinds DEF Receives
  <2>. QED
    BY <1>0, <1>4, <2>1, Acts, Phases, ReceiptKinds
<1>. QED
  BY <1>3, <1>5, <1>6, <1>7

LEMMA StartFixedStep ==
    ASSUME ServiceInv, NEW c \in Callers, StartFixed(c)
    PROVE  ServiceInv'
<1>. DEFINE t == call[c].target
<1>0. /\ call[c].at \in Inside /\ Typed /\ t \in Kinds
      /\ Seen(c) \in States /\ Seen(c).run <= Len(starters)
      /\ UNCHANGED <<setting, now, confirmer, manager, granted, uses>>
  BY Phases, AtWork, SettingShape DEF StartFixed
<1>1. \A u \in Command(StartCommand(t), Seen(c)) : Reachable(u)
  BY <1>0, EnableCommandsFixed, CommandReachable
<1>2. /\ \/ \E u : Reachable(u) /\ Effect(c, t, u)
         \/ UNCHANGED <<service, starters, mine>>
      /\ \E failed \in BOOLEAN : call' = [call EXCEPT ![c].at = "started", ![c].failed = failed]
  BY <1>1 DEF StartFixed, Runs
<1>3. ServiceGoesOn /\ call[c].before.run <= Len(starters')
  BY <1>0, <1>2, Commanded
<1>4. Moved(c, "started", call[c].before, call[c].receipt)
  BY <1>0, <1>2, Moves, Phases
<1>. QED
  BY <1>0, <1>3, <1>4, Acts, Phases

\* What the native adapter answers.
Answers == [after : States, owned : BOOLEAN, attempted : BOOLEAN, known : BOOLEAN,
            unchanged : BOOLEAN, failed : BOOLEAN]

\* What the adapter may do, and when it says that it owns the change.
LEMMA AdapterReachable ==
    ASSUME Typed, NEW t \in Kinds, NEW s \in States, s.run <= Len(starters),
           NEW before \in States, NEW faulty \in BOOLEAN, NEW out \in Adapter(t, before, s, faulty)
    PROVE  /\ Reachable(out[1]) /\ out[2].after = out[1]
           /\ out[2] \in Answers
           /\ out[2].owned => s = before /\ out[1].run \in {s.run, Len(starters) + 1}
<1>. DEFINE whole == [s EXCEPT !.on = @ \cup Parts(t), !.shape = "mesh"]
<1>1. whole \in States /\ whole.run = s.run
  <2>1. Parts(t) \subseteq {"unit", "policy", "rules", "start"}
    BY DEF Parts
  <2>2. \A on \in SUBSET {"unit", "policy", "rules", "start"} :
           [s EXCEPT !.on = on, !.shape = "mesh"] \in States
           /\ [s EXCEPT !.on = on, !.shape = "mesh"].run = s.run
    BY DEF States
  <2>3. s.on \cup Parts(t) \in SUBSET {"unit", "policy", "rules", "start"}
    BY <2>1 DEF States
  <2>. QED
    BY <2>2, <2>3
<1>2. Started(t, s) = Begun(whole)
  BY DEF Started
<1>. HIDE DEF whole
<1>3. /\ Reachable(s) /\ Reachable(Started(t, s))
      /\ Started(t, s).run \in {s.run, Len(starters) + 1}
  BY <1>1, <1>2, BegunReachable DEF Begun, States
<1>. DEFINE u == Started(t, s)
<1>. HIDE DEF u
<1>4. \/ out = <<s, Result(s, FALSE, FALSE, FALSE, TRUE)>>
      \/ out = <<s, Result(s, FALSE, FALSE, TRUE, FALSE)>>
      \/ s = before /\ out = <<u, Result(u, TRUE, TRUE, TRUE, FALSE)>>
      \/ \E v \in {s, u}, known \in BOOLEAN : out = <<v, Result(v, FALSE, TRUE, known, FALSE)>>
  BY DEF Adapter, u
<1>5. u \in States /\ Reachable(u) /\ Reachable(s) /\ u.run \in {s.run, Len(starters) + 1}
  BY <1>3 DEF Reachable, u
<1>6. PICK v \in {s, u}, owned \in BOOLEAN, attempted \in BOOLEAN, known \in BOOLEAN,
           unchanged \in BOOLEAN :
         /\ out = <<v, Result(v, owned, attempted, known, unchanged)>>
         /\ owned => s = before /\ v = u
  BY <1>4
<1>7. v \in States
  BY <1>5
<1>. DEFINE answer == Result(v, owned, attempted, known, unchanged)
<1>8. answer \in Answers /\ answer.after = v /\ answer.owned = owned
  BY <1>7 DEF Result, Answers
<1>9. out[1] = v /\ out[2] = answer
  BY <1>6
<1>. HIDE DEF answer
<1>. QED
  BY <1>5, <1>6, <1>8, <1>9

\* A verdict is a receipt, and one that is owned names what the adapter left.
LEMMA JudgedTyped ==
    ASSUME NEW t, NEW before \in States, NEW result \in Answers
    PROVE  LET verdict == Judged(t, before, result) IN
           /\ verdict.receipt \in Receipts /\ verdict.failed \in BOOLEAN
           /\ verdict.receipt.kind = "owned" =>
                 result.owned /\ verdict.receipt = Owned(result.after)
<1>1. Running(t, result.after) \in BOOLEAN /\ result.after \in States /\ result.failed \in BOOLEAN
  BY DEF Running, Answers
<1>2. \/ \E r \in {Uncertain, NoReceipt, Observed(result.after)} :
            Judged(t, before, result) = [receipt |-> r, failed |-> TRUE \/ result.failed]
      \/ /\ result.owned
         /\ Judged(t, before, result)
              = [receipt |-> Owned(result.after), failed |-> ~Running(t, result.after) \/ result.failed]
  BY DEF Judged
<1>3. ASSUME NEW r \in {Uncertain, NoReceipt, Observed(result.after)},
             Judged(t, before, result) = [receipt |-> r, failed |-> TRUE \/ result.failed]
      PROVE  /\ Judged(t, before, result).receipt = r
             /\ r \in Receipts /\ r.kind # "owned"
             /\ Judged(t, before, result).failed \in BOOLEAN
  BY <1>1, <1>3, ReceiptKinds
<1>4. ASSUME result.owned,
             Judged(t, before, result)
               = [receipt |-> Owned(result.after), failed |-> ~Running(t, result.after) \/ result.failed]
      PROVE  /\ Judged(t, before, result).receipt = Owned(result.after)
             /\ Owned(result.after) \in Receipts
             /\ Judged(t, before, result).failed \in BOOLEAN
  BY <1>1, <1>4, ReceiptKinds
<1>. QED
  BY <1>2, <1>3, <1>4

LEMMA StartAtomicStep ==
    ASSUME ServiceInv, NEW c \in Callers, StartAtomic(c)
    PROVE  ServiceInv'
<1>. DEFINE t == call[c].target
            before == call[c].before
<1>0. /\ call[c].at \in Inside /\ Typed /\ RunsKnown /\ t \in Kinds /\ t \in setting.targets
      /\ before \in States
      /\ Seen(c) \in States /\ Seen(c).run <= Len(starters)
      /\ UNCHANGED <<setting, now, confirmer, manager, granted, uses>>
  BY Phases, AtWork, SettingShape DEF StartAtomic, ServiceInv
<1>1. PICK out \in Adapter(t, before, Seen(c), Fails(c, "command")), failed \in BOOLEAN :
        /\ Effect(c, t, out[1])
        /\ LET verdict == Judged(t, before, [out[2] EXCEPT !.failed = failed])
           IN  Receives(c, verdict.receipt, verdict.failed)
  BY DEF StartAtomic
<1>2. Fails(c, "command") \in BOOLEAN
  BY DEF Fails
<1>3. /\ Reachable(out[1]) /\ out[2].after = out[1] /\ out[2] \in Answers
      /\ out[2].owned => Seen(c) = before /\ out[1].run \in {Seen(c).run, Len(starters) + 1}
  BY <1>0, <1>2, AdapterReachable
<1>. DEFINE answer == [out[2] EXCEPT !.failed = failed]
            verdict == Judged(t, before, answer)
<1>4. answer \in Answers /\ answer.after = out[1] /\ answer.owned = out[2].owned
  BY <1>3 DEF Answers
<1>. HIDE DEF answer
<1>5. /\ verdict.receipt \in Receipts /\ verdict.failed \in BOOLEAN
      /\ verdict.receipt.kind = "owned" => answer.owned /\ verdict.receipt.after = out[1]
  BY <1>0, <1>3, <1>4, JudgedTyped, ReceiptKinds DEF Reachable
<1>6. Receives(c, verdict.receipt, verdict.failed) /\ Effect(c, t, out[1])
  BY <1>1 DEF answer
<1>. HIDE DEF verdict
<1>7. /\ ServiceGoesOn /\ before.run <= Len(starters')
      /\ out[1].run > Len(starters) => out[1].run \in 1..Len(starters') /\ starters'[out[1].run] = c
  BY <1>0, <1>3, <1>6, Commanded, EffectGoesOn
<1>8. Moved(c, "judge", before, verdict.receipt)
  BY <1>0, <1>5, <1>6, Moves, Phases DEF Receives
<1>9. verdict.receipt.kind = "owned" =>
         \/ verdict.receipt.after.run = before.run
         \/ verdict.receipt.after.run \in 1..Len(starters') /\ starters'[verdict.receipt.after.run] = c
  <2>1. Len(starters) \in Nat
    BY <1>0, SettingShape
  <2>. QED
    BY <1>3, <1>4, <1>5, <1>7, <2>1
<1>. QED
  BY <1>0, <1>7, <1>8, <1>9, Acts, Phases

LEMMA RollbackStep ==
    ASSUME ServiceInv, NEW c \in Callers, RollbackAtomic(c)
    PROVE  ServiceInv'
<1>0. /\ call[c].at \in Inside /\ Typed
      /\ call[c].before \in States /\ call[c].before.run \in Nat
      /\ call[c].before.run <= Len(starters)
      /\ UNCHANGED <<setting, now, confirmer, manager, granted, uses>>
  BY Phases, AtWork DEF RollbackAtomic
<1>1. Reachable(call[c].before)
  BY <1>0, BegunReachable
<1>2. /\ \/ \E u : Reachable(u) /\ Effect(c, call[c].target, u)
         \/ UNCHANGED <<service, starters, mine>>
      /\ Goto(c, "restored") \/ EndsWith(c, "release", "rollback_failed")
  BY <1>1 DEF RollbackAtomic
<1>3. ServiceGoesOn /\ call[c].before.run <= Len(starters')
  BY <1>0, <1>2, Commanded
<1>4. \E at \in {"restored", "release"} : Moved(c, at, call[c].before, call[c].receipt)
  BY <1>0, <1>2, Moves, Phases DEF Results
<1>. QED
  BY <1>0, <1>3, <1>4, Acts, Phases

-----------------------------------------------------------------------------
(* Confirmations. *)

\* A call is replaced.
LEMMA Replaced ==
    ASSUME Typed, NEW c \in Callers, NEW r \in Calls, call' = [call EXCEPT ![c] = r]
    PROVE  /\ call' \in [Callers -> Calls] /\ call'[c] = r
           /\ \A d \in Callers \ {c} : call'[d] = call[d]
BY DEF Typed

LEMMA IdleTyped ==
    /\ Idle \in Calls /\ Idle.at = "idle" /\ Idle.before = Stopped
    /\ Stopped \in States /\ Stopped.run = 0
<1>1. Stopped \in States /\ Stopped.run = 0
  BY DEF Stopped, States
<1>2. NoReceipt \in Receipts
  BY ReceiptKinds
<1>. QED
  BY <1>1, <1>2, Phases DEF Idle, Calls, Results

\* The calls that begin, and those that are over.
LEMMA AskTyped ==
    ASSUME NEW t \in Kinds
    PROVE  LET r == [Idle EXCEPT !.at = "ask", !.target = t] IN
           r \in Calls /\ r.at = "ask" /\ r.target = t /\ r.before = Stopped
BY IdleTyped, Phases DEF Calls

LEMMA AdmittedTyped ==
    ASSUME NEW t \in Kinds, NEW k \in Nat
    PROVE  LET r == [Idle EXCEPT !.at = "admitted", !.target = t, !.token = k] IN
           r \in Calls /\ r.at = "admitted" /\ r.target = t /\ r.token = k /\ r.before = Stopped
BY IdleTyped, Phases DEF Calls

LEMMA OverTyped ==
    ASSUME NEW t \in Kinds \cup {"none"}, NEW result \in Results
    PROVE  LET r == [Idle EXCEPT !.at = "over", !.target = t, !.result = result] IN
           r \in Calls /\ r.at = "over" /\ r.before = Stopped
BY IdleTyped, Phases DEF Calls

\* What was granted stays.
Extends(new, old) == Len(old) <= Len(new) /\ \A i \in 1..Len(old) : new[i] = old[i]

\* A call that is not admitted comes to be idle, or to ask: locks and work are
\* nobody's concern.
LEMMA Outside ==
    ASSUME ServiceInv, NEW c \in Callers, call[c].at \notin Admitted,
           NEW r \in Calls, r.at \notin Admitted, r.before = Stopped \/ r.before = call[c].before,
           r.at \in {"ask", "granted"} => r.target \in setting.targets,
           call' = [call EXCEPT ![c] = r],
           UNCHANGED <<setting, locks, held, service, starters>>,
           granted' \in Seq(Confirmation), Extends(granted', granted)
    PROVE  /\ call' \in [Callers -> Calls]
           /\ Entries' /\ Shared' /\ Exclusive' /\ RunsKnown' /\ AtItsWork' /\ Carried'
           /\ InAdmission' = InAdmission
<1>. USE DEF ServiceInv
<1>0. /\ call' \in [Callers -> Calls] /\ call'[c] = r
      /\ \A d \in Callers \ {c} : call'[d] = call[d]
  BY Replaced
<1>1. \A d \in Callers :
        /\ call'[d].at \in Referencing <=> call[d].at \in Referencing
        /\ call'[d].at \in Locking <=> call[d].at \in Locking
        /\ call'[d].at \in Admitted <=> call[d].at \in Admitted
        /\ call[d].at \in Referencing =>
              call'[d].target = call[d].target /\ call'[d].lock = call[d].lock
  BY <1>0, Phases
<1>2. Entries' /\ Shared' /\ Exclusive'
  BY <1>1, LocksAside
<1>3. RunsKnown' /\ AtItsWork'
  <2>1. \A d \in Callers : call'[d].before.run \in {call[d].before.run, 0}
    BY <1>0, IdleTyped
  <2>2. \A d \in Callers :
           call'[d].at \in {"enable", "judge", "verify", "undo", "undoing"} => call'[d] = call[d]
    BY <1>0, Phases
  <2>. QED
    BY <2>1, <2>2, RunsAside
<1>4. Carried'
  BY <1>0, Phases, SettingShape, SMTT(60) DEF Carried, Carries, Typed, Extends
<1>5. InAdmission' = InAdmission
  BY <1>1 DEF InAdmission
<1>. QED
  BY <1>0, <1>2, <1>3, <1>4, <1>5

LEMMA Dropped ==
    ASSUME NEW S \in SUBSET DOMAIN records, records' = Restrict(records, S)
    PROVE  DOMAIN records' \subseteq DOMAIN records /\ \A k \in DOMAIN records' : records'[k] = records[k]
BY DEF Restrict

LEMMA ValidatedDrops ==
    ASSUME NEW k, records' = Validated(k)
    PROVE  DOMAIN records' \subseteq DOMAIN records /\ \A j \in DOMAIN records' : records'[j] = records[j]
BY DEF Validated, Pruned, Restrict

LEMMA ConfirmStep ==
    ASSUME ServiceInv, NEW c \in Callers, Confirm(c)
    PROVE  ServiceInv'
<1>. USE DEF ServiceInv, manager
<1>0. /\ call[c].at \in {"idle", "over"} /\ call[c].at \notin Admitted
      /\ Len(granted) + inFlight < setting.tokens
      /\ DOMAIN records' \subseteq DOMAIN records /\ \A k \in DOMAIN records' : records'[k] = records[k]
      /\ UNCHANGED <<setting, now, admission, locks, held, service, granted, uses, starters>>
      /\ granted' \in Seq(Confirmation) /\ Len(granted) \in Nat /\ Extends(granted', granted)
  <2>1. records' = Pruned(now)
    BY DEF Confirm
  <2>2. /\ DOMAIN records' \subseteq DOMAIN records
        /\ \A k \in DOMAIN records' : records'[k] = records[k]
    BY <2>1, Dropped DEF Pruned
  <2>3. /\ call[c].at \in {"idle", "over"} /\ Len(granted) + inFlight < setting.tokens
        /\ UNCHANGED <<setting, now, admission, locks, held, service, granted, uses, starters>>
    BY DEF Confirm
  <2>4. Len(granted) \in Nat /\ granted' \in Seq(Confirmation)
    BY <2>3, SettingShape DEF Typed
  <2>5. Extends(granted', granted)
    BY <2>3, <2>4 DEF Extends
  <2>. QED
    BY <2>2, <2>3, <2>4, <2>5, Phases
<1>1. PICK t \in setting.targets :
        IF Cardinality(DOMAIN records') + inFlight >= MaxConfirmations
        THEN UNCHANGED inFlight /\ call' = [call EXCEPT ![c] = Idle]
        ELSE /\ inFlight' = inFlight + 1
             /\ call' = [call EXCEPT ![c] = [Idle EXCEPT !.at = "ask", !.target = t]]
  BY DEF Confirm
<1>2. t \in Kinds
  BY SettingShape
<1>3. CASE UNCHANGED inFlight /\ call' = [call EXCEPT ![c] = Idle]
  <2>0. Idle.at \notin Admitted /\ Idle.at # "ask" /\ Idle.at # "granted"
    BY IdleTyped, Phases
  <2>1. /\ call' \in [Callers -> Calls]
        /\ Entries' /\ Shared' /\ Exclusive' /\ RunsKnown' /\ AtItsWork' /\ Carried'
    BY <1>0, <1>3, <2>0, Outside, IdleTyped
  <2>2. \A d \in Callers : /\ call'[d].at = "ask" <=> call[d].at = "ask"
                           /\ call'[d].at \in Admitted <=> call[d].at \in Admitted
    BY <1>0, <1>3, <2>0, Replaced, IdleTyped
  <2>3. Booked' /\ Confirmed'
    BY <1>0, <1>3, <2>2, BooksAside, GrantsAside
  <2>. QED
    BY <1>0, <1>3, <2>1, <2>3 DEF Typed
<1>4. CASE /\ Cardinality(DOMAIN records') + inFlight < MaxConfirmations
           /\ inFlight' = inFlight + 1
           /\ call' = [call EXCEPT ![c] = [Idle EXCEPT !.at = "ask", !.target = t]]
  <2>. DEFINE r == [Idle EXCEPT !.at = "ask", !.target = t]
  <2>1. /\ r \in Calls /\ r.at = "ask" /\ r.target = t /\ r.before = Stopped
        /\ call' = [call EXCEPT ![c] = r]
    BY <1>2, <1>4, AskTyped
  <2>. HIDE DEF r
  <2>2. /\ call' \in [Callers -> Calls]
        /\ Entries' /\ Shared' /\ Exclusive' /\ RunsKnown' /\ AtItsWork' /\ Carried'
        /\ InAdmission' = InAdmission
    BY <1>0, <2>1, Outside, Phases
  <2>3. Asking' = Asking \cup {c} /\ c \notin Asking
    BY <1>0, <2>1, Replaced DEF Asking
  <2>4. Cardinality(Asking') = inFlight + 1
    BY <2>3, OneMore DEF Booked, Asking
  <2>5. Cardinality(DOMAIN records') \in Nat
    BY <1>0, RecordsFinite, FS_Subset, FS_CardinalityType
  <2>6. Booked'
    BY <1>0, <1>4, <2>2, <2>4, <2>5, SettingShape, SMTT(60) DEF Booked, Typed
  <2>7. Confirmed'
    BY <1>0, <1>4, SettingShape, SMTT(60) DEF Confirmed, Tells, Typed
  <2>. QED
    BY <1>0, <1>4, <2>2, <2>6, <2>7 DEF Typed
<1>5. Cardinality(DOMAIN records') \in Nat /\ inFlight \in Nat /\ MaxConfirmations \in Nat
  BY <1>0, RecordsFinite, FS_Subset, FS_CardinalityType, SettingShape DEF Typed
<1>. QED
  BY <1>1, <1>3, <1>4, <1>5

LEMMA ApproveStep ==
    ASSUME ServiceInv, NEW c \in Callers, Approve(c)
    PROVE  ServiceInv'
<1>. USE DEF ServiceInv, manager
<1>. PICK k \in Nat : k = Len(granted) + 1
  BY SettingShape
<1>. DEFINE t == call[c].target
            record == [target |-> t, expires |-> now + TTL, used |-> FALSE]
            r == [call[c] EXCEPT !.at = "granted", !.token = k]
<1>0. /\ call[c].at = "ask" /\ call[c] \in Calls /\ t \in Kinds /\ t \in setting.targets
      /\ Len(granted) \in Nat /\ k \in Nat /\ now + TTL \in Nat
      /\ inFlight' = inFlight - 1 /\ inFlight \in Nat
      /\ UNCHANGED <<setting, now, admission, locks, held, service, uses, starters>>
  BY SettingShape, SMTT(60) DEF Approve, Typed, Carried, Carries
<1>1. /\ records' = With(records, k, record)
      /\ granted' = Append(granted, [target |-> t, expires |-> now + TTL])
      /\ call' = [call EXCEPT ![c] = r]
  BY <1>0 DEF Approve, Typed
<1>2. /\ r \in Calls /\ r.at = "granted" /\ r.target = t /\ r.before = call[c].before
  BY <1>0, Phases DEF Calls
<1>3. record \in Record /\ record.target = t /\ record.expires = now + TTL /\ record.used = FALSE
  BY <1>0 DEF Record
<1>. DEFINE grant == [target |-> t, expires |-> now + TTL]
<1>4. grant \in Confirmation /\ grant.target = t /\ grant.expires = now + TTL
  BY <1>0 DEF Confirmation
<1>5. granted' = Append(granted, grant)
  BY <1>1
<1>. HIDE DEF r, record, grant
<1>6. /\ granted' \in Seq(Confirmation) /\ Len(granted') = k /\ granted'[k] = grant
      /\ \A i \in 1..Len(granted) : granted'[i] = granted[i]
  BY <1>4, <1>5, AppendProperties DEF Typed
<1>7. Extends(granted', granted)
  BY <1>0, <1>6 DEF Extends
<1>8. /\ call' \in [Callers -> Calls]
      /\ Entries' /\ Shared' /\ Exclusive' /\ RunsKnown' /\ AtItsWork' /\ Carried'
      /\ InAdmission' = InAdmission
  BY <1>0, <1>1, <1>2, <1>6, <1>7, Outside, Phases
<1>9. Asking' = Asking \ {c} /\ c \in Asking
  BY <1>0, <1>1, <1>2, Replaced DEF Asking
<1>10. Cardinality(Asking') = inFlight - 1 /\ Cardinality(Asking') \in Nat
  BY <1>9, OneLess, CallsFinite DEF Booked, Asking
<1>11. /\ DOMAIN records' = DOMAIN records \cup {k} /\ k \notin DOMAIN records
       /\ records'[k] = record /\ \A j \in DOMAIN records : records'[j] = records[j]
  <2>1. k \notin DOMAIN records
    BY <1>0 DEF Confirmed
  <2>. QED
    BY <1>1, <2>1 DEF With
<1>12. Cardinality(DOMAIN records') = Cardinality(DOMAIN records) + 1
  BY <1>11, RecordsFinite, FS_AddElement
<1>13. Booked'
  <2>1. Cardinality(DOMAIN records) \in Nat /\ MaxConfirmations \in Nat
    BY RecordsFinite, SettingShape
  <2>. QED
    BY <1>0, <1>8, <1>10, <1>12, <2>1 DEF Booked
<1>14. Confirmed'
  <2>1. k + inFlight' <= setting.tokens /\ k \in Tokens
    BY <1>0, <1>10, SettingShape, SMTT(60) DEF Confirmed, Tokens
  <2>2. \A j \in DOMAIN records : j \in 1..Len(granted) /\ j \in 1..Len(granted') /\ Tells(j)
    BY <1>0, <1>6 DEF Confirmed
  <2>3. \A j \in DOMAIN records : Tells(j)'
    BY <1>0, <1>6, <1>11, <2>2 DEF Tells
  <2>4. uses[k] = 0
    BY <1>0, <2>1 DEF Confirmed
  <2>5. Tells(k)'
    BY <1>0, <1>3, <1>4, <1>6, <1>11, <2>4 DEF Tells
  <2>6. DOMAIN records' \subseteq 1..Len(granted')
    BY <1>0, <1>6, <1>11, <2>2
  <2>7. \A j \in Tokens : uses'[j] <= 1 /\ (j > Len(granted') => uses'[j] = 0)
    BY <1>0, <1>6, SettingShape DEF Confirmed, Tokens
  <2>. QED
    BY <1>0, <1>6, <1>11, <2>1, <2>3, <2>5, <2>6, <2>7 DEF Confirmed
<1>15. Typed'
  BY <1>0, <1>6, <1>8, <1>10 DEF Typed, Booked
<1>. QED
  BY <1>8, <1>13, <1>14, <1>15

LEMMA DenyStep ==
    ASSUME ServiceInv, NEW c \in Callers, Deny(c)
    PROVE  ServiceInv'
<1>. USE DEF ServiceInv, manager, history
<1>0. /\ call[c].at = "ask" /\ call' = [call EXCEPT ![c] = Idle]
      /\ inFlight' = inFlight - 1 /\ inFlight \in Nat
      /\ granted' \in Seq(Confirmation) /\ Len(granted) \in Nat
      /\ UNCHANGED <<setting, now, records, admission, locks, held, service, granted, uses, starters>>
  BY SettingShape DEF Deny, Typed
<1>1. Extends(granted', granted)
  BY <1>0 DEF Extends
<1>2. Idle.at \notin Admitted /\ Idle.at # "ask" /\ Idle.at # "granted"
  BY IdleTyped, Phases
<1>3. /\ call' \in [Callers -> Calls]
      /\ Entries' /\ Shared' /\ Exclusive' /\ RunsKnown' /\ AtItsWork' /\ Carried'
      /\ InAdmission' = InAdmission
  BY <1>0, <1>1, <1>2, Outside, IdleTyped, Phases
<1>4. Asking' = Asking \ {c} /\ c \in Asking
  BY <1>0, <1>2, Replaced, IdleTyped DEF Asking
<1>5. Cardinality(Asking') = inFlight - 1 /\ Cardinality(Asking') \in Nat
  BY <1>4, OneLess, CallsFinite DEF Booked, Asking
<1>6. Booked'
  <2>1. Cardinality(DOMAIN records) \in Nat /\ MaxConfirmations \in Nat
    BY RecordsFinite, SettingShape
  <2>. QED
    BY <1>0, <1>3, <1>5, <2>1 DEF Booked
<1>7. Confirmed'
  BY <1>0, SettingShape DEF Confirmed, Tells
<1>8. Typed'
  BY <1>0, <1>3, <1>5 DEF Typed
<1>. QED
  BY <1>3, <1>6, <1>7, <1>8

-----------------------------------------------------------------------------
(* Admission, validation and consumption. *)

LEMMA AdmitStep ==
    ASSUME ServiceInv, NEW c \in Callers, Admit(c)
    PROVE  ServiceInv'
<1>. USE DEF ServiceInv, confirmer
<1>0. /\ call[c].at \in {"granted", "idle", "over"} /\ call[c].at \notin Admitted
      /\ UNCHANGED <<setting, now, records, inFlight, locks, held, service, granted, uses, starters>>
      /\ admission \in Nat /\ Len(granted) \in Nat /\ granted' \in Seq(Confirmation)
  BY Phases, SettingShape DEF Admit, Typed
<1>1. PICK t \in setting.targets, k \in 1..Len(granted) :
        IF call[c].live /\ admission < MaxTransactions
        THEN /\ admission' = admission + 1
             /\ call' = [call EXCEPT ![c] =
                     [Idle EXCEPT !.at = "admitted", !.target = t, !.token = k]]
        ELSE UNCHANGED admission /\ call' = [call EXCEPT ![c] = Idle]
  BY DEF Admit
<1>2. Extends(granted', granted)
  BY <1>0 DEF Extends
<1>3. CASE UNCHANGED admission /\ call' = [call EXCEPT ![c] = Idle]
  <2>1. Idle.at \notin Admitted /\ Idle.at # "ask" /\ Idle.at # "granted"
    BY IdleTyped, Phases
  <2>2. /\ call' \in [Callers -> Calls]
        /\ Entries' /\ Shared' /\ Exclusive' /\ RunsKnown' /\ AtItsWork' /\ Carried'
    BY <1>0, <1>2, <1>3, <2>1, Outside, IdleTyped
  <2>3. \A d \in Callers : /\ call'[d].at = "ask" <=> call[d].at = "ask"
                           /\ call'[d].at \in Admitted <=> call[d].at \in Admitted
    BY <1>0, <1>3, <2>1, Replaced, IdleTyped
  <2>4. Booked' /\ Confirmed'
    BY <1>0, <1>3, <2>3, BooksAside, GrantsAside
  <2>. QED
    BY <1>0, <1>3, <2>2, <2>4 DEF Typed
<1>4. CASE /\ admission < MaxTransactions /\ admission' = admission + 1
           /\ call' = [call EXCEPT ![c] =
                     [Idle EXCEPT !.at = "admitted", !.target = t, !.token = k]]
  <2>. DEFINE r == [Idle EXCEPT !.at = "admitted", !.target = t, !.token = k]
  <2>1. /\ r \in Calls /\ r.at = "admitted" /\ r.target = t /\ r.token = k /\ r.before = Stopped
        /\ call' = [call EXCEPT ![c] = r]
    <3>1. t \in Kinds /\ k \in Nat
      BY <1>0, SettingShape
    <3>. QED
      BY <1>4, <3>1, AdmittedTyped, ZenonT(60)
  <2>. HIDE DEF r
  <2>2. /\ call' \in [Callers -> Calls] /\ call'[c] = r
        /\ \A d \in Callers \ {c} : call'[d] = call[d]
    BY <2>1, Replaced
  <2>3. \A d \in Callers :
          /\ call'[d].at \in Referencing <=> call[d].at \in Referencing
          /\ call'[d].at \in Locking <=> call[d].at \in Locking
          /\ call[d].at \in Referencing =>
                call'[d].target = call[d].target /\ call'[d].lock = call[d].lock
    BY <1>0, <2>1, <2>2, Phases
  <2>4. Entries' /\ Shared' /\ Exclusive'
    BY <1>0, <2>3, LocksAside
  <2>5. RunsKnown' /\ AtItsWork'
    <3>1. \A d \in Callers : call'[d].before.run \in {call[d].before.run, 0}
      BY <2>1, <2>2, IdleTyped
    <3>2. \A d \in Callers :
             call'[d].at \in {"enable", "judge", "verify", "undo", "undoing"} => call'[d] = call[d]
      BY <2>1, <2>2
    <3>. QED
      BY <1>0, <3>1, <3>2, RunsAside
  <2>6. Carried'
    BY <1>0, <2>1, <2>2, Phases DEF Carried, Carries
  <2>7. InAdmission' = InAdmission \cup {c} /\ c \notin InAdmission /\ Asking' = Asking
    BY <1>0, <2>1, <2>2, Phases DEF InAdmission, Asking
  <2>8. Cardinality(InAdmission') = admission + 1
    BY <2>7, OneMore DEF Booked, InAdmission
  <2>9. Booked'
    BY <1>0, <1>4, <2>7, <2>8, SettingShape DEF Booked
  <2>10. Confirmed'
    BY <1>0, GrantsAside
  <2>. QED
    BY <1>0, <1>4, <2>2, <2>4, <2>5, <2>6, <2>9, <2>10 DEF Typed
<1>. QED
  BY <1>1, <1>3, <1>4

\* An admitted call goes on before or after its work; nothing else changes but
\* for records that are dropped.
LEMMA PassesOn ==
    ASSUME ServiceInv, NEW c \in Callers, NEW at \in Admitted \ Inside,
           call[c].at \in Admitted,
           at \in Referencing <=> call[c].at \in Referencing,
           at \in Locking <=> call[c].at \in Locking,
           \/ Goto(c, at)
           \/ \E result \in Results : EndsWith(c, at, result),
           DOMAIN records' \subseteq DOMAIN records,
           \A k \in DOMAIN records' : records'[k] = records[k],
           UNCHANGED <<setting, now, inFlight, manager, service, granted, uses, starters>>
    PROVE  ServiceInv'
<1>. USE DEF ServiceInv, manager
<1>1. Moved(c, at, call[c].before, call[c].receipt)
  BY Moves, Phases
<1>2. \A d \in Callers :
        /\ call'[d].at \in Referencing <=> call[d].at \in Referencing
        /\ call'[d].at \in Locking <=> call[d].at \in Locking
        /\ call'[d].at \in Admitted <=> call[d].at \in Admitted
        /\ call'[d].at = "ask" <=> call[d].at = "ask"
        /\ call'[d].target = call[d].target /\ call'[d].lock = call[d].lock
  BY <1>1, Phases DEF Moved
<1>3. Entries' /\ Shared' /\ Exclusive'
  BY <1>2, LocksAside
<1>4. Booked' /\ Confirmed'
  BY <1>2, BooksAside, GrantsAside
<1>5. Carried'
  BY <1>1, Phases DEF Carried, Carries, Moved
<1>6. RunsKnown' /\ AtItsWork'
  <2>1. \A d \in Callers : call'[d].before.run \in {call[d].before.run, 0}
    BY <1>1 DEF Moved
  <2>2. \A d \in Callers :
           call'[d].at \in {"enable", "judge", "verify", "undo", "undoing"} => call'[d] = call[d]
    BY <1>1, Phases DEF Moved
  <2>. QED
    BY <2>1, <2>2, RunsAside
<1>7. Typed'
  BY <1>1 DEF Typed, Moved
<1>. QED
  BY <1>3, <1>4, <1>5, <1>6, <1>7

LEMMA ValidateStep ==
    ASSUME ServiceInv, NEW c \in Callers, Validate(c) \/ GiveUp(c)
    PROVE  ServiceInv'
<1>1. CASE Validate(c)
  <2>1. DOMAIN records' \subseteq DOMAIN records /\ \A k \in DOMAIN records' : records'[k] = records[k]
    BY <1>1, ValidatedDrops DEF Validate
  <2>2. \/ Goto(c, "validated")
        \/ EndsWith(c, "leave", "failed")
    BY <1>1 DEF Validate
  <2>3. \A at \in {"validated", "leave"} : at \in Admitted \ Inside /\ at \notin Locking
    BY Phases
  <2>4. "failed" \in Results /\ call[c].at = "admitted"
    BY <1>1 DEF Results, Validate
  <2>. QED
    BY <1>1, <2>1, <2>2, <2>3, <2>4, PassesOn, Phases DEF Validate, history
<1>2. CASE GiveUp(c)
  <2>1. /\ EndsWith(c, "unreference", "failed") /\ "failed" \in Results
        /\ "unreference" \in Admitted \ Inside
    BY <1>2, Phases DEF GiveUp, Results
  <2>. QED
    BY <1>2, <2>1, PassesOn, Phases DEF GiveUp, history, confirmer
<1>. QED
  BY <1>1, <1>2

LEMMA ConsumeStep ==
    ASSUME ServiceInv, NEW c \in Callers, Consume(c)
    PROVE  ServiceInv'
<1>. USE DEF ServiceInv, manager
<1>. PICK k \in Nat : k = call[c].token
  BY DEF Typed, Calls
<1>0. /\ call[c].at = "locked" /\ call[c] \in Calls /\ k = call[c].token /\ k \in 1..Len(granted)
      /\ Len(granted) \in Nat /\ k \in Tokens
      /\ UNCHANGED <<setting, now, inFlight, admission, locks, held, service, granted, starters, mine>>
  <2>1. /\ call[c].at = "locked" /\ call[c] \in Calls /\ k \in 1..Len(granted)
        /\ UNCHANGED <<setting, now, inFlight, admission, locks, held, service, granted, starters, mine>>
    BY Phases DEF Consume, Typed, Carried, Carries
  <2>2. Len(granted) \in Nat /\ Len(granted) <= MaxTokens /\ MaxTokens \in Nat
    BY SettingShape DEF Confirmed, Typed
  <2>. QED
    BY <2>1, <2>2 DEF Tokens
<1>1. CASE ~Valid(call[c].target, call[c].token)
  <2>1. DOMAIN records' \subseteq DOMAIN records /\ \A j \in DOMAIN records' : records'[j] = records[j]
    BY <1>1, ValidatedDrops DEF Consume
  <2>2. /\ EndsWith(c, "release", "failed") /\ UNCHANGED uses /\ "failed" \in Results
        /\ "release" \in Admitted \ Inside
    BY <1>1, Phases DEF Consume, Results
  <2>. QED
    BY <1>0, <2>1, <2>2, PassesOn, Phases
<1>2. CASE Valid(call[c].target, call[c].token)
  <2>. DEFINE r == [call[c] EXCEPT !.at = "capture", !.since = now]
  <2>0. /\ records' = [records EXCEPT ![k].used = TRUE]
        /\ uses' = [uses EXCEPT ![k] = @ + 1]
        /\ call' = [call EXCEPT ![c] = r]
    BY <1>0, <1>2 DEF Consume, Typed
  <2>1. /\ r \in Calls /\ r.at = "capture" /\ r.target = call[c].target /\ r.token = k
        /\ r.lock = call[c].lock /\ r.since = now /\ r.before = call[c].before
    BY <1>0, Phases, SettingShape DEF Calls
  <2>. HIDE DEF r
  <2>2. /\ call' \in [Callers -> Calls] /\ call'[c] = r
        /\ \A d \in Callers \ {c} : call'[d] = call[d]
    BY <2>0, <2>1, Replaced
  <2>3. /\ k \in DOMAIN records /\ Tells(k) /\ now < records[k].expires
        /\ ~records[k].used /\ records[k].target = call[c].target
    BY <1>0, <1>2 DEF Valid, Confirmed
  <2>4. \A d \in Callers :
          /\ call'[d].at \in Referencing <=> call[d].at \in Referencing
          /\ call'[d].at \in Locking <=> call[d].at \in Locking
          /\ call'[d].at \in Admitted <=> call[d].at \in Admitted
          /\ call'[d].at = "ask" <=> call[d].at = "ask"
          /\ call'[d].target = call[d].target /\ call'[d].lock = call[d].lock
    BY <1>0, <2>1, <2>2, Phases
  <2>5. Entries' /\ Shared' /\ Exclusive'
    BY <1>0, <2>4, LocksAside
  <2>6. DOMAIN records' = DOMAIN records
    BY <2>0
  <2>7. Booked'
    BY <1>0, <2>4, <2>6, BooksAside
  <2>8. RunsKnown' /\ AtItsWork'
    <3>1. \A d \in Callers : call'[d].before.run \in {call[d].before.run, 0}
      BY <2>1, <2>2
    <3>2. \A d \in Callers :
             call'[d].at \in {"enable", "judge", "verify", "undo", "undoing"} => call'[d] = call[d]
      BY <2>1, <2>2
    <3>. QED
      BY <1>0, <3>1, <3>2, RunsAside
  <2>9. Carried'
    <3>1. Carries(c)'
      BY <1>0, <2>1, <2>2, <2>3, Phases DEF Carried, Carries, Tells
    <3>. QED
      BY <1>0, <2>2, <3>1 DEF Carried, Carries
  <2>10. Confirmed'
    <3>1. uses[k] = 0 /\ uses[k] \in Nat
      BY <1>0, <2>3 DEF Tells, Typed
    <3>2. uses'[k] = 1 /\ \A j \in Tokens \ {k} : uses'[j] = uses[j]
      BY <1>0, <2>0, <3>1 DEF Typed
    <3>3. \A j \in DOMAIN records \ {k} : records'[j] = records[j]
      BY <2>0
    <3>4. /\ records'[k] \in Record /\ records'[k].target = records[k].target
          /\ records'[k].expires = records[k].expires /\ records'[k].used = TRUE
      <4>1. records'[k] = [records[k] EXCEPT !.used = TRUE] /\ records[k] \in Record
        BY <2>0, <2>3 DEF Tells
      <4>. QED
        BY <4>1 DEF Record
    <3>5. \A j \in DOMAIN records : j \in Tokens /\ Tells(j)
      BY <1>0, SettingShape, SMTT(60) DEF Confirmed, Tokens, Typed
    <3>6. \A j \in DOMAIN records : Tells(j)'
      BY <1>0, <2>3, <3>2, <3>3, <3>4, <3>5 DEF Tells
    <3>7. \A j \in Tokens : uses'[j] <= 1 /\ (j > Len(granted) => uses'[j] = 0)
      <4>. SUFFICES ASSUME NEW j \in Tokens
                    PROVE  uses'[j] <= 1 /\ (j > Len(granted) => uses'[j] = 0)
        OBVIOUS
      <4>1. CASE j = k
        <5>1. k \in 1..Len(granted) /\ Len(granted) \in Nat
          BY <1>0, <2>3 DEF Confirmed, Typed
        <5>. QED
          BY <3>2, <4>1, <5>1
      <4>2. CASE j # k
        BY <1>0, <3>2, <4>2 DEF Confirmed
      <4>. QED
        BY <4>1, <4>2
    <3>. QED
      BY <1>0, <2>6, <3>6, <3>7 DEF Confirmed
  <2>11. Typed'
    <3>1. uses' \in [Tokens -> Nat]
      BY <1>0, <2>0 DEF Typed
    <3>. QED
      BY <1>0, <2>2, <3>1 DEF Typed
  <2>. QED
    BY <2>5, <2>7, <2>8, <2>9, <2>10, <2>11
<1>. QED
  BY <1>1, <1>2

-----------------------------------------------------------------------------
(* The lock of a target. *)

\* A call takes up a reference or a lock, or gives it back.
LEMMA Locksmith ==
    ASSUME ServiceInv, NEW c \in Callers, call[c].at \in Admitted, NEW r \in Calls,
           r.at \in Admitted \ Inside,
           r.target = call[c].target, r.token = call[c].token, r.before = call[c].before,
           call' = [call EXCEPT ![c] = r],
           UNCHANGED <<setting, now, confirmer, admission, service, history>>,
           Entries', Shared', Exclusive'
    PROVE  ServiceInv'
<1>. USE DEF ServiceInv, confirmer, history
<1>1. /\ call' \in [Callers -> Calls] /\ call'[c] = r
      /\ \A d \in Callers \ {c} : call'[d] = call[d]
  BY Replaced
<1>2. \A d \in Callers : /\ call'[d].at \in Admitted <=> call[d].at \in Admitted
                         /\ call'[d].at = "ask" <=> call[d].at = "ask"
  BY <1>1, Phases
<1>3. Booked' /\ Confirmed'
  BY <1>2, BooksAside, GrantsAside
<1>4. Carried'
  BY <1>1, Phases DEF Carried, Carries
<1>5. RunsKnown' /\ AtItsWork'
  <2>1. \A d \in Callers : call'[d].before.run \in {call[d].before.run, 0}
    BY <1>1
  <2>2. \A d \in Callers :
           call'[d].at \in {"enable", "judge", "verify", "undo", "undoing"} => call'[d] = call[d]
    BY <1>1, Phases
  <2>. QED
    BY <2>1, <2>2, RunsAside
<1>6. Typed'
  BY <1>1 DEF Typed
<1>. QED
  BY <1>3, <1>4, <1>5, <1>6

\* Every id that is in use is the lock of a call that refers to it.
LEMMA FreshLock ==
    ASSUME ServiceInv, NEW c \in Callers, call[c].at \notin Referencing,
           NEW used,
           used = {locks[u].id : u \in DOMAIN locks} \cup held
                   \cup {call[d].lock : d \in {d \in Callers : call[d].at \in Referencing}}
    PROVE  \E id \in Locks : id \notin used
<1>. USE DEF ServiceInv
<1>. DEFINE others == Callers \ {c}
            f == [d \in others |-> call[d].lock]
            T == {f[d] : d \in others}
<1>1. used \subseteq T
  <2>1. ASSUME NEW u \in DOMAIN locks
        PROVE  locks[u].id \in T
    <3>1. PICK d \in RefersTo(u) : TRUE
      BY DEF Entries
    <3>2. d \in others /\ call[d].lock = locks[u].id
      BY <3>1 DEF RefersTo, Shared
    <3>. QED
      BY <3>2
  <2>2. \A id \in held : id \in T
    BY Phases DEF Exclusive
  <2>. QED
    BY <2>1, <2>2
<1>2. IsFiniteSet(others) /\ Cardinality(others) = Cardinality(Callers) - 1
      /\ Cardinality(Callers) \in Nat
  BY CapacityAssumption, FS_RemoveElement, FS_CardinalityType
<1>3. f \in Surjection(others, T)
  BY DEF Surjection
<1>4. IsFiniteSet(T) /\ Cardinality(T) <= Cardinality(others)
  BY <1>2, <1>3, FS_Surjection
<1>5. CASE Locks \subseteq used
  <2>1. Cardinality(Locks) <= Cardinality(T)
    BY <1>1, <1>4, <1>5, FS_Subset
  <2>2. Cardinality(Locks) = Cardinality(Callers) + MaxTokens
    BY <1>2, CapacityAssumption, FS_Interval DEF Locks
  <2>3. Cardinality(T) \in Nat
    BY <1>4, FS_CardinalityType
  <2>. QED
    BY <1>2, <1>4, <2>1, <2>2, <2>3, CapacityAssumption
<1>. QED
  BY <1>5

LEMMA ReferenceStep ==
    ASSUME ServiceInv, NEW c \in Callers, Reference(c)
    PROVE  ServiceInv'
<1>. USE DEF ServiceInv, history
<1>. PICK t \in Kinds : t = call[c].target /\ t \in setting.targets
  BY SettingShape, Phases DEF Reference, Carried, Carries
<1>0. /\ call[c].at = "validated" /\ call[c] \in Calls
      /\ UNCHANGED <<setting, now, confirmer, admission, held, service, history>>
  BY DEF Reference, Typed
<1>1. PICK lock : /\ IF t \in DOMAIN locks
                     THEN lock = [locks[t] EXCEPT !.refs = @ + 1]
                     ELSE \E id \in Locks :
                             /\ lock = [id |-> id, refs |-> 1]
                             /\ \A u \in DOMAIN locks : locks[u].id # id
                             /\ id \notin held
                  /\ locks' = With(locks, t, lock)
                  /\ call' = [call EXCEPT ![c].at = "waiting", ![c].lock = lock.id]
  <2>. DEFINE used == {locks[u].id : u \in DOMAIN locks} \cup held
                   \cup {call[d].lock : d \in {d \in Callers : call[d].at \in Referencing}}
              fresh == CHOOSE id \in Locks \ used : TRUE
              lock == IF t \in DOMAIN locks THEN [locks[t] EXCEPT !.refs = @ + 1]
                      ELSE [id |-> fresh, refs |-> 1]
  <2>1. fresh \in Locks \ used
    BY <1>0, FreshLock, Phases
  <2>2. /\ locks' = With(locks, t, lock)
        /\ call' = [call EXCEPT ![c].at = "waiting", ![c].lock = lock.id]
    BY DEF Reference
  <2>3. fresh \notin held /\ \A u \in DOMAIN locks : locks[u].id # fresh
    BY <2>1
  <2>. HIDE DEF fresh
  <2>. QED
    BY <2>1, <2>2, <2>3
<1>2. /\ lock \in [id : Locks, refs : Nat]
      /\ t \in DOMAIN locks => lock.id = locks[t].id /\ lock.refs = locks[t].refs + 1
      /\ t \notin DOMAIN locks => /\ lock.refs = 1
                                  /\ \A u \in DOMAIN locks : locks[u].id # lock.id
  <2>1. CASE t \in DOMAIN locks
    <3>1. locks[t] \in [id : Locks, refs : Nat]
      BY <2>1 DEF Entries
    <3>. QED
      BY <1>1, <2>1, <3>1
  <2>2. CASE t \notin DOMAIN locks
    BY <1>1, <2>2
  <2>. QED
    BY <2>1, <2>2
<1>. DEFINE r == [call[c] EXCEPT !.at = "waiting", !.lock = lock.id]
<1>3. lock.id \in Nat
  BY <1>2, CapacityAssumption, FS_CardinalityType DEF Locks
<1>4. /\ r \in Calls /\ r.at = "waiting" /\ r.target = t /\ r.token = call[c].token
      /\ r.before = call[c].before /\ r.lock = lock.id
  BY <1>0, <1>3, Phases DEF Calls
<1>5. call' = [call EXCEPT ![c] = r]
  BY <1>0, <1>1 DEF Typed
<1>. HIDE DEF r
<1>6. /\ call' \in [Callers -> Calls] /\ call'[c] = r
      /\ \A d \in Callers \ {c} : call'[d] = call[d]
  BY <1>4, <1>5, Replaced
<1>7. /\ DOMAIN locks' = DOMAIN locks \cup {t} /\ locks'[t] = lock
      /\ \A u \in DOMAIN locks \ {t} : locks'[u] = locks[u]
  BY <1>1 DEF With
<1>8. /\ RefersTo(t)' = RefersTo(t) \cup {c} /\ c \notin RefersTo(t)
      /\ \A u \in setting.targets \ {t} : RefersTo(u)' = RefersTo(u)
  BY <1>0, <1>4, <1>6, Phases DEF RefersTo
<1>9. Entries'
  <2>1. Cardinality(RefersTo(t)') = Cardinality(RefersTo(t)) + 1
    BY <1>8, OneMore DEF RefersTo
  <2>2. t \notin DOMAIN locks => Cardinality(RefersTo(t)) = 0
    BY FS_EmptySet DEF Entries
  <2>3. lock.refs = Cardinality(RefersTo(t)')
    BY <1>2, <2>1, <2>2 DEF Entries
  <2>4. DOMAIN locks' \subseteq setting'.targets
    BY <1>0, <1>7 DEF Entries
  <2>5. \A u \in DOMAIN locks' : locks'[u] \in [id : Locks, refs : Nat]
    BY <1>2, <1>7 DEF Entries
  <2>6. \A u \in setting.targets :
          /\ (u \in DOMAIN locks') <=> (RefersTo(u)' # {})
          /\ u \in DOMAIN locks' => locks'[u].refs = Cardinality(RefersTo(u)')
    <3>1. ASSUME NEW u \in setting.targets, u # t
          PROVE  /\ (u \in DOMAIN locks') <=> (RefersTo(u)' # {})
                 /\ u \in DOMAIN locks' => locks'[u].refs = Cardinality(RefersTo(u)')
      BY <1>7, <1>8, <3>1 DEF Entries
    <3>. QED
      BY <1>7, <1>8, <2>3, <3>1
  <2>. QED
    BY <1>0, <2>4, <2>5, <2>6 DEF Entries
<1>10. Shared'
  <2>1. \A d \in Callers : call'[d].at \in Referencing =>
          call'[d].target \in DOMAIN locks' /\ call'[d].lock = locks'[call'[d].target].id
    <3>1. ASSUME NEW d \in Callers \ {c}, call'[d].at \in Referencing
          PROVE  call'[d].target \in DOMAIN locks' /\ call'[d].lock = locks'[call'[d].target].id
      BY <1>2, <1>6, <1>7, <3>1 DEF Shared
    <3>. QED
      BY <1>4, <1>6, <1>7, <3>1
  <2>2. \A u, v \in DOMAIN locks' : locks'[u].id = locks'[v].id => u = v
    BY <1>2, <1>7 DEF Shared
  <2>. QED
    BY <2>1, <2>2 DEF Shared
<1>11. Exclusive'
  <2>1. \A d \in Callers : /\ call'[d].at \in Locking <=> call[d].at \in Locking
                           /\ call[d].at \in Locking => call'[d].lock = call[d].lock
    BY <1>0, <1>4, <1>6, Phases
  <2>. QED
    BY <1>0, <2>1 DEF Exclusive
<1>. QED
  BY <1>0, <1>4, <1>5, <1>9, <1>10, <1>11, Locksmith, Phases

LEMMA LockStep ==
    ASSUME ServiceInv, NEW c \in Callers, Lock(c)
    PROVE  ServiceInv'
<1>. USE DEF ServiceInv
<1>. DEFINE r == [call[c] EXCEPT !.at = "locked"]
<1>0. /\ call[c].at = "waiting" /\ call[c] \in Calls
      /\ call[c].lock \notin held /\ held' = held \cup {call[c].lock}
      /\ call' = [call EXCEPT ![c] = r]
      /\ UNCHANGED <<setting, now, confirmer, admission, locks, service, history>>
  BY DEF Lock, Goto, Typed
<1>1. /\ r \in Calls /\ r.at = "locked" /\ r.target = call[c].target /\ r.token = call[c].token
      /\ r.before = call[c].before /\ r.lock = call[c].lock
  BY <1>0, Phases DEF Calls
<1>. HIDE DEF r
<1>2. /\ call' \in [Callers -> Calls] /\ call'[c] = r
      /\ \A d \in Callers \ {c} : call'[d] = call[d]
  BY <1>0, <1>1, Replaced
<1>3. \A d \in Callers : /\ call'[d].at \in Referencing <=> call[d].at \in Referencing
                         /\ call'[d].target = call[d].target /\ call'[d].lock = call[d].lock
                         /\ call'[d].at \in Locking <=> (call[d].at \in Locking \/ d = c)
  BY <1>0, <1>1, <1>2, Phases
<1>4. \A t : RefersTo(t)' = RefersTo(t)
  BY <1>3 DEF RefersTo
<1>5. Entries' /\ Shared'
  <2>1. Entries'
    BY <1>0, <1>4 DEF Entries
  <2>2. Shared'
    BY <1>0, <1>3 DEF Shared
  <2>. QED
    BY <2>1, <2>2
<1>6. Exclusive'
  BY <1>0, <1>3 DEF Exclusive
<1>. QED
  BY <1>0, <1>1, <1>5, <1>6, Locksmith, Phases

LEMMA ReleaseStep ==
    ASSUME ServiceInv, NEW c \in Callers, Release(c)
    PROVE  ServiceInv'
<1>. USE DEF ServiceInv
<1>. DEFINE r == [call[c] EXCEPT !.at = "unreference"]
<1>0. /\ call[c].at = "release" /\ call[c] \in Calls
      /\ held' = held \ {call[c].lock}
      /\ call' = [call EXCEPT ![c] = r]
      /\ UNCHANGED <<setting, now, confirmer, admission, locks, service, history>>
  BY DEF Release, Goto, Typed
<1>1. /\ r \in Calls /\ r.at = "unreference" /\ r.target = call[c].target /\ r.token = call[c].token
      /\ r.before = call[c].before /\ r.lock = call[c].lock
  BY <1>0, Phases DEF Calls
<1>. HIDE DEF r
<1>2. /\ call' \in [Callers -> Calls] /\ call'[c] = r
      /\ \A d \in Callers \ {c} : call'[d] = call[d]
  BY <1>0, <1>1, Replaced
<1>3. \A d \in Callers : /\ call'[d].at \in Referencing <=> call[d].at \in Referencing
                         /\ call'[d].target = call[d].target /\ call'[d].lock = call[d].lock
                         /\ call'[d].at \in Locking <=> (call[d].at \in Locking /\ d # c)
  BY <1>0, <1>1, <1>2, Phases
<1>4. \A t : RefersTo(t)' = RefersTo(t)
  BY <1>3 DEF RefersTo
<1>5. Entries' /\ Shared'
  <2>1. Entries'
    BY <1>0, <1>4 DEF Entries
  <2>2. Shared'
    BY <1>0, <1>3 DEF Shared
  <2>. QED
    BY <2>1, <2>2
<1>6. Exclusive'
  <2>1. call[c].at \in Locking
    BY <1>0, Phases
  <2>. QED
    BY <1>0, <1>3, <2>1 DEF Exclusive
<1>. QED
  BY <1>0, <1>1, <1>5, <1>6, Locksmith, Phases

LEMMA UnreferenceStep ==
    ASSUME ServiceInv, NEW c \in Callers, Unreference(c)
    PROVE  ServiceInv'
<1>. USE DEF ServiceInv
<1>. PICK t \in setting.targets : t = call[c].target
  BY Phases DEF Unreference, Carried, Carries
<1>. DEFINE r == [call[c] EXCEPT !.at = "leave"]
<1>0. /\ call[c].at = "unreference" /\ call[c] \in Calls
      /\ locks' = IF locks[t].refs = 1 THEN Restrict(locks, DOMAIN locks \ {t})
                  ELSE [locks EXCEPT ![t].refs = @ - 1]
      /\ call' = [call EXCEPT ![c] = r]
      /\ UNCHANGED <<setting, now, confirmer, admission, held, service, history>>
  BY DEF Unreference, Goto, Typed
<1>1. /\ r \in Calls /\ r.at = "leave" /\ r.target = call[c].target /\ r.token = call[c].token
      /\ r.before = call[c].before /\ r.lock = call[c].lock
  BY <1>0, Phases DEF Calls
<1>. HIDE DEF r
<1>2. /\ call' \in [Callers -> Calls] /\ call'[c] = r
      /\ \A d \in Callers \ {c} : call'[d] = call[d]
  BY <1>0, <1>1, Replaced
<1>3. \A d \in Callers : /\ call'[d].at \in Referencing <=> (call[d].at \in Referencing /\ d # c)
                         /\ call'[d].target = call[d].target /\ call'[d].lock = call[d].lock
                         /\ call'[d].at \in Locking <=> call[d].at \in Locking
  BY <1>0, <1>1, <1>2, Phases
<1>4. /\ RefersTo(t)' = RefersTo(t) \ {c} /\ c \in RefersTo(t)
      /\ \A u \in setting.targets \ {t} : RefersTo(u)' = RefersTo(u)
  BY <1>0, <1>3, Phases DEF RefersTo
<1>5. /\ Cardinality(RefersTo(t)') = Cardinality(RefersTo(t)) - 1
      /\ IsFiniteSet(RefersTo(t)') /\ Cardinality(RefersTo(t)') \in Nat
      /\ Cardinality(RefersTo(t)) \in Nat
  BY <1>4, OneLess, CallsFinite DEF RefersTo
<1>6. /\ t \in DOMAIN locks /\ locks[t].refs = Cardinality(RefersTo(t))
      /\ locks[t] \in [id : Locks, refs : Nat]
  BY <1>4 DEF Entries
\* The entry goes with the last who refers to it.
<1>7. /\ t \in DOMAIN locks' <=> RefersTo(t)' # {}
      /\ t \in DOMAIN locks' => /\ locks'[t].refs = Cardinality(RefersTo(t)')
                                /\ locks'[t].id = locks[t].id
                                /\ locks'[t] \in [id : Locks, refs : Nat]
      /\ DOMAIN locks' \subseteq DOMAIN locks /\ DOMAIN locks \subseteq DOMAIN locks' \cup {t}
      /\ \A u \in DOMAIN locks' \ {t} : locks'[u] = locks[u]
  <2>1. Cardinality(RefersTo(t)') = 0 <=> RefersTo(t)' = {}
    BY <1>5, FS_EmptySet
  <2>2. CASE locks[t].refs = 1
    <3>1. RefersTo(t)' = {}
      BY <1>5, <1>6, <2>1, <2>2
    <3>2. locks' = Restrict(locks, DOMAIN locks \ {t})
      BY <1>0, <2>2
    <3>3. DOMAIN locks' = DOMAIN locks \ {t} /\ \A u \in DOMAIN locks' : locks'[u] = locks[u]
      BY <3>2 DEF Restrict
    <3>. QED
      BY <3>1, <3>3
  <2>3. CASE locks[t].refs # 1
    <3>1. locks' = [locks EXCEPT ![t].refs = locks[t].refs - 1]
      BY <1>0, <2>3
    <3>2. DOMAIN locks' = DOMAIN locks /\ \A u \in DOMAIN locks \ {t} : locks'[u] = locks[u]
      BY <3>1
    <3>3. locks[t].refs - 1 \in Nat
      BY <1>5, <1>6
    <3>4. locks'[t] = [locks[t] EXCEPT !.refs = locks[t].refs - 1]
      BY <1>6, <3>1
    <3>5. /\ locks'[t].refs = locks[t].refs - 1 /\ locks'[t].id = locks[t].id
          /\ locks'[t] \in [id : Locks, refs : Nat]
      BY <1>6, <3>3, <3>4
    <3>6. RefersTo(t)' # {}
      BY <1>5, <1>6, <2>1, <2>3
    <3>. QED
      BY <1>5, <1>6, <3>2, <3>5, <3>6
  <2>. QED
    BY <2>2, <2>3
<1>8. Entries'
  <2>1. DOMAIN locks' \subseteq setting'.targets
    BY <1>0, <1>7 DEF Entries
  <2>2. \A u \in DOMAIN locks' : locks'[u] \in [id : Locks, refs : Nat]
    BY <1>7 DEF Entries
  <2>3. \A u \in setting.targets :
          /\ (u \in DOMAIN locks') <=> (RefersTo(u)' # {})
          /\ u \in DOMAIN locks' => locks'[u].refs = Cardinality(RefersTo(u)')
    <3>1. ASSUME NEW u \in setting.targets, u # t
          PROVE  /\ (u \in DOMAIN locks') <=> (RefersTo(u)' # {})
                 /\ u \in DOMAIN locks' => locks'[u].refs = Cardinality(RefersTo(u)')
      BY <1>4, <1>7, <3>1 DEF Entries
    <3>. QED
      BY <1>7, <3>1
  <2>. QED
    BY <1>0, <2>1, <2>2, <2>3 DEF Entries
<1>9. Shared'
  <2>1. ASSUME NEW d \in Callers, call'[d].at \in Referencing
        PROVE  call'[d].target \in DOMAIN locks' /\ call'[d].lock = locks'[call'[d].target].id
    <3>1. /\ d # c /\ call[d].at \in Referencing /\ call[d].target = call'[d].target
          /\ call[d].lock = call'[d].lock
      BY <1>3, <2>1
    <3>2. call[d].target \in DOMAIN locks /\ call[d].lock = locks[call[d].target].id
      BY <3>1 DEF Shared
    <3>3. CASE call[d].target = t
      <4>1. d \in RefersTo(t)'
        BY <1>4, <3>1, <3>3 DEF RefersTo
      <4>. QED
        BY <1>7, <3>1, <3>2, <3>3, <4>1
    <3>4. CASE call[d].target # t
      BY <1>7, <3>1, <3>2, <3>4
    <3>. QED
      BY <3>3, <3>4
  <2>2. \A u, v \in DOMAIN locks' : locks'[u].id = locks'[v].id => u = v
    BY <1>7 DEF Shared
  <2>. QED
    BY <2>1, <2>2 DEF Shared
<1>10. Exclusive'
  BY <1>0, <1>3 DEF Exclusive
<1>. QED
  BY <1>0, <1>1, <1>8, <1>9, <1>10, Locksmith, Phases

LEMMA LeaveStep ==
    ASSUME ServiceInv, NEW c \in Callers, Leave(c)
    PROVE  ServiceInv'
<1>. USE DEF ServiceInv, confirmer, history
<1>. DEFINE r == [Idle EXCEPT !.at = "over", !.target = call[c].target, !.result = call[c].result]
<1>0. /\ call[c].at = "leave" /\ call[c] \in Calls /\ call' = [call EXCEPT ![c] = r]
      /\ admission' = admission - 1
      /\ UNCHANGED <<setting, now, records, inFlight, locks, held, service, granted, uses, starters>>
  BY DEF Leave, Typed
<1>1. r \in Calls /\ r.at = "over" /\ r.before = Stopped
  <2>1. call[c].target \in Kinds \cup {"none"} /\ call[c].result \in Results
    BY <1>0 DEF Calls
  <2>. QED
    BY <2>1, OverTyped
<1>. HIDE DEF r
<1>2. /\ call' \in [Callers -> Calls] /\ call'[c] = r
      /\ \A d \in Callers \ {c} : call'[d] = call[d]
  BY <1>0, <1>1, Replaced
<1>3. \A d \in Callers :
        /\ call'[d].at \in Referencing <=> call[d].at \in Referencing
        /\ call'[d].at \in Locking <=> call[d].at \in Locking
        /\ call[d].at \in Referencing =>
              call'[d].target = call[d].target /\ call'[d].lock = call[d].lock
  BY <1>0, <1>1, <1>2, Phases
<1>4. Entries' /\ Shared' /\ Exclusive'
  BY <1>0, <1>3, LocksAside
<1>5. RunsKnown' /\ AtItsWork'
  <2>1. \A d \in Callers : call'[d].before.run \in {call[d].before.run, 0}
    BY <1>1, <1>2, IdleTyped
  <2>2. \A d \in Callers :
           call'[d].at \in {"enable", "judge", "verify", "undo", "undoing"} => call'[d] = call[d]
    BY <1>1, <1>2
  <2>. QED
    BY <1>0, <2>1, <2>2, RunsAside
<1>6. Carried'
  BY <1>0, <1>1, <1>2, Phases DEF Carried, Carries
<1>7. InAdmission' = InAdmission \ {c} /\ c \in InAdmission /\ Asking' = Asking
  BY <1>0, <1>1, <1>2, Phases DEF InAdmission, Asking
<1>8. Cardinality(InAdmission') = admission - 1 /\ Cardinality(InAdmission') \in Nat
  BY <1>7, OneLess, CallsFinite DEF Booked, InAdmission
<1>9. Booked'
  BY <1>0, <1>7, <1>8, SettingShape DEF Booked, Typed
<1>10. Confirmed'
  BY <1>0, GrantsAside
<1>11. Typed'
  BY <1>0, <1>2, <1>8 DEF Typed
<1>. QED
  BY <1>4, <1>5, <1>6, <1>9, <1>10, <1>11

-----------------------------------------------------------------------------
(* The surroundings, and the invariant. *)

\* The calls stay as they are but for their contexts.
LEMMA CancelStep ==
    ASSUME ServiceInv, NEW c \in Callers, Cancel(c)
    PROVE  ServiceInv'
<1>. USE DEF ServiceInv, confirmer, manager, history
<1>. DEFINE r == [call[c] EXCEPT !.live = FALSE]
<1>0. /\ call[c] \in Calls /\ call' = [call EXCEPT ![c] = r]
      /\ UNCHANGED <<setting, now, confirmer, manager, service, history>>
  BY DEF Cancel, Typed
<1>1. /\ r \in Calls /\ r.at = call[c].at /\ r.target = call[c].target /\ r.token = call[c].token
      /\ r.before = call[c].before /\ r.lock = call[c].lock /\ r.since = call[c].since
      /\ r.receipt = call[c].receipt /\ r.step = call[c].step
  BY <1>0 DEF Calls
<1>. HIDE DEF r
<1>2. /\ call' \in [Callers -> Calls] /\ call'[c] = r
      /\ \A d \in Callers \ {c} : call'[d] = call[d]
  BY <1>0, <1>1, Replaced
<1>3. \A d \in Callers :
        /\ call'[d].at = call[d].at /\ call'[d].target = call[d].target
        /\ call'[d].token = call[d].token /\ call'[d].before = call[d].before
        /\ call'[d].lock = call[d].lock /\ call'[d].since = call[d].since
        /\ call'[d].receipt = call[d].receipt /\ call'[d].step = call[d].step
  BY <1>1, <1>2
<1>4. Entries' /\ Shared' /\ Exclusive'
  BY <1>0, <1>3, LocksAside
<1>5. RunsKnown' /\ AtItsWork'
  BY <1>0, <1>3, RunsAside
<1>6. Carried'
  BY <1>0, <1>3 DEF Carried, Carries
<1>7. Booked' /\ Confirmed'
  BY <1>0, <1>3, BooksAside, GrantsAside
<1>8. Typed'
  BY <1>0, <1>2 DEF Typed
<1>. QED
  BY <1>4, <1>5, <1>6, <1>7, <1>8

LEMMA TickStep ==
    ASSUME ServiceInv, Tick
    PROVE  ServiceInv'
<1>. USE DEF ServiceInv, confirmer, manager, history
<1>0. /\ now' = now + 1 /\ now < MaxTime
      /\ UNCHANGED <<setting, records, inFlight, admission, locks, held, call, service,
                     granted, uses, starters>>
  BY DEF Tick
<1>1. Entries' /\ Shared' /\ Exclusive'
  BY <1>0, LocksAside
<1>2. RunsKnown' /\ AtItsWork'
  BY <1>0, RunsAside
<1>3. Carried' /\ Booked' /\ Confirmed'
  BY <1>0, BooksAside, GrantsAside DEF Carried, Carries
<1>4. Typed'
  BY <1>0, SettingShape DEF Typed
<1>. QED
  BY <1>1, <1>2, <1>3, <1>4

\* An administrator begins runs of his own; nobody's receipt names one of them.
LEMMA AdministratorStep ==
    ASSUME ServiceInv, Administrator
    PROVE  ServiceInv'
<1>. USE DEF ServiceInv, confirmer, manager
<1>0. PICK t \in setting.targets : \E s \in {service[t]} : \E u :
         /\ Effect("administrator", t, u)
         /\ \/ u = Begun(s)
            \/ u = [s EXCEPT !.run = 0]
            \/ u = [s EXCEPT !.on = Parts(t)]
            \/ u = [s EXCEPT !.on = {}]
            \/ u = [s EXCEPT !.shape = "wide"]
  BY Zenon DEF Administrator
<1>1. PICK s \in {service[t]} : \E u :
         /\ Effect("administrator", t, u)
         /\ \/ u = Begun(s)
            \/ \E on \in {Parts(t), {}} : u = [s EXCEPT !.on = on]
            \/ u = [s EXCEPT !.run = 0]
            \/ u = [s EXCEPT !.shape = "wide"]
  BY <1>0, Zenon
<1>2. /\ UNCHANGED <<setting, now, records, inFlight, admission, locks, held, call, granted, uses>>
      /\ Typed /\ Len(starters) \in Nat
  BY SettingShape DEF Administrator
<1>3. \E u : Effect("administrator", t, u) /\ Reachable(u)
  <2>1. s \in States /\ s.run <= Len(starters) /\ s.run \in Nat
    BY DEF Typed, RunsKnown, States
  <2>2. Reachable(Begun(s))
    BY <2>1, BegunReachable
  <2>3. Parts(t) \in SUBSET {"unit", "policy", "rules", "start"}
    BY DEF Parts
  <2>4. /\ Reachable([s EXCEPT !.run = 0]) /\ Reachable([s EXCEPT !.shape = "wide"])
        /\ \A on \in SUBSET {"unit", "policy", "rules", "start"} : Reachable([s EXCEPT !.on = on])
    BY <1>2, <2>1 DEF Reachable, States
  <2>5. \A on \in {Parts(t), {}} : Reachable([s EXCEPT !.on = on])
    BY <2>3, <2>4
  <2>. QED
    BY <1>1, <2>2, <2>4, <2>5, Zenon
<1>4. ServiceGoesOn
  BY <1>2, <1>3, EffectGoesOn
<1>5. Len(starters') \in Nat
  BY <1>4 DEF ServiceGoesOn, Grows
<1>6. Entries' /\ Shared' /\ Exclusive'
  BY <1>2, LocksAside
<1>7. Carried' /\ Booked' /\ Confirmed'
  BY <1>2, BooksAside, GrantsAside DEF Carried, Carries
<1>8. RunsKnown'
  <2>1. \A c \in Callers : call[c].before.run \in Nat
    BY DEF Typed, Calls, States
  <2>. QED
    BY <1>2, <1>4, <1>5, <2>1 DEF RunsKnown, ServiceGoesOn, Grows
<1>9. AtItsWork'
  BY <1>2, <1>4, <1>5 DEF AtItsWork, OwnsItsRun, InStep, ServiceGoesOn, Grows
<1>10. Typed'
  BY <1>2, <1>4 DEF Typed, ServiceGoesOn, Grows
<1>. QED
  BY <1>6, <1>7, <1>8, <1>9, <1>10

\* Nobody is served, and nothing is booked.
LEMMA Fresh ==
    ASSUME call = [c \in Callers |-> Idle], Typed,
           inFlight = 0, admission = 0, records = <<>>, locks = <<>>, held = {}
    PROVE  Carried /\ Booked /\ Entries /\ Shared /\ Exclusive /\ AtItsWork
<1>1. \A c \in Callers : call[c] = Idle /\ call[c].at = "idle"
  BY IdleTyped
<1>2. /\ \A t : RefersTo(t) = {}
      /\ Asking = {} /\ InAdmission = {}
  BY <1>1, Phases DEF RefersTo, Asking, InAdmission
<1>3. DOMAIN records = {} /\ DOMAIN locks = {}
  OBVIOUS
<1>4. Booked
  BY <1>2, <1>3, FS_EmptySet, SettingShape DEF Booked
<1>5. Entries /\ Shared /\ Exclusive
  BY <1>1, <1>2, <1>3, Phases DEF Entries, Shared, Exclusive
<1>6. Carried /\ AtItsWork
  BY <1>1, Phases DEF Carried, Carries, AtItsWork, OwnsItsRun, InStep
<1>. QED
  BY <1>4, <1>5, <1>6

LEMMA RestartStep ==
    ASSUME ServiceInv, Restart
    PROVE  ServiceInv'
<1>. USE DEF ServiceInv
<1>1. /\ call' = [c \in Callers |-> Idle]
      /\ inFlight' = 0 /\ admission' = 0 /\ records' = <<>> /\ locks' = <<>> /\ held' = {}
      /\ UNCHANGED <<setting, now, service, granted, uses, starters>>
  BY DEF Restart
<1>2. Typed'
  BY <1>1, IdleTyped DEF Typed
<1>3. Carried' /\ Booked' /\ Entries' /\ Shared' /\ Exclusive' /\ AtItsWork'
  <2>1. \A c \in Callers : call'[c] = Idle /\ call'[c].at = "idle"
    BY <1>1, IdleTyped
  <2>2. /\ \A t : RefersTo(t)' = {}
        /\ Asking' = {} /\ InAdmission' = {}
    BY <2>1, Phases DEF RefersTo, Asking, InAdmission
  <2>3. DOMAIN records' = {} /\ DOMAIN locks' = {}
    BY <1>1
  <2>4. Booked'
    BY <1>1, <2>2, <2>3, FS_EmptySet, SettingShape DEF Booked
  <2>5. Entries' /\ Shared' /\ Exclusive'
    BY <1>1, <2>1, <2>2, <2>3, Phases DEF Entries, Shared, Exclusive
  <2>6. Carried' /\ AtItsWork'
    BY <2>1, Phases DEF Carried, Carries, AtItsWork, OwnsItsRun, InStep
  <2>. QED
    BY <2>4, <2>5, <2>6
<1>4. RunsKnown'
  BY <1>1, IdleTyped, SettingShape DEF RunsKnown
<1>5. Confirmed'
  <2>1. DOMAIN records' = {}
    BY <1>1
  <2>2. Len(granted) + 0 <= setting.tokens
    BY SettingShape DEF Confirmed, Typed
  <2>. QED
    BY <1>1, <2>1, <2>2 DEF Confirmed
<1>. QED
  BY <1>2, <1>3, <1>4, <1>5

LEMMA InitInv == Init => ServiceInv
<1>. SUFFICES ASSUME Init
              PROVE  ServiceInv
  OBVIOUS
<1>1. /\ call = [c \in Callers |-> Idle]
      /\ now = 0 /\ inFlight = 0 /\ admission = 0 /\ records = <<>> /\ locks = <<>> /\ held = {}
      /\ granted = <<>> /\ starters = <<>> /\ uses = [k \in Tokens |-> 0]
      /\ setting \in Settings
  BY DEF Init
<1>2. service \in [setting.targets -> States] /\ \A t \in setting.targets : service[t].run = 0
  <2>1. PICK shape \in {"mesh", "wide"}, on \in {{}, {"unit", "start", "rules"}, {"unit", "start"}} :
          service = [t \in setting.targets |->
                      [run |-> 0, on |-> on \cap Parts(t), shape |-> IF t = "rdp" THEN shape ELSE "mesh"]]
    BY DEF Init
  <2>2. \A t : on \cap Parts(t) \in SUBSET {"unit", "policy", "rules", "start"}
    BY DEF Parts
  <2>. QED
    BY <2>1, <2>2 DEF States
<1>3. Typed
  <2>1. call \in [Callers -> Calls]
    BY <1>1, IdleTyped
  <2>2. granted \in Seq(Confirmation) /\ starters \in Seq(Callers \cup {"administrator"})
    BY <1>1
  <2>3. now \in 0..MaxTime
    BY <1>1, CapacityAssumption
  <2>. QED
    BY <1>1, <1>2, <2>1, <2>2, <2>3 DEF Typed
<1>4. RunsKnown
  BY <1>1, <1>2, IdleTyped DEF RunsKnown
<1>5. Confirmed
  <2>1. DOMAIN records = {} /\ Len(granted) = 0
    BY <1>1
  <2>. QED
    BY <1>1, <1>3, <2>1, SettingShape DEF Confirmed
<1>. QED
  BY <1>1, <1>3, <1>4, <1>5, Fresh DEF ServiceInv

LEMMA NextInv == ServiceInv /\ [Next]_vars => ServiceInv'
<1>. SUFFICES ASSUME ServiceInv, [Next]_vars
              PROVE  ServiceInv'
  OBVIOUS
<1>1. ASSUME NEW c \in Callers, Step(c) PROVE ServiceInv'
  BY <1>1, ApproveStep, DenyStep, ValidateStep, ReferenceStep, ConsumeStep, CheckStep,
     EnableStepStep, AfterStep, StartFixedStep, StartAtomicStep, JudgeStep, RollbackStep,
     ReleaseStep, UnreferenceStep, LeaveStep DEF Step
<1>2. ASSUME NEW c \in Callers, Lock(c) \/ Confirm(c) \/ Admit(c) \/ Cancel(c) PROVE ServiceInv'
  BY <1>2, LockStep, ConfirmStep, AdmitStep, CancelStep
<1>3. CASE Tick \/ Administrator \/ Restart
  BY <1>3, TickStep, AdministratorStep, RestartStep
<1>4. CASE UNCHANGED vars
  <2>1. UNCHANGED <<setting, now, records, inFlight, admission, locks, held, call, service,
                    granted, uses, starters>>
    BY <1>4 DEF vars, confirmer, manager, history
  <2>2. Entries' /\ Shared' /\ Exclusive'
    BY <2>1, LocksAside DEF ServiceInv
  <2>3. RunsKnown' /\ AtItsWork'
    BY <2>1, RunsAside DEF ServiceInv
  <2>4. Carried' /\ Booked' /\ Confirmed'
    BY <2>1, BooksAside, GrantsAside DEF ServiceInv, Carried, Carries
  <2>5. Typed'
    BY <2>1 DEF ServiceInv, Typed
  <2>. QED
    BY <2>2, <2>3, <2>4, <2>5 DEF ServiceInv
<1>. QED
  BY <1>1, <1>2, <1>3, <1>4 DEF Next

LEMMA Invariance == Spec => []ServiceInv
BY InitInv, NextInv, PTL DEF Spec

LEMMA Sound == ServiceInv => ManagerSound
<1>. SUFFICES ASSUME ServiceInv
              PROVE  ManagerSound
  OBVIOUS
<1>. USE DEF ServiceInv
<1>1. TypeOK
  <2>1. 1..Len(granted) \subseteq Tokens
    BY SettingShape DEF Confirmed, Typed, Tokens
  <2>2. inFlight \in 0..MaxConfirmations
    BY RecordsFinite, SettingShape DEF Booked, Typed
  <2>3. held \subseteq Locks
    BY Phases DEF Exclusive, Shared, Entries
  <2>4. \A k \in DOMAIN records : records[k].target \in setting.targets /\ records[k].used \in BOOLEAN
    BY DEF Confirmed, Tells, Record
  <2>5. \A c \in Callers : call[c].at \in Admitted \cup {"idle", "ask", "granted", "over"}
    BY DEF Typed, Calls, Places
  <2>. QED
    BY <2>1, <2>2, <2>3, <2>4, <2>5 DEF TypeOK, Typed, RunsKnown, Confirmed, Entries
<1>2. Accounted
  <2>1. \A t \in setting.targets :
           /\ (t \in DOMAIN locks) = (RefersTo(t) # {})
           /\ RefersTo(t) # {} => locks[t].refs = Cardinality(RefersTo(t))
    BY DEF Entries
  <2>. QED
    BY <2>1 DEF Accounted, Booked, RefersTo, Asking, InAdmission
<1>3. Licensed
  BY DEF Licensed, Confirmed, Carried, Carries
<1>4. OneAtATime
  <2>. SUFFICES ASSUME NEW c \in Callers, NEW d \in Callers, c # d,
                       call[c].at \in Locking, call[d].at \in Locking,
                       call[c].target = call[d].target
                PROVE  FALSE
    BY DEF OneAtATime
  <2>1. call[c].lock = locks[call[c].target].id /\ call[d].lock = locks[call[d].target].id
    BY Phases DEF Shared
  <2>. QED
    BY <2>1 DEF Exclusive
<1>. QED
  BY <1>1, <1>2, <1>3, <1>4 DEF ManagerSound

-----------------------------------------------------------------------------
(* Theorems. *)

\* The manager and its confirmer, whatever is denied, canceled, expired, failed,
\* restarted or replayed (Manager.EnsureRunning, Confirmer.Confirm): reservations,
\* admissions and lock entries are given back exactly once and their capacities
\* hold, a local confirmation is consumed by one transaction on its own target that
\* begins before it expires, and a target has one transaction at a time although
\* its lock object is made and dropped as callers come and go.
THEOREM ManagerIsSound == Spec => []ManagerSound
BY Invariance, Sound, PTL

\* A call that is rolling back is moved by its own step, or by a restart, which
\* leaves the service alone.
LEMMA LeavesUndoing ==
    ASSUME Typed, Next, NEW c \in Callers, call[c].at = "undoing", call'[c].at # "undoing"
    PROVE  RollbackAtomic(c) \/ UNCHANGED service
<1>1. ASSUME NEW d \in Callers, d # c, Step(d) \/ Lock(d) \/ Confirm(d) \/ Admit(d) \/ Cancel(d)
      PROVE  FALSE
  <2>1. call'[c] = call[c]
    <3>1. CASE Approve(d) \/ Deny(d) \/ Validate(d) \/ Reference(d) \/ GiveUp(d) \/ Consume(d)
      BY <1>1, <3>1 DEF Typed, Approve, Deny, Validate, Reference, GiveUp, Consume, Goto, EndsWith
    <3>2. CASE Capture(d) \/ Health(d) \/ Inspect(d) \/ Guard(d) \/ Again(d)
      BY <1>1, <3>2 DEF Typed, Capture, Health, Inspect, Guard, Again, Goto, EndsWith
    <3>3. CASE EnableStep(d) \/ AfterEnable(d) \/ StartFixed(d) \/ AfterStart(d) \/ StartAtomic(d)
      BY <1>1, <3>3 DEF Typed, EnableStep, AfterEnable, StartFixed, AfterStart, StartAtomic,
                        Runs, Receives, Goto
    <3>4. CASE Judge(d) \/ Verify(d) \/ Undo(d) \/ RollbackAtomic(d) \/ Restored(d)
      BY <1>1, <3>4 DEF Typed, Judge, Verify, Undo, RollbackAtomic, Restored, FailWith, Goto, EndsWith
    <3>5. CASE Release(d) \/ Unreference(d) \/ Leave(d) \/ Lock(d) \/ Confirm(d) \/ Admit(d) \/ Cancel(d)
      BY <1>1, <3>5 DEF Typed, Release, Unreference, Leave, Lock, Confirm, Admit, Cancel, Goto
    <3>. QED
      BY <1>1, <3>1, <3>2, <3>3, <3>4, <3>5 DEF Step
  <2>. QED
    BY <2>1
<1>2. ASSUME Step(c) PROVE RollbackAtomic(c)
  BY <1>2 DEF Step, Approve, Deny, Validate, Reference, GiveUp, Consume, Capture, Health, Inspect,
              Guard, Again, EnableStep, AfterEnable, StartFixed, AfterStart, StartAtomic, Judge,
              Verify, Undo, Restored, Release, Unreference, Leave
<1>3. ~Lock(c) /\ ~Confirm(c) /\ ~Admit(c)
  BY DEF Lock, Confirm, Admit
<1>4. Cancel(c) \/ Tick \/ Restart => UNCHANGED service
  BY DEF Cancel, Tick, Restart
<1>5. ~Administrator
  BY DEF Administrator
<1>. QED
  BY <1>1, <1>2, <1>3, <1>4, <1>5 DEF Next

\* SystemBackend.Rollback stops a service only in the run that this transaction
\* began: not one an administrator began while the request was verified or rolled
\* back, nor one that was there before.
THEOREM RollbackStopsItsOwn == Spec => StopsOnlyItsOwn
<1>1. ServiceInv /\ [Next]_vars =>
        [\A c \in Callers : call[c].at = "undoing" /\ call'[c].at # "undoing" =>
          LET t == call[c].target IN
          service[t].run # 0 /\ service'[t].run # service[t].run => starters[service[t].run] = c]_vars
  <2>. SUFFICES ASSUME ServiceInv, Next, NEW c \in Callers,
                       call[c].at = "undoing", call'[c].at # "undoing",
                       service'[call[c].target].run # service[call[c].target].run
                PROVE  starters[service[call[c].target].run] = c
    OBVIOUS
  <2>. DEFINE t == call[c].target
  <2>1. RollbackAtomic(c)
    BY LeavesUndoing DEF ServiceInv
  <2>2. t \in setting.targets /\ OwnsItsRun(c)
    BY AtWork, Phases
  <2>3. service[t] = call[c].receipt.after /\ service' = [service EXCEPT ![t] = call[c].before]
    BY <2>1 DEF RollbackAtomic, Effect, Seen
  <2>4. service'[t].run = call[c].before.run
    BY <2>2, <2>3 DEF ServiceInv, Typed
  <2>. QED
    BY <2>2, <2>3, <2>4 DEF OwnsItsRun
<1>. QED
  BY <1>1, Invariance, PTL DEF Spec, StopsOnlyItsOwn

-----------------------------------------------------------------------------
(* What is left behind. *)

\* Before its first command a call has switched nothing on.
Untouched == {"idle", "ask", "granted", "admitted", "validated", "waiting", "locked", "capture",
              "health", "inspect", "guard", "preflight", "again", "atomic"}

\* What a call counts as its own is on; its rules admit the mesh alone; its run is
\* not the one that it found.
Holds(c) ==
    mine[c] # {} =>
       /\ call[c].target \in setting.targets
       /\ mine[c] \subseteq Seen(c).on \cup {"run"}
       /\ "rules" \in mine[c] => Seen(c).shape = "mesh"
       /\ call[c].at \in Inside /\ "run" \in mine[c] => Seen(c).run # call[c].before.run

\* An owned receipt is of a start: everything that was on still was, and a run
\* that was there went on.
Starts(c) ==
    call[c].at \in {"judge", "verify", "undo", "undoing"} /\ call[c].receipt.kind = "owned" =>
       /\ call[c].before.on \subseteq call[c].receipt.after.on
       /\ call[c].before.run > 0 => call[c].receipt.after.run = call[c].before.run

\* Who has no receipt, has restored what was, or has promised it, has left nothing.
Clean(c) ==
    \/ call[c].at \in {"judge", "verify"} /\ call[c].receipt.kind = "none"
    \/ call[c].at = "restored"
    \/ /\ call[c].at \in {"release", "unreference", "leave"}
       /\ call[c].result \in {"failed", "rolled_back"}
    => mine[c] \subseteq call[c].before.on

\* Without faults and an administrator the service stays what the receipt says.
Alone(c) ==
    setting.faults = {} /\ "admin" \notin setting.ops =>
       /\ call[c].at \in {"judge", "verify", "undo", "undoing"} /\ call[c].receipt.kind = "owned" =>
             Seen(c) = call[c].receipt.after
       /\ call[c].at = "restored" => Seen(c) = call[c].before
       /\ call[c].result # "rollback_failed"

Left(c) ==
    /\ call[c].at \in Untouched => mine[c] = {}
    /\ Holds(c) /\ Starts(c) /\ Clean(c) /\ Alone(c)

LeftInv == DOMAIN mine = Callers /\ \A c \in Callers : Left(c)

\* Nothing but this call changed.
LEMMA OnlyThis ==
    ASSUME LeftInv, NEW c \in Callers, UNCHANGED <<setting, service, mine>>,
           \A d \in Callers \ {c} : call'[d] = call[d], Left(c)'
    PROVE  LeftInv'
<1>1. ASSUME NEW d \in Callers, call'[d] = call[d] PROVE Left(d)'
  BY <1>1 DEF LeftInv, Left, Holds, Starts, Clean, Alone, Seen
<1>. QED
  BY <1>1 DEF LeftInv

\* A call that has switched nothing on goes somewhere without a receipt.
LEMMA NothingDone ==
    ASSUME Typed, LeftInv, NEW c \in Callers, UNCHANGED <<setting, service, mine>>,
           \A d \in Callers \ {c} : call'[d] = call[d],
           call[c].at \in Untouched,
           call'[c].at \notin {"judge", "verify", "undo", "undoing", "restored"},
           call'[c].result \in {call[c].result, "failed", "already_running", "none"}
    PROVE  LeftInv'
<1>1. mine'[c] = {}
  BY DEF LeftInv, Left
<1>2. Holds(c)' /\ Starts(c)' /\ Clean(c)'
  BY <1>1 DEF Holds, Starts, Clean
<1>3. Alone(c)'
  BY DEF LeftInv, Left, Alone
<1>. QED
  BY <1>1, <1>2, <1>3, OnlyThis DEF Left

LEMMA EarlyLeft ==
    ASSUME ServiceInv, LeftInv, NEW c \in Callers,
           \/ Approve(c) \/ Deny(c) \/ Validate(c) \/ Reference(c) \/ GiveUp(c) \/ Lock(c) \/ Consume(c)
           \/ Capture(c) \/ Health(c) \/ Inspect(c) \/ Guard(c) \/ Again(c)
    PROVE  LeftInv'
<1>0. call \in [Callers -> Calls] /\ call[c] \in Calls
  BY DEF ServiceInv, Typed
<1>. USE <1>0, NothingDone DEF ServiceInv, Calls, Untouched, Goto, EndsWith, history, CallOnly
<1>1. CASE Approve(c) \/ Deny(c)
  <2>1. call[c].at = "ask" /\ UNCHANGED <<setting, service, mine>>
    BY <1>1 DEF Approve, Deny
  <2>2. \/ call' = [call EXCEPT ![c] = Idle]
        \/ \E k : call' = [call EXCEPT ![c].at = "granted", ![c].token = k]
    BY <1>1 DEF Approve, Deny
  <2>. QED
    BY <2>1, <2>2, IdleTyped DEF Idle
<1>2. CASE Validate(c) \/ GiveUp(c) \/ Lock(c) \/ Consume(c)
  BY <1>2 DEF Validate, GiveUp, Lock, Consume
<1>3. CASE Reference(c)
  BY <1>3 DEF Reference
<1>4. CASE Capture(c) \/ Health(c)
  BY <1>4 DEF Capture, Health
<1>5. CASE Inspect(c) \/ Again(c)
  BY <1>5 DEF Inspect, Again
<1>6. CASE Guard(c)
  BY <1>6 DEF Guard
<1>. QED
  BY <1>1, <1>2, <1>3, <1>4, <1>5, <1>6

\* An inspection after the commands: no receipt only when everything is as before.
LEMMA AfterLeft ==
    ASSUME ServiceInv, LeftInv, NEW c \in Callers, AfterEnable(c) \/ AfterStart(c)
    PROVE  LeftInv'
<1>0. /\ call \in [Callers -> Calls] /\ call[c] \in Calls /\ call[c].at \in Inside /\ CallOnly
  BY Phases DEF ServiceInv, Typed, AfterEnable, AfterStart
<1>1. \/ call' = [call EXCEPT ![c].at = "start"]
      \/ \E r \in {Uncertain, Observed(Seen(c)), Classified(call[c].before, Seen(c))}, failed \in BOOLEAN :
            Receives(c, r, failed)
  BY DEF AfterEnable, AfterStart, Goto
<1>2. Left(c)
  BY DEF LeftInv
<1>3. UNCHANGED <<setting, service, mine>>
  BY <1>0 DEF CallOnly, history
<1>4. CASE call' = [call EXCEPT ![c].at = "start"]
  <2>1. /\ \A d \in Callers \ {c} : call'[d] = call[d]
        /\ call'[c].at = "start" /\ call'[c].target = call[c].target
        /\ call'[c].before = call[c].before /\ call'[c].result = call[c].result
    BY <1>0, <1>4 DEF Calls
  <2>2. Left(c)'
    BY <1>0, <1>2, <1>3, <2>1 DEF Left, Holds, Starts, Clean, Alone, Seen, Untouched
  <2>. QED
    BY <1>3, <2>1, <2>2, OnlyThis
<1>5. ASSUME NEW r \in {Uncertain, Observed(Seen(c)), Classified(call[c].before, Seen(c))},
             NEW failed \in BOOLEAN, Receives(c, r, failed)
      PROVE  LeftInv'
  <2>1. /\ \A d \in Callers \ {c} : call'[d] = call[d]
        /\ call'[c].at = "judge" /\ call'[c].target = call[c].target /\ call'[c].receipt = r
        /\ call'[c].before = call[c].before /\ call'[c].result = call[c].result
    BY <1>0, <1>5 DEF Calls, Receives
  <2>2. r.kind # "owned" /\ (r.kind = "none" => Seen(c) = call[c].before)
    BY DEF Uncertain, Observed, Classified, NoReceipt
  <2>3. Holds(c)'
    BY <1>0, <1>2, <1>3, <2>1 DEF Left, Holds, Seen
  <2>4. Clean(c)'
    BY <1>0, <1>2, <1>3, <2>1, <2>2 DEF Left, Holds, Clean
  <2>5. Starts(c)' /\ Alone(c)'
    BY <1>2, <1>3, <2>1, <2>2 DEF Left, Starts, Alone
  <2>6. Left(c)'
    BY <2>1, <2>3, <2>4, <2>5 DEF Left, Untouched
  <2>. QED
    BY <1>3, <2>1, <2>6, OnlyThis
<1>. QED
  BY <1>1, <1>4, <1>5

\* The judgement promises only what is so.
LEMMA JudgeLeft ==
    ASSUME ServiceInv, LeftInv, NEW c \in Callers,
           Judge(c) \/ Verify(c) \/ Undo(c) \/ Restored(c)
    PROVE  LeftInv'
<1>0. /\ call \in [Callers -> Calls] /\ call[c] \in Calls /\ call[c].at \in Inside /\ CallOnly
      /\ call[c].receipt \in Receipts /\ OwnsItsRun(c)
  BY Phases, AtWork DEF ServiceInv, Typed, Judge, Verify, Undo, Restored
<1>1. UNCHANGED <<setting, service, mine>> /\ Left(c)
  BY <1>0 DEF CallOnly, history, LeftInv
<1>2. ASSUME NEW at, Goto(c, at)
      PROVE  /\ \A d \in Callers \ {c} : call'[d] = call[d]
             /\ call'[c].at = at /\ call'[c].target = call[c].target /\ call'[c].receipt = call[c].receipt
             /\ call'[c].before = call[c].before /\ call'[c].result = call[c].result
  BY <1>0, <1>2 DEF Calls, Goto
<1>3. ASSUME NEW result, EndsWith(c, "release", result)
      PROVE  /\ \A d \in Callers \ {c} : call'[d] = call[d]
             /\ call'[c].at = "release" /\ call'[c].target = call[c].target
             /\ call'[c].before = call[c].before /\ call'[c].result = result
  BY <1>0, <1>3 DEF Calls, EndsWith
<1>4. ASSUME NEW result, EndsWith(c, "release", result),
             result \in {"failed", "rolled_back"} => Clean(c) /\ mine[c] \subseteq call[c].before.on,
             result = "rollback_failed" => ~(setting.faults = {} /\ "admin" \notin setting.ops)
      PROVE  LeftInv'
  <2>1. Left(c)'
    BY <1>0, <1>1, <1>3, <1>4 DEF Left, Holds, Starts, Clean, Alone, Seen, Untouched
  <2>. QED
    BY <1>1, <1>3, <1>4, <2>1, OnlyThis
<1>5. ASSUME NEW at \in {"verify", "undo", "undoing"}, Goto(c, at), call[c].at \in {"judge", "verify", "undo"},
             at = "verify" => call[c].at = "judge"
      PROVE  LeftInv'
  <2>1. Left(c)'
    BY <1>0, <1>1, <1>2, <1>5 DEF Left, Holds, Starts, Clean, Alone, Seen, Untouched
  <2>. QED
    BY <1>1, <1>2, <1>5, <2>1, OnlyThis
<1>6. CASE Judge(c) \/ Verify(c)
  <2>1. \/ Goto(c, "verify") /\ call[c].at = "judge"
        \/ Goto(c, "undo") /\ call[c].at \in {"judge", "verify"}
        \/ EndsWith(c, "release", "started") \/ EndsWith(c, "release", "manual_cleanup")
        \/ /\ EndsWith(c, "release", "failed") /\ call[c].receipt.kind = "none"
           /\ call[c].at \in {"judge", "verify"}
    BY <1>6 DEF Judge, Verify, FailWith, Changed
  <2>. QED
    BY <1>1, <1>4, <1>5, <2>1 DEF Left, Clean
<1>7. CASE Undo(c)
  <2>1. call[c].at = "undo" /\ call[c].receipt.kind = "owned"
    BY <1>0, <1>7 DEF Undo, OwnsItsRun
  <2>2. setting.faults = {} /\ "admin" \notin setting.ops => AuthorizesRollback(call[c].receipt, Seen(c))
    BY <1>1, <2>1 DEF Left, Alone, AuthorizesRollback, RollbackAuthorized
  <2>. QED
    BY <1>4, <1>5, <1>7, <2>1, <2>2 DEF Undo
<1>8. CASE Restored(c)
  <2>1. setting.faults = {} /\ "admin" \notin setting.ops => State(call[c].target, Seen(c)) = Before(c)
    BY <1>1, <1>8 DEF Restored, Left, Alone, Before
  <2>. QED
    BY <1>1, <1>4, <1>8, <2>1 DEF Restored, Left, Clean
<1>. QED
  BY <1>6, <1>7, <1>8

\* Giving back the lock, its entry and the admission.
LEMMA LeavingLeft ==
    ASSUME ServiceInv, LeftInv, NEW c \in Callers, Release(c) \/ Unreference(c) \/ Leave(c)
    PROVE  LeftInv'
<1>0. call \in [Callers -> Calls] /\ call[c] \in Calls /\ Left(c)
  BY DEF ServiceInv, Typed, LeftInv
<1>1. UNCHANGED <<setting, service, mine>> /\ \A d \in Callers \ {c} : call'[d] = call[d]
  BY <1>0 DEF Release, Unreference, Leave, history, Goto
<1>2. CASE Release(c) \/ Unreference(c)
  <2>1. /\ call[c].at \in {"release", "unreference"} /\ call'[c].at \in {"unreference", "leave"}
        /\ call'[c].target = call[c].target
        /\ call'[c].before = call[c].before /\ call'[c].result = call[c].result
    BY <1>0, <1>2 DEF Release, Unreference, Goto, Calls
  <2>2. Left(c)'
    BY <1>0, <1>1, <2>1, Phases DEF Left, Holds, Starts, Clean, Alone, Seen, Untouched, Inside
  <2>. QED
    BY <1>1, <2>2, OnlyThis
<1>3. CASE Leave(c)
  <2>1. /\ call[c].at = "leave" /\ call'[c].at = "over"
        /\ call'[c].target = call[c].target /\ call'[c].result = call[c].result
    BY <1>0, <1>3 DEF Leave, Idle, Calls
  <2>2. Left(c)'
    BY <1>0, <1>1, <2>1, Phases DEF Left, Holds, Starts, Clean, Alone, Seen, Untouched, Inside
  <2>. QED
    BY <1>1, <2>2, OnlyThis
<1>. QED
  BY <1>2, <1>3

\* A new question, and a new transaction, have switched nothing on.
LEMMA Beginnings ==
    /\ Idle.at = "idle" /\ Idle.result = "none"
    /\ \A t : LET r == [Idle EXCEPT !.at = "ask", !.target = t] IN r.at = "ask" /\ r.result = "none"
    /\ \A t, k : LET r == [Idle EXCEPT !.at = "admitted", !.target = t, !.token = k]
                IN  r.at = "admitted" /\ r.result = "none"
BY DEF Idle

LEMMA BeginningLeft ==
    ASSUME ServiceInv, LeftInv, NEW c \in Callers, Confirm(c) \/ Admit(c)
    PROVE  LeftInv'
<1>. DEFINE Begins == /\ \A d \in Callers \ {c} : call'[d] = call[d]
                      /\ call'[c].at \in {"idle", "ask", "admitted"} /\ call'[c].result = "none"
<1>0. call \in [Callers -> Calls]
  BY DEF ServiceInv, Typed
<1>1. UNCHANGED <<setting, service>> /\ mine' = [mine EXCEPT ![c] = {}]
  BY DEF Confirm, Admit
<1>2. Begins
  <2>1. \/ call' = [call EXCEPT ![c] = Idle]
        \/ \E t : call' = [call EXCEPT ![c] = [Idle EXCEPT !.at = "ask", !.target = t]]
        \/ \E t, k : call' = [call EXCEPT ![c] =
                                 [Idle EXCEPT !.at = "admitted", !.target = t, !.token = k]]
    BY Zenon DEF Confirm, Admit
  <2>2. CASE call' = [call EXCEPT ![c] = Idle]
    BY <1>0, <2>2, Beginnings
  <2>3. ASSUME NEW t, call' = [call EXCEPT ![c] = [Idle EXCEPT !.at = "ask", !.target = t]]
        PROVE  Begins
    <3>. DEFINE r == [Idle EXCEPT !.at = "ask", !.target = t]
    <3>1. r.at = "ask" /\ r.result = "none" /\ call' = [call EXCEPT ![c] = r]
      BY <2>3, Beginnings
    <3>. HIDE DEF r
    <3>. QED
      BY <1>0, <3>1
  <2>4. ASSUME NEW t, NEW k,
               call' = [call EXCEPT ![c] = [Idle EXCEPT !.at = "admitted", !.target = t, !.token = k]]
        PROVE  Begins
    <3>. DEFINE r == [Idle EXCEPT !.at = "admitted", !.target = t, !.token = k]
    <3>1. r.at = "admitted" /\ r.result = "none" /\ call' = [call EXCEPT ![c] = r]
      BY <2>4, Beginnings
    <3>. HIDE DEF r
    <3>. QED
      BY <1>0, <3>1
  <2>. HIDE DEF Begins
  <2>. QED
    BY <2>1, <2>2, <2>3, <2>4
<1>3. /\ \A d \in Callers \ {c} : call'[d] = call[d] /\ mine'[d] = mine[d]
      /\ mine'[c] = {} /\ DOMAIN mine' = Callers
      /\ call'[c].at \in {"idle", "ask", "admitted"} /\ call'[c].result = "none"
  BY <1>0, <1>1, <1>2 DEF LeftInv
<1>4. Left(c)'
  BY <1>3 DEF Left, Holds, Starts, Clean, Alone
<1>5. ASSUME NEW d \in Callers \ {c} PROVE Left(d)'
  BY <1>1, <1>3 DEF LeftInv, Left, Holds, Starts, Clean, Alone, Seen
<1>. QED
  BY <1>3, <1>4, <1>5 DEF LeftInv

-----------------------------------------------------------------------------
(* What a command leaves. *)

Gained(s, u) == (u.on \ s.on) \cup (IF u.run # s.run /\ u.run > 0 THEN {"run"} ELSE {})
Lost(s, u) ==
    (s.on \ u.on) \cup (IF u.run # s.run THEN {"run"} ELSE {})
    \cup (IF u.shape # s.shape THEN {"rules"} ELSE {})

\* The calls that did not give the command only lose.
LEMMA OthersLeft ==
    ASSUME ServiceInv, LeftInv, UNCHANGED setting,
           NEW who, NEW t \in setting.targets, NEW u, Effect(who, t, u),
           NEW d \in Callers, d # who, call'[d] = call[d], Alone(d)'
    PROVE  Left(d)'
<1>. DEFINE s == service[t]
            lost == Lost(s, u)
<1>1. /\ \A v \in setting.targets : service'[v] = IF v = t THEN u ELSE service[v]
      /\ call[d].at = "idle" \/ call[d].target # t => mine'[d] = mine[d]
      /\ call[d].at # "idle" /\ call[d].target = t => mine'[d] = mine[d] \ lost
  BY DEF Effect, Lost, ServiceInv, Typed
<1>2. Left(d)
  BY DEF LeftInv
<1>3. mine'[d] \subseteq mine[d]
  BY <1>1
<1>4. call[d].at \in Untouched => mine'[d] = {}
  BY <1>2, <1>3 DEF Left
<1>5. Starts(d)' /\ Clean(d)'
  BY <1>2, <1>3 DEF Left, Starts, Clean
<1>6. Holds(d)'
  <2>. SUFFICES ASSUME mine'[d] # {} PROVE Holds(d)'
    BY DEF Holds
  <2>1. /\ mine[d] # {} /\ call[d].target \in setting.targets /\ call[d].at # "idle" /\ Holds(d)
    BY <1>2, <1>3 DEF Left, Holds, Untouched
  <2>2. CASE call[d].target = t
    <3>1. mine'[d] = mine[d] \ lost /\ Seen(d)' = u /\ Seen(d) = s
      BY <1>1, <2>1, <2>2 DEF Seen
    <3>2. "run" \in mine'[d] => u.run = s.run
      BY <3>1 DEF Lost
    <3>3. "rules" \in mine'[d] => u.shape = s.shape
      BY <3>1 DEF Lost
    <3>4. mine'[d] \subseteq u.on \cup {"run"}
      BY <2>1, <3>1 DEF Holds, Lost
    <3>. HIDE DEF s, lost
    <3>. QED
      BY <1>3, <2>1, <3>1, <3>2, <3>3, <3>4 DEF Holds
  <2>3. CASE call[d].target # t
    <3>1. mine'[d] = mine[d] /\ Seen(d)' = Seen(d)
      BY <1>1, <2>1, <2>3 DEF Seen
    <3>. QED
      BY <2>1, <3>1 DEF Holds
  <2>. QED
    BY <2>2, <2>3
<1>. QED
  BY <1>4, <1>5, <1>6 DEF Left

\* The call that gave it gains what was not on, and new rules are the mesh's.
LEMMA OwnLeft ==
    ASSUME ServiceInv, LeftInv, UNCHANGED setting,
           NEW c \in Callers, call[c].at \in Inside,
           NEW u \in States, Effect(c, call[c].target, u),
           "rules" \in u.on \ Seen(c).on => u.shape = "mesh",
           u.run # Seen(c).run /\ u.run > 0 => u.run # call[c].before.run,
           call'[c].target = call[c].target, call'[c].before = call[c].before
    PROVE  Holds(c)'
<1>. DEFINE t == call[c].target
            s == Seen(c)
            gained == Gained(s, u)
            lost == Lost(s, u)
<1>1. t \in setting.targets /\ call[c].at # "idle"
  BY AtWork, Phases DEF Inside
<1>2. mine'[c] = (mine[c] \ lost) \cup gained /\ Seen(c)' = u
  BY <1>1 DEF Effect, Gained, Lost, Seen, ServiceInv, Typed
<1>3. Holds(c)
  BY DEF LeftInv, Left
<1>4. mine'[c] \subseteq u.on \cup {"run"}
  BY <1>2, <1>3 DEF Holds, Gained, Lost
<1>5. "rules" \in mine'[c] => u.shape = "mesh"
  <2>1. CASE "rules" \in gained
    BY <2>1 DEF Gained
  <2>2. CASE "rules" \in mine[c] \ lost
    BY <1>3, <2>2 DEF Holds, Lost
  <2>. QED
    BY <1>2, <2>1, <2>2
<1>6. "run" \in mine'[c] => u.run # call[c].before.run
  <2>0. "run" \notin u.on
    BY DEF States
  <2>1. CASE "run" \in gained
    BY <2>0, <2>1 DEF Gained
  <2>2. CASE "run" \in mine[c] \ lost
    BY <1>3, <2>2 DEF Holds, Lost
  <2>. QED
    BY <1>2, <2>1, <2>2
<1>. QED
  BY <1>1, <1>2, <1>4, <1>5, <1>6 DEF Holds

\* A change to one target leaves the others' receipts true.
LEMMA OthersAlone ==
    ASSUME ServiceInv, LeftInv, UNCHANGED setting,
           NEW c \in Callers, call[c].at \in Inside, NEW u, Effect(c, call[c].target, u),
           NEW d \in Callers, d # c, call'[d] = call[d]
    PROVE  Alone(d)'
<1>1. Alone(d)
  BY DEF LeftInv, Left
<1>2. CASE call[d].at \in Inside
  <2>1. call[d].target # call[c].target /\ call[d].target \in setting.targets
    BY <1>2, Sound, AtWork, Phases DEF ManagerSound, OneAtATime
  <2>2. Seen(d)' = Seen(d)
    BY <2>1 DEF Effect, Seen, ServiceInv, Typed
  <2>. QED
    BY <1>1, <2>2 DEF Alone
<1>3. CASE call[d].at \notin Inside
  BY <1>1, <1>3 DEF Alone, Inside
<1>. QED
  BY <1>2, <1>3

\* A command leaves everybody else as they may be.
LEMMA CommandLeft ==
    ASSUME ServiceInv, LeftInv, UNCHANGED setting,
           NEW c \in Callers, call[c].at \in Inside, NEW u, Effect(c, call[c].target, u),
           \A d \in Callers \ {c} : call'[d] = call[d], Left(c)'
    PROVE  LeftInv'
<1>1. DOMAIN mine' = Callers
  BY DEF Effect
<1>2. ASSUME NEW d \in Callers, d # c PROVE Left(d)'
  <2>1. call[c].target \in setting.targets
    BY AtWork
  <2>2. Alone(d)' /\ call'[d] = call[d]
    BY <1>2, OthersAlone
  <2>. DEFINE t == call[c].target
  <2>3. t \in setting.targets /\ Effect(c, t, u)
    BY <2>1
  <2>. HIDE DEF t
  <2>. QED
    BY <1>2, <2>2, <2>3, OthersLeft
<1>. QED
  BY <1>1, <1>2 DEF LeftInv

\* What the fixed commands switch on: rules only for the mesh, and a run that is new.
LEMMA CommandGains ==
    ASSUME Typed, NEW s \in States, s.run <= Len(starters), NEW name \in FixedCommands,
           NEW u \in Command(name, s)
    PROVE  /\ u \in States
           /\ "rules" \in u.on \ s.on => u.shape = "mesh"
           /\ u.run \in {s.run, Len(starters) + 1}
<1>1. u \in States
  BY CommandReachable DEF Reachable
<1>2. ASSUME NEW r \in States
      PROVE  /\ Begun(r).on = r.on /\ Begun(r).shape = r.shape
             /\ Begun(r).run \in {r.run, Len(starters) + 1}
  BY DEF Begun, States
<1>3. ASSUME NEW part \in {"unit", "rules", "policy", "start"}
      PROVE  /\ Switched(s, part) \in States /\ Switched(s, part).on = s.on \cup {part}
             /\ Switched(s, part).shape = s.shape /\ Switched(s, part).run = s.run
  BY DEF Switched, States
<1>4. CASE name \in {"switch", "policy", "demand"}
  <2>1. \E part \in {"unit", "policy", "start"} : u = Switched(s, part)
    BY <1>4 DEF Command
  <2>. QED
    BY <1>1, <1>3, <2>1
<1>5. CASE name = "login"
  <2>1. u = Begun(Switched(s, "unit"))
    BY <1>5 DEF Command
  <2>2. /\ u.on = s.on \cup {"unit"} /\ u.run \in {s.run, Len(starters) + 1}
    BY <1>2, <1>3, <2>1
  <2>. QED
    BY <1>1, <2>2
<1>6. CASE name = "start"
  <2>1. u = Begun(s)
    BY <1>6 DEF Command
  <2>. QED
    BY <1>1, <1>2, <2>1
<1>7. CASE name \in {"rules off", "filters"}
  <2>1. \/ u = [s EXCEPT !.on = @ \ {"rules"}]
        \/ u = [s EXCEPT !.shape = "mesh", !.on = @ \ {"rules"}]
    BY <1>7 DEF Command
  <2>2. u.run = s.run /\ u.on = s.on \ {"rules"}
    BY <2>1 DEF States
  <2>. QED
    BY <1>1, <2>2
<1>8. CASE name \in {"check off", "check on"}
  <2>1. u = s
    BY <1>8 DEF Command
  <2>. QED
    BY <1>1, <2>1
<1>9. CASE name = "rules on"
  <2>1. u = Switched(s, "rules") /\ u.shape = "mesh"
    BY <1>9 DEF Command
  <2>. QED
    BY <1>1, <1>3, <2>1
<1>. QED
  BY <1>4, <1>5, <1>6, <1>7, <1>8, <1>9 DEF FixedCommands

\* A fixed command, and a place without a receipt that says anything of what is on.
LEMMA RunsLeft ==
    ASSUME ServiceInv, LeftInv, UNCHANGED setting, NEW c \in Callers,
           call[c].at \in {"enable", "start"}, NEW name \in FixedCommands,
           \/ \E u \in Command(name, Seen(c)) : Effect(c, call[c].target, u)
           \/ UNCHANGED <<service, starters, mine>>,
           \A d \in Callers \ {c} : call'[d] = call[d],
           \/ call'[c].at \in {"enable", "enabled", "started"}
           \/ call'[c].at = "judge" /\ call'[c].receipt.kind = "uncertain",
           call'[c].target = call[c].target, call'[c].before = call[c].before,
           call'[c].result = call[c].result
    PROVE  LeftInv'
<1>0. /\ call[c].at \in Inside /\ Typed /\ Seen(c) \in States /\ Seen(c).run <= Len(starters)
      /\ call[c].before.run \in Nat /\ call[c].before.run <= Len(starters) /\ Len(starters) \in Nat
      /\ Left(c)
  BY AtWork, Phases, SettingShape DEF LeftInv
<1>1. Starts(c)' /\ Clean(c)' /\ Alone(c)' /\ (call'[c].at \notin Untouched)
  BY <1>0 DEF Starts, Clean, Alone, Left, Untouched
<1>2. CASE UNCHANGED <<service, starters, mine>>
  <2>1. Holds(c)'
    BY <1>0, <1>2 DEF Left, Holds, Seen
  <2>2. Left(c)'
    BY <1>1, <2>1 DEF Left
  <2>. QED
    BY <1>2, <2>2, OnlyThis
<1>3. ASSUME NEW u \in Command(name, Seen(c)), Effect(c, call[c].target, u)
      PROVE  LeftInv'
  <2>1. /\ u \in States /\ u.run \in {Seen(c).run, Len(starters) + 1}
        /\ "rules" \in u.on \ Seen(c).on => u.shape = "mesh"
    BY <1>0, CommandGains
  <2>2. u.run # Seen(c).run /\ u.run > 0 => u.run # call[c].before.run
    BY <1>0, <2>1
  <2>3. Holds(c)'
    BY <1>0, <1>3, <2>1, <2>2, OwnLeft
  <2>4. Left(c)'
    BY <1>1, <2>3 DEF Left
  <2>. QED
    BY <1>0, <1>3, <2>4, CommandLeft
<1>. QED
  BY <1>2, <1>3

LEMMA FixedLeft ==
    ASSUME ServiceInv, LeftInv, NEW c \in Callers, EnableStep(c) \/ StartFixed(c)
    PROVE  LeftInv'
<1>. DEFINE t == call[c].target
<1>0. /\ call \in [Callers -> Calls] /\ call[c] \in Calls /\ call[c].at \in {"enable", "start"}
      /\ call[c].at \in Inside /\ t \in Kinds /\ InStep(c) /\ UNCHANGED setting
  BY AtWork, Phases, SettingShape DEF EnableStep, StartFixed, ServiceInv, Typed
<1>1. CASE EnableStep(c)
  <2>. DEFINE n == call[c].step
              commands == EnableCommands(t)
  <2>1. commands[n] \in FixedCommands
    BY <1>0, <1>1, EnableCommandsFixed, ElementOfSeq DEF EnableStep, InStep
  <2>2. /\ \/ \E u \in Command(commands[n], Seen(c)) : Effect(c, t, u)
           \/ UNCHANGED <<service, starters, mine>>
        /\ \/ call' = [call EXCEPT ![c].at = "enable", ![c].step = n + 1]
           \/ \E failed \in BOOLEAN : call' = [call EXCEPT ![c].at = "enabled", ![c].failed = failed]
           \/ Receives(c, Uncertain, TRUE)
    BY <1>1 DEF EnableStep, Runs
  <2>3. /\ \A d \in Callers \ {c} : call'[d] = call[d]
        /\ \/ call'[c].at \in {"enable", "enabled"}
           \/ call'[c].at = "judge" /\ call'[c].receipt.kind = "uncertain"
        /\ call'[c].target = t /\ call'[c].before = call[c].before /\ call'[c].result = call[c].result
    BY <1>0, <2>2 DEF Calls, Receives, Uncertain
  <2>. HIDE DEF n, commands
  <2>. QED
    BY <1>0, <2>1, <2>2, <2>3, RunsLeft
<1>2. CASE StartFixed(c)
  <2>1. StartCommand(t) \in FixedCommands
    BY <1>0, EnableCommandsFixed
  <2>2. /\ \/ \E u \in Command(StartCommand(t), Seen(c)) : Effect(c, t, u)
           \/ UNCHANGED <<service, starters, mine>>
        /\ \E failed \in BOOLEAN : call' = [call EXCEPT ![c].at = "started", ![c].failed = failed]
    BY <1>2 DEF StartFixed, Runs
  <2>3. /\ \A d \in Callers \ {c} : call'[d] = call[d]
        /\ call'[c].at = "started"
        /\ call'[c].target = t /\ call'[c].before = call[c].before /\ call'[c].result = call[c].result
    BY <1>0, <2>2 DEF Calls
  <2>. QED
    BY <1>0, <2>1, <2>2, <2>3, RunsLeft
<1>. QED
  BY <1>1, <1>2

-----------------------------------------------------------------------------
(* The atomic start and its rollback. *)

\* What the adapter attempts is the whole start, and only on what was inspected.
LEMMA AdapterStarts ==
    ASSUME NEW t, NEW before, NEW s, NEW faulty, NEW out \in Adapter(t, before, s, faulty)
    PROVE  /\ out[1] = s \/ out[1] = Started(t, s)
           /\ ~out[2].attempted => out[1] = s
           /\ out[2].owned => s = before /\ out[1] = Started(t, s)
<1>. DEFINE u == Started(t, s)
<1>. HIDE DEF u
<1>1. \/ out = <<s, Result(s, FALSE, FALSE, FALSE, TRUE)>>
      \/ out = <<s, Result(s, FALSE, FALSE, TRUE, FALSE)>>
      \/ s = before /\ out = <<u, Result(u, TRUE, TRUE, TRUE, FALSE)>>
      \/ \E v \in {s, u}, known \in BOOLEAN : out = <<v, Result(v, FALSE, TRUE, known, FALSE)>>
  BY DEF Adapter, u
<1>2. PICK v \in {s, u}, owned \in BOOLEAN, attempted \in BOOLEAN, known \in BOOLEAN,
           unchanged \in BOOLEAN :
         /\ out = <<v, Result(v, owned, attempted, known, unchanged)>>
         /\ ~attempted => v = s
         /\ owned => s = before /\ v = u
  BY <1>1
<1>3. out[1] = v /\ out[2].attempted = attempted /\ out[2].owned = owned
  BY <1>2 DEF Result
<1>. QED
  BY <1>2, <1>3 DEF u

\* No receipt is given where anything was attempted.
LEMMA JudgedNone ==
    ASSUME NEW t, NEW before, NEW result \in Answers,
           Judged(t, before, result).receipt.kind = "none"
    PROVE  ~result.attempted
<1>1. ASSUME result.attempted
      PROVE  \E r, failed : /\ Judged(t, before, result) = [receipt |-> r, failed |-> failed]
                            /\ r \in {Uncertain, Observed(result.after), Owned(result.after)}
  BY <1>1 DEF Judged, Answers
<1>. QED
  BY <1>1 DEF Uncertain, Observed, Owned

\* A start keeps what was on, and a run that was there; another run is new.
LEMMA StartedKeeps ==
    ASSUME NEW t \in Kinds, NEW s \in States
    PROVE  LET u == Started(t, s) IN
           /\ s.on \subseteq u.on /\ u.shape = "mesh"
           /\ s.run > 0 => u.run = s.run
           /\ u.run \in {s.run, Len(starters) + 1}
<1>. DEFINE whole == [s EXCEPT !.on = @ \cup Parts(t), !.shape = "mesh"]
<1>1. whole.on = s.on \cup Parts(t) /\ whole.shape = "mesh" /\ whole.run = s.run
  BY DEF States
<1>2. whole \in [run : Nat, on : SUBSET (s.on \cup Parts(t)), shape : {"mesh"}]
  BY DEF States
<1>3. Started(t, s) = Begun(whole)
  BY DEF Started
<1>. HIDE DEF whole
<1>. QED
  BY <1>1, <1>2, <1>3 DEF Begun

LEMMA AtomicLeft ==
    ASSUME ServiceInv, LeftInv, NEW c \in Callers, StartAtomic(c)
    PROVE  LeftInv'
<1>. DEFINE t == call[c].target
            before == call[c].before
<1>0. /\ call \in [Callers -> Calls] /\ call[c] \in Calls /\ call[c].at = "atomic"
      /\ call[c].at \in Inside /\ Typed /\ t \in Kinds /\ t \in setting.targets
      /\ before \in States /\ before.run \in Nat /\ before.run <= Len(starters)
      /\ Seen(c) \in States /\ Seen(c).run <= Len(starters) /\ Len(starters) \in Nat
      /\ UNCHANGED setting /\ mine[c] = {} /\ Left(c)
  BY Phases, AtWork, SettingShape DEF StartAtomic, ServiceInv, Typed, LeftInv, Left, Untouched
<1>1. PICK out \in Adapter(t, before, Seen(c), Fails(c, "command")), failed \in BOOLEAN :
        /\ Effect(c, t, out[1])
        /\ LET verdict == Judged(t, before, [out[2] EXCEPT !.failed = failed])
           IN  Receives(c, verdict.receipt, verdict.failed)
  BY DEF StartAtomic
<1>2. Fails(c, "command") \in BOOLEAN
  BY DEF Fails
<1>3. Reachable(out[1]) /\ out[2].after = out[1] /\ out[2] \in Answers
  BY <1>0, <1>2, AdapterReachable
<1>. DEFINE answer == [out[2] EXCEPT !.failed = failed]
            verdict == Judged(t, before, answer)
            u == out[1]
<1>4. answer \in Answers /\ answer.after = u /\ answer.owned = out[2].owned
      /\ answer.attempted = out[2].attempted
  BY <1>3 DEF Answers
<1>5. Effect(c, t, u) /\ Receives(c, verdict.receipt, verdict.failed)
  BY <1>1
<1>. HIDE DEF answer
<1>6. /\ verdict.receipt.kind = "none" => u = Seen(c)
      /\ verdict.receipt.kind = "owned" =>
            Seen(c) = before /\ u = Started(t, Seen(c)) /\ verdict.receipt.after = u
      /\ u \in States /\ (u = Seen(c) \/ u = Started(t, Seen(c)))
  <2>1. verdict.receipt.kind = "owned" => answer.owned /\ verdict.receipt = Owned(u)
    BY <1>0, <1>4, JudgedTyped
  <2>2. verdict.receipt.kind = "none" => ~answer.attempted
    BY <1>4, JudgedNone
  <2>3. /\ u = Seen(c) \/ u = Started(t, Seen(c))
        /\ ~out[2].attempted => u = Seen(c)
        /\ out[2].owned => Seen(c) = before /\ u = Started(t, Seen(c))
    BY AdapterStarts
  <2>. QED
    BY <1>3, <1>4, <2>1, <2>2, <2>3 DEF Reachable, Owned
<1>7. /\ \A d \in Callers \ {c} : call'[d] = call[d]
      /\ call'[c].at = "judge" /\ call'[c].target = t /\ call'[c].before = before
      /\ call'[c].result = call[c].result /\ call'[c].receipt = verdict.receipt
  BY <1>0, <1>5 DEF Calls, Receives
<1>. HIDE DEF verdict, u
<1>8. Seen(c)' = u /\ mine'[c] = Gained(Seen(c), u)
  BY <1>0, <1>5, <1>7 DEF Effect, Seen, Gained, ServiceInv, Typed
<1>9. Seen(c).on \subseteq u.on /\ (Seen(c).run > 0 => u.run = Seen(c).run)
      /\ (u # Seen(c) => u.shape = "mesh")
  BY <1>0, <1>6, StartedKeeps
<1>10. Holds(c)'
  <2>1. "rules" \in u.on \ Seen(c).on => u.shape = "mesh"
    BY <1>9
  <2>2. u.run # Seen(c).run /\ u.run > 0 => u.run # before.run
    <3>1. u.run \in {Seen(c).run, Len(starters) + 1}
      BY <1>0, <1>6, StartedKeeps
    <3>. QED
      BY <1>0, <3>1
  <2>. QED
    BY <1>0, <1>5, <1>6, <1>7, <2>1, <2>2, OwnLeft
<1>11. Starts(c)'
  BY <1>6, <1>7, <1>9 DEF Starts
<1>12. Clean(c)'
  <2>1. verdict.receipt.kind = "none" => mine'[c] = {}
    BY <1>6, <1>8 DEF Gained
  <2>. QED
    BY <1>7, <2>1 DEF Clean
<1>13. Alone(c)'
  BY <1>0, <1>6, <1>7, <1>8 DEF Left, Alone
<1>14. Left(c)'
  BY <1>7, <1>10, <1>11, <1>12, <1>13 DEF Left, Untouched
<1>. QED
  BY <1>0, <1>5, <1>7, <1>14, CommandLeft

\* A rollback restores what was there: nothing that the call gained stays.
LEMMA RollbackLeft ==
    ASSUME ServiceInv, LeftInv, NEW c \in Callers, RollbackAtomic(c)
    PROVE  LeftInv'
<1>. DEFINE t == call[c].target
            before == call[c].before
            s == Seen(c)
<1>0. /\ call \in [Callers -> Calls] /\ call[c] \in Calls /\ call[c].at = "undoing"
      /\ call[c].at \in Inside /\ t \in setting.targets
      /\ before \in States /\ s \in States /\ before.run \in Nat
      /\ call[c].receipt.kind = "owned" /\ UNCHANGED setting /\ Left(c)
  BY Phases, AtWork DEF RollbackAtomic, ServiceInv, Typed, LeftInv, OwnsItsRun
<1>1. /\ Goto(c, "restored") \/ EndsWith(c, "release", "rollback_failed")
      /\ \/ /\ s = call[c].receipt.after /\ Effect(c, t, before)
            /\ Goto(c, "restored") \/ "command" \in setting.faults
         \/ /\ s # call[c].receipt.after \/ "command" \in setting.faults
            /\ EndsWith(c, "release", "rollback_failed")
            /\ UNCHANGED <<service, starters, mine>>
  BY DEF RollbackAtomic
<1>2. /\ \A d \in Callers \ {c} : call'[d] = call[d]
      /\ call'[c].target = t /\ call'[c].before = before
      /\ \/ call'[c].at = "restored" /\ call'[c].result = call[c].result /\ Goto(c, "restored")
         \/ call'[c].at = "release" /\ call'[c].result = "rollback_failed"
  BY <1>0, <1>1 DEF Calls, Goto, EndsWith
<1>3. Starts(c)' /\ (call'[c].at \notin Untouched)
  BY <1>2 DEF Starts, Untouched
<1>4. ASSUME s = call[c].receipt.after, Effect(c, t, before),
             Goto(c, "restored") \/ "command" \in setting.faults
      PROVE  LeftInv'
  <2>1. before.on \subseteq s.on /\ (before.run > 0 => s.run = before.run)
    BY <1>0, <1>4 DEF Left, Starts
  <2>2. Seen(c)' = before /\ mine'[c] = mine[c] \ Lost(s, before)
    <3>1. Gained(s, before) = {}
      BY <2>1 DEF Gained
    <3>2. Seen(c)' = before /\ mine'[c] = (mine[c] \ Lost(s, before)) \cup Gained(s, before)
      BY <1>0, <1>2, <1>4 DEF Effect, Seen, Gained, Lost, ServiceInv, Typed
    <3>. QED
      BY <3>1, <3>2
  <2>3. mine'[c] \subseteq before.on
    BY <1>0, <2>2 DEF Left, Holds, Lost
  <2>4. Holds(c)'
    BY <1>0, <1>2, <1>4, <2>1, OwnLeft
  <2>5. Clean(c)'
    BY <1>2, <2>3 DEF Clean
  <2>6. Alone(c)'
    <3>1. call'[c].at = "release" => "command" \in setting.faults
      BY <1>0, <1>2, <1>4 DEF Goto, Calls
    <3>. QED
      BY <1>0, <1>2, <2>2, <3>1 DEF Left, Alone
  <2>7. Left(c)'
    BY <1>3, <2>4, <2>5, <2>6 DEF Left
  <2>. QED
    BY <1>0, <1>2, <1>4, <2>7, CommandLeft
<1>5. ASSUME s # call[c].receipt.after \/ "command" \in setting.faults,
             EndsWith(c, "release", "rollback_failed"), UNCHANGED <<service, starters, mine>>
      PROVE  LeftInv'
  <2>1. call'[c].at = "release" /\ call'[c].result = "rollback_failed"
    BY <1>0, <1>5 DEF EndsWith, Calls
  <2>2. Holds(c)' /\ Clean(c)'
    BY <1>0, <1>2, <1>5, <2>1 DEF Left, Holds, Clean, Seen, Inside
  <2>3. Alone(c)'
    BY <1>0, <1>5, <2>1 DEF Left, Alone
  <2>4. Left(c)'
    BY <1>3, <2>2, <2>3 DEF Left
  <2>. QED
    BY <1>0, <1>2, <1>5, <2>4, OnlyThis
<1>. QED
  BY <1>1, <1>4, <1>5

-----------------------------------------------------------------------------
(* The surroundings, and all together. *)

LEMMA CancelLeft ==
    ASSUME ServiceInv, LeftInv, NEW c \in Callers, Cancel(c)
    PROVE  LeftInv'
<1>1. /\ call \in [Callers -> Calls] /\ call[c] \in Calls /\ Left(c)
      /\ UNCHANGED <<setting, service, mine>>
  BY DEF Cancel, ServiceInv, Typed, LeftInv, history
<1>2. /\ \A d \in Callers \ {c} : call'[d] = call[d]
      /\ call'[c].at = call[c].at /\ call'[c].target = call[c].target
      /\ call'[c].before = call[c].before /\ call'[c].result = call[c].result
      /\ call'[c].receipt = call[c].receipt
  BY <1>1 DEF Cancel, Calls
<1>3. Left(c)'
  BY <1>1, <1>2 DEF Left, Holds, Starts, Clean, Alone, Seen
<1>. QED
  BY <1>1, <1>2, <1>3, OnlyThis

LEMMA AdministratorLeft ==
    ASSUME ServiceInv, LeftInv, Administrator
    PROVE  LeftInv'
<1>1. "admin" \in setting.ops /\ UNCHANGED <<setting, call>>
  BY DEF Administrator
<1>2. \E t \in setting.targets : \E u : Effect("administrator", t, u)
  BY Zenon DEF Administrator
<1>3. \A d \in Callers : Alone(d)'
  BY <1>1 DEF Alone
<1>4. ASSUME NEW t \in setting.targets, NEW u, Effect("administrator", t, u)
      PROVE  LeftInv'
  <2>1. DOMAIN mine' = Callers
    BY <1>4 DEF Effect
  <2>. DEFINE who == "administrator"
  <2>2. Effect(who, t, u) /\ \A d \in Callers : d # who
    BY <1>4, ActorsAssumption
  <2>. HIDE DEF who
  <2>3. ASSUME NEW d \in Callers PROVE Left(d)'
    BY <1>1, <1>3, <2>2, OthersLeft
  <2>. QED
    BY <2>1, <2>3 DEF LeftInv
<1>. QED
  BY <1>2, <1>4

\* Nobody is served.
LEMMA RestLeft ==
    ASSUME NEW c \in Callers, mine[c] = {}, call[c] = Idle
    PROVE  Left(c)
BY Beginnings DEF Left, Holds, Starts, Clean, Alone

LEMMA InitLeft == Init => LeftInv
<1>. SUFFICES ASSUME Init
              PROVE  LeftInv
  OBVIOUS
<1>1. mine = [c \in Callers |-> {}] /\ call = [c \in Callers |-> Idle]
  BY DEF Init
<1>. QED
  BY <1>1, RestLeft DEF LeftInv

LEMMA NextLeft == ServiceInv /\ LeftInv /\ [Next]_vars => LeftInv'
<1>. SUFFICES ASSUME ServiceInv, LeftInv, [Next]_vars
              PROVE  LeftInv'
  OBVIOUS
<1>1. ASSUME NEW c \in Callers, Step(c) PROVE LeftInv'
  BY <1>1, EarlyLeft, FixedLeft, AfterLeft, AtomicLeft, JudgeLeft, RollbackLeft, LeavingLeft DEF Step
<1>2. ASSUME NEW c \in Callers, Lock(c) \/ Confirm(c) \/ Admit(c) \/ Cancel(c) PROVE LeftInv'
  BY <1>2, EarlyLeft, BeginningLeft, CancelLeft
<1>3. CASE Tick \/ UNCHANGED vars
  <2>1. UNCHANGED <<setting, call, service, mine>>
    BY <1>3 DEF Tick, vars, history
  <2>. QED
    BY <2>1 DEF LeftInv, Left, Holds, Starts, Clean, Alone, Seen
<1>4. CASE Restart
  <2>1. mine' = [c \in Callers |-> {}] /\ call' = [c \in Callers |-> Idle]
    BY <1>4 DEF Restart
  <2>2. \A c \in Callers : Left(c)'
    BY <2>1, Beginnings DEF Left, Holds, Starts, Clean, Alone
  <2>. QED
    BY <2>1, <2>2 DEF LeftInv
<1>. QED
  BY <1>1, <1>2, <1>3, <1>4, AdministratorLeft DEF Next

\* The answers to a call say the truth of what it leaves (SystemBackend.Start,
\* SystemBackend.Rollback, failAndMaybeRollback), whoever else changes the service
\* meanwhile and whatever fails: "failed" and "rolled back" leave nothing switched on
\* that was off before; with neither faults nor an administrator every rollback
\* succeeds, so that a mere cancellation can always be answered so; and firewall
\* rules that a call enabled admit the mesh alone.
THEOREM NothingStays == Spec => []NothingLeftBehind
<1>1. LeftInv => NothingLeftBehind
  <2>. SUFFICES ASSUME LeftInv
                PROVE  NothingLeftBehind
    OBVIOUS
  <2>1. NoSilentChange
    BY DEF LeftInv, Left, Clean, NoSilentChange
  <2>2. CancelIsUndone
    BY DEF LeftInv, Left, Alone, CancelIsUndone
  <2>3. MeshOnly
    BY DEF LeftInv, Left, Holds, MeshOnly, Seen
  <2>. QED
    BY <2>1, <2>2, <2>3 DEF NothingLeftBehind
<1>2. Spec => []LeftInv
  BY InitLeft, NextLeft, Invariance, PTL DEF Spec
<1>. QED
  BY <1>1, <1>2, PTL
=============================================================================
