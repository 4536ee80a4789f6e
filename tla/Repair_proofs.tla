---------------------------- MODULE Repair_proofs ----------------------------
(***************************************************************************)
(* Proofs about the Network Doctor's repairs, for any clients, any number  *)
(* of diagnoses, sessions and steps of others, any hosts and any plan of a *)
(* library caller.                                                         *)
(*                                                                         *)
(* The honesty of a status does not follow from the engine's last step: it *)
(* needs that the capture of a resource is what the base remembers, that   *)
(* nothing but the resource of the action in hand has been written since,  *)
(* that what others changed is known, and that a repair which wrote before *)
(* its recipe's end is one that a rollback can put back.                   *)
(***************************************************************************)
EXTENDS Repair, TLAPS, SequenceTheorems

(* The inductive invariant. *)

Places == {"idle", "diagnose", "issue", "consume", "replan", "execute"}
Stages == {"env", "check", "capture", "guard", "apply", "verify", "rollback", "closed"}
Parts  == {"by", "plan", "at", "stage", "k", "late", "env", "captured", "base", "others",
           "attempted", "wrote", "cause", "rollbackOK", "status"}
Recorded == {"lowerMTU", "reapplyRoutes", "restartWireGuard", "rebuildExit"}

Typed ==
  /\ setting \in Settings /\ host \in Hosts
  /\ DOMAIN daemon = {"session", "up", "resolver"}
  /\ daemon.session \in Nat /\ daemon.up \in BOOLEAN /\ daemon.resolver \in BOOLEAN
  /\ slot \in Clients \cup {Nil} /\ begun \in 0..setting.runs /\ moves \in Nat
  /\ DOMAIN call = Clients
  /\ \A c \in Clients : /\ DOMAIN call[c] = {"stage", "action", "token"}
                        /\ call[c].stage \in Places /\ call[c].token \in Nat
  /\ auth # Nil => /\ DOMAIN auth = {"token", "actions", "session", "lapsed"}
                   /\ auth.token \in Nat /\ auth.session \in Nat
                   /\ auth.actions \in SUBSET Actions /\ auth.lapsed \in BOOLEAN
  /\ issued \subseteq [token : Nat, session : Nat]

Named == Actions \cup UNION {{s.plan[i].action : i \in 1..Len(s.plan)} : s \in Settings}
Histories ==
  /\ grants \in Seq([token : Nat, action : Actions, newest : Nat, session : Nat, up : BOOLEAN])
  /\ results \in Seq([action : Named, status : Statuses])

\* The execution in progress belongs to a caller who waits for it.
Running ==
  exec # Nil =>
    /\ DOMAIN exec = Parts
    /\ exec.by \in Clients /\ call[exec.by].stage = "execute"
    /\ exec.stage \in Stages /\ exec.at \in 1..Len(exec.plan) /\ exec.k \in Nat
    /\ exec.base \in Hosts /\ exec.others \subseteq Resources
    /\ exec.status \in Statuses \cup {Nil} /\ (exec.stage = "closed" <=> exec.status # Nil)
Flags ==
  exec # Nil =>
    /\ exec.late \in BOOLEAN /\ exec.attempted \in BOOLEAN /\ exec.wrote \in BOOLEAN
    /\ exec.rollbackOK \in BOOLEAN

\* Only a library caller works without the slot.
Turns ==
  \A c \in Clients :
    call[c].stage # "idle" /\ (setting.plan = <<>> \/ call[c].stage # "execute") => slot = c

Redeemable(token) == token = begun /\ begun >= 1 /\ \A i \in 1..Len(grants) : grants[i].token # begun

\* An authorisation is of the newest diagnosis, and not yet redeemed.
Authorised ==
  /\ auth # Nil =>
       /\ Redeemable(auth.token) /\ auth.session <= daemon.session
       /\ [token |-> auth.token, session |-> auth.session] \in issued
  /\ \A c \in Clients :
       /\ call[c].stage \in {"diagnose", "issue"} => Redeemable(call[c].token) /\ auth = Nil
       /\ call[c].stage = "issue" => call[c].action \in SUBSET Actions
       /\ call[c].stage \in {"consume", "replan"} => call[c].action = "flushDNS"
       /\ call[c].stage = "replan" => setting.plan = <<>>
Redeemed == OneUse /\ \A i \in 1..Len(grants) : grants[i].token <= begun

\* What is executed is the authorised action, or the library caller's plan as far as
\* it was not refused.
Planning ==
  exec # Nil =>
    /\ IF setting.plan = <<>> THEN exec.plan = <<[action |-> "flushDNS", recipe |-> "catalog"]>>
       ELSE /\ exec.plan = setting.plan /\ Len(results) = exec.at - 1
            /\ \A i \in 1..Len(results) : results[i].action = exec.plan[i].action
    /\ exec.stage \in {"capture", "guard", "apply", "verify", "rollback"} \/ exec.wrote => ~Refused

\* What has been written, and what it was before.
Attempt ==
  exec # Nil =>
    /\ exec.wrote <=> exec.attempted
    /\ exec.stage \in {"env", "check", "capture", "guard"} => ~exec.wrote /\ exec.k = 1
    /\ exec.stage \in {"verify", "rollback"} \/ exec.status = "applied" => exec.attempted
    /\ exec.stage = "apply" => exec.k \in 1..Len(ApplySteps(Act))
    /\ exec.stage = "apply" /\ exec.wrote => Act = "rebuildExit"
    /\ exec.stage = "rollback" => exec.k >= 1
Capturing ==
  exec # Nil =>
    /\ exec.stage \in {"guard", "apply", "verify", "rollback"} /\ Act \in Recorded =>
         exec.captured \in Hosts /\ \A r \in Resources \ {"path"} : exec.captured[r] = exec.base[r]
    /\ exec.stage = "apply" /\ Act = "lowerMTU" => GuardHolds(exec.captured)
Unharmed ==
  exec # Nil =>
    \A r \in Resources \ exec.others : host[r] = exec.base[r] \/ (exec.wrote /\ r = Resource(Act))
RolledBack ==
  exec # Nil /\ exec.stage = "rollback" /\ exec.k > 1 /\ exec.rollbackOK /\ Act \in Recorded =>
    Resource(Act) \in exec.others \/ host[Resource(Act)] = exec.base[Resource(Act)]

RepairInv ==
  /\ Typed /\ Histories /\ Running /\ Flags /\ Turns /\ Authorised /\ Redeemed
  /\ Planning /\ Attempt /\ Capturing /\ Unharmed /\ RolledBack /\ HonestStatus

\* Each action of the catalogue has a resource of its own, and what it records it can undo.
LEMMA Catalogue ==
  ASSUME NEW a \in Actions
  PROVE  /\ Resource(a) \in Resources \ {"path"}
         /\ a \in Recorded => Snapshots(a) = <<Resource(a)>>
         /\ a \notin Recorded => Snapshots(a) = <<>> /\ RollbackSteps(a) = <<>>
         /\ a = "rebuildExit" => ApplySteps(a) = <<"clearExit", "setExit">>
         /\ a # "rebuildExit" =>
              /\ Len(ApplySteps(a)) = 1
              /\ ApplySteps(a)[1] \in {"flush", "reconnect", "reselect", "rearm", "setMTU", "reapply", "restartWG"}
              /\ ApplySteps(a)[1] = "setMTU" <=> a = "lowerMTU"
         /\ a \in Recorded => Len(RollbackSteps(a)) = 1 /\ RollbackSteps(a) # <<>>
  BY DEF Actions, Resource, Resources, Recorded, Snapshots, RollbackSteps, ApplySteps

\* An operation of the action in hand, working or not, changes the action's resource alone.
LEMMA EffectKinds ==
  ASSUME Act \in Actions, NEW h \in Hosts, NEW captured, NEW op,
         op \in {"setExit", "restoreMTU", "restoreRoutes", "restoreWG"} => captured \in Hosts,
         op = "clearExit" => Act = "rebuildExit",
         op = "setMTU" => Act = "lowerMTU",
         NEW o \in Torn(op, h, captured)
  PROVE  /\ o \in Hosts
         /\ \A r \in Resources \ {Resource(Act)} : o[r] = h[r]
         /\ Act = "lowerMTU" /\ op = "setMTU" => o.mtu \in {0, h.mtu, RepairFloorMTU}
<1> DEFINE R == Resource(Act)
<1>1. R \in Resources
  BY Catalogue
<1>2. Act = "rebuildExit" => R = "exit"
  BY DEF Resource
<1>3. Act = "lowerMTU" => R = "mtu"
  BY DEF Resource
<1>4. \/ o = h
      \/ o = [h EXCEPT ![R] = 0]
      \/ op = "clearExit" /\ o = [r \in DOMAIN h |-> IF r \in {"exit", "routed"} THEN 0 ELSE h[r]]
      \/ op = "setMTU" /\ o = [h EXCEPT !.mtu = RepairFloorMTU]
      \/ op \notin {"clearExit", "setMTU"} /\ \E v \in Nat : o = [h EXCEPT ![R] = v]
  BY <1>1 DEF Torn, Effect, Hosts, Resources
<1> HIDE DEF R
<1>5. o \in Hosts
  BY <1>1, <1>4 DEF Hosts, Resources, RepairFloorMTU
<1>6. \A r \in Resources \ {R} : o[r] = h[r]
  BY <1>1, <1>2, <1>3, <1>4 DEF Hosts, Resources
<1>7. Act = "lowerMTU" /\ op = "setMTU" => o.mtu \in {0, h.mtu, RepairFloorMTU}
  BY <1>1, <1>2, <1>3, <1>4 DEF Hosts, Resources
<1> QED BY <1>5, <1>6, <1>7 DEF R

-----------------------------------------------------------------------------
(* Frames. *)

\* The tokens redeemed are of diagnoses begun.
LEMMA GrantTokens ==
  ASSUME Histories, Redeemed
  PROVE  \A i \in 1..Len(grants) : grants[i].token \in Nat /\ grants[i].token <= begun
<1> DEFINE R == [token : Nat, action : Actions, newest : Nat, session : Nat, up : BOOLEAN]
<1>1. grants \in Seq(R)
  BY DEF Histories
<1>2. \A r \in R : r.token \in Nat
  OBVIOUS
<1> HIDE DEF R
<1>3. \A i \in 1..Len(grants) : grants[i] \in R
  BY <1>1, ElementOfSeq
<1> QED BY <1>2, <1>3 DEF Redeemed

\* A call in its next place; the others where they were.
LEMMA Placed ==
  ASSUME Typed, NEW c \in Clients, NEW stage, NEW action, NEW token, Place(c, stage, action, token)
  PROVE  /\ DOMAIN call' = Clients /\ DOMAIN call'[c] = {"stage", "action", "token"}
         /\ call'[c].stage = stage /\ call'[c].action = action /\ call'[c].token = token
         /\ \A d \in Clients \ {c} : call'[d] = call[d]
BY DEF Typed, Place

\* A call returned; the others where they were.
LEMMA Returned ==
  ASSUME Typed, NEW c \in Clients, Return(c)
  PROVE  /\ DOMAIN call' = Clients /\ DOMAIN call'[c] = {"stage", "action", "token"}
         /\ call'[c].stage = "idle" /\ call'[c].action = Nil /\ call'[c].token = 0
         /\ \A d \in Clients \ {c} : call'[d] = call[d]
BY DEF Typed, Return, Idle

Books == <<setting, call, slot, auth, begun, issued, grants>>
World == <<setting, host, exec, results>>

BooksInv == Turns /\ Authorised /\ Redeemed
EngineInv == Running /\ Flags /\ Planning /\ Attempt /\ Capturing /\ Unharmed /\ RolledBack /\ HonestStatus

\* Who neither calls nor redeems leaves the books of the API.
LEMMA BooksFrame ==
  ASSUME Turns, Authorised, Redeemed, UNCHANGED Books, daemon'.session >= daemon.session, Typed, Typed'
  PROVE  BooksInv'
<1>1. Turns'
  BY DEF Turns, Books
<1>2. Authorised'
  BY DEF Authorised, Redeemable, Books, Typed
<1>3. Redeemed'
  BY DEF Redeemed, OneUse, Books
<1> QED BY <1>1, <1>2, <1>3 DEF BooksInv

\* Who neither executes nor touches the host leaves the execution.
LEMMA EngineFrame ==
  ASSUME EngineInv, UNCHANGED World, exec # Nil => call'[exec.by].stage = "execute"
  PROVE  EngineInv'
<1>1. Running' /\ Flags'
  BY DEF EngineInv, Running, Flags, World
<1>2. Planning' /\ Attempt'
  BY DEF EngineInv, Planning, Attempt, World, Refused, Act, ThisRepair
<1>3. Capturing' /\ Unharmed' /\ RolledBack'
  BY DEF EngineInv, Capturing, Unharmed, RolledBack, World, Act, ThisRepair
<1>4. HonestStatus'
  BY DEF EngineInv, HonestStatus, PostHolds, World, Act, ThisRepair
<1> QED BY <1>1, <1>2, <1>3, <1>4 DEF EngineInv

\* A session begins: authorisations are of sessions no newer.
LEMMA StartSessionStep ==
  ASSUME RepairInv, StartSession
  PROVE  RepairInv'
<1>0. Typed /\ Histories /\ Running /\ Flags /\ Turns /\ Authorised /\ Redeemed /\ Planning /\ Attempt
      /\ Capturing /\ Unharmed /\ RolledBack /\ HonestStatus
  BY DEF RepairInv
<1>1. Typed'
  BY <1>0 DEF Typed, Places, StartSession
<1>2. Histories'
  BY <1>0 DEF Histories, StartSession
<1>3. BooksInv'
  BY <1>0, <1>1, BooksFrame DEF StartSession, Books, Typed
<1>4. EngineInv'
  BY <1>0, EngineFrame DEF StartSession, World, EngineInv, Running
<1> QED BY <1>1, <1>2, <1>3, <1>4 DEF RepairInv, BooksInv, EngineInv

\* A session ends.
LEMMA EndSessionStep ==
  ASSUME RepairInv, EndSession
  PROVE  RepairInv'
<1>0. Typed /\ Histories /\ Running /\ Flags /\ Turns /\ Authorised /\ Redeemed /\ Planning /\ Attempt
      /\ Capturing /\ Unharmed /\ RolledBack /\ HonestStatus
  BY DEF RepairInv
<1>1. Typed'
  BY <1>0 DEF Typed, Places, EndSession
<1>2. Histories'
  BY <1>0 DEF Histories, EndSession
<1>3. BooksInv'
  BY <1>0, <1>1, BooksFrame DEF EndSession, Books, Typed
<1>4. EngineInv'
  BY <1>0, EngineFrame DEF EndSession, World, EngineInv, Running
<1> QED BY <1>1, <1>2, <1>3, <1>4 DEF RepairInv, BooksInv, EngineInv

\* An authorisation ages.
LEMMA LapseStep ==
  ASSUME RepairInv, Lapse
  PROVE  RepairInv'
<1>0. Typed /\ Histories /\ Running /\ Flags /\ Turns /\ Authorised /\ Redeemed /\ Planning /\ Attempt
      /\ Capturing /\ Unharmed /\ RolledBack /\ HonestStatus
  BY DEF RepairInv
<1>1. Typed'
  BY <1>0 DEF Typed, Places, Lapse
<1>2. Histories'
  BY <1>0 DEF Histories, Lapse
<1>3. Turns'
  BY <1>0 DEF Turns, Idle, Places, Lapse
<1>4. Authorised'
  BY <1>0 DEF Authorised, Redeemable, Idle, Places, Lapse
<1>5. Redeemed'
  BY <1>0 DEF Redeemed, OneUse, Redeemable, Lapse
<1>6. EngineInv'
  <2>1. exec # Nil => call'[exec.by].stage = "execute"
    BY <1>0 DEF Running, Typed, Lapse
  <2> QED BY <1>0, <2>1, EngineFrame DEF Lapse, World, EngineInv
<1> QED BY <1>1, <1>2, <1>3, <1>4, <1>5, <1>6 DEF RepairInv, EngineInv

\* A new diagnosis forgets every older authorisation, so its token alone is redeemable.
LEMMA BeginRunStep ==
  ASSUME RepairInv, NEW c \in Clients, BeginRun(c)
  PROVE  RepairInv'
<1>0. Typed /\ Histories /\ Running /\ Flags /\ Turns /\ Authorised /\ Redeemed /\ Planning /\ Attempt
      /\ Capturing /\ Unharmed /\ RolledBack /\ HonestStatus
  BY DEF RepairInv
<1>a. /\ DOMAIN call' = Clients /\ DOMAIN call'[c] = {"stage", "action", "token"}
      /\ \A d \in Clients \ {c} : call'[d] = call[d]
      /\ call'[c].stage = "diagnose" /\ call'[c].token = begun + 1
      /\ slot = Nil /\ slot' = c /\ begun' = begun + 1 /\ auth' = Nil /\ begun < setting.runs
      /\ call[c].stage = "idle" /\ UNCHANGED <<setting, host, daemon, issued, grants, exec, results, moves>>
  BY <1>0, Placed DEF BeginRun, Cleared, Idle
<1>b. begun \in Nat /\ setting.runs \in Nat /\ Len(grants) \in Nat /\ Nil \notin Clients
  BY <1>0, SettingsAssumption, NilAssumption DEF Typed, Histories
<1>c. \A d \in Clients : call[d].stage \in {"idle", "execute"}
  BY <1>0, <1>a, <1>b DEF Turns, Typed, Places
<1>d. \A i \in 1..Len(grants) : grants[i].token \in Nat /\ grants[i].token <= begun
  BY <1>0, GrantTokens
<1>1. Typed'
  BY <1>0, <1>a, <1>b DEF Typed, Places
<1>2. Histories'
  BY <1>0, <1>a, <1>b DEF Histories
<1>3. Turns'
  BY <1>0, <1>a, <1>b, <1>c DEF Turns, Idle, Places
<1>4. Authorised'
  BY <1>a, <1>b, <1>c, <1>d DEF Authorised, Redeemable
<1>5. Redeemed'
  BY <1>0, <1>a, <1>b, <1>d DEF Redeemed, OneUse
<1>6. EngineInv'
  <2>1. exec # Nil => call'[exec.by].stage = "execute"
    BY <1>0, <1>a DEF Running
  <2> QED BY <1>0, <1>a, <2>1, EngineFrame DEF World, EngineInv
<1> QED BY <1>1, <1>2, <1>3, <1>4, <1>5, <1>6 DEF RepairInv, EngineInv

\* A diagnosis ends with something to issue, or without.
LEMMA DiagnoseStep ==
  ASSUME RepairInv, NEW c \in Clients, Diagnose(c)
  PROVE  RepairInv'
<1>0. Typed /\ Histories /\ Running /\ Flags /\ Turns /\ Authorised /\ Redeemed /\ Planning /\ Attempt
      /\ Capturing /\ Unharmed /\ RolledBack /\ HonestStatus
  BY DEF RepairInv
<1>a. /\ DOMAIN call' = Clients /\ DOMAIN call'[c] = {"stage", "action", "token"}
      /\ \A d \in Clients \ {c} : call'[d] = call[d]
      /\ call[c].stage = "diagnose"
      /\ UNCHANGED <<setting, host, daemon, begun, issued, grants, exec, results, moves>>
      /\ \/ /\ call'[c].stage = "issue" /\ call'[c].action \in SUBSET Actions
            /\ call'[c].token = call[c].token /\ UNCHANGED <<slot, auth>>
         \/ call'[c].stage = "idle" /\ call'[c].token = 0 /\ slot' = Nil /\ auth' = Nil
  BY <1>0, Placed, Returned DEF Diagnose, Release, Planned
<1>b. begun \in Nat /\ setting.runs \in Nat /\ Len(grants) \in Nat /\ Nil \notin Clients
  BY <1>0, SettingsAssumption, NilAssumption DEF Typed, Histories
<1>1. Typed'
  BY <1>0, <1>a, <1>b, SMTT(60) DEF Typed, Places
<1>2. Histories'
  BY <1>0, <1>a, <1>b DEF Histories
<1>3. Turns'
  BY <1>0, <1>a, <1>b DEF Turns, Idle, Places
<1>4. Authorised'
  BY <1>0, <1>a, <1>b DEF Authorised, Redeemable, Idle, Places
<1>5. Redeemed'
  BY <1>0, <1>a, <1>b DEF Redeemed, OneUse, Redeemable
<1>6. EngineInv'
  <2>1. exec # Nil => call'[exec.by].stage = "execute"
    BY <1>0, <1>a DEF Running
  <2> QED BY <1>0, <1>a, <2>1, EngineFrame DEF World, EngineInv
<1> QED BY <1>1, <1>2, <1>3, <1>4, <1>5, <1>6 DEF RepairInv, EngineInv

\* Who issues holds the slot, so nobody else relies on an authorisation.
LEMMA IssueStep ==
  ASSUME RepairInv, NEW c \in Clients, Issue(c)
  PROVE  RepairInv'
<1>0. Typed /\ Histories /\ Running /\ Flags /\ Turns /\ Authorised /\ Redeemed /\ Planning /\ Attempt
      /\ Capturing /\ Unharmed /\ RolledBack /\ HonestStatus
  BY DEF RepairInv
<1>a. /\ DOMAIN call' = Clients /\ DOMAIN call'[c] = {"stage", "action", "token"}
      /\ \A d \in Clients \ {c} : call'[d] = call[d]
      /\ call[c].stage = "issue" /\ call'[c].stage = "idle" /\ call'[c].token = 0 /\ slot' = Nil
      /\ UNCHANGED <<setting, host, daemon, begun, grants, exec, results, moves>>
      /\ \/ /\ auth' = [token |-> call[c].token, actions |-> call[c].action,
                         session |-> daemon.session, lapsed |-> FALSE]
            /\ issued' = issued \union {[token |-> call[c].token, session |-> daemon.session]}
         \/ UNCHANGED <<auth, issued>>
  BY <1>0, Returned DEF Issue, Release
<1>b. begun \in Nat /\ setting.runs \in Nat /\ Len(grants) \in Nat /\ Nil \notin Clients
  BY <1>0, SettingsAssumption, NilAssumption DEF Typed, Histories
<1>c. /\ \A d \in Clients \ {c} : call[d].stage \in {"idle", "execute"}
      /\ \/ UNCHANGED <<auth, issued>>
         \/ /\ DOMAIN auth' = {"token", "actions", "session", "lapsed"} /\ Redeemable(auth'.token)
            /\ auth'.session = daemon.session /\ auth'.actions \in SUBSET Actions /\ auth'.lapsed \in BOOLEAN
            /\ auth'.token \in Nat /\ issued' = issued \union {[token |-> auth'.token, session |-> auth'.session]}
  <2>1. \A d \in Clients \ {c} : call[d].stage \in {"idle", "execute"}
    BY <1>0, <1>a, <1>b DEF Turns, Typed, Places
  <2>2. Redeemable(call[c].token) /\ call[c].token \in Nat /\ call[c].action \in SUBSET Actions
    BY <1>0, <1>a DEF Authorised, Typed
  <2>3. CASE UNCHANGED <<auth, issued>>
    BY <2>1, <2>3
  <2>4. ASSUME auth' = [token |-> call[c].token, actions |-> call[c].action,
                        session |-> daemon.session, lapsed |-> FALSE]
        PROVE  /\ DOMAIN auth' = {"token", "actions", "session", "lapsed"} /\ auth'.token = call[c].token
               /\ auth'.session = daemon.session /\ auth'.actions = call[c].action /\ auth'.lapsed = FALSE
    BY <2>4
  <2> QED BY <1>a, <2>1, <2>2, <2>3, <2>4
<1>d. \A i \in 1..Len(grants) : grants[i].token \in Nat /\ grants[i].token <= begun
  BY <1>0, GrantTokens
<1>1. Typed'
  BY <1>0, <1>a, <1>b, <1>c DEF Typed, Places
<1>2. Histories'
  BY <1>0, <1>a, <1>b DEF Histories
<1>3. Turns'
  BY <1>0, <1>a, <1>b DEF Turns, Idle, Places
<1>4. Authorised'
  BY <1>0, <1>a, <1>b, <1>c DEF Authorised, Redeemable, Typed
<1>5. Redeemed'
  BY <1>0, <1>a, <1>b DEF Redeemed, OneUse, Redeemable
<1>6. EngineInv'
  <2>1. exec # Nil => call'[exec.by].stage = "execute"
    BY <1>0, <1>a DEF Running
  <2> QED BY <1>0, <1>a, <2>1, EngineFrame DEF World, EngineInv
<1> QED BY <1>1, <1>2, <1>3, <1>4, <1>5, <1>6 DEF RepairInv, EngineInv

\* A repair enters with any token it was ever told.
LEMMA BeginRepairStep ==
  ASSUME RepairInv, NEW c \in Clients, BeginRepair(c)
  PROVE  RepairInv'
<1>0. Typed /\ Histories /\ Running /\ Flags /\ Turns /\ Authorised /\ Redeemed /\ Planning /\ Attempt
      /\ Capturing /\ Unharmed /\ RolledBack /\ HonestStatus
  BY DEF RepairInv
<1>a. /\ DOMAIN call' = Clients /\ DOMAIN call'[c] = {"stage", "action", "token"}
      /\ \A d \in Clients \ {c} : call'[d] = call[d]
      /\ call[c].stage = "idle" /\ slot = Nil /\ slot' = c
      /\ call'[c].stage = "consume" /\ call'[c].action = "flushDNS" /\ call'[c].token \in Nat
      /\ UNCHANGED <<setting, host, daemon, auth, begun, issued, grants, exec, results, moves>>
  <2>1. PICK t \in Tokens, b \in setting.asked :
            CanExecuteRepair(b) /\ Place(c, "consume", b, t)
    BY DEF BeginRepair
  <2>2. t \in Nat
    BY <1>0 DEF Typed, Tokens
  <2> QED BY <1>0, <2>1, <2>2, Placed DEF BeginRepair, MayEnter, CanExecuteRepair, SupportedDoctorRepair, Idle
<1>b. begun \in Nat /\ setting.runs \in Nat /\ Len(grants) \in Nat /\ Nil \notin Clients
  BY <1>0, SettingsAssumption, NilAssumption DEF Typed, Histories
<1>1. Typed'
  BY <1>0, <1>a, <1>b DEF Typed, Places
<1>2. Histories'
  BY <1>0, <1>a, <1>b DEF Histories
<1>3. Turns'
  BY <1>0, <1>a, <1>b DEF Turns, Idle, Places
<1>4. Authorised'
  BY <1>0, <1>a, <1>b DEF Authorised, Redeemable, Idle, Places
<1>5. Redeemed'
  BY <1>0, <1>a, <1>b DEF Redeemed, OneUse, Redeemable
<1>6. EngineInv'
  <2>1. exec # Nil => call'[exec.by].stage = "execute"
    BY <1>0, <1>a DEF Running
  <2> QED BY <1>0, <1>a, <2>1, EngineFrame DEF World, EngineInv
<1> QED BY <1>1, <1>2, <1>3, <1>4, <1>5, <1>6 DEF RepairInv, EngineInv

\* Redeeming takes the authorisation away: its token is in the history from then on.
LEMMA ConsumeStep ==
  ASSUME RepairInv, NEW c \in Clients, Consume(c)
  PROVE  RepairInv'
<1>0. Typed /\ Histories /\ Running /\ Flags /\ Turns /\ Authorised /\ Redeemed /\ Planning /\ Attempt
      /\ Capturing /\ Unharmed /\ RolledBack /\ HonestStatus
  BY DEF RepairInv
<1>a. /\ DOMAIN call' = Clients /\ DOMAIN call'[c] = {"stage", "action", "token"}
      /\ \A d \in Clients \ {c} : call'[d] = call[d]
      /\ call[c].stage = "consume" /\ call'[c].token \in Nat
      /\ UNCHANGED <<setting, host, daemon, begun, issued, exec, results, moves>>
      /\ \/ call'[c].stage = "idle" /\ slot' = Nil /\ auth' \in {auth, Nil} /\ grants' = grants
         \/ /\ auth # Nil /\ ~Expired /\ auth' = Nil /\ slot' = slot
            /\ call'[c].stage = "replan" /\ call'[c].action = call[c].action
            /\ grants' = Append(grants, [token |-> auth.token, action |-> call[c].action, newest |-> begun,
                                         session |-> daemon.session, up |-> daemon.up])
  <2>1. call[c].token \in Nat
    BY <1>0 DEF Typed
  <2> QED BY <1>0, <2>1, Placed, Returned DEF Consume, Release
<1>b. begun \in Nat /\ setting.runs \in Nat /\ Len(grants) \in Nat /\ Nil \notin Clients
  BY <1>0, SettingsAssumption, NilAssumption DEF Typed, Histories
<1>c. \/ grants' = grants
      \/ /\ grants' \in Seq([token : Nat, action : Actions, newest : Nat, session : Nat, up : BOOLEAN])
         /\ Len(grants') = Len(grants) + 1
         /\ \A i \in 1..Len(grants) : grants'[i] = grants[i]
         /\ grants'[Len(grants')].token = begun /\ grants'[Len(grants')].newest = begun
         /\ \E t \in issued : t.token = begun /\ (t.session = 0 \/ (t.session = daemon.session /\ daemon.up))
         /\ grants'[Len(grants')].session = daemon.session /\ grants'[Len(grants')].up = daemon.up
         /\ \A i \in 1..Len(grants) : grants[i].token # begun
  <2> SUFFICES ASSUME grants' # grants
               PROVE  <1>c!2
    OBVIOUS
  <2> DEFINE g == [token |-> auth.token, action |-> call[c].action, newest |-> begun,
                   session |-> daemon.session, up |-> daemon.up]
  <2>1. grants' = Append(grants, g) /\ auth # Nil /\ ~Expired
    BY <1>a
  <2>2. auth.token = begun /\ call[c].action = "flushDNS" /\ \A i \in 1..Len(grants) : grants[i].token # begun
    BY <1>0, <1>a, <2>1 DEF Authorised, Redeemable
  <2>3. g \in [token : Nat, action : Actions, newest : Nat, session : Nat, up : BOOLEAN]
    BY <1>0, <1>b, <2>2 DEF Typed, Actions
  <2>4. g.token = begun /\ g.newest = begun /\ g.session = daemon.session /\ g.up = daemon.up
    BY <2>2
  <2>5. \E t \in issued : t.token = begun /\ (t.session = 0 \/ (t.session = daemon.session /\ daemon.up))
    <3> DEFINE t == [token |-> auth.token, session |-> auth.session]
    <3>1. t \in issued /\ auth.session <= daemon.session /\ auth.session \in Nat /\ daemon.session \in Nat
      BY <1>0, <2>1 DEF Authorised, Typed
    <3>2. t.token = begun /\ (t.session = 0 \/ (t.session = daemon.session /\ daemon.up))
      BY <2>1, <2>2, <3>1 DEF Expired
    <3> QED BY <3>1, <3>2
  <2> HIDE DEF g
  <2>6. /\ grants' \in Seq([token : Nat, action : Actions, newest : Nat, session : Nat, up : BOOLEAN])
        /\ Len(grants') = Len(grants) + 1 /\ grants'[Len(grants')] = g
        /\ \A i \in 1..Len(grants) : grants'[i] = grants[i]
    BY <1>0, <1>b, <2>1, <2>3, AppendProperties DEF Histories
  <2> QED BY <2>2, <2>4, <2>5, <2>6
<1>d. \A i \in 1..Len(grants) : grants[i].token \in Nat /\ grants[i].token <= begun
  BY <1>0, GrantTokens
<1>e. begun >= 1 => setting.plan = <<>>
  BY <1>0, SettingsAssumption DEF Typed
<1>1. Typed'
  BY <1>0, <1>a, <1>b DEF Typed, Places
<1>2. Histories'
  BY <1>0, <1>a, <1>b, <1>c DEF Histories
<1>3. Turns'
  BY <1>0, <1>a, <1>b DEF Turns, Idle, Places
<1>4. Authorised'
  BY <1>0, <1>a, <1>b, <1>d, <1>e DEF Authorised, Redeemable
<1>5. Redeemed'
  <2>1. CASE grants' = grants
    BY <1>0, <1>a, <2>1 DEF Redeemed, OneUse
  <2>2. CASE grants' # grants
    <3>1. \A i \in 1..Len(grants) : i \in 1..Len(grants') /\ i # Len(grants')
      BY <1>b, <1>c, <2>2
    <3>2. \A i \in 1..Len(grants') : i \in 1..Len(grants) \/ i = Len(grants')
      BY <1>b, <1>c, <2>2
    <3>3. OneUse'
      <4>1. \A i \in 1..Len(grants) :
              /\ grants[i].token = grants[i].newest /\ grants[i].token # begun
              /\ \A j \in 1..Len(grants) : grants[i].token = grants[j].token => i = j
              /\ \E t \in issued : t.token = grants[i].token /\
                   (t.session = 0 \/ (t.session = grants[i].session /\ grants[i].up))
        BY <1>0, <1>c, <2>2 DEF Redeemed, OneUse
      <4>2. SUFFICES ASSUME NEW i \in 1..Len(grants')
                     PROVE  /\ grants'[i].token = grants'[i].newest
                            /\ \A j \in 1..Len(grants') : grants'[i].token = grants'[j].token => i = j
                            /\ \E t \in issued : t.token = grants'[i].token /\
                                 (t.session = 0 \/ (t.session = grants'[i].session /\ grants'[i].up))
        BY <1>a DEF OneUse
      <4>5. /\ \A j \in 1..Len(grants) : grants'[j] = grants[j]
            /\ grants'[Len(grants')].token = begun /\ grants'[Len(grants')].newest = begun
            /\ \E t \in issued : t.token = begun /\ (t.session = 0 \/ (t.session = daemon.session /\ daemon.up))
            /\ grants'[Len(grants')].session = daemon.session /\ grants'[Len(grants')].up = daemon.up
        BY <1>c, <2>2
      <4>3. CASE i \in 1..Len(grants)
        <5>1. grants'[i] = grants[i]
          BY <4>3, <4>5
        <5>2. ASSUME NEW j \in 1..Len(grants'), grants'[i].token = grants'[j].token
              PROVE  i = j
          <6>1. CASE j \in 1..Len(grants)
            BY <4>1, <4>3, <4>5, <5>1, <5>2, <6>1
          <6>2. CASE j = Len(grants')
            BY <4>1, <4>3, <4>5, <5>1, <5>2, <6>2
          <6> QED BY <3>2, <6>1, <6>2
        <5>3. grants[i].token = grants[i].newest /\ \E t \in issued : t.token = grants[i].token /\
                 (t.session = 0 \/ (t.session = grants[i].session /\ grants[i].up))
          BY <4>1, <4>3
        <5> QED BY <5>1, <5>2, <5>3
      <4>4. CASE i = Len(grants')
        <5>1. ASSUME NEW j \in 1..Len(grants'), grants'[i].token = grants'[j].token
              PROVE  i = j
          <6>1. CASE j \in 1..Len(grants)
            BY <4>1, <4>4, <4>5, <5>1, <6>1
          <6> QED BY <3>2, <4>4, <6>1
        <5> QED BY <4>4, <4>5, <5>1
      <4> QED BY <3>2, <4>3, <4>4
    <3>4. \A i \in 1..Len(grants') : grants'[i].token <= begun'
      <4>1. begun' = begun /\ \A i \in 1..Len(grants) : grants'[i].token <= begun
        BY <1>a, <1>c, <1>d, <2>2
      <4>2. grants'[Len(grants')].token <= begun
        BY <1>b, <1>c, <2>2
      <4> QED BY <3>2, <4>1, <4>2
    <3> QED BY <3>3, <3>4 DEF Redeemed
  <2> QED BY <2>1, <2>2
<1>6. EngineInv'
  <2>1. exec # Nil => call'[exec.by].stage = "execute"
    BY <1>0, <1>a DEF Running
  <2> QED BY <1>0, <1>a, <2>1, EngineFrame DEF World, EngineInv
<1> QED BY <1>1, <1>2, <1>3, <1>4, <1>5, <1>6 DEF RepairInv, EngineInv

-----------------------------------------------------------------------------
(* The engine. *)

\* What a step of the engine leaves of the execution.
Keeps(fields) == DOMAIN exec' = Parts /\ \A f \in Parts \ fields : exec'[f] = exec[f]
Quiet == UNCHANGED <<setting, call, slot, auth, begun, issued, grants, daemon, moves, results>>

\* The engine leaves the books of the API.
LEMMA EngineBooks ==
  ASSUME RepairInv, Quiet, host' \in Hosts
  PROVE  Typed' /\ Histories' /\ BooksInv'
<1>1. Typed'
  BY DEF RepairInv, Typed, Quiet
<1>2. Histories'
  BY DEF RepairInv, Histories, Quiet
<1>3. UNCHANGED Books /\ daemon'.session >= daemon.session
  BY DEF RepairInv, Typed, Quiet, Books
<1> QED BY <1>1, <1>2, <1>3, BooksFrame DEF RepairInv

\* The environment is observed.
LEMMA ObserveStep ==
  ASSUME RepairInv, Observe
  PROVE  RepairInv'
<1>0. Typed /\ Histories /\ Running /\ Flags /\ Turns /\ Authorised /\ Redeemed /\ Planning /\ Attempt
      /\ Capturing /\ Unharmed /\ RolledBack /\ HonestStatus
  BY DEF RepairInv
<1>a. host' = host /\ Quiet /\ exec # Nil /\ exec.stage = "env" /\ exec'.stage = "check" /\ Keeps({"env", "stage"})
  BY <1>0 DEF Observe, Step, EngineOnly, Keeps, Quiet, Running, Parts
<1>1. Typed' /\ Histories' /\ BooksInv'
  BY <1>0, <1>a, EngineBooks DEF Typed
<1>2. Running'
  BY <1>0, <1>a DEF Running, Stages, Parts, Keeps, Quiet
<1>3. Flags'
  BY <1>0, <1>a DEF Flags, Keeps, Parts
<1>4. Planning'
  BY <1>0, <1>a DEF Planning, Refused, Act, ThisRepair, Parts, Stages, Keeps, Quiet
<1>5. Attempt'
  BY <1>0, <1>a DEF Attempt, Act, ThisRepair, Parts, Stages, Keeps
<1>6. Capturing'
  BY <1>0, <1>a DEF Capturing, GuardHolds, Act, ThisRepair, Parts, Stages, Keeps
<1>7. Unharmed'
  BY <1>0, <1>a DEF Unharmed, Act, ThisRepair, Parts, Keeps
<1>8. RolledBack'
  BY <1>0, <1>a DEF RolledBack, Act, ThisRepair, Parts, Stages, Keeps
<1>9. HonestStatus'
  BY <1>0, <1>a DEF HonestStatus, PostHolds, Act, ThisRepair, Parts, Restored, Stages, Keeps
<1> QED BY <1>1, <1>2, <1>3, <1>4, <1>5, <1>6, <1>7, <1>8, <1>9 DEF RepairInv, BooksInv

\* What passes the check is not refused.
LEMMA CheckStep ==
  ASSUME RepairInv, Check
  PROVE  RepairInv'
<1>0. Typed /\ Histories /\ Running /\ Flags /\ Turns /\ Authorised /\ Redeemed /\ Planning /\ Attempt
      /\ Capturing /\ Unharmed /\ RolledBack /\ HonestStatus
  BY DEF RepairInv
<1>a. /\ host' = host /\ Quiet /\ exec # Nil /\ exec.stage = "check"
      /\ \/ exec'.stage = "closed" /\ exec'.status = "skipped" /\ Keeps({"stage", "status"})
         \/ ~Refused /\ exec'.stage = "capture" /\ Keeps({"stage"})
  BY <1>0 DEF Check, Step, EngineOnly, Keeps, Quiet, Running, Parts, Close
<1>1. Typed' /\ Histories' /\ BooksInv'
  BY <1>0, <1>a, EngineBooks DEF Typed
<1>2. Running'
  BY <1>0, <1>a, NilAssumption DEF Running, Stages, Parts, Keeps, Quiet, Statuses
<1>3. Flags'
  BY <1>0, <1>a DEF Flags, Keeps, Parts
<1>4. Planning'
  BY <1>0, <1>a DEF Planning, Refused, Act, ThisRepair, Parts, Stages, Keeps, Quiet
<1>5. Attempt'
  BY <1>0, <1>a DEF Attempt, Act, ThisRepair, Parts, Stages, Keeps
<1>6. Capturing'
  BY <1>0, <1>a DEF Capturing, GuardHolds, Act, ThisRepair, Parts, Stages, Keeps
<1>7. Unharmed'
  BY <1>0, <1>a DEF Unharmed, Act, ThisRepair, Parts, Keeps
<1>8. RolledBack'
  BY <1>0, <1>a DEF RolledBack, Act, ThisRepair, Parts, Stages, Keeps
<1>9. HonestStatus'
  BY <1>0, <1>a, NilAssumption DEF HonestStatus, PostHolds, Act, ThisRepair, Parts, Restored, Stages, Keeps, Statuses, Attempt
<1> QED BY <1>1, <1>2, <1>3, <1>4, <1>5, <1>6, <1>7, <1>8, <1>9 DEF RepairInv, BooksInv

\* The deadline passes.
LEMMA LateStep ==
  ASSUME RepairInv, Late
  PROVE  RepairInv'
<1>0. Typed /\ Histories /\ Running /\ Flags /\ Turns /\ Authorised /\ Redeemed /\ Planning /\ Attempt
      /\ Capturing /\ Unharmed /\ RolledBack /\ HonestStatus
  BY DEF RepairInv
<1>a. /\ host' = host /\ Quiet /\ exec # Nil /\ exec.stage \in {"capture", "apply", "verify"}
      /\ exec'.late = TRUE /\ Keeps({"late"})
  BY <1>0 DEF Late, Step, EngineOnly, Keeps, Quiet, Running, Parts
<1>1. Typed' /\ Histories' /\ BooksInv'
  BY <1>0, <1>a, EngineBooks DEF Typed
<1>2. Running'
  BY <1>0, <1>a DEF Running, Stages, Parts, Keeps, Quiet
<1>3. Flags'
  BY <1>0, <1>a DEF Flags, Keeps, Parts
<1>4. Planning'
  BY <1>0, <1>a DEF Planning, Refused, Act, ThisRepair, Parts, Stages, Keeps, Quiet
<1>5. Attempt'
  BY <1>0, <1>a DEF Attempt, Act, ThisRepair, Parts, Stages, Keeps
<1>6. Capturing'
  BY <1>0, <1>a DEF Capturing, GuardHolds, Act, ThisRepair, Parts, Stages, Keeps
<1>7. Unharmed'
  BY <1>0, <1>a DEF Unharmed, Act, ThisRepair, Parts, Keeps
<1>8. RolledBack'
  BY <1>0, <1>a DEF RolledBack, Act, ThisRepair, Parts, Stages, Keeps
<1>9. HonestStatus'
  BY <1>0, <1>a DEF HonestStatus, PostHolds, Act, ThisRepair, Parts, Restored, Stages, Keeps
<1> QED BY <1>1, <1>2, <1>3, <1>4, <1>5, <1>6, <1>7, <1>8, <1>9 DEF RepairInv, BooksInv

\* What passes the guard is within the captured evidence.
LEMMA GuardStep ==
  ASSUME RepairInv, Guard
  PROVE  RepairInv'
<1>0. Typed /\ Histories /\ Running /\ Flags /\ Turns /\ Authorised /\ Redeemed /\ Planning /\ Attempt
      /\ Capturing /\ Unharmed /\ RolledBack /\ HonestStatus
  BY DEF RepairInv
<1>a. /\ host' = host /\ Quiet /\ exec # Nil /\ exec.stage = "guard"
      /\ \/ exec'.stage = "closed" /\ exec'.status = "skipped" /\ Keeps({"stage", "status"})
         \/ /\ exec'.stage = "apply" /\ Keeps({"stage"})
            /\ Act = "lowerMTU" => GuardHolds(exec.captured)
  BY <1>0 DEF Guard, Step, EngineOnly, Keeps, Quiet, Running, Parts, Close
<1>b. Act \in Actions /\ \A a \in Actions : Len(ApplySteps(a)) \in {1, 2}
  <2>1. Act \in Actions
    BY <1>0, <1>a DEF Planning, Refused
  <2>2. Len(<<"clearExit", "setExit">>) = 2
    OBVIOUS
  <2> QED BY <2>1, <2>2, Catalogue
<1>1. Typed' /\ Histories' /\ BooksInv'
  BY <1>0, <1>a, EngineBooks DEF Typed
<1>2. Running'
  BY <1>0, <1>a, NilAssumption DEF Running, Stages, Parts, Keeps, Quiet, Statuses
<1>3. Flags'
  BY <1>0, <1>a DEF Flags, Keeps, Parts
<1>4. Planning'
  BY <1>0, <1>a DEF Planning, Refused, Act, ThisRepair, Parts, Stages, Keeps, Quiet
<1>5. Attempt'
  <2>1. Act' = Act /\ exec'.k = 1 /\ ~exec'.wrote /\ ~exec'.attempted
    BY <1>0, <1>a DEF Act, ThisRepair, Keeps, Parts, Attempt, Flags
  <2>2. 1 \in 1..Len(ApplySteps(Act))
    BY <1>b
  <2>3. \/ exec'.stage = "closed" /\ exec'.status = "skipped"
        \/ exec'.stage = "apply" /\ exec'.status # "applied"
    BY <1>0, <1>a, NilAssumption DEF Running, Statuses, Keeps, Parts
  <2> QED BY <1>a, <2>1, <2>2, <2>3 DEF Attempt, Act, ThisRepair
<1>6. Capturing'
  BY <1>0, <1>a DEF Capturing, GuardHolds, Act, ThisRepair, Parts, Stages, Keeps
<1>7. Unharmed'
  BY <1>0, <1>a DEF Unharmed, Act, ThisRepair, Parts, Keeps
<1>8. RolledBack'
  BY <1>0, <1>a DEF RolledBack, Act, ThisRepair, Parts, Stages, Keeps
<1>9. HonestStatus'
  BY <1>0, <1>a, NilAssumption DEF HonestStatus, PostHolds, Act, ThisRepair, Parts, Restored, Stages, Keeps, Statuses, Attempt
<1> QED BY <1>1, <1>2, <1>3, <1>4, <1>5, <1>6, <1>7, <1>8, <1>9 DEF RepairInv, BooksInv

\* Applied is only what reached its goal.
LEMMA VerifyStep ==
  ASSUME RepairInv, Verify
  PROVE  RepairInv'
<1>0. Typed /\ Histories /\ Running /\ Flags /\ Turns /\ Authorised /\ Redeemed /\ Planning /\ Attempt
      /\ Capturing /\ Unharmed /\ RolledBack /\ HonestStatus
  BY DEF RepairInv
<1>a. /\ host' = host /\ Quiet /\ exec # Nil /\ exec.stage = "verify"
      /\ \/ exec'.stage = "closed" /\ exec'.status = "applied" /\ PostHolds(Act, host) /\ Keeps({"stage", "status"})
         \/ exec'.stage = "rollback" /\ exec'.k = 1 /\ Keeps({"stage", "k", "cause"})
  BY <1>0 DEF Verify, Step, EngineOnly, Keeps, Quiet, Running, Parts, Close
<1>1. Typed' /\ Histories' /\ BooksInv'
  BY <1>0, <1>a, EngineBooks DEF Typed
<1>2. Running'
  BY <1>0, <1>a, NilAssumption DEF Running, Stages, Parts, Keeps, Quiet, Statuses
<1>3. Flags'
  BY <1>0, <1>a DEF Flags, Keeps, Parts
<1>4. Planning'
  BY <1>0, <1>a DEF Planning, Refused, Act, ThisRepair, Parts, Stages, Keeps, Quiet
<1>5. Attempt'
  BY <1>0, <1>a DEF Attempt, Act, ThisRepair, Parts, Stages, Keeps
<1>6. Capturing'
  BY <1>0, <1>a DEF Capturing, GuardHolds, Act, ThisRepair, Parts, Stages, Keeps
<1>7. Unharmed'
  BY <1>0, <1>a DEF Unharmed, Act, ThisRepair, Parts, Keeps
<1>8. RolledBack'
  BY <1>0, <1>a DEF RolledBack, Act, ThisRepair, Parts, Stages, Keeps
<1>9. HonestStatus'
  BY <1>0, <1>a, NilAssumption DEF HonestStatus, PostHolds, Act, ThisRepair, Parts, Restored, Stages, Keeps, Statuses, Attempt
<1> QED BY <1>1, <1>2, <1>3, <1>4, <1>5, <1>6, <1>7, <1>8, <1>9 DEF RepairInv, BooksInv

\* What is captured is what the base remembers, but for the path.
LEMMA CaptureStep ==
  ASSUME RepairInv, Capture
  PROVE  RepairInv'
<1>0. Typed /\ Histories /\ Running /\ Flags /\ Turns /\ Authorised /\ Redeemed /\ Planning /\ Attempt
      /\ Capturing /\ Unharmed /\ RolledBack /\ HonestStatus
  BY DEF RepairInv
<1>a. /\ host' = host /\ Quiet /\ exec # Nil /\ exec.stage = "capture"
      /\ \/ exec'.stage = "closed" /\ exec'.status = "snapshot_failed" /\ Keeps({"stage", "status"})
         \/ /\ exec'.stage = "guard" /\ exec'.base = host /\ exec'.others = {}
            /\ Act \in Recorded => exec'.captured \in Hosts /\ \A r \in Resources \ {"path"} : exec'.captured[r] = host[r]
            /\ Keeps({"stage", "captured", "base", "others"})
  <2>1. Act \in Actions
    BY <1>0 DEF Planning, Refused, Capture
  <2>2. Act \in Recorded => Snapshots(Act) # <<>>
    BY <2>1, Catalogue
  <2>3. \A path \in {0, host.path} : LET h == [host EXCEPT !.path = path] IN
           h \in Hosts /\ \A r \in Resources \ {"path"} : h[r] = host[r]
    BY <1>0 DEF Typed, Hosts, Resources
  <2>4. CASE Step(Close(exec, "snapshot_failed"))
    BY <1>0, <2>4 DEF Capture, Step, EngineOnly, Keeps, Quiet, Running, Parts, Close
  <2>5. ASSUME NEW h, exec' = [exec EXCEPT !.stage = "guard", !.captured = h, !.base = host, !.others = {}]
        PROVE  exec'.stage = "guard" /\ exec'.base = host /\ exec'.others = {} /\ exec'.captured = h
               /\ Keeps({"stage", "captured", "base", "others"})
    BY <1>0, <2>5 DEF Capture, Keeps, Running, Parts
  <2>6. \/ Step(Close(exec, "snapshot_failed"))
        \/ Snapshots(Act) = <<>> /\ exec' = [exec EXCEPT !.stage = "guard", !.captured = Nil, !.base = host, !.others = {}]
        \/ \E path \in {0, host.path} : exec' = [exec EXCEPT !.stage = "guard", !.captured = [host EXCEPT !.path = path],
                                                             !.base = host, !.others = {}]
    BY DEF Capture, Step
  <2>7. host' = host /\ Quiet /\ exec # Nil /\ exec.stage = "capture"
    BY DEF Capture, EngineOnly, Quiet
  <2>8. CASE Snapshots(Act) = <<>> /\ exec' = [exec EXCEPT !.stage = "guard", !.captured = Nil, !.base = host, !.others = {}]
    BY <2>2, <2>5, <2>7, <2>8
  <2>9. ASSUME NEW path \in {0, host.path}, exec' = [exec EXCEPT !.stage = "guard", !.captured = [host EXCEPT !.path = path],
                                                             !.base = host, !.others = {}]
        PROVE  /\ exec'.stage = "guard" /\ exec'.base = host /\ exec'.others = {}
               /\ exec'.captured \in Hosts /\ \A r \in Resources \ {"path"} : exec'.captured[r] = host[r]
               /\ Keeps({"stage", "captured", "base", "others"})
    <3> DEFINE h == [host EXCEPT !.path = path]
    <3>1. h \in Hosts /\ \A r \in Resources \ {"path"} : h[r] = host[r]
      BY <2>3
    <3>2. exec' = [exec EXCEPT !.stage = "guard", !.captured = h, !.base = host, !.others = {}]
      BY <2>9
    <3> HIDE DEF h
    <3> QED BY <2>5, <3>1, <3>2
  <2> QED BY <2>4, <2>6, <2>7, <2>8, <2>9
<1>1. Typed' /\ Histories' /\ BooksInv'
  BY <1>0, <1>a, EngineBooks DEF Typed
<1>2. Running'
  BY <1>0, <1>a, NilAssumption DEF Running, Stages, Parts, Keeps, Quiet, Statuses, Typed
<1>3. Flags'
  BY <1>0, <1>a DEF Flags, Keeps, Parts
<1>4. Planning'
  BY <1>0, <1>a DEF Planning, Refused, Act, ThisRepair, Parts, Stages, Keeps, Quiet
<1>5. Attempt'
  BY <1>0, <1>a DEF Attempt, Act, ThisRepair, Parts, Stages, Keeps
<1>6. Capturing'
  BY <1>0, <1>a DEF Capturing, GuardHolds, Act, ThisRepair, Parts, Stages, Keeps
<1>7. Unharmed'
  BY <1>0, <1>a DEF Unharmed, Act, ThisRepair, Parts, Keeps, Hosts
<1>8. RolledBack'
  BY <1>0, <1>a DEF RolledBack, Act, ThisRepair, Parts, Stages, Keeps
<1>9. HonestStatus'
  BY <1>0, <1>a, NilAssumption DEF HonestStatus, PostHolds, Act, ThisRepair, Parts, Restored, Stages, Keeps, Statuses, Attempt
<1> QED BY <1>1, <1>2, <1>3, <1>4, <1>5, <1>6, <1>7, <1>8, <1>9 DEF RepairInv, BooksInv

\* What a step of a recipe can do to the host.
LEMMA Applying ==
  ASSUME RepairInv, exec # Nil, exec.stage = "apply", NEW o \in Torn(ApplySteps(Act)[exec.k], host, exec.captured)
  PROVE  /\ o \in Hosts /\ \A r \in Resources \ {Resource(Act)} : o[r] = host[r]
         /\ Act = "lowerMTU" => o.mtu \in {0, host.mtu, RepairFloorMTU}
<1> DEFINE op == ApplySteps(Act)[exec.k]
<1>0. Act \in Actions /\ exec.k \in 1..Len(ApplySteps(Act)) /\ host \in Hosts
  BY DEF RepairInv, Planning, Refused, Attempt, Typed
<1>1. /\ op \in {"setExit", "restoreMTU", "restoreRoutes", "restoreWG"} => Act = "rebuildExit"
      /\ op = "clearExit" => Act = "rebuildExit"
      /\ op = "setMTU" => Act = "lowerMTU"
      /\ Act = "lowerMTU" => op = "setMTU"
  <2>1. CASE Act = "rebuildExit"
    <3>1. ApplySteps(Act) = <<"clearExit", "setExit">>
      BY <1>0, <2>1, Catalogue
    <3>2. exec.k \in {1, 2}
      BY <1>0, <3>1
    <3> QED BY <2>1, <3>1, <3>2
  <2>2. CASE Act # "rebuildExit"
    <3>1. exec.k = 1
      BY <1>0, <2>2, Catalogue
    <3>2. op \in {"flush", "reconnect", "reselect", "rearm", "setMTU", "reapply", "restartWG"}
          /\ (op = "setMTU" <=> Act = "lowerMTU")
      BY <1>0, <2>2, <3>1, Catalogue
    <3> QED BY <2>2, <3>2
  <2> QED BY <2>1, <2>2
<1>2. Act = "rebuildExit" => exec.captured \in Hosts
  BY DEF RepairInv, Capturing, Recorded
<1> HIDE DEF op
<1>3. op \in {"setExit", "restoreMTU", "restoreRoutes", "restoreWG"} => exec.captured \in Hosts
  BY <1>1, <1>2
<1>4. o \in Torn(op, host, exec.captured)
  BY DEF op
<1> QED BY <1>0, <1>1, <1>3, <1>4, EffectKinds

\* What a step of a rollback can do to the host.
LEMMA Undoing ==
  ASSUME RepairInv, exec # Nil, exec.stage = "rollback", exec.k <= Len(RollbackSteps(Act)),
         NEW o \in Torn(RollbackSteps(Act)[exec.k], host, exec.captured)
  PROVE  /\ o \in Hosts /\ \A r \in Resources \ {Resource(Act)} : o[r] = host[r]
         /\ Act \in Recorded
         /\ Effect(RollbackSteps(Act)[exec.k], host, exec.captured)[Resource(Act)] = exec.captured[Resource(Act)]
<1> DEFINE op == RollbackSteps(Act)[exec.k]
<1>0. Act \in Actions /\ exec.k \in Nat /\ exec.k >= 1 /\ host \in Hosts
  BY DEF RepairInv, Planning, Refused, Attempt, Typed, Running
<1>1. Act \in Recorded /\ exec.k = 1
  <2>1. CASE Act \notin Recorded
    BY <1>0, <2>1, Catalogue
  <2>2. CASE Act \in Recorded
    BY <1>0, <2>2, Catalogue
  <2> QED BY <2>1, <2>2
<1>2. op \in {"setExit", "restoreMTU", "restoreRoutes", "restoreWG"}
  BY <1>1 DEF RollbackSteps, Recorded
<1>3. exec.captured \in Hosts /\ Resource(Act) \in Resources
  BY <1>0, <1>1, Catalogue DEF RepairInv, Capturing
<1> HIDE DEF op
<1>4. Effect(op, host, exec.captured) = [host EXCEPT ![Resource(Act)] = exec.captured[Resource(Act)]]
  BY <1>2 DEF Effect
<1>5. Effect(op, host, exec.captured)[Resource(Act)] = exec.captured[Resource(Act)]
  BY <1>0, <1>3, <1>4 DEF Hosts, Resources
<1>6. o \in Torn(op, host, exec.captured)
  BY DEF op
<1>7. op \notin {"clearExit", "setMTU"}
  BY <1>2
<1>8. o \in Hosts /\ \A r \in Resources \ {Resource(Act)} : o[r] = host[r]
  BY <1>0, <1>3, <1>6, <1>7, EffectKinds
<1> QED BY <1>1, <1>5, <1>8 DEF op

\* What may become of an execution that tries a step of the recipe, or gives it up.
Tried ==
  \/ /\ exec.attempted /\ host' = host
     /\ exec'.stage = "rollback" /\ exec'.k = 1 /\ Keeps({"stage", "k", "cause"})
  \/ /\ ~exec.attempted /\ host' = host
     /\ exec'.stage = "closed" /\ exec'.status = "rolled_back" /\ Keeps({"stage", "status"})
  \/ /\ exec'.attempted = TRUE /\ exec'.wrote = TRUE
     /\ \/ exec'.stage = "rollback" /\ exec'.k = 1 /\ Keeps({"stage", "k", "cause", "attempted", "wrote"})
        \/ exec'.stage = "verify" /\ Keeps({"stage", "attempted", "wrote"})
        \/ exec'.k = exec.k + 1 /\ exec.k # Len(ApplySteps(Act)) /\ Keeps({"k", "attempted", "wrote"})

\* A step of the recipe, or its end.
LEMMA ApplyStepStep ==
  ASSUME RepairInv, ApplyStep
  PROVE  RepairInv'
<1>0. Typed /\ Histories /\ Running /\ Flags /\ Turns /\ Authorised /\ Redeemed /\ Planning /\ Attempt
      /\ Capturing /\ Unharmed /\ RolledBack /\ HonestStatus
  BY DEF RepairInv
<1>a. /\ Quiet /\ exec # Nil /\ exec.stage = "apply"
      /\ host' \in Torn(ApplySteps(Act)[exec.k], host, exec.captured) /\ Tried
  <2> DEFINE tried == [exec EXCEPT !.attempted = TRUE, !.wrote = TRUE]
             steps == ApplySteps(Act)
  <2>0. DOMAIN exec = Parts
    BY <1>0 DEF ApplyStep, Running
  <2>1. ASSUME exec' = AfterFailure(exec), host' = host
        PROVE  Tried
    <3>1. CASE exec.attempted
      BY <2>0, <2>1, <3>1 DEF Tried, Keeps, Parts, AfterFailure
    <3>2. CASE ~exec.attempted
      BY <2>0, <2>1, <3>2 DEF Tried, Keeps, Parts, AfterFailure, Close
    <3> QED BY <3>1, <3>2
  <2>2. ASSUME exec' = IF exec.k = Len(steps) THEN [tried EXCEPT !.stage = "verify"] ELSE [tried EXCEPT !.k = @ + 1]
        PROVE  Tried
    BY <2>0, <2>2 DEF Tried, Keeps, Parts
  <2>3. ASSUME exec' = AfterFailure(tried)
        PROVE  Tried
    BY <2>0, <2>3 DEF Tried, Keeps, Parts, AfterFailure
  <2>4. host \in Torn(steps[exec.k], host, exec.captured)
        /\ Effect(steps[exec.k], host, exec.captured) \in Torn(steps[exec.k], host, exec.captured)
    BY DEF Torn
  <2> HIDE DEF tried, steps
  <2>5. \/ exec' = AfterFailure(exec) /\ host' = host
        \/ /\ exec' = IF exec.k = Len(steps) THEN [tried EXCEPT !.stage = "verify"] ELSE [tried EXCEPT !.k = @ + 1]
           /\ host' = Effect(steps[exec.k], host, exec.captured)
        \/ exec' = AfterFailure(tried) /\ host' \in Torn(steps[exec.k], host, exec.captured)
    BY <2>4 DEF ApplyStep, Step, tried, steps
  <2>6. Quiet /\ exec # Nil /\ exec.stage = "apply"
    BY DEF ApplyStep, EngineOnly, Quiet
  <2> QED BY <2>1, <2>2, <2>3, <2>4, <2>5, <2>6 DEF steps
<1>b. host' \in Hosts /\ \A r \in Resources \ {Resource(Act)} : host'[r] = host[r]
  BY <1>0, <1>a, Applying
<1>c. /\ exec.k \in 1..Len(ApplySteps(Act)) /\ exec.k \in Nat
      /\ exec.k # Len(ApplySteps(Act)) => Act = "rebuildExit" /\ exec.k + 1 \in 1..Len(ApplySteps(Act))
  <2>1. Act \in Actions /\ exec.k \in 1..Len(ApplySteps(Act)) /\ exec.k \in Nat
    BY <1>0, <1>a DEF Planning, Refused, Attempt, Running
  <2>2. CASE Act = "rebuildExit"
    <3>1. ApplySteps(Act) = <<"clearExit", "setExit">>
      BY <2>1, <2>2, Catalogue
    <3> QED BY <2>1, <2>2, <3>1
  <2>3. CASE Act # "rebuildExit"
    <3>1. Len(ApplySteps(Act)) = 1
      BY <2>1, <2>3, Catalogue
    <3> QED BY <2>1, <3>1
  <2> QED BY <2>1, <2>2, <2>3
<1>1. Typed' /\ Histories' /\ BooksInv'
  BY <1>0, <1>a, EngineBooks, <1>b DEF Typed
<1>2. Running'
  BY <1>0, <1>a, NilAssumption DEF Running, Stages, Parts, Keeps, Quiet, Statuses, Tried
<1>3. Flags'
  BY <1>0, <1>a DEF Flags, Keeps, Parts, Tried
<1>4. Planning'
  BY <1>0, <1>a DEF Planning, Refused, Act, ThisRepair, Parts, Stages, Keeps, Quiet, Tried
<1>5. Attempt'
  BY <1>0, <1>a, <1>c DEF Attempt, Act, ThisRepair, Parts, Stages, Keeps, Tried
<1>6. Capturing'
  BY <1>0, <1>a DEF Capturing, GuardHolds, Act, ThisRepair, Parts, Stages, Keeps, Tried
<1>7. Unharmed'
  BY <1>0, <1>a, <1>b DEF Unharmed, Act, ThisRepair, Parts, Keeps, Tried
<1>8. RolledBack'
  BY <1>0, <1>a, <1>b DEF RolledBack, Act, ThisRepair, Parts, Stages, Keeps, Tried
<1>9. HonestStatus'
  BY <1>0, <1>a, <1>b, SMTT(60) DEF HonestStatus, PostHolds, Act, ThisRepair, Parts, Restored, Stages, Keeps, Tried, Attempt, Unharmed, Hosts, Resources
<1> QED BY <1>1, <1>2, <1>3, <1>4, <1>5, <1>6, <1>7, <1>8, <1>9 DEF RepairInv, BooksInv

\* What may become of an execution that tries a step of the rollback, or has run all.
Undone ==
  \/ /\ exec.k > Len(RollbackSteps(Act)) /\ host' = host
     /\ exec'.stage = "closed" /\ exec'.status = Outcome(exec) /\ Keeps({"stage", "status"})
  \/ /\ exec.k <= Len(RollbackSteps(Act)) /\ host' \in Torn(RollbackSteps(Act)[exec.k], host, exec.captured)
     /\ exec'.k = exec.k + 1 /\ exec'.wrote = TRUE /\ Keeps({"k", "wrote", "rollbackOK"})
     /\ \/ exec'.rollbackOK = FALSE
        \/ /\ exec'.rollbackOK = exec.rollbackOK
           /\ host' = Effect(RollbackSteps(Act)[exec.k], host, exec.captured)

\* A step of the rollback that works puts back what the base remembers.
LEMMA RollbackStep ==
  ASSUME RepairInv, Rollback
  PROVE  RepairInv'
<1>0. Typed /\ Histories /\ Running /\ Flags /\ Turns /\ Authorised /\ Redeemed /\ Planning /\ Attempt
      /\ Capturing /\ Unharmed /\ RolledBack /\ HonestStatus
  BY DEF RepairInv
<1>a. /\ Quiet /\ exec # Nil /\ exec.stage = "rollback" /\ Undone
  <2> DEFINE next == [exec EXCEPT !.k = @ + 1, !.wrote = TRUE]
             steps == RollbackSteps(Act)
  <2>0. DOMAIN exec = Parts /\ exec.k \in Nat /\ Len(steps) \in Nat
    <3>1. Act \in Actions
      BY <1>0 DEF Rollback, Planning, Refused
    <3>2. Len(steps) \in Nat
      BY <3>1, Catalogue
    <3> QED BY <1>0, <3>2 DEF Rollback, Running
  <2>1. ASSUME exec.k > Len(steps), exec' = Close(exec, Outcome(exec)), host' = host
        PROVE  Undone
    BY <2>0, <2>1 DEF Undone, Keeps, Parts, Close
  <2>2. ASSUME exec.k <= Len(steps), exec' = next, host' = Effect(steps[exec.k], host, exec.captured)
        PROVE  Undone
    <3>1. host' \in Torn(steps[exec.k], host, exec.captured)
      BY <2>2 DEF Torn
    <3>2. exec'.k = exec.k + 1 /\ exec'.wrote = TRUE /\ Keeps({"k", "wrote", "rollbackOK"})
          /\ exec'.rollbackOK = exec.rollbackOK
      BY <2>0, <2>2 DEF Keeps, Parts
    <3> QED BY <2>2, <3>1, <3>2 DEF Undone
  <2>3. ASSUME exec.k <= Len(steps), exec' = [next EXCEPT !.rollbackOK = FALSE],
               host' \in Torn(steps[exec.k], host, exec.captured)
        PROVE  Undone
    <3>2. exec'.k = exec.k + 1 /\ exec'.wrote = TRUE /\ Keeps({"k", "wrote", "rollbackOK"})
          /\ exec'.rollbackOK = FALSE
      BY <2>0, <2>3 DEF Keeps, Parts
    <3> QED BY <2>3, <3>2 DEF Undone
  <2>4. host \in Torn(steps[exec.k], host, exec.captured)
    BY DEF Torn
  <2> HIDE DEF next, steps
  <2>5. \/ exec.k > Len(steps) /\ exec' = Close(exec, Outcome(exec)) /\ host' = host
        \/ /\ ~(exec.k > Len(steps)) /\ exec' = next /\ host' = Effect(steps[exec.k], host, exec.captured)
        \/ /\ ~(exec.k > Len(steps)) /\ exec' = [next EXCEPT !.rollbackOK = FALSE]
           /\ host' \in Torn(steps[exec.k], host, exec.captured)
    BY <2>4 DEF Rollback, Step, next, steps
  <2>6. Quiet /\ exec # Nil /\ exec.stage = "rollback"
    BY DEF Rollback, EngineOnly, Quiet
  <2>7. ~(exec.k > Len(steps)) => exec.k <= Len(steps)
    BY <2>0
  <2> QED BY <2>1, <2>2, <2>3, <2>5, <2>6, <2>7
<1>b. host' \in Hosts /\ \A r \in Resources \ {Resource(Act)} : host'[r] = host[r]
  BY <1>0, <1>a, Undoing DEF Undone, Typed
<1>c. /\ Outcome(exec) \in Statuses \ {"skipped", "snapshot_failed", "applied"}
      /\ Outcome(exec) \in Restored => exec.rollbackOK /\ RollbackSteps(Act) # <<>>
  BY DEF Outcome, Statuses, Restored
<1>d. Act \in Actions /\ (RollbackSteps(Act) # <<>> => Act \in Recorded /\ Len(RollbackSteps(Act)) = 1)
  <2>1. Act \in Actions
    BY <1>0, <1>a DEF Planning, Refused
  <2> QED BY <2>1, Catalogue
<1>e. exec.k <= Len(RollbackSteps(Act)) =>
        /\ Act \in Recorded /\ Resource(Act) \in Resources \ {"path"}
        /\ host' = Effect(RollbackSteps(Act)[exec.k], host, exec.captured) =>
             host'[Resource(Act)] = exec.base[Resource(Act)]
  <2>1. SUFFICES ASSUME exec.k <= Len(RollbackSteps(Act))
                 PROVE  <1>e!2
    OBVIOUS
  <2>2. host \in Torn(RollbackSteps(Act)[exec.k], host, exec.captured)
    BY DEF Torn
  <2>3. /\ Act \in Recorded
        /\ Effect(RollbackSteps(Act)[exec.k], host, exec.captured)[Resource(Act)] = exec.captured[Resource(Act)]
    BY <1>a, <2>1, <2>2, Undoing
  <2>4. Resource(Act) \in Resources \ {"path"}
    BY <1>d, Catalogue
  <2>5. exec.captured[Resource(Act)] = exec.base[Resource(Act)]
    BY <1>0, <1>a, <2>3, <2>4 DEF Capturing
  <2> QED BY <2>3, <2>4, <2>5
<1>f. exec.k \in Nat /\ Len(RollbackSteps(Act)) \in Nat
  BY <1>0, <1>a, <1>d, Catalogue DEF Running
<1>1. Typed' /\ Histories' /\ BooksInv'
  BY <1>0, <1>a, EngineBooks, <1>b DEF Typed
<1>2. Running'
  BY <1>0, <1>a, <1>c, NilAssumption DEF Running, Stages, Parts, Keeps, Quiet, Undone, Statuses
<1>3. Flags'
  BY <1>0, <1>a DEF Flags, Keeps, Parts, Undone
<1>4. Planning'
  BY <1>0, <1>a DEF Planning, Refused, Act, ThisRepair, Parts, Stages, Keeps, Quiet, Undone
<1>5. Attempt'
  BY <1>0, <1>a, <1>f DEF Attempt, Act, ThisRepair, Parts, Stages, Keeps, Undone
<1>6. Capturing'
  BY <1>0, <1>a DEF Capturing, GuardHolds, Act, ThisRepair, Parts, Stages, Keeps, Undone
<1>7. Unharmed'
  BY <1>0, <1>a, <1>b DEF Unharmed, Act, ThisRepair, Parts, Keeps, Undone
<1>8. RolledBack'
  <2>1. Act' = Act /\ exec'.others = exec.others /\ exec'.base = exec.base
    BY <1>a DEF Undone, Keeps, Parts, Act, ThisRepair
  <2>2. ASSUME exec'.stage = "rollback", exec'.rollbackOK
        PROVE  host'[Resource(Act)] = exec.base[Resource(Act)]
    BY <1>a, <1>e, <2>2 DEF Undone
  <2> QED BY <2>1, <2>2 DEF RolledBack
<1>9. HonestStatus'
  <2>1. CASE exec.k <= Len(RollbackSteps(Act))
    BY <1>a, <1>f, <2>1 DEF Undone, HonestStatus, Keeps, Parts
  <2>2. CASE exec.k > Len(RollbackSteps(Act))
    <3>1. host' = host /\ exec'.status = Outcome(exec) /\ Keeps({"stage", "status"})
      BY <1>a, <1>f, <2>2 DEF Undone
    <3>2. \A r \in Resources \ exec.others : host[r] = exec.base[r] \/ r = Resource(Act)
      BY <1>0, <1>a DEF Unharmed
    <3>3. exec'.status \in Restored =>
            Resource(Act) \in exec.others \/ host[Resource(Act)] = exec.base[Resource(Act)]
      <4>1. SUFFICES ASSUME exec'.status \in Restored
                     PROVE  exec.rollbackOK /\ exec.k > 1 /\ Act \in Recorded
        BY <1>0, <1>a DEF RolledBack
      <4>2. exec.rollbackOK /\ Act \in Recorded /\ Len(RollbackSteps(Act)) = 1
        BY <1>c, <1>d, <3>1, <4>1
      <4> QED BY <2>2, <4>2
    <3>4. DOMAIN host \ {"routed"} = Resources
      BY <1>0 DEF Typed, Hosts, Resources
    <3>5. exec'.others = exec.others /\ exec'.base = exec.base
      BY <3>1 DEF Keeps, Parts
    <3> QED BY <1>c, <3>1, <3>2, <3>3, <3>4, <3>5 DEF HonestStatus
  <2> QED BY <1>f, <2>1, <2>2
<1> QED BY <1>1, <1>2, <1>3, <1>4, <1>5, <1>6, <1>7, <1>8, <1>9 DEF RepairInv, BooksInv

-----------------------------------------------------------------------------
(* Executions begin and end. *)

\* A new execution of the n-th repair of a plan.
Begins(c, plan, n) ==
  /\ DOMAIN exec' = Parts /\ exec'.by = c /\ exec'.plan = plan /\ exec'.at = n
  /\ exec'.stage \in {"env", "check"} /\ exec'.k = 1 /\ exec'.late = FALSE
  /\ exec'.base = host /\ exec'.others = {} /\ exec'.attempted = FALSE /\ exec'.wrote = FALSE
  /\ exec'.rollbackOK = TRUE /\ exec'.status = Nil

\* A fresh execution begins with the first repair.
LEMMA FreshBegins ==
  ASSUME NEW c, NEW plan, exec' = Fresh(c, plan)
  PROVE  Begins(c, plan, 1)
BY DEF Fresh, Begins, Parts

\* An execution that begins has done nothing.
LEMMA FreshStart ==
  ASSUME host' = host, host \in Hosts, NEW c \in Clients, NEW plan, NEW n \in 1..Len(plan),
         Begins(c, plan, n), call'[c].stage = "execute"
  PROVE  /\ Running' /\ Flags' /\ Attempt' /\ Capturing' /\ Unharmed' /\ RolledBack' /\ HonestStatus'
         /\ ~exec'.wrote /\ exec'.stage \notin {"capture", "guard", "apply", "verify", "rollback"}
<1>1. Running'
  BY NilAssumption DEF Running, Begins, Stages
<1>2. Flags'
  BY DEF Flags, Begins
<1>3. Attempt'
  BY NilAssumption DEF Attempt, Begins, Statuses
<1>4. Capturing' /\ RolledBack'
  BY DEF Capturing, RolledBack, Begins
<1>5. Unharmed'
  BY DEF Unharmed, Begins
<1>6. HonestStatus'
  BY DEF HonestStatus, Begins
<1> QED BY <1>1, <1>2, <1>3, <1>4, <1>5, <1>6 DEF Begins

\* The authorised action, planned anew, begins.
LEMMA ReplanStep ==
  ASSUME RepairInv, NEW c \in Clients, Replan(c)
  PROVE  RepairInv'
<1>0. Typed /\ Histories /\ Turns /\ Authorised /\ Redeemed /\ Running
  BY DEF RepairInv
<1>a. /\ DOMAIN call' = Clients /\ DOMAIN call'[c] = {"stage", "action", "token"}
      /\ \A d \in Clients \ {c} : call'[d] = call[d]
      /\ call[c].stage = "replan" /\ call'[c].stage \in {"idle", "execute"} /\ call'[c].token \in Nat
      /\ UNCHANGED <<setting, host, daemon, auth, begun, issued, grants, results, moves>>
      /\ \/ call'[c].stage = "idle" /\ slot' = Nil /\ exec' = exec
         \/ /\ call'[c].stage = "execute" /\ slot' = slot
            /\ exec' = Fresh(c, <<[action |-> call[c].action, recipe |-> "catalog"]>>)
  <2>1. call[c].token \in Nat
    BY <1>0 DEF Typed
  <2> QED BY <1>0, <2>1, Placed, Returned DEF Replan, Release
<1>b. Nil \notin Clients /\ setting.plan = <<>> /\ call[c].action = "flushDNS" /\ slot = c
  BY <1>0, <1>a, NilAssumption DEF Authorised, Turns
<1>1. Typed'
  BY <1>0, <1>a DEF Typed, Places
<1>2. Histories'
  BY <1>0, <1>a DEF Histories
<1>3. Turns'
  BY <1>0, <1>a, <1>b DEF Turns
<1>4. Authorised'
  BY <1>0, <1>a DEF Authorised, Redeemable
<1>5. Redeemed'
  BY <1>0, <1>a DEF Redeemed, OneUse
<1>6. EngineInv'
  <2>1. CASE exec' = exec /\ call'[c].stage = "idle"
    <3>1. exec # Nil => call'[exec.by].stage = "execute"
      BY <1>0, <1>a DEF Running
    <3> QED BY <1>a, <2>1, <3>1, EngineFrame DEF World, EngineInv, RepairInv
  <2>2. CASE call'[c].stage = "execute" /\ exec' = Fresh(c, <<[action |-> call[c].action, recipe |-> "catalog"]>>)
    <3> DEFINE plan == <<[action |-> "flushDNS", recipe |-> "catalog"]>>
    <3>1. Begins(c, plan, 1) /\ 1 \in 1..Len(plan)
      BY <1>b, <2>2, FreshBegins
    <3> HIDE DEF plan
    <3>2. /\ Running' /\ Flags' /\ Attempt' /\ Capturing' /\ Unharmed' /\ RolledBack' /\ HonestStatus'
          /\ ~exec'.wrote /\ exec'.stage \notin {"capture", "guard", "apply", "verify", "rollback"}
      BY <1>0, <1>a, <2>2, <3>1, FreshStart DEF Typed
    <3>3. Planning'
      BY <1>a, <1>b, <3>1, <3>2 DEF Planning, Begins, plan
    <3> QED BY <3>2, <3>3 DEF EngineInv
  <2> QED BY <1>a, <2>1, <2>2
<1> QED BY <1>1, <1>2, <1>3, <1>4, <1>5, <1>6 DEF RepairInv, EngineInv

\* A library caller's plan begins.
LEMMA LibraryStep ==
  ASSUME RepairInv, NEW c \in Clients, Library(c)
  PROVE  RepairInv'
<1>0. Typed /\ Histories /\ Turns /\ Authorised /\ Redeemed /\ Running
  BY DEF RepairInv
<1>a. /\ DOMAIN call' = Clients /\ DOMAIN call'[c] = {"stage", "action", "token"}
      /\ \A d \in Clients \ {c} : call'[d] = call[d]
      /\ call[c].stage = "idle" /\ call'[c].stage = "execute" /\ call'[c].token \in Nat
      /\ UNCHANGED <<setting, host, daemon, slot, auth, begun, issued, grants, results, moves>>
      /\ setting.plan # <<>> /\ results = <<>> /\ exec' = Fresh(c, setting.plan)
  BY <1>0, Placed DEF Library, Idle
<1>b. 1 \in 1..Len(setting.plan)
  <2>1. setting.plan \in Seq([action : STRING, recipe : STRING]) /\ setting.plan # <<>>
    BY <1>0, <1>a, SettingsAssumption DEF Typed
  <2>2. Len(setting.plan) \in Nat /\ Len(setting.plan) # 0
    BY <2>1, EmptySeq, LenProperties
  <2> QED BY <2>2
<1>1. Typed'
  BY <1>0, <1>a DEF Typed, Places
<1>2. Histories'
  BY <1>0, <1>a DEF Histories
<1>3. Turns'
  BY <1>0, <1>a DEF Turns
<1>4. Authorised'
  BY <1>0, <1>a DEF Authorised, Redeemable
<1>5. Redeemed'
  BY <1>0, <1>a DEF Redeemed, OneUse
<1>6. EngineInv'
  <2>1. Begins(c, setting.plan, 1)
    BY <1>a, FreshBegins
  <2>2. /\ Running' /\ Flags' /\ Attempt' /\ Capturing' /\ Unharmed' /\ RolledBack' /\ HonestStatus'
        /\ ~exec'.wrote /\ exec'.stage \notin {"capture", "guard", "apply", "verify", "rollback"}
    BY <1>0, <1>a, <1>b, <2>1, FreshStart DEF Typed
  <2>3. Len(results') = 0 /\ results' = results
    BY <1>a
  <2>4. Planning'
    BY <1>a, <2>1, <2>2, <2>3 DEF Planning, Begins
  <2> QED BY <2>2, <2>4 DEF EngineInv
<1> QED BY <1>1, <1>2, <1>3, <1>4, <1>5, <1>6 DEF RepairInv, EngineInv

\* The action of the repair in progress is one that a plan can name.
LEMMA ActNamed ==
  ASSUME RepairInv, exec # Nil
  PROVE  Act \in Named
<1>1. CASE setting.plan = <<>>
  <2>1. exec.plan = <<[action |-> "flushDNS", recipe |-> "catalog"]>> /\ exec.at \in 1..Len(exec.plan)
    BY <1>1 DEF RepairInv, Planning, Running
  <2>2. exec.at = 1
    BY <2>1
  <2> QED BY <2>1, <2>2 DEF Act, ThisRepair, Named, Actions
<1>2. CASE setting.plan # <<>>
  <2>1. exec.plan = setting.plan /\ exec.at \in 1..Len(setting.plan) /\ setting \in Settings
    BY <1>2 DEF RepairInv, Planning, Running, Typed
  <2> QED BY <2>1 DEF Act, ThisRepair, Named
<1> QED BY <1>1, <1>2

\* A finished repair is recorded, and the next begins or the caller is answered.
LEMMA NextRepairStep ==
  ASSUME RepairInv, NextRepair
  PROVE  RepairInv'
<1>0. Typed /\ Histories /\ Turns /\ Authorised /\ Redeemed /\ Running /\ Planning
  BY DEF RepairInv
<1> DEFINE r == [action |-> Act, status |-> exec.status]
           S == [action : Named, status : Statuses]
<1>a. /\ exec # Nil /\ exec.by \in Clients /\ call[exec.by].stage = "execute" /\ exec.at \in 1..Len(exec.plan)
      /\ results' = Append(results, r)
      /\ UNCHANGED <<setting, host, daemon, auth, begun, issued, grants, moves>>
      /\ exec.status \in Statuses
  BY <1>0 DEF NextRepair, Running
<1>2. Histories' /\ Len(results') = Len(results) + 1 /\ results'[Len(results')] = r /\ Len(results) \in Nat
      /\ \A i \in 1..Len(results) : results'[i] = results[i]
  <2>1. r \in S
    BY <1>a, ActNamed
  <2>2. results \in Seq(S)
    BY <1>0 DEF Histories
  <2> HIDE DEF r, S
  <2>3. results' \in Seq(S) /\ Len(results') = Len(results) + 1 /\ results'[Len(results')] = r /\ Len(results) \in Nat
        /\ \A i \in 1..Len(results) : results'[i] = results[i]
    BY <1>a, <2>1, <2>2, AppendProperties
  <2> QED BY <1>0, <1>a, <2>3 DEF Histories, S
<1>5. Redeemed'
  BY <1>0, <1>a DEF Redeemed, OneUse
<1>6. CASE exec.at < Len(exec.plan)
  <2>1. /\ UNCHANGED <<call, slot>>
        /\ exec' = [Fresh(exec.by, exec.plan) EXCEPT !.at = exec.at + 1, !.env = exec.env, !.stage = "check"]
    BY <1>6 DEF NextRepair
  <2>2. Typed' /\ Turns' /\ Authorised'
    BY <1>0, <1>a, <2>1 DEF Typed, Turns, Authorised, Redeemable
  <2>3. Begins(exec.by, exec.plan, exec.at + 1)
    BY <2>1 DEF Fresh, Begins, Parts
  <2>4. exec.at + 1 \in 1..Len(exec.plan)
    BY <1>a, <1>6
  <2>5. /\ Running' /\ Flags' /\ Attempt' /\ Capturing' /\ Unharmed' /\ RolledBack' /\ HonestStatus'
        /\ ~exec'.wrote /\ exec'.stage \notin {"capture", "guard", "apply", "verify", "rollback"}
    BY <1>0, <1>a, <2>1, <2>3, <2>4, FreshStart DEF Typed
  <2>6. Planning'
    <3>1. CASE setting.plan = <<>>
      BY <1>0, <1>a, <2>3, <2>5, <3>1 DEF Planning, Begins
    <3>2. CASE setting.plan # <<>>
      <4>1. /\ exec.plan = setting.plan /\ Len(results) = exec.at - 1
            /\ \A i \in 1..Len(results) : results[i].action = exec.plan[i].action
        BY <1>0, <1>a, <3>2 DEF Planning
      <4>2. exec'.plan = setting.plan /\ exec'.at = exec.at + 1
        BY <2>3, <4>1 DEF Begins
      <4>3. Len(results') = exec.at /\ exec.at \in Nat
        BY <1>2, <1>a, <4>1
      <4>4. results'[exec.at].action = exec.plan[exec.at].action
        BY <1>2, <4>3 DEF Act, ThisRepair
      <4>5. \A i \in 1..Len(results') : results'[i].action = exec.plan[i].action
        <5>1. SUFFICES ASSUME NEW i \in 1..Len(results')
                       PROVE  results'[i].action = exec.plan[i].action
          OBVIOUS
        <5>2. i \in 1..Len(results) \/ i = exec.at
          BY <1>2, <4>1, <4>3
        <5>3. CASE i \in 1..Len(results)
          BY <1>2, <4>1, <5>3
        <5>4. CASE i = exec.at
          BY <4>4, <5>4
        <5> QED BY <5>2, <5>3, <5>4
      <4> QED BY <1>a, <2>5, <3>2, <4>1, <4>2, <4>3, <4>5 DEF Planning
    <3> QED BY <3>1, <3>2
  <2> QED BY <1>2, <1>5, <2>2, <2>5, <2>6 DEF RepairInv
<1>7. CASE ~(exec.at < Len(exec.plan))
  <2>1. exec' = Nil /\ Return(exec.by) /\ slot' = IF slot = exec.by THEN Nil ELSE slot
    BY <1>7 DEF NextRepair
  <2>2. /\ DOMAIN call' = Clients /\ DOMAIN call'[exec.by] = {"stage", "action", "token"}
        /\ call'[exec.by].stage = "idle" /\ call'[exec.by].token = 0
        /\ \A d \in Clients \ {exec.by} : call'[d] = call[d]
    BY <1>0, <1>a, <2>1, Returned
  <2>3. Typed'
    BY <1>0, <1>a, <2>1, <2>2 DEF Typed, Places
  <2>4. Turns'
    BY <1>0, <1>a, <2>1, <2>2 DEF Turns
  <2>5. Authorised'
    BY <1>0, <1>a, <2>2 DEF Authorised, Redeemable
  <2>6. EngineInv'
    BY <2>1 DEF EngineInv, Running, Flags, Planning, Attempt, Capturing, Unharmed, RolledBack, HonestStatus
  <2> QED BY <1>2, <1>5, <2>3, <2>4, <2>5, <2>6 DEF RepairInv, EngineInv
<1> QED BY <1>6, <1>7

-----------------------------------------------------------------------------
(* Everyone else. *)

\* Others change a resource, and the execution counts it among theirs.
LEMMA OthersStep ==
  ASSUME RepairInv, Others
  PROVE  RepairInv'
<1>0. Typed /\ Histories /\ Turns /\ Authorised /\ Redeemed /\ Running /\ Flags /\ Planning /\ Attempt
      /\ Capturing /\ Unharmed /\ RolledBack /\ HonestStatus
  BY DEF RepairInv
<1>1. PICK r \in Resources, v \in Nat :
        /\ host' = [host EXCEPT ![r] = v, !.routed = IF r = "exit" THEN 0 ELSE @]
        /\ exec' = IF exec = Nil THEN Nil ELSE [exec EXCEPT !.others = @ \union {r}]
  BY <1>0, SettingsAssumption DEF Others, Typed
<1>a. /\ host' \in Hosts /\ \A q \in Resources \ {r} : host'[q] = host[q]
      /\ r # "exit" => host'.routed = host.routed
  BY <1>0, <1>1 DEF Typed, Hosts, Resources
<1>b. /\ UNCHANGED <<setting, daemon, slot, call, auth, begun, issued, grants, results>>
      /\ moves' = moves + 1
  BY DEF Others
<1>2. Typed' /\ Histories'
  BY <1>0, <1>a, <1>b DEF Typed, Histories
<1>3. BooksInv'
  BY <1>0, <1>2, <1>b, BooksFrame DEF Books, Typed
<1>4. EngineInv'
  <2>1. CASE exec = Nil
    BY <1>1, <2>1 DEF EngineInv, Running, Flags, Planning, Attempt, Capturing, Unharmed, RolledBack, HonestStatus
  <2>2. CASE exec # Nil
    <3>1. Keeps({"others"}) /\ exec'.others = exec.others \union {r}
      BY <1>0, <1>1, <2>2 DEF Keeps, Parts, Running
    <3>2. Running' /\ Flags'
      BY <1>0, <1>b, <2>2, <3>1 DEF Running, Flags, Keeps, Parts
    <3>3. Planning'
      BY <1>0, <1>b, <2>2, <3>1 DEF Planning, Refused, Act, ThisRepair, Keeps, Parts
    <3>4. Attempt' /\ Capturing'
      BY <1>0, <2>2, <3>1 DEF Attempt, Capturing, GuardHolds, Act, ThisRepair, Keeps, Parts
    <3>5. Act' = Act
      BY <2>2, <3>1 DEF Act, ThisRepair, Keeps, Parts
    <3>6. Unharmed'
      BY <1>0, <1>a, <2>2, <3>1 DEF Unharmed, Act, ThisRepair, Keeps, Parts
    <3>7. RolledBack'
      <4>1. exec'.stage = "rollback" /\ Act \in Recorded => Resource(Act) \in Resources
        BY <1>0, <2>2, <3>1, Catalogue DEF Planning, Refused, Keeps, Parts
      <4> QED BY <1>0, <1>a, <2>2, <3>1, <4>1 DEF RolledBack, Act, ThisRepair, Keeps, Parts
    <3>8. HonestStatus'
      <4>0. DOMAIN host = Resources \cup {"routed"} /\ DOMAIN host' = Resources \cup {"routed"}
        BY <1>0, <1>a DEF Typed, Hosts
      <4>1. ASSUME exec.stage = "closed", exec.status \in Restored
            PROVE  \A q \in DOMAIN host' \ ({"routed"} \union exec'.others) : host'[q] = exec'.base[q]
        <5>1. \A q \in DOMAIN host \ ({"routed"} \union exec.others) : host[q] = exec.base[q]
          BY <1>0, <2>2, <4>1 DEF HonestStatus
        <5>2. exec'.base = exec.base
          BY <3>1 DEF Keeps, Parts
        <5> QED BY <1>a, <3>1, <4>0, <5>1, <5>2
      <4>2. ASSUME exec.stage = "closed", exec.status = "applied"
            PROVE  PostHolds(Act, host') \/ exec'.others \intersect {Resource(Act), "path"} # {}
        <5>1. PostHolds(Act, host) \/ exec.others \intersect {Resource(Act), "path"} # {}
          BY <1>0, <2>2, <4>2 DEF HonestStatus
        <5>2. CASE r \in {Resource(Act), "path"}
          BY <3>1, <5>2
        <5>3. CASE r \notin {Resource(Act), "path"} /\ PostHolds(Act, host)
          <6>1. Act = "lowerMTU" => Resource(Act) = "mtu"
            BY DEF Resource
          <6>2. Act = "rebuildExit" => Resource(Act) = "exit"
            BY DEF Resource
          <6>3. Act \notin {"lowerMTU", "rebuildExit"} => Resource(Act) \in Resources
            BY <1>0, <2>2, <4>2, Catalogue DEF Planning, Refused, Attempt
          <6> QED BY <1>a, <5>3, <6>1, <6>2, <6>3 DEF PostHolds, Resources
        <5> QED BY <3>1, <5>1, <5>2, <5>3
      <4>3. exec'.stage = exec.stage /\ exec'.status = exec.status /\ exec'.wrote = exec.wrote
        BY <3>1 DEF Keeps, Parts
      <4>4. exec'.stage = "closed" /\ exec'.status \in {"skipped", "snapshot_failed"} => ~exec'.wrote
        BY <1>0, <2>2, <4>3 DEF HonestStatus
      <4>5. exec'.stage = "closed" /\ exec'.status = "applied" =>
              PostHolds(Act, host)' \/ exec'.others \intersect {Resource(Act'), "path"} # {}
        BY <3>5, <4>2, <4>3 DEF PostHolds
      <4> QED BY <4>1, <4>3, <4>4, <4>5 DEF HonestStatus
    <3> QED BY <3>2, <3>3, <3>4, <3>6, <3>7, <3>8 DEF EngineInv
  <2> QED BY <2>1, <2>2
<1> QED BY <1>2, <1>3, <1>4 DEF RepairInv, BooksInv, EngineInv

\* The exit's route appears; no resource of a repair changes.
LEMMA RoutedStep ==
  ASSUME RepairInv, Routed
  PROVE  RepairInv'
<1>0. Typed /\ Histories /\ Turns /\ Authorised /\ Redeemed /\ EngineInv
  BY DEF RepairInv, EngineInv
<1>a. /\ host' \in Hosts /\ \A q \in Resources : host'[q] = host[q]
      /\ host'.routed = 1
      /\ UNCHANGED <<setting, daemon, slot, call, auth, begun, issued, grants, exec, results, moves>>
  BY <1>0 DEF Routed, Typed, Hosts, Resources
<1>1. Typed' /\ Histories'
  BY <1>0, <1>a DEF Typed, Histories
<1>2. BooksInv'
  BY <1>0, <1>1, <1>a, BooksFrame DEF Books, Typed
<1>3. Running' /\ Flags' /\ Planning' /\ Attempt' /\ Capturing'
  BY <1>0, <1>a DEF EngineInv, Running, Flags, Planning, Attempt, Capturing, Refused, Act, ThisRepair
<1>4. Unharmed'
  BY <1>0, <1>a DEF EngineInv, Unharmed, Act, ThisRepair
<1>5. Act' = Act
  BY <1>a DEF Act, ThisRepair
<1>6. exec # Nil /\ exec.stage = "rollback" => Resource(Act) \in Resources
  BY <1>0, Catalogue DEF EngineInv, Planning, Refused
<1>7. RolledBack'
  BY <1>0, <1>a, <1>6 DEF EngineInv, RolledBack, Act, ThisRepair
<1>8. HonestStatus'
  <2>0. DOMAIN host = Resources \cup {"routed"} /\ DOMAIN host' = Resources \cup {"routed"}
    BY <1>0, <1>a DEF Typed, Hosts
  <2>1. ASSUME exec # Nil, exec.stage = "closed", exec.status = "applied", PostHolds(Act, host)
        PROVE  PostHolds(Act, host')
    <3>1. Act \notin {"lowerMTU", "rebuildExit"} => Resource(Act) \in Resources
      BY <1>0, <2>1, Catalogue DEF EngineInv, Planning, Refused, Attempt
    <3> QED BY <1>a, <2>1, <3>1 DEF PostHolds, Resources
  <2>2. exec' = exec /\ (PostHolds(Act, host') => PostHolds(Act', host'))
    BY <1>a, <1>5
  <2>3. ASSUME exec # Nil, exec.stage = "closed", exec.status \in Restored
        PROVE  \A q \in DOMAIN host' \ ({"routed"} \union exec.others) : host'[q] = exec.base[q]
    <3>1. \A q \in DOMAIN host \ ({"routed"} \union exec.others) : host[q] = exec.base[q]
      BY <1>0, <2>3 DEF EngineInv, HonestStatus
    <3> QED BY <1>a, <2>0, <3>1
  <2>4. exec # Nil /\ exec.stage = "closed" /\ exec.status = "applied" =>
          PostHolds(Act, host) \/ exec.others \intersect {Resource(Act), "path"} # {}
    BY <1>0 DEF EngineInv, HonestStatus
  <2>5. exec # Nil /\ exec.stage = "closed" /\ exec.status \in {"skipped", "snapshot_failed"} => ~exec.wrote
    BY <1>0 DEF EngineInv, HonestStatus
  <2>6. exec # Nil /\ exec.stage = "closed" /\ exec.status = "applied" =>
          PostHolds(Act', host') \/ exec.others \intersect {Resource(Act'), "path"} # {}
    BY <1>5, <2>1, <2>2, <2>4
  <2> QED BY <2>2, <2>3, <2>5, <2>6 DEF HonestStatus
<1> QED BY <1>1, <1>2, <1>3, <1>4, <1>7, <1>8 DEF RepairInv, BooksInv

\* It holds at the start.
LEMMA Initially ==
  ASSUME Init
  PROVE  RepairInv
<1>1. Typed
  BY SettingsAssumption DEF Init, Typed, Idle, Places
<1>2. Histories
  BY DEF Init, Histories
<1>3. Turns /\ Authorised /\ Redeemed
  BY DEF Init, Turns, Authorised, Redeemed, OneUse, Idle
<1>4. EngineInv
  BY DEF Init, EngineInv, Running, Flags, Planning, Attempt, Capturing, Unharmed, RolledBack, HonestStatus
<1> QED BY <1>1, <1>2, <1>3, <1>4 DEF RepairInv, EngineInv

\* It holds where nothing happens.
LEMMA Stutters ==
  ASSUME RepairInv, UNCHANGED vars
  PROVE  RepairInv'
<1>0. Typed /\ Histories /\ Turns /\ Authorised /\ Redeemed /\ EngineInv
  BY DEF RepairInv, EngineInv
<1>1. Typed' /\ Histories'
  BY <1>0 DEF Typed, Histories, vars
<1>2. BooksInv'
  BY <1>0, <1>1, BooksFrame DEF Books, vars, Typed
<1>3. EngineInv'
  BY <1>0, EngineFrame DEF World, vars, EngineInv, Running
<1> QED BY <1>1, <1>2, <1>3 DEF RepairInv, BooksInv, EngineInv

\* It holds after each step.
LEMMA Preserved ==
  ASSUME RepairInv, [Next]_vars
  PROVE  RepairInv'
<1>1. ASSUME NEW c \in Clients, BeginRun(c) \/ BeginRepair(c) \/ Library(c) \/ Calls(c)
      PROVE  RepairInv'
  BY <1>1, BeginRunStep, BeginRepairStep, LibraryStep, DiagnoseStep, IssueStep, ConsumeStep, ReplanStep DEF Calls
<1>2. CASE Engine \/ Late
  BY <1>2, ObserveStep, CheckStep, CaptureStep, GuardStep, ApplyStepStep, VerifyStep, RollbackStep,
     NextRepairStep, LateStep DEF Engine
<1>3. CASE StartSession \/ EndSession \/ Others \/ Routed \/ Lapse
  BY <1>3, StartSessionStep, EndSessionStep, OthersStep, RoutedStep, LapseStep
<1>4. CASE UNCHANGED vars
  BY <1>4, Stutters
<1> QED BY <1>1, <1>2, <1>3, <1>4 DEF Next

\* The invariant holds of every behaviour of the API and the engine.
LEMMA RepairIsInvariant == Spec => []RepairInv
<1>1. Init => RepairInv
  BY Initially
<1>2. RepairInv /\ [Next]_vars => RepairInv'
  BY Preserved
<1> QED BY <1>1, <1>2, PTL DEF Spec

-----------------------------------------------------------------------------
(* The theorems. *)

\* The invariant implies what is promised of plans.
LEMMA UsedPlansAreSound ==
  ASSUME RepairInv
  PROVE  PlansSound
<1>0. Typed /\ Histories /\ Running /\ Turns /\ Authorised /\ Redeemed /\ Planning
  BY DEF RepairInv
<1>1. TypeOK
  <2>1. /\ slot \in Clients \union {Nil} /\ begun \in 0..setting.runs
        /\ \A c \in Clients : call[c].stage \in {"idle", "diagnose", "issue", "consume", "replan", "execute"}
    BY <1>0 DEF Typed, Places
  <2>2. auth # Nil => auth.token \in 1..begun /\ auth.session <= daemon.session
    BY <1>0 DEF Typed, Authorised, Redeemable
  <2>3. \A i \in 1..Len(results) : results[i].status \in Statuses
    <3> DEFINE R == [action : Named, status : Statuses]
    <3>1. results \in Seq(R) /\ \A r \in R : r.status \in Statuses
      BY <1>0 DEF Histories
    <3> HIDE DEF R
    <3> QED BY <3>1, ElementOfSeq
  <2>4. exec # Nil =>
          /\ exec.stage \in {"env", "check", "capture", "guard", "apply", "verify", "rollback", "closed"}
          /\ exec.at \in 1..Len(exec.plan) /\ exec.stage = "closed" <=> exec.status # Nil
          /\ Busy(exec.by) /\ call[exec.by].stage = "execute"
    BY <1>0 DEF Running, Stages, Busy
  <2> QED BY <2>1, <2>2, <2>3, <2>4 DEF TypeOK
<1>2. OneAtATime
  BY <1>0 DEF OneAtATime, Busy, Turns
<1>3. OneUse
  BY <1>0 DEF Redeemed
<1>4. PlanIsUntrusted
  <2> SUFFICES ASSUME exec # Nil, exec.wrote
               PROVE  /\ ThisRepair.recipe = "catalog" /\ Act \in Actions
                      /\ setting.plan # <<>> => \A i \in 1..Len(results) : results[i].action # Act
                      /\ setting.plan = <<>> => SupportedDoctorRepair(Act)
    BY DEF PlanIsUntrusted
  <2>1. ~Refused
    BY <1>0 DEF Planning
  <2>2. ASSUME setting.plan # <<>>
        PROVE  \A i \in 1..Len(results) : results[i].action # Act
    BY <1>0, <2>1, <2>2 DEF Planning, Refused
  <2>3. ASSUME setting.plan = <<>>
        PROVE  SupportedDoctorRepair(Act)
    <3>1. exec.plan = <<[action |-> "flushDNS", recipe |-> "catalog"]>> /\ exec.at \in 1..Len(exec.plan)
      BY <1>0, <2>3 DEF Planning, Running
    <3>2. exec.at = 1
      BY <3>1
    <3> QED BY <3>1, <3>2 DEF SupportedDoctorRepair, Act, ThisRepair
  <2> QED BY <2>1, <2>2, <2>3 DEF Refused
<1> QED BY <1>1, <1>2, <1>3, <1>4 DEF PlansSound

\* A step of the recipe writes the resource of an attempted repair, and nothing else.
LEMMA ApplyWrites ==
  ASSUME RepairInv, ApplyStep, host' # host
  PROVE  /\ exec # Nil /\ exec.stage = "apply" /\ exec'.attempted
         /\ host' \in Torn(ApplySteps(Act)[exec.k], host, exec.captured)
<1>0. exec # Nil /\ exec.stage = "apply" /\ DOMAIN exec = Parts
  BY DEF ApplyStep, RepairInv, Running
<1> DEFINE tried == [exec EXCEPT !.attempted = TRUE, !.wrote = TRUE]
           op    == ApplySteps(Act)[exec.k]
<1>1. tried.attempted /\ DOMAIN tried = Parts
  BY <1>0 DEF Parts
<1>2. \/ host' = Effect(op, host, exec.captured)
         /\ exec' \in {[tried EXCEPT !.stage = "verify"], [tried EXCEPT !.k = @ + 1]}
      \/ host' \in Torn(op, host, exec.captured) /\ exec' = AfterFailure(tried)
  BY DEF ApplyStep, Step
<1> HIDE DEF tried, op
<1>3. exec'.attempted
  BY <1>1, <1>2 DEF AfterFailure, Parts
<1>4. host' \in Torn(op, host, exec.captured)
  BY <1>2 DEF Torn
<1> QED BY <1>0, <1>3, <1>4 DEF op

\* So does a step of the rollback, which is run for an attempted repair only.
LEMMA RollbackWrites ==
  ASSUME RepairInv, Rollback, host' # host
  PROVE  /\ exec # Nil /\ exec.stage = "rollback" /\ exec'.attempted
         /\ \A r \in Resources \ {Resource(Act)} : host'[r] = host[r]
<1> DEFINE op == RollbackSteps(Act)[exec.k]
           next == [exec EXCEPT !.k = @ + 1, !.wrote = TRUE]
<1>0. /\ exec # Nil /\ exec.stage = "rollback" /\ DOMAIN exec = Parts /\ exec.attempted
      /\ Act \in Actions /\ exec.k \in Nat
  BY DEF Rollback, RepairInv, Running, Attempt, Planning, Refused
<1>1. next.attempted /\ DOMAIN next = Parts
  BY <1>0 DEF Parts
<1>2. /\ ~(exec.k > Len(RollbackSteps(Act)))
      /\ \/ host' = Effect(op, host, exec.captured) /\ exec' = next
         \/ host' \in Torn(op, host, exec.captured) /\ exec' = [next EXCEPT !.rollbackOK = FALSE]
  BY DEF Rollback, Step
<1>3. Len(RollbackSteps(Act)) \in Nat
  BY <1>0, Catalogue
<1>4. exec.k <= Len(RollbackSteps(Act))
  BY <1>0, <1>2, <1>3
<1> HIDE DEF op, next
<1>5. exec'.attempted
  BY <1>1, <1>2 DEF Parts
<1>6. host' \in Torn(op, host, exec.captured)
  BY <1>2 DEF Torn
<1> QED BY <1>0, <1>4, <1>5, <1>6, Undoing DEF op

\* Every other step of the repairs leaves the host alone.
LEMMA Untouched ==
  ASSUME RepairInv, Next, moves' = moves
  PROVE  \/ ApplyStep \/ Rollback \/ \A r \in Resources : host'[r] = host[r]
<1>1. ASSUME NEW c \in Clients, BeginRun(c) \/ BeginRepair(c) \/ Library(c) \/ Calls(c)
      PROVE  host' = host
  BY <1>1 DEF BeginRun, BeginRepair, Library, Calls, Diagnose, Issue, Consume, Replan
<1>2. CASE Observe \/ Check \/ Capture \/ Guard \/ Verify \/ NextRepair \/ Late
  BY <1>2 DEF Observe, Check, Capture, Guard, Verify, NextRepair, Late
<1>3. CASE StartSession \/ EndSession \/ Lapse
  BY <1>3 DEF StartSession, EndSession, Lapse
<1>4. CASE Routed
  BY <1>4 DEF Routed, RepairInv, Typed, Hosts, Resources
<1>5. CASE Others
  <2>1. moves' = moves + 1
    BY <1>5 DEF Others
  <2>2. moves \in Nat
    BY DEF RepairInv, Typed
  <2> QED BY <2>1, <2>2
<1> QED BY <1>1, <1>2, <1>3, <1>4, <1>5 DEF Next, Engine

\* A resource that nobody else changed was changed by the attempted repair that is for it.
LEMMA Survives ==
  ASSUME RepairInv, Next, moves' = moves, NEW r \in DOMAIN host \ {"routed"}, host'[r] # host[r]
  PROVE  exec'.attempted /\ r = Resource(Act)
<1>1. r \in Resources
  BY DEF RepairInv, Typed, Hosts
<1>2. CASE ApplyStep
  BY <1>1, <1>2, ApplyWrites, Applying
<1>3. CASE Rollback
  BY <1>1, <1>3, RollbackWrites
<1> QED BY <1>1, <1>2, <1>3, Untouched

\* Only a link that others lowered since it was captured is raised, to the floor that was asked for.
LEMMA Lowers ==
  ASSUME RepairInv, Next, moves' = moves, exec # Nil, exec.stage = "apply", host'.mtu > host.mtu
  PROVE  "mtu" \in exec.others
<1>1. host \in Hosts /\ host.mtu \in Nat /\ "mtu" \in Resources \ {"path"}
  BY DEF RepairInv, Typed, Hosts, Resources
<1>2. host' # host /\ host'.mtu # host.mtu
  BY <1>1
<1>3. ApplyStep
  BY <1>1, <1>2, Untouched DEF Rollback
<1>4. host' \in Torn(ApplySteps(Act)[exec.k], host, exec.captured)
  BY <1>2, <1>3, ApplyWrites
<1>5. Resource(Act) = "mtu" /\ Act \in Actions
  BY <1>1, <1>2, <1>4, Applying DEF RepairInv, Planning, Refused
<1>6. Act = "lowerMTU"
  BY <1>5 DEF Actions, Resource
<1>7. host'.mtu \in {0, host.mtu, RepairFloorMTU}
  BY <1>4, <1>6, Applying
<1>8. RepairFloorMTU > host.mtu
  BY <1>1, <1>7
<1>9. GuardHolds(exec.captured) /\ exec.captured.mtu = exec.base.mtu /\ exec.base.mtu \in Nat
  BY <1>1, <1>6 DEF RepairInv, Capturing, Running, Recorded, Hosts
<1>10. ~exec.wrote
  BY <1>6 DEF RepairInv, Attempt
<1>11. "mtu" \in exec.others \/ host.mtu = exec.base.mtu
  BY <1>1, <1>10 DEF RepairInv, Unharmed
<1> QED BY <1>1, <1>8, <1>9, <1>11 DEF GuardHolds, RepairFloorMTU

\* Callers share one slot, a token is redeemed once, for the newest diagnosis begun and
\* in its session, and whatever plan reaches the engine, only catalogue recipes of
\* catalogue actions are applied, each once (doctor_api.go, Run and Repair; Execute).
THEOREM PlansAreSound == Spec => []PlansSound
<1>1. RepairInv => PlansSound
  BY UsedPlansAreSound
<1> QED BY <1>1, RepairIsInvariant, PTL

\* A repair reported without lasting change has left every resource as it found it,
\* but for what others changed; one reported as applied has reached its goal
\* (repair_exec.go:44-90, the statuses of Execute).
THEOREM StatusIsHonest == Spec => []HonestStatus
<1>1. RepairInv => HonestStatus
  BY DEF RepairInv
<1> QED BY <1>1, RepairIsInvariant, PTL

\* The engine changes nothing but the resource of the action it has attempted, and
\* applying the MTU repair raises no MTU (repair_exec.go:288-296, repair.go:300-306).
THEOREM OthersAreKept == Spec => OthersKept
<1>1. RepairInv /\ [Next]_vars =>
        [\A r \in DOMAIN host \ {"routed"} : host'[r] # host[r] /\ moves' = moves
           => exec'.attempted /\ r = Resource(Act)]_vars
  BY Survives
<1>2. RepairInv /\ [Next]_vars =>
        [exec # Nil /\ exec.stage = "apply" /\ host'.mtu > host.mtu /\ moves' = moves
           => "mtu" \in exec.others]_vars
  BY Lowers
<1> QED BY <1>1, <1>2, RepairIsInvariant, PTL DEF Spec, OthersKept, OthersSurvive, NeverRaises
=============================================================================
