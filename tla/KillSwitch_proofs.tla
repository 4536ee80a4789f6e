--------------------------- MODULE KillSwitch_proofs ---------------------------
(***************************************************************************)
(* For any goroutines, exits, netmaps and settings: the types, the mutual   *)
(* exclusion of transactions, that the status never claims a protection the *)
(* kernel does not have, that a clean exit leaves nothing behind, that no   *)
(* step opens the firewall under a committed exit, that it is armed at      *)
(* rest, and that at rest the firewall, the engine, the device, the books   *)
(* and the files tell one story.                                            *)
(***************************************************************************)
EXTENDS KillSwitch, TLAPS

SomeExit == Exits \cup {NoExit}

Ops == {"none", "sync", "set", "clear", "fallback", "reapply", "drop", "roam", "health", "silent"}

Call == [op : Ops, nm : 0 .. MaxVersion, exit : SomeExit, flag : BOOLEAN, routed : BOOLEAN,
         want : BOOLEAN, prior : Policies, desired : Policies, tries : Nat]

Inside == {"apply", "guard", "engine", "rollback", "disarm", "commit"}
Labels == Inside \cup {"idle", "clear", "demote", "wait", "done", "failed", "rebuild", "refresh",
                       "rearm"}

(* The type invariant, by the parts of the state that change together. *)
Calls == call \in [Procs -> Call]

Intent ==
    /\ preferred \in SomeExit /\ savedExit \in SomeExit
    /\ fallback \in BOOLEAN /\ savedFallback \in BOOLEAN

Books ==
    /\ exitKey \in SomeExit /\ exitRouted \in BOOLEAN
    /\ status \in [killSwitch : BOOLEAN, selected : SomeExit]
    /\ applied \in 0 .. MaxVersion /\ savedMap \in 0 .. MaxVersion

Device == cfg \in SomeExit /\ routes \in SomeExit /\ up \in BOOLEAN /\ iface \in 1 .. MaxIface

Wall == guard \in Policies /\ current \in Policies

World ==
    /\ fresh \subseteq Exits /\ latest \in Versions
    /\ setting \in Setting /\ maps \in [Versions -> SUBSET Exits]

Life ==
    /\ recovering \in BOOLEAN /\ cleanup \in BOOLEAN
    /\ phase \in {"running", "stopping", "clearing", "clean", "exiting", "down"}

Places == pc \in [Procs -> Labels] /\ applyMu \in Procs \cup {NoProc}

Types == Calls /\ Intent /\ Books /\ Device /\ Wall /\ World /\ Life /\ Places

\* Who is inside a transaction, or has applied one and keeps it, holds applyMu.
Mutex ==
    /\ \A p \in Procs : pc[p] \in Inside => applyMu = p
    /\ \A p \in Procs : pc[p] \in {"done", "failed"} /\ call[p].op \in {"set", "clear"}
                           => applyMu = p

-----------------------------------------------------------------------------
(* Locals. *)

LEMMA NoCallTyped == NoCall \in Call
BY BoundsAssumption DEF NoCall, Call, Ops, SomeExit, Policies, Off

LEMMA CallStep ==
    ASSUME Calls, NEW p \in Procs, NEW c \in Call, call' = [call EXCEPT ![p] = c]
    PROVE  Calls' /\ call'[p] = c /\ \A q \in Procs \ {p} : call'[q] = call[q]
BY DEF Calls

LEMMA AppliesTyped ==
    ASSUME Calls, NEW p \in Procs, NEW op \in Ops, NEW nm \in 0 .. MaxVersion,
           NEW exit \in SomeExit, NEW flag \in BOOLEAN, Applies(p, op, nm, exit, flag)
    PROVE  Calls' /\ call'[p].op = op /\ \A q \in Procs \ {p} : call'[q] = call[q]
<1>. DEFINE c == [NoCall EXCEPT !.op = op, !.nm = nm, !.exit = exit, !.flag = flag]
<1>1. c \in Call /\ c.op = op
  BY NoCallTyped DEF Call, NoCall
<1>2. call' = [call EXCEPT ![p] = c]
  BY DEF Applies
<1>. HIDE DEF c
<1>. QED
  BY <1>1, <1>2, CallStep

LEMMA EndsTyped ==
    ASSUME Calls, NEW p \in Procs, Ends(p)
    PROVE  Calls' /\ call'[p].op = "none" /\ \A q \in Procs \ {p} : call'[q] = call[q]
BY NoCallTyped DEF Calls, Ends, NoCall

LEMMA RoutedTyped ==
    ASSUME NEW c \in Call, NEW r \in BOOLEAN
    PROVE  [c EXCEPT !.routed = r] \in Call /\ [c EXCEPT !.routed = r].op = c.op
BY DEF Call

LEMMA PolicyTyped ==
    ASSUME NEW c \in Call, NEW prior \in Policies, NEW desired \in Policies
    PROVE  /\ [c EXCEPT !.prior = prior, !.desired = desired] \in Call
           /\ [c EXCEPT !.prior = prior, !.desired = desired].op = c.op
           /\ [c EXCEPT !.prior = prior, !.desired = desired].prior = prior
BY DEF Call

LEMMA SnapshotTyped ==
    ASSUME NEW c \in Call, NEW nm \in 0 .. MaxVersion, NEW exit \in SomeExit, NEW flag \in BOOLEAN
    PROVE  /\ [c EXCEPT !.nm = nm, !.exit = exit, !.flag = flag] \in Call
           /\ [c EXCEPT !.nm = nm, !.exit = exit, !.flag = flag].op = c.op
BY DEF Call

LEMMA TriesTyped ==
    ASSUME NEW c \in Call
    PROVE  [c EXCEPT !.tries = @ + 1] \in Call /\ [c EXCEPT !.tries = @ + 1].op = c.op
BY DEF Call

LEMMA ReadyIsBoolean == Types => \A x \in SomeExit : Ready(x) \subseteq BOOLEAN
BY DEF Types, Books, Ready, Fails

LEMMA SelectedTyped ==
    Types => \A v \in 0 .. MaxVersion : Selected(v) \in SomeExit /\ Policy(v) \in Policies
BY BoundsAssumption DEF Types, Intent, Device, Selected, Policy, SomeExit, Policies, Off

LEMMA NextIfaceTyped == Types => NextIface \in 1 .. MaxIface
BY BoundsAssumption DEF Types, Device, NextIface

-----------------------------------------------------------------------------
(* Each part of the state is changed by a few actions only. *)

LEMMA IntentFrame ==
    ASSUME Next
    PROVE  \/ UNCHANGED intent
           \/ \E p \in Procs : \/ SetExit(p) \/ ClearExit(p) \/ ClearPreferred(p)
                               \/ SetInternetFallback(p) \/ EndChoice(p) \/ UndoChoice(p)
                               \/ EndFallback(p)
           \/ Start
BY ZenonT(60) DEF Next, Begin, Transact, End, Sync, Reapply, RelayDrop, Silent, Demote, Recover, Lock, Refuse,
       ReadExit, ArmFirst, Reconfigure, Rollback, Disarm, Commit, EndApply, EndSilent, UndoSilent,
       EndDemote, Rebuild, Snapshot, Rearm, RearmStale, Publish, Handshake, DeviceDies, Stop,
       TearDown, ClearGuard, ClearIntent, Exit, Kill, Gone

LEMMA BooksFrame ==
    ASSUME Next
    PROVE  \/ UNCHANGED books
           \/ \E p \in Procs : \/ RelayDrop(p) \/ Silent(p) \/ Demote(p) \/ Commit(p)
                               \/ UndoSilent(p) \/ Rearm(p) \/ RearmStale(p)
           \/ Start
BY ZenonT(60) DEF Next, Begin, Transact, End, Sync, Reapply, SetExit, ClearExit, ClearPreferred,
       SetInternetFallback, Recover, Lock, Refuse, ReadExit, ArmFirst, Reconfigure, Rollback,
       Disarm, EndApply, EndChoice, UndoChoice, EndFallback, EndSilent, EndDemote, Rebuild,
       Snapshot, Publish, Handshake, DeviceDies, Stop, TearDown, ClearGuard, ClearIntent, Exit,
       Kill, Gone

LEMMA DeviceFrame ==
    ASSUME Next
    PROVE  \/ UNCHANGED device
           \/ \E p \in Procs : Reconfigure(p) \/ Rebuild(p)
           \/ DeviceDies \/ TearDown \/ Exit \/ Kill \/ Start
BY ZenonT(60) DEF Next, Begin, Transact, End, Sync, Reapply, RelayDrop, SetExit, ClearExit, ClearPreferred,
       SetInternetFallback, Silent, Demote, Recover, Lock, Refuse, ReadExit, ArmFirst, Rollback,
       Disarm, Commit, EndApply, EndChoice, UndoChoice, EndFallback, EndSilent, UndoSilent,
       EndDemote, Snapshot, Rearm, RearmStale, Publish, Handshake, Stop, ClearGuard, ClearIntent

LEMMA WallFrame ==
    ASSUME Next
    PROVE  \/ UNCHANGED wall
           \/ \E p \in Procs : ArmFirst(p) \/ Rollback(p) \/ Disarm(p) \/ Rearm(p)
           \/ ClearGuard \/ Start
BY ZenonT(60) DEF Next, Begin, Transact, End, Sync, Reapply, RelayDrop, SetExit, ClearExit, ClearPreferred,
       SetInternetFallback, Silent, Demote, Recover, Lock, Refuse, ReadExit, Reconfigure,
       Commit, EndApply, EndChoice, UndoChoice, EndFallback, EndSilent, UndoSilent,
       EndDemote, Rebuild, Snapshot, RearmStale, Publish, Handshake, DeviceDies, Stop, TearDown,
       ClearIntent, Exit, Kill, Gone

LEMMA WorldFrame ==
    ASSUME Next
    PROVE  \/ UNCHANGED world
           \/ \E p \in Procs : RelayDrop(p) \/ Silent(p) \/ Demote(p)
           \/ Publish \/ Handshake \/ Start
BY ZenonT(60) DEF Next, Begin, Transact, End, Sync, Reapply, SetExit, ClearExit, ClearPreferred,
       SetInternetFallback, Recover, Lock, Refuse, ReadExit, ArmFirst, Reconfigure, Rollback,
       Disarm, Commit, EndApply, EndChoice, UndoChoice, EndFallback, EndSilent, UndoSilent,
       EndDemote, Rebuild, Snapshot, Rearm, RearmStale, DeviceDies, Stop, TearDown, ClearGuard,
       ClearIntent, Exit, Kill, Gone

LEMMA LifeFrame ==
    ASSUME Next
    PROVE  \/ UNCHANGED life
           \/ \E p \in Procs : \/ \E op \in {"roam", "health"} : Recover(p, op)
                               \/ EndSilent(p) \/ Rebuild(p) \/ Rearm(p) \/ RearmStale(p)
           \/ Stop \/ TearDown \/ ClearGuard \/ ClearIntent \/ Exit \/ Kill \/ Start
BY ZenonT(60) DEF Next, Begin, Transact, End, Sync, Reapply, RelayDrop, SetExit, ClearExit, ClearPreferred,
       SetInternetFallback, Silent, Demote, Lock, Refuse, ReadExit, ArmFirst, Reconfigure,
       Rollback, Disarm, Commit, EndApply, EndChoice, UndoChoice, EndFallback, UndoSilent,
       EndDemote, Snapshot, Publish, Handshake, DeviceDies

LEMMA CallFrame ==
    ASSUME Next
    PROVE  \/ UNCHANGED call
           \/ \E p \in Procs : \/ Begin(p) \/ ReadExit(p) \/ ArmFirst(p)
                               \/ EndApply(p) \/ EndChoice(p) \/ UndoChoice(p) \/ EndFallback(p)
                               \/ EndSilent(p) \/ UndoSilent(p) \/ Rebuild(p) \/ Snapshot(p)
                               \/ Rearm(p) \/ RearmStale(p)
           \/ Exit \/ Kill \/ Start
BY DEF Next, Transact, End, Lock, Refuse, Reconfigure, Rollback, Disarm, Commit, EndDemote,
       Publish, Handshake, DeviceDies, Stop, TearDown, ClearGuard, ClearIntent, locals

-----------------------------------------------------------------------------
(* Types are preserved, part by part. *)

LEMMA IntentStep == Types /\ Next => Intent'
<1>. SUFFICES ASSUME Types, Next PROVE Intent'
  OBVIOUS
<1>1. CASE UNCHANGED intent
  BY <1>1 DEF Types, Intent, intent
<1>2. ASSUME NEW p \in Procs, SetExit(p) PROVE Intent'
  <2>1. maps[applied] \subseteq Exits
    BY <1>2, BoundsAssumption DEF SetExit, Types, Books, World, Versions
  <2>. QED
    BY <1>2, <2>1 DEF SetExit, Types, Intent, SomeExit
<1>3. ASSUME NEW p \in Procs, ClearExit(p) \/ ClearPreferred(p) \/ SetInternetFallback(p)
      PROVE  Intent'
  BY <1>3 DEF ClearExit, ClearPreferred, SetInternetFallback, Types, Intent, SomeExit
<1>4. ASSUME NEW p \in Procs, EndChoice(p) \/ UndoChoice(p) \/ EndFallback(p) PROVE Intent'
  <2>1. call[p].exit \in SomeExit /\ call[p].want \in BOOLEAN /\ call[p].flag \in BOOLEAN
    BY DEF Types, Calls, Call
  <2>. QED
    BY <1>4, <2>1 DEF EndChoice, UndoChoice, EndFallback, Types, Intent
<1>5. CASE Start
  BY <1>5 DEF Start, Types, Intent
<1>. QED
  BY <1>1, <1>2, <1>3, <1>4, <1>5, IntentFrame

LEMMA BooksStep == Types /\ Next => Books'
<1>. SUFFICES ASSUME Types, Next PROVE Books'
  OBVIOUS
<1>1. CASE UNCHANGED books
  BY <1>1 DEF Types, Books, books
<1>2. ASSUME NEW p \in Procs, RelayDrop(p) \/ Silent(p) \/ Demote(p) \/ UndoSilent(p) PROVE Books'
  BY <1>2 DEF RelayDrop, Silent, Demote, UndoSilent, Types, Books, books
<1>3. ASSUME NEW p \in Procs, Commit(p) PROVE Books'
  <2>1. /\ call[p].nm \in 0 .. MaxVersion /\ call[p].routed \in BOOLEAN
        /\ Selected(call[p].nm) \in SomeExit
    BY SelectedTyped DEF Types, Calls, Call
  <2>. QED
    BY <1>3, <2>1 DEF Commit, Types, Books
<1>4. ASSUME NEW p \in Procs, Rearm(p) \/ RearmStale(p) PROVE Books'
  <2>1. status' \in [killSwitch : BOOLEAN, selected : SomeExit]
    <3>. DEFINE S == [killSwitch : BOOLEAN, selected : SomeExit]
    <3>1. \A b \in BOOLEAN : [status EXCEPT !.killSwitch = b] \in S
      BY DEF Types, Books
    <3>2. status' = status \/ \E b \in BOOLEAN : status' = [status EXCEPT !.killSwitch = b]
      BY <1>4 DEF Rearm, RearmStale
    <3>. QED
      BY <3>1, <3>2 DEF Types, Books
  <2>. QED
    BY <1>4, <2>1 DEF Rearm, RearmStale, Types, Books
<1>5. CASE Start
  <2>1. NoStatus \in [killSwitch : BOOLEAN, selected : SomeExit] /\ 0 \in 0 .. MaxVersion
    BY BoundsAssumption DEF NoStatus, SomeExit
  <2>. QED
    BY <1>5, <2>1 DEF Start, Types, Books, SomeExit
<1>. QED
  BY <1>1, <1>2, <1>3, <1>4, <1>5, BooksFrame

LEMMA DeviceStep == Types /\ Next => Device'
<1>. SUFFICES ASSUME Types, Next PROVE Device'
  OBVIOUS
<1>1. CASE UNCHANGED device
  BY <1>1 DEF Types, Device, device
<1>2. ASSUME NEW p \in Procs, Reconfigure(p) PROVE Device'
  <2>1. Selected(call[p].nm) \in SomeExit
    BY SelectedTyped DEF Types, Calls, Call
  <2>. QED
    BY <1>2, <2>1 DEF Reconfigure, Types, Device, SomeExit
<1>3. ASSUME NEW p \in Procs, Rebuild(p) PROVE Device'
  BY <1>3, NextIfaceTyped DEF Rebuild, Types, Device, SomeExit
<1>4. CASE DeviceDies \/ TearDown \/ Exit \/ Kill \/ Start
  BY <1>4, NextIfaceTyped DEF DeviceDies, TearDown, Exit, Kill, Gone, Start, Types, Device, SomeExit
<1>. QED
  BY <1>1, <1>2, <1>3, <1>4, DeviceFrame

LEMMA WallStep == Types /\ Next => Wall'
<1>. SUFFICES ASSUME Types, Next PROVE Wall'
  OBVIOUS
<1>1. CASE UNCHANGED wall
  BY <1>1 DEF Types, Wall, wall
<1>2. ASSUME NEW p \in Procs, ArmFirst(p) \/ Rollback(p) \/ Disarm(p) \/ Rearm(p) PROVE Wall'
  <2>1. /\ call[p].nm \in 0 .. MaxVersion
        /\ call[p].prior \in Policies /\ call[p].desired \in Policies
    BY DEF Types, Calls, Call
  <2>2. Policy(call[p].nm) \in Policies /\ Policy(applied) \in Policies
    BY <2>1, SelectedTyped DEF Types, Books
  <2>. QED
    BY <1>2, <2>1, <2>2 DEF ArmFirst, Rollback, Disarm, Rearm, Load, Types, Wall, wall
<1>3. CASE ClearGuard \/ Start
  <2>1. Off \in Policies
    BY BoundsAssumption DEF Policies, Off
  <2>. QED
    BY <1>3, <2>1 DEF ClearGuard, Load, Start, Types, Wall, wall
<1>. QED
  BY <1>1, <1>2, <1>3, WallFrame

LEMMA WorldStep == Types /\ Next => World'
<1>. SUFFICES ASSUME Types, Next PROVE World'
  OBVIOUS
<1>1. CASE UNCHANGED world
  BY <1>1 DEF Types, World, world
<1>2. ASSUME NEW p \in Procs, RelayDrop(p) \/ Silent(p) \/ Demote(p) PROVE World'
  BY <1>2 DEF RelayDrop, Silent, Demote, Types, World
<1>3. CASE Handshake \/ Start
  BY <1>3 DEF Handshake, Start, Types, World
<1>4. CASE Publish
  BY <1>4, BoundsAssumption DEF Publish, Types, World, Versions
<1>. QED
  BY <1>1, <1>2, <1>3, <1>4, WorldFrame

LEMMA LifeStep == Types /\ Next => Life'
<1>. SUFFICES ASSUME Types, Next PROVE Life'
  OBVIOUS
<1>1. CASE UNCHANGED life
  BY <1>1 DEF Types, Life, life
<1>2. ASSUME NEW p \in Procs,
             \/ \E op \in {"roam", "health"} : Recover(p, op)
             \/ EndSilent(p) \/ Rebuild(p) \/ Rearm(p) \/ RearmStale(p)
      PROVE  Life'
  BY <1>2 DEF Recover, EndSilent, Rebuild, Rearm, RearmStale, EndRecovery, Types, Life, life
<1>3. CASE Stop \/ TearDown \/ ClearGuard \/ ClearIntent \/ Exit \/ Kill \/ Start
  BY <1>3 DEF Stop, TearDown, ClearGuard, ClearIntent, Exit, Kill, Gone, Start, Types, Life, life
<1>. QED
  BY <1>1, <1>2, <1>3, LifeFrame

LEMMA PlacesStep == Types /\ Next => Places'
<1>. SUFFICES ASSUME Types, Next PROVE Places'
  OBVIOUS
<1>1. ASSUME NEW p \in Procs, Begin(p) PROVE Places'
  BY <1>1 DEF Begin, Sync, Reapply, RelayDrop, SetExit, ClearExit, ClearPreferred,
              SetInternetFallback, Silent, Demote, Recover, Goto, Types, Places, Labels, Inside
<1>2. ASSUME NEW p \in Procs, Transact(p) PROVE Places'
  BY <1>2 DEF Transact, Lock, Refuse, ReadExit, ArmFirst, Reconfigure, Rollback, Disarm, Commit,
              Fail, Unlock, Goto, Types, Places, Labels, Inside
<1>3. ASSUME NEW p \in Procs, End(p) PROVE Places'
  BY <1>3 DEF End, EndApply, EndChoice, UndoChoice, EndFallback, EndSilent, UndoSilent, EndDemote,
              Rebuild, Snapshot, Rearm, RearmStale, EndRecovery, Ends, Goto, Types, Places, Labels,
              Inside
<1>4. CASE Exit \/ Kill \/ Start
  BY <1>4 DEF Exit, Kill, Gone, Start, Goto, Types, Places, Labels, Inside
<1>5. CASE Publish \/ Handshake \/ DeviceDies \/ Stop \/ TearDown \/ ClearGuard \/ ClearIntent
  BY <1>5 DEF Publish, Handshake, DeviceDies, Stop, TearDown, ClearGuard, ClearIntent, locals,
              Types, Places
<1>. QED
  BY <1>1, <1>2, <1>3, <1>4, <1>5 DEF Next

LEMMA CallsStep == Types /\ Next => Calls'
<1>. SUFFICES ASSUME Types, Next PROVE Calls'
  OBVIOUS
<1>. USE DEF Types
<1>1. CASE UNCHANGED call
  BY <1>1 DEF Calls
<1>2. ASSUME NEW p \in Procs, Begin(p) PROVE Calls'
  <2>1. /\ preferred \in SomeExit /\ NoExit \in SomeExit /\ fallback \in BOOLEAN
        /\ applied \in 0 .. MaxVersion /\ latest \in 0 .. MaxVersion /\ 0 \in 0 .. MaxVersion
        /\ fallback' \in BOOLEAN
    BY IntentStep, BoundsAssumption DEF Intent, Books, World, Versions, SomeExit
  <2>2. CASE \E op \in Ops, nm \in {0, applied, latest}, exit \in {preferred, NoExit} :
                Applies(p, op, nm, exit, FALSE)
    BY <2>1, <2>2, AppliesTyped
  <2>3. CASE SetInternetFallback(p)
    <3>. DEFINE c == [NoCall EXCEPT !.op = "fallback", !.nm = applied, !.flag = fallback,
                                    !.want = fallback']
    <3>1. c \in Call
      BY <2>1, NoCallTyped DEF Call, NoCall, Ops
    <3>2. call' = [call EXCEPT ![p] = c]
      BY <2>3 DEF SetInternetFallback
    <3>. HIDE DEF c
    <3>. QED
      BY <3>1, <3>2, CallStep
  <2>4. ASSUME NEW op \in {"roam", "health"}, Recover(p, op) PROVE Calls'
    <3>. DEFINE c == [NoCall EXCEPT !.op = op]
    <3>1. c \in Call
      BY NoCallTyped DEF Call, NoCall, Ops
    <3>2. call' = [call EXCEPT ![p] = c]
      BY <2>4 DEF Recover
    <3>. HIDE DEF c
    <3>. QED
      BY <3>1, <3>2, CallStep
  <2>5. CASE Demote(p)
    BY <2>1, <2>2, <2>5, <1>1 DEF Demote, Calls, Call
  <2>. QED
    BY <1>2, <2>2, <2>3, <2>4, <2>5
       DEF Begin, Sync, Reapply, RelayDrop, SetExit, ClearExit, ClearPreferred, Silent, Ops
<1>3. ASSUME NEW p \in Procs, ReadExit(p) PROVE Calls'
  <2>1. PICK r \in Ready(Selected(call[p].nm)) : call' = [call EXCEPT ![p].routed = r]
    BY <1>3 DEF ReadExit
  <2>2. call[p] \in Call /\ r \in BOOLEAN
    BY SelectedTyped, ReadyIsBoolean DEF Calls, Call
  <2>. QED
    BY <2>1, <2>2, RoutedTyped, CallStep
<1>4. ASSUME NEW p \in Procs, ArmFirst(p) PROVE Calls'
  <2>1. CASE call' = [call EXCEPT ![p].prior = current, ![p].desired = Policy(call[p].nm)]
    <3>1. call[p] \in Call /\ current \in Policies /\ Policy(call[p].nm) \in Policies
      BY SelectedTyped DEF Calls, Call, Wall
    <3>. DEFINE c == [call[p] EXCEPT !.prior = current, !.desired = Policy(call[p].nm)]
    <3>2. c \in Call
      BY <3>1, PolicyTyped
    <3>3. call' = [call EXCEPT ![p] = c]
      BY <2>1
    <3>. HIDE DEF c
    <3>. QED
      BY <3>2, <3>3, CallStep
  <2>. QED
    BY <1>4, <1>1, <2>1 DEF ArmFirst
<1>5. ASSUME NEW p \in Procs, Snapshot(p) PROVE Calls'
  <2>1. call[p] \in Call /\ applied \in 0 .. MaxVersion /\ preferred \in SomeExit
        /\ fallback \in BOOLEAN
    BY DEF Calls, Books, Intent
  <2>. DEFINE c == [call[p] EXCEPT !.nm = applied, !.exit = preferred, !.flag = fallback]
  <2>2. c \in Call
    BY <2>1, SnapshotTyped
  <2>3. call' = [call EXCEPT ![p] = c]
    BY <1>5 DEF Snapshot
  <2>. HIDE DEF c
  <2>. QED
    BY <2>2, <2>3, CallStep
<1>6. ASSUME NEW p \in Procs, RearmStale(p) PROVE Calls'
  <2>1. CASE call' = [call EXCEPT ![p].tries = @ + 1]
    <3>1. call[p] \in Call
      BY DEF Calls
    <3>. QED
      BY <2>1, <3>1, TriesTyped, CallStep
  <2>. QED
    BY <1>6, <2>1, EndsTyped DEF RearmStale, EndRecovery
<1>7. ASSUME NEW p \in Procs, EndSilent(p) PROVE Calls'
  <2>1. CASE call' = [call EXCEPT ![p] = [NoCall EXCEPT !.op = "roam"]]
    <3>. DEFINE c == [NoCall EXCEPT !.op = "roam"]
    <3>1. c \in Call
      BY NoCallTyped DEF Call, NoCall, Ops
    <3>2. call' = [call EXCEPT ![p] = c]
      BY <2>1
    <3>. HIDE DEF c
    <3>. QED
      BY <3>1, <3>2, CallStep
  <2>. QED
    BY <1>7, <2>1, EndsTyped DEF EndSilent
<1>8. ASSUME NEW p \in Procs,
             \/ EndApply(p) \/ EndChoice(p) \/ UndoChoice(p) \/ EndFallback(p) \/ UndoSilent(p)
             \/ Rebuild(p) \/ Rearm(p)
      PROVE  Calls'
  BY <1>1, <1>8, EndsTyped DEF EndApply, EndChoice, UndoChoice, EndFallback, UndoSilent, Rebuild,
                               Rearm, EndRecovery
<1>9. CASE Exit \/ Kill
  BY <1>9, NoCallTyped DEF Exit, Kill, Gone, Calls
<1>10. CASE Start
  <2>1. ASSUME NEW p \in Procs, Applies(p, "sync", savedMap, NoExit, FALSE) PROVE Calls'
    <3>1. savedMap \in 0 .. MaxVersion /\ NoExit \in SomeExit /\ "sync" \in Ops
      BY DEF Books, SomeExit, Ops
    <3>. QED
      BY <2>1, <3>1, AppliesTyped
  <2>2. setting.procs \subseteq Procs
    BY DEF World, Setting
  <2>. QED
    BY <1>1, <1>10, <2>1, <2>2 DEF Start
<1>. QED
  BY <1>1, <1>2, <1>3, <1>4, <1>5, <1>6, <1>7, <1>8, <1>9, <1>10, CallFrame

LEMMA TypesInit == Init => Types
<1>. SUFFICES ASSUME Init PROVE Types
  OBVIOUS
<1>1. setting \in Setting /\ maps \in [Versions -> SUBSET Exits] /\ setting.fallback \in BOOLEAN
  BY SettingsAssumption DEF Init, Setting
<1>2. Calls
  BY NoCallTyped DEF Init, Calls
<1>3. Intent /\ Device
  BY <1>1, BoundsAssumption DEF Init, Intent, Device, SomeExit
<1>4. status \in [killSwitch : BOOLEAN, selected : SomeExit]
  BY DEF Init, NoStatus, SomeExit
<1>5. 0 \in 0 .. MaxVersion /\ Off \in Policies /\ 1 \in Versions
  BY BoundsAssumption DEF Policies, Off, Versions
<1>6. Books /\ Wall /\ World /\ Life
  BY <1>1, <1>4, <1>5 DEF Init, Books, Wall, World, Life, SomeExit
<1>7. Places
  BY DEF Init, Places, Labels
<1>. QED
  BY <1>2, <1>3, <1>6, <1>7 DEF Types

LEMMA TypesStep == Types /\ [Next]_vars => Types'
<1>1. Types /\ Next => Types'
  BY IntentStep, BooksStep, DeviceStep, WallStep, WorldStep, LifeStep, PlacesStep, CallsStep
     DEF Types
<1>2. Types /\ UNCHANGED vars => Types'
  BY DEF Types, vars, intent, books, device, wall, world, life, locals, Calls, Intent, Books,
         Device, Wall, World, Life, Places
<1>. QED
  BY <1>1, <1>2

-----------------------------------------------------------------------------
(* Mutual exclusion. *)

\* A step moves one goroutine: into or out of a transaction, or neither.
LEMMA MutexStep == Types /\ Mutex /\ [Next]_vars => Mutex'
<1>. SUFFICES ASSUME Types, Mutex, [Next]_vars PROVE Mutex'
  OBVIOUS
<1>. USE NamesAssumption DEF Inside
<1>1. pc \in [Procs -> Labels] /\ applyMu \in Procs \cup {NoProc} /\ call \in [Procs -> Call]
  BY DEF Types, Places, Calls
<1>2. ASSUME NEW p \in Procs, Begin(p) PROVE Mutex'
  BY <1>1, <1>2 DEF Begin, Begins, Sync, Reapply, RelayDrop, SetExit, ClearExit, ClearPreferred,
                    SetInternetFallback, Silent, Demote, Recover, Applies, Goto, Mutex
<1>3. ASSUME NEW p \in Procs, Transact(p) PROVE Mutex'
  <2>1. CASE Lock(p) \/ Refuse(p)
    BY <1>1, <2>1 DEF Lock, Refuse, Fail, Unlock, Goto, Mutex
  <2>2. CASE ReadExit(p)
    BY <1>1, <2>2 DEF ReadExit, Goto, Mutex
  <2>3. CASE ArmFirst(p)
    BY <1>1, <2>3 DEF ArmFirst, Fail, Unlock, Goto, Mutex
  <2>4. CASE Reconfigure(p)
    BY <1>1, <2>4 DEF Reconfigure, Goto, Mutex
  <2>5. CASE Rollback(p) \/ Disarm(p) \/ Commit(p)
    BY <1>1, <2>5 DEF Rollback, Disarm, Commit, Fail, Unlock, Goto, Mutex
  <2>. QED
    BY <1>3, <2>1, <2>2, <2>3, <2>4, <2>5 DEF Transact
<1>4. ASSUME NEW p \in Procs, End(p) PROVE Mutex'
  <2>1. CASE EndApply(p) \/ EndChoice(p) \/ UndoChoice(p)
    BY <1>1, <2>1 DEF EndApply, EndChoice, UndoChoice, Ends, Goto, Mutex
  <2>2. CASE EndFallback(p) \/ EndSilent(p) \/ UndoSilent(p) \/ EndDemote(p)
    BY <1>1, <2>2 DEF EndFallback, EndSilent, UndoSilent, EndDemote, Ends, Goto, Mutex
  <2>3. CASE Rebuild(p) \/ Snapshot(p) \/ Rearm(p) \/ RearmStale(p)
    BY <1>1, <2>3 DEF Rebuild, Snapshot, Rearm, RearmStale, EndRecovery, Ends, Goto, Mutex
  <2>. QED
    BY <1>4, <2>1, <2>2, <2>3 DEF End
<1>5. CASE Exit \/ Kill
  BY <1>1, <1>5 DEF Exit, Kill, Gone, Mutex
<1>6. CASE Start
  BY <1>1, <1>6 DEF Start, Applies, Goto, Types, World, Setting, Mutex
<1>7. CASE Publish \/ Handshake \/ DeviceDies \/ Stop \/ TearDown \/ ClearGuard \/ ClearIntent
  BY <1>7 DEF Publish, Handshake, DeviceDies, Stop, TearDown, ClearGuard, ClearIntent, locals, Mutex
<1>8. CASE UNCHANGED vars
  BY <1>8 DEF vars, locals, Mutex
<1>. QED
  BY <1>2, <1>3, <1>4, <1>5, <1>6, <1>7, <1>8 DEF Next

\* Every variable has its type, and only the goroutine that holds applyMu is
\* inside a transaction (applyNetmap, SetExit, ClearExit), for any constants.
THEOREM TypeCorrect == Spec => []TypeOK
<1>. DEFINE Inv == Types /\ Mutex
<1>1. Init => Inv
  BY TypesInit DEF Init, Mutex, Inside
<1>2. Inv /\ [Next]_vars => Inv'
  BY TypesStep, MutexStep
<1>3. Inv => TypeOK
  <2>1. Intent /\ Books /\ Device =>
           {preferred, savedExit, exitKey, cfg, routes, status.selected} \subseteq Exits \cup {NoExit}
    BY DEF Intent, Books, Device, SomeExit
  <2>2. Intent /\ Books /\ Device /\ Life =>
           {fallback, savedFallback, exitRouted, up, recovering, cleanup, status.killSwitch}
              \subseteq BOOLEAN
    BY DEF Intent, Books, Device, Life
  <2>. QED
    BY <2>1, <2>2 DEF TypeOK, Types, Mutex, Books, Device, Wall, World, Life, Inside
<1>. QED
  BY <1>1, <1>2, <1>3, PTL DEF Spec

-----------------------------------------------------------------------------
(* What the status rests on. *)

\* An armed enforcer remembers what the kernel has.
Remembers == current # Off => guard = current

\* While the daemon runs, a status that claims protection has an armed enforcer
\* behind it; only a transaction that has disarmed and not yet committed is
\* between the two, and it commits what it loaded.
Backed ==
    phase = "running" =>
       /\ status.killSwitch => current # Off \/ \E p \in Procs : pc[p] = "commit"
       /\ \A p \in Procs : pc[p] = "commit" => current = call[p].desired
       /\ \A p \in Procs : pc[p] \in {"engine", "rollback"} /\ status.killSwitch
             => call[p].prior # Off

\* A process that is gone left no goroutine behind.
NobodyDown == phase = "down" => \A p \in Procs : pc[p] = "idle"

Honest == Remembers /\ Backed /\ NobodyDown

LEMMA RemembersStep == Types /\ Remembers /\ [Next]_vars => Remembers'
<1>. SUFFICES ASSUME Remembers, [Next]_vars PROVE Remembers'
  OBVIOUS
<1>1. CASE UNCHANGED wall
  BY <1>1 DEF Remembers, wall
<1>2. ASSUME NEW p \in Procs, ArmFirst(p) \/ Rollback(p) \/ Disarm(p) \/ Rearm(p)
      PROVE  Remembers'
  BY <1>2 DEF ArmFirst, Rollback, Disarm, Rearm, Load, Remembers, wall
<1>3. CASE ClearGuard \/ Start
  BY <1>3 DEF ClearGuard, Load, Start, Remembers, wall
<1>4. CASE UNCHANGED vars
  BY <1>1, <1>4 DEF vars
<1>. QED
  BY <1>1, <1>2, <1>3, <1>4, WallFrame

\* A goroutine moves in the middle of a call, or begins one in a living process;
\* it does not change the life of the process.
LEMMA GoroutineStep ==
    ASSUME NEW p \in Procs, Begin(p) \/ Transact(p) \/ End(p)
    PROVE  /\ pc[p] # "idle" \/ phase = "running" \/ (Late /\ phase # "down")
           /\ UNCHANGED phase /\ UNCHANGED cleanup
<1>1. CASE Begin(p)
  BY <1>1 DEF Begin, Begins, Sync, Reapply, RelayDrop, SetExit, ClearExit, ClearPreferred,
              SetInternetFallback, Silent, Demote, Recover, life
<1>2. CASE Transact(p)
  BY <1>2 DEF Transact, Lock, Refuse, ReadExit, ArmFirst, Reconfigure, Rollback, Disarm, Commit, life
<1>3. CASE End(p)
  BY <1>3 DEF End, EndApply, EndChoice, UndoChoice, EndFallback, EndSilent, UndoSilent, EndDemote,
              Rebuild, Snapshot, Rearm, RearmStale, life
<1>. QED
  BY <1>1, <1>2, <1>3

LEMMA NobodyDownStep == Types /\ NobodyDown /\ [Next]_vars => NobodyDown'
<1>. SUFFICES ASSUME Types, NobodyDown, [Next]_vars PROVE NobodyDown'
  OBVIOUS
<1>1. pc \in [Procs -> Labels]
  BY DEF Types, Places
<1>2. ASSUME NEW p \in Procs, Begin(p) \/ Transact(p) \/ End(p)
      PROVE  phase # "down" /\ UNCHANGED phase
  BY <1>2, GoroutineStep DEF NobodyDown
<1>3. CASE Exit \/ Kill \/ Start
  BY <1>3 DEF Exit, Kill, Gone, Start, NobodyDown
<1>4. CASE Publish \/ Handshake \/ DeviceDies \/ Stop \/ TearDown \/ ClearGuard \/ ClearIntent
  BY <1>4 DEF Publish, Handshake, DeviceDies, Stop, TearDown, ClearGuard, ClearIntent, locals, life,
              NobodyDown
<1>5. CASE UNCHANGED vars
  BY <1>5 DEF vars, locals, life, NobodyDown
<1>. QED
  BY <1>2, <1>3, <1>4, <1>5 DEF Next, NobodyDown

LEMMA BackedStep ==
    Types /\ Mutex /\ Honest /\ [Next]_vars => Backed'
<1>. SUFFICES ASSUME Types, Mutex, Honest, [Next]_vars PROVE Backed'
  OBVIOUS
<1>. USE NamesAssumption DEF Inside
<1>1. /\ pc \in [Procs -> Labels] /\ call \in [Procs -> Call]
      /\ status \in [killSwitch : BOOLEAN, selected : SomeExit]
  BY DEF Types, Places, Calls, Books
<1>2. ASSUME NEW p \in Procs, Begin(p) PROVE Backed'
  <2>1. /\ \A q \in Procs \ {p} : call'[q] = call[q]
        /\ UNCHANGED <<status, wall>> /\ UNCHANGED phase
    BY <1>1, <1>2 DEF Begin, Sync, Reapply, RelayDrop, SetExit, ClearExit, ClearPreferred,
                      SetInternetFallback, Silent, Demote, Recover, Applies, books, wall, life
  <2>2. /\ \A q \in Procs \ {p} : pc'[q] = pc[q]
        /\ pc'[p] \in {"wait", "apply", "clear", "demote", "rebuild"}
        /\ pc[p] \in {"idle", "clear", "demote"}
    BY <1>1, <1>2 DEF Begin, Begins, Sync, Reapply, RelayDrop, SetExit, ClearExit, ClearPreferred,
                      SetInternetFallback, Silent, Demote, Recover, Goto
  <2>. QED
    BY <2>1, <2>2 DEF wall, Honest, Backed
<1>3. ASSUME NEW p \in Procs, Lock(p) \/ Refuse(p) \/ ReadExit(p) PROVE Backed'
  BY <1>1, <1>3 DEF Lock, Refuse, ReadExit, Fail, Goto, books, wall, life, Honest, Backed
<1>4. ASSUME NEW p \in Procs, ArmFirst(p) PROVE Backed'
  <2>1. CASE pc' = [pc EXCEPT ![p] = "engine"]
    <3>1. /\ \A q \in Procs \ {p} : pc[q] \notin Inside /\ pc'[q] = pc[q]
          /\ pc'[p] = "engine" /\ pc[p] = "guard"
      BY <1>1, <1>4, <2>1 DEF ArmFirst, Mutex
    <3>. DEFINE c == [call[p] EXCEPT !.prior = current, !.desired = Policy(call[p].nm)]
    <3>2. call' = [call EXCEPT ![p] = c]
      BY <1>1, <1>4, <2>1 DEF ArmFirst, Fail, Goto
    <3>3. c.prior = current
      BY <1>1 DEF Call
    <3>. HIDE DEF c
    <3>4. call'[p].prior = current
      BY <1>1, <3>2, <3>3
    <3>5. UNCHANGED <<status, phase>> /\ (current # Off => current' # Off)
      BY <1>4 DEF ArmFirst, Load, books, wall, life
    <3>. QED
      BY <3>1, <3>4, <3>5 DEF Honest, Backed
  <2>2. CASE pc' = [pc EXCEPT ![p] = "failed"] /\ UNCHANGED <<wall, call>>
    BY <1>1, <1>4, <2>2 DEF ArmFirst, books, wall, life, Honest, Backed
  <2>. QED
    BY <1>4, <2>1, <2>2 DEF ArmFirst, Fail, Goto
<1>5. ASSUME NEW p \in Procs, Reconfigure(p) PROVE Backed'
  BY <1>1, <1>5 DEF Reconfigure, Goto, books, wall, life, Honest, Backed
<1>6. ASSUME NEW p \in Procs, Rollback(p) PROVE Backed'
  BY <1>1, <1>6 DEF Rollback, Load, Fail, Goto, books, wall, life, Mutex, Honest, Backed
<1>7. ASSUME NEW p \in Procs, Disarm(p) PROVE Backed'
  BY <1>1, <1>7 DEF Disarm, Load, Fail, Goto, books, wall, life, Mutex, Honest, Backed
<1>8. ASSUME NEW p \in Procs, Commit(p) PROVE Backed'
  BY <1>1, <1>8 DEF Commit, Goto, wall, life, Mutex, Honest, Backed
<1>9. ASSUME NEW p \in Procs, End(p) PROVE Backed'
  <2>1. CASE EndApply(p) \/ EndChoice(p) \/ UndoChoice(p) \/ EndFallback(p)
    BY <1>1, <2>1 DEF EndApply, EndChoice, UndoChoice, EndFallback, Ends, Goto, books, wall, life,
                      Honest, Backed
  <2>2. CASE EndSilent(p) \/ UndoSilent(p) \/ EndDemote(p) \/ Rebuild(p) \/ Snapshot(p)
    BY <1>1, <2>2 DEF EndSilent, UndoSilent, EndDemote, Rebuild, Snapshot, EndRecovery, Ends, Goto,
                      books, wall, life, Honest, Backed
  <2>3. CASE Rearm(p)
    BY <1>1, <2>3 DEF Rearm, Load, EndRecovery, Ends, Goto, wall, Mutex, Honest, Backed
  <2>4. CASE RearmStale(p)
    BY <1>1, <2>4 DEF RearmStale, EndRecovery, Ends, Goto, wall, Mutex, Honest, Backed
  <2>. QED
    BY <1>9, <2>1, <2>2, <2>3, <2>4 DEF End
<1>10. CASE Publish \/ Handshake \/ DeviceDies
  BY <1>10 DEF Publish, Handshake, DeviceDies, books, wall, life, locals, Honest, Backed
<1>11. CASE Stop \/ TearDown \/ ClearGuard \/ ClearIntent \/ Exit \/ Kill
  BY <1>11 DEF Stop, TearDown, ClearGuard, ClearIntent, Exit, Kill, Gone, Backed
<1>12. CASE Start
  BY <1>1, <1>12 DEF Start, Goto, NoStatus, Types, World, Setting, Honest, NobodyDown, Backed
<1>13. CASE UNCHANGED vars
  BY <1>13 DEF vars, books, wall, life, locals, Honest, Backed
<1>. QED
  BY <1>2, <1>3, <1>4, <1>5, <1>6, <1>7, <1>8, <1>9, <1>10, <1>11, <1>12, <1>13 DEF Next, Transact

\* Whenever no transaction is in progress, a status that claims protection is
\* true of the kernel (applyKillSwitchPolicy, refreshKillSwitch), for any number
\* of goroutines, exits and netmaps and whatever fails.
THEOREM HonestStatus == Spec => []StatusHonest
<1>. DEFINE Inv == Types /\ Mutex /\ Honest
<1>1. Init => Inv
  BY TypesInit DEF Init, Mutex, Inside, Honest, Remembers, Backed, NobodyDown, NoStatus
<1>2. Inv /\ [Next]_vars => Inv'
  BY TypesStep, MutexStep, RemembersStep, BackedStep, NobodyDownStep DEF Honest
<1>3. Inv => StatusHonest
  BY NamesAssumption DEF StatusHonest, Mutex, Inside, Honest, Remembers, Backed
<1>. QED
  BY <1>1, <1>2, <1>3, PTL DEF Spec

-----------------------------------------------------------------------------
(* What a clean exit leaves behind. *)

\* Without late calls nothing moves once the process stops, and each step of the
\* shutdown stands on the one before.
Shutdown ==
    /\ phase # "running" => \A p \in Procs : pc[p] = "idle"
    /\ phase \in {"clearing", "clean"} => routes = NoExit
    /\ phase = "clean" => guard = Off
    /\ ~cleanup => phase \in {"exiting", "down"} /\ guard = Off /\ routes = NoExit

LEMMA ShutdownStep ==
    ASSUME ~Late, Types, Shutdown, [Next]_vars
    PROVE  Shutdown'
<1>1. ASSUME NEW p \in Procs, Begin(p) \/ Transact(p) \/ End(p) PROVE Shutdown'
  <2>1. phase = "running" /\ UNCHANGED phase /\ UNCHANGED cleanup
    BY <1>1, GoroutineStep DEF Shutdown
  <2>. QED
    BY <2>1 DEF Types, Life, Shutdown
<1>2. CASE Publish \/ Handshake \/ DeviceDies
  BY <1>2 DEF Publish, Handshake, DeviceDies, device, wall, life, locals, Shutdown
<1>3. CASE Stop \/ TearDown \/ ClearGuard \/ ClearIntent
  BY <1>3 DEF Stop, TearDown, ClearGuard, ClearIntent, Load, device, wall, locals, Shutdown
<1>4. CASE Exit \/ Kill
  BY <1>4 DEF Exit, Kill, Gone, wall, Shutdown
<1>5. CASE Start
  BY <1>5 DEF Start, Shutdown
<1>6. CASE UNCHANGED vars
  BY <1>6 DEF vars, device, wall, life, locals, Shutdown
<1>. QED
  BY <1>1, <1>2, <1>3, <1>4, <1>5, <1>6 DEF Next

\* The setting and the netmaps never change.
LEMMA FixedStep == [Next]_vars => UNCHANGED <<setting, maps>>
<1>1. CASE UNCHANGED world
  BY <1>1 DEF world
<1>2. ASSUME NEW p \in Procs, RelayDrop(p) \/ Silent(p) \/ Demote(p)
      PROVE  UNCHANGED <<setting, maps>>
  BY <1>2 DEF RelayDrop, Silent, Demote
<1>3. CASE Publish \/ Handshake \/ Start
  BY <1>3 DEF Publish, Handshake, Start
<1>4. CASE UNCHANGED vars
  BY <1>1, <1>4 DEF vars
<1>. QED
  BY <1>1, <1>2, <1>3, <1>4, WorldFrame

\* A process that took back its cleanup intent left neither an armed firewall nor
\* a route (Run's cleanup), if no call overlapped the shutdown: whatever failed on
\* the way, and for any number of earlier lives, kills included.
THEOREM QuietCleanExit == Spec => []CleanExitQuiet
<1>. DEFINE Inv == Types /\ (Late \/ Shutdown)
<1>1. Init => Inv
  BY TypesInit DEF Init, Shutdown
<1>2. Inv /\ [Next]_vars => Inv'
  <2>. SUFFICES ASSUME Inv, [Next]_vars PROVE Inv'
    OBVIOUS
  <2>1. UNCHANGED setting
    BY FixedStep
  <2>2. Late => Late'
    BY <2>1 DEF Late
  <2>3. ~Late => Shutdown'
    BY ShutdownStep
  <2>. QED
    BY <2>2, <2>3, TypesStep
<1>3. Inv => CleanExitQuiet
  BY DEF CleanExitQuiet, CleanExit, Shutdown
<1>. QED
  BY <1>1, <1>2, <1>3, PTL DEF Spec
-----------------------------------------------------------------------------
(* What keeps the firewall armed. *)

\* Netmap v offers exit x.
Offered(x, v) == v > 0 /\ x \in maps[v]

\* p changes the preference, and has not yet returned or undone it.
Selecting(p) == call[p].op \in {"set", "clear"} /\ pc[p] \in Inside \cup {"done", "failed"}

\* p may take back what it changed.
Pending(p) == pc[p] \in Inside \/ Selecting(p) \/ call[p].op = "fallback"

\* The user wants protection: by the books, before p changed anything, and
\* after p's netmap is committed.
Wish == ~fallback /\ Offered(preferred, applied)
Before(p) ==
    /\ ~(IF call[p].op = "fallback" THEN call[p].flag ELSE fallback)
    /\ Offered(IF call[p].op \in {"set", "clear"} THEN call[p].exit ELSE preferred, applied)
After(p) == ~fallback /\ Offered(preferred, call[p].nm)

Armed == current # Off

\* What a pending call keeps, could restore, intends and has loaded.
Keeps(p) ==
    /\ \/ pc[p] \in {"apply", "guard", "engine", "rollback", "disarm"}
       \/ call[p].op = "fallback" /\ pc[p] \in {"wait", "failed"}
       \/ call[p].op \in {"set", "clear"} /\ pc[p] = "failed"
    /\ Before(p)
    => Armed
Restores(p) == pc[p] \in {"engine", "rollback"} /\ Before(p) => call[p].prior # Off
Intends(p) == pc[p] \in {"engine", "rollback", "disarm"} /\ After(p) => call[p].desired # Off
Loaded(p) ==
    /\ pc[p] \in {"engine", "rollback", "commit"} /\ After(p) => Armed
    /\ pc[p] = "done" /\ call[p].op \in {"set", "clear", "fallback"} /\ Wish => Armed
Claims(p) == Keeps(p) /\ Restores(p) /\ Intends(p) /\ Loaded(p)

Guarded ==
    phase = "running" =>
       /\ (\A p \in Procs : ~Pending(p)) /\ Wish => Armed
       /\ \A p \in Procs : Claims(p)

\* The exit the status reports is the one in force: the preference, or what a
\* call that is not yet committed will return to.
Told ==
    phase = "running" /\ status.selected # NoExit =>
       /\ (\A p \in Procs : Selecting(p) => pc[p] = "done") => Offered(preferred, applied)
       /\ \A p \in Procs : Selecting(p) /\ pc[p] # "done" => Offered(call[p].exit, applied)

\* Netmaps come from the coordinator, in order; who selects applies the last one.
Version(p) ==
    /\ call[p].nm <= latest
    /\ pc[p] \in Inside \ {"apply"} => call[p].nm >= applied
    /\ Selecting(p) => call[p].nm = applied
    /\ pc[p] \in Inside /\ call[p].op = "set" => Offered(preferred, applied)
    /\ pc[p] \in Inside /\ call[p].op = "clear" => preferred = NoExit
Versioned ==
    /\ applied <= latest /\ savedMap <= latest
    /\ \A p \in Procs : Version(p)

\* Where the operations are.
Order(p) ==
    /\ pc[p] = "wait" => call[p].op \notin {"set", "clear"}
    /\ pc[p] = "demote" => call[p].op \in {"roam", "health"}
    /\ pc[p] = "clear" => call[p].op = "clear"
    /\ call[p].op = "fallback" => /\ pc[p] \in {"wait", "done", "failed"} \cup Inside
                                  /\ "fallback" \in setting.ops
    /\ pc[p] # "idle" => p \in setting.procs
Ordered == \A p \in Procs : Order(p)

\* What begins, or goes on from a demotion or a clearing, has nothing to take back.
LEMMA BeginsFrom ==
    ASSUME Ordered, NEW p \in Procs, Begin(p)
    PROVE  /\ pc[p] \in {"idle", "clear", "demote"} /\ p \in setting.procs
           /\ UNCHANGED phase /\ ~Pending(p)
<1>1. (pc[p] = "idle" /\ p \in setting.procs) \/ pc[p] \in {"clear", "demote"}
  BY DEF Begin, Begins, Sync, Reapply, RelayDrop, SetExit, ClearExit, ClearPreferred,
         SetInternetFallback, Silent, Demote, Recover
<1>2. p \in setting.procs
  BY <1>1 DEF Ordered, Order
<1>3. UNCHANGED phase
  BY DEF Begin, Sync, Reapply, RelayDrop, SetExit, ClearExit, ClearPreferred,
         SetInternetFallback, Silent, Demote, Recover, life
<1>4. ~Pending(p)
  BY <1>1 DEF Pending, Selecting, Ordered, Order, Inside
<1>. QED
  BY <1>1, <1>2, <1>3, <1>4

\* A goroutine's step leaves the places and the locals of the others alone.
LEMMA OthersStep ==
    ASSUME Types, NEW p \in Procs, Begin(p) \/ Transact(p) \/ End(p)
    PROVE  \A q \in Procs \ {p} : pc'[q] = pc[q] /\ call'[q] = call[q]
<1>. USE DEF Types, Places, Calls
<1>1. CASE Begin(p)
  BY <1>1 DEF Begin, Sync, Reapply, RelayDrop, SetExit, ClearExit, ClearPreferred,
              SetInternetFallback, Silent, Demote, Recover, Applies, Goto
<1>2. CASE Transact(p)
  BY <1>2 DEF Transact, Lock, Refuse, ReadExit, ArmFirst, Reconfigure, Rollback, Disarm, Commit,
              Fail, Goto
<1>3. CASE End(p)
  BY <1>3 DEF End, EndApply, EndChoice, UndoChoice, EndFallback, EndSilent, UndoSilent, EndDemote,
              Rebuild, Snapshot, Rearm, RearmStale, EndRecovery, Ends, Goto
<1>. QED
  BY <1>1, <1>2, <1>3

\* What a call remembers when it begins ...
LEMMA AppliesCall ==
    ASSUME Calls, NEW p \in Procs, NEW op, NEW nm, NEW exit, NEW flag,
           Applies(p, op, nm, exit, flag)
    PROVE  /\ call'[p].op = op /\ call'[p].nm = nm
           /\ call'[p].exit = exit /\ call'[p].flag = flag
BY DEF Calls, Applies, NoCall

\* ... and what a transaction adds.
LEMMA ReadCall ==
    ASSUME Calls, NEW p \in Procs, ReadExit(p)
    PROVE  /\ call'[p].op = call[p].op /\ call'[p].nm = call[p].nm
           /\ call'[p].exit = call[p].exit /\ call'[p].flag = call[p].flag
<1>1. PICK r : call' = [call EXCEPT ![p].routed = r]
  BY DEF ReadExit
<1>. QED
  BY <1>1 DEF Calls, Call

LEMMA ArmCall ==
    ASSUME Calls, NEW p \in Procs,
           call' = [call EXCEPT ![p].prior = current, ![p].desired = Policy(call[p].nm)]
    PROVE  /\ call'[p].op = call[p].op /\ call'[p].nm = call[p].nm
           /\ call'[p].exit = call[p].exit /\ call'[p].flag = call[p].flag
           /\ call'[p].prior = current /\ call'[p].desired = Policy(call[p].nm)
<1>. DEFINE c == [call[p] EXCEPT !.prior = current, !.desired = Policy(call[p].nm)]
<1>1. call' = [call EXCEPT ![p] = c]
  OBVIOUS
<1>2. /\ c.op = call[p].op /\ c.nm = call[p].nm /\ c.exit = call[p].exit
      /\ c.flag = call[p].flag /\ c.prior = current /\ c.desired = Policy(call[p].nm)
  BY DEF Calls, Call
<1>. HIDE DEF c
<1>3. call'[p] = c
  BY <1>1 DEF Calls
<1>. QED
  BY <1>2, <1>3

LEMMA EndsCall ==
    ASSUME Types, NEW p \in Procs, Ends(p)
    PROVE  pc'[p] = "idle" /\ call'[p].op = "none" /\ call'[p].nm = 0
BY DEF Types, Calls, Places, Ends, Goto, NoCall

\* A policy is armed for an exit that is offered, unless the fallback is on.
LEMMA PolicyArmed ==
    ASSUME Types, NEW v \in 0 .. MaxVersion
    PROVE  /\ Selected(v) # NoExit <=> Offered(preferred, v)
           /\ Policy(v) # Off <=> ~fallback /\ Offered(preferred, v)
<1>1. v > 0 => maps[v] \subseteq Exits
  BY BoundsAssumption DEF Types, World, Versions
<1>2. Selected(v) # NoExit <=> Offered(preferred, v)
  BY <1>1, NamesAssumption DEF Selected, Offered
<1>3. iface # Off
  BY DEF Types, Device, Off
<1>. QED
  BY <1>2, <1>3 DEF Policy

\* One step moves one goroutine along its operation.
LEMMA OrderedStep == Types /\ NobodyDown /\ Ordered /\ [Next]_vars => Ordered'
<1>. SUFFICES ASSUME Types, NobodyDown, Ordered, [Next]_vars PROVE Ordered'
  OBVIOUS
<1>. USE DEF Inside
<1>1. UNCHANGED setting
  BY FixedStep
<1>2. pc \in [Procs -> Labels] /\ call \in [Procs -> Call]
  BY DEF Types, Places, Calls
<1>3. ASSUME NEW p \in Procs, Begin(p) \/ Transact(p) \/ End(p), Order(p)' PROVE Ordered'
  BY <1>1, <1>3, OthersStep DEF Ordered, Order
<1>4. ASSUME NEW p \in Procs, Begin(p) PROVE Order(p)'
  <2>1. CASE Sync(p) \/ Reapply(p) \/ RelayDrop(p) \/ SetExit(p) \/ Silent(p)
    <3>1. \/ call'[p].op \in {"sync", "reapply", "drop", "silent"} /\ pc'[p] = "wait"
          \/ call'[p].op = "set" /\ pc'[p] = "apply"
      <4>1. CASE SetExit(p)
        BY <1>2, <4>1, AppliesCall DEF SetExit, Goto, Types
      <4>2. CASE Sync(p) \/ Reapply(p) \/ RelayDrop(p) \/ Silent(p)
        BY <1>2, <4>2, AppliesCall DEF Sync, Reapply, RelayDrop, Silent, Goto, Types
      <4>. QED
        BY <2>1, <4>1, <4>2
    <3>2. p \in setting.procs
      BY <2>1 DEF Sync, Reapply, RelayDrop, SetExit, Silent, Begins
    <3>. QED
      BY <1>1, <3>1, <3>2 DEF Order
  <2>2. CASE ClearExit(p) \/ ClearPreferred(p)
    <3>1. call'[p].op = "clear"
      BY <2>2, AppliesCall DEF ClearExit, ClearPreferred, Types
    <3>. QED
      BY <1>1, <1>2, <2>2, <3>1 DEF ClearExit, ClearPreferred, Begins, Goto, Ordered, Order
  <2>3. CASE SetInternetFallback(p)
    <3>1. call'[p].op = "fallback"
      BY <1>2, <2>3 DEF SetInternetFallback, NoCall
    <3>. QED
      BY <1>1, <1>2, <2>3, <3>1 DEF SetInternetFallback, Begins, Goto, Order
  <2>4. CASE Demote(p)
    <3>1. call'[p].op = call[p].op /\ pc'[p] \in {"wait", "rebuild"} /\ pc[p] = "demote"
      BY <1>2, <2>4, AppliesCall DEF Demote, Goto, Types
    <3>. QED
      BY <1>1, <3>1 DEF Ordered, Order
  <2>5. ASSUME NEW op \in {"roam", "health"}, Recover(p, op) PROVE Order(p)'
    <3>1. call'[p].op = op
      BY <1>2, <2>5 DEF Recover, NoCall
    <3>. QED
      BY <1>1, <1>2, <2>5, <3>1 DEF Recover, Begins, Goto, Order
  <2>. QED
    BY <1>4, <2>1, <2>2, <2>3, <2>4, <2>5 DEF Begin
<1>5. ASSUME NEW p \in Procs, Transact(p) PROVE Order(p)'
  <2>1. call'[p].op = call[p].op
    BY <1>2, <1>5, ReadCall, ArmCall
       DEF Transact, Lock, Refuse, ArmFirst, Reconfigure, Rollback, Disarm, Commit, Types
  <2>2. pc[p] \in {"wait"} \cup Inside /\ pc'[p] \in {"done", "failed"} \cup Inside
    BY <1>2, <1>5 DEF Transact, Lock, Refuse, ReadExit, ArmFirst, Reconfigure, Rollback, Disarm,
                      Commit, Fail, Goto
  <2>. QED
    BY <1>1, <2>1, <2>2 DEF Ordered, Order
<1>6. ASSUME NEW p \in Procs, End(p) PROVE Order(p)'
  <2>1. CASE Ends(p)
    BY <2>1, EndsCall DEF Order
  <2>2. CASE EndSilent(p) /\ ~Ends(p)
    <3>1. call'[p].op = "roam"
      BY <1>2, <2>2 DEF EndSilent, NoCall
    <3>. QED
      BY <1>1, <1>2, <2>2, <3>1 DEF EndSilent, Goto, Ordered, Order
  <2>3. CASE EndDemote(p) \/ (Rebuild(p) /\ ~Ends(p))
    BY <1>1, <1>2, <2>3 DEF EndDemote, Rebuild, EndRecovery, Goto, Ordered, Order
  <2>4. CASE Snapshot(p) \/ (RearmStale(p) /\ ~Ends(p))
    <3>1. call'[p].op = call[p].op
      <4>1. ASSUME NEW nm, NEW exit, NEW flag,
                   call' = [call EXCEPT ![p].nm = nm, ![p].exit = exit, ![p].flag = flag]
            PROVE  call'[p].op = call[p].op
        BY <1>2, <4>1 DEF Call
      <4>2. CASE call' = [call EXCEPT ![p].tries = @ + 1]
        BY <1>2, <4>2 DEF Call
      <4>. QED
        BY <2>4, <4>1, <4>2 DEF Snapshot, RearmStale, EndRecovery
    <3>. QED
      BY <1>1, <1>2, <2>4, <3>1 DEF Snapshot, RearmStale, EndRecovery, Goto, Ordered, Order
  <2>. QED
    BY <1>6, <2>1, <2>2, <2>3, <2>4
       DEF End, EndApply, EndChoice, UndoChoice, EndFallback, UndoSilent, Rearm, EndRecovery
<1>7. CASE Exit \/ Kill
  BY <1>7 DEF Exit, Kill, Gone, NoCall, Ordered, Order
<1>8. CASE Start
  <2>1. CASE UNCHANGED <<pc, call>>
    BY <1>1, <2>1 DEF Ordered, Order
  <2>2. ASSUME NEW p \in setting.procs, Applies(p, "sync", savedMap, NoExit, FALSE), Goto(p, "wait")
        PROVE  Ordered'
    <3>1. p \in Procs /\ call'[p].op = "sync" /\ pc'[p] = "wait"
      BY <1>2, <2>2, AppliesCall DEF Types, World, Setting, Goto
    <3>2. \A q \in Procs \ {p} : pc'[q] = pc[q] /\ call'[q] = call[q]
      BY <1>2, <2>2 DEF Applies, Goto
    <3>. QED
      BY <1>1, <3>1, <3>2 DEF Ordered, Order
  <2>. QED
    BY <1>8, <2>1, <2>2 DEF Start
<1>9. CASE Publish \/ Handshake \/ DeviceDies \/ Stop \/ TearDown \/ ClearGuard \/ ClearIntent
  BY <1>1, <1>9 DEF Publish, Handshake, DeviceDies, Stop, TearDown, ClearGuard, ClearIntent, locals,
                    Ordered, Order
<1>10. CASE UNCHANGED vars
  BY <1>1, <1>10 DEF vars, locals, Ordered, Order
<1>. QED
  BY <1>3, <1>4, <1>5, <1>6, <1>7, <1>8, <1>9, <1>10 DEF Next

\* Whoever is inside a transaction, or selects, holds applyMu.
LEMMA HoldsMutex ==
    ASSUME Mutex, NEW p \in Procs, pc[p] \in Inside \/ Selecting(p)
    PROVE  applyMu = p
BY DEF Mutex, Selecting

\* What the versions rest on changes only in the hands of applyMu.
LEMMA VersionKept ==
    ASSUME Types, Versioned, applied' = applied, savedMap' = savedMap, latest' >= latest,
           UNCHANGED maps, latest' \in Versions,
           NEW q \in Procs, UNCHANGED <<pc[q], call[q]>>,
           preferred' = preferred \/ ~(pc[q] \in Inside)
    PROVE  Version(q)'
<1>1. call[q].nm \in 0 .. MaxVersion /\ latest \in Versions
  BY DEF Types, Calls, Call, World
<1>. QED
  BY <1>1, BoundsAssumption DEF Versioned, Version, Selecting, Offered, Versions

\* Only a commit moves the books, and only forward.
LEMMA VersionedStep == Types /\ Mutex /\ NobodyDown /\ Ordered /\ Versioned /\ [Next]_vars => Versioned'
<1>. SUFFICES ASSUME Types, Mutex, NobodyDown, Ordered, Versioned, [Next]_vars PROVE Versioned'
  OBVIOUS
<1>1. UNCHANGED maps /\ Types'
  BY FixedStep, TypesStep
<1>2. /\ pc \in [Procs -> Labels] /\ call \in [Procs -> Call] /\ applied \in 0 .. MaxVersion
      /\ savedMap \in 0 .. MaxVersion /\ latest \in 1 .. MaxVersion /\ latest' \in 1 .. MaxVersion
      /\ \A p \in Procs : call[p].nm \in 0 .. MaxVersion
  BY <1>1 DEF Types, Places, Calls, Call, Books, World, Versions
<1>3. ASSUME applied' <= latest' /\ savedMap' <= latest', \A p \in Procs : Version(p)' PROVE Versioned'
  BY <1>3 DEF Versioned, Version
<1>4. ASSUME NEW p \in Procs, Begin(p) \/ Transact(p) \/ End(p), ~Commit(p), Version(p)',
             preferred' = preferred \/ applyMu \in {p, NoProc}
      PROVE  Versioned'
  <2>1. UNCHANGED <<applied, savedMap, latest>>
    BY <1>4 DEF Begin, Sync, Reapply, RelayDrop, SetExit, ClearExit, ClearPreferred,
         SetInternetFallback, Silent, Demote, Recover, Transact, Lock, Refuse, ReadExit, ArmFirst,
         Reconfigure, Rollback, Disarm, End, EndApply, EndChoice, UndoChoice, EndFallback,
         EndSilent, UndoSilent, EndDemote, Rebuild, Snapshot, Rearm, RearmStale, books, world
  <2>2. \A q \in Procs \ {p} : pc'[q] = pc[q] /\ call'[q] = call[q]
    BY <1>4, OthersStep
  <2>3. ASSUME NEW q \in Procs \ {p} PROVE Version(q)'
    <3>1. preferred' = preferred \/ pc[q] \notin Inside
      BY <1>4, HoldsMutex, NamesAssumption
    <3>. QED
      BY <1>1, <1>2, <2>1, <2>2, <3>1, VersionKept DEF Versions
  <2>. QED
    BY <1>2, <1>3, <1>4, <2>1, <2>3 DEF Versioned, Version
<1>5. ASSUME NEW p \in Procs, Begin(p) PROVE Versioned'
  <2>0. ~Commit(p)
    BY <1>5 DEF Begin, Begins, Sync, Reapply, RelayDrop, SetExit, ClearExit, ClearPreferred,
                SetInternetFallback, Silent, Demote, Recover, Commit
  <2>1. CASE Sync(p) \/ Reapply(p) \/ RelayDrop(p) \/ Silent(p) \/ Demote(p)
    <3>1. \/ UNCHANGED call /\ pc'[p] = "rebuild"
          \/ call'[p].nm \in {latest, applied} /\ pc'[p] = "wait"
      <4>1. CASE Demote(p)
        BY <1>2, <4>1, AppliesCall DEF Demote, Goto, Types
      <4>2. CASE Sync(p) \/ Reapply(p) \/ RelayDrop(p) \/ Silent(p)
        BY <1>2, <4>2, AppliesCall DEF Sync, Reapply, RelayDrop, Silent, Goto, Types
      <4>. QED
        BY <2>1, <4>1, <4>2
    <3>2. UNCHANGED <<latest, preferred>>
      BY <2>1 DEF Sync, Reapply, RelayDrop, Silent, Demote, world, intent
    <3>3. Version(p)'
      BY <1>2, <3>1, <3>2 DEF Versioned, Version, Selecting, Inside
    <3>. QED
      BY <1>4, <1>5, <2>0, <3>2, <3>3
  <2>2. CASE ClearExit(p) \/ SetExit(p) \/ ClearPreferred(p)
    <3>1. \/ call'[p].nm = 0 /\ pc'[p] = "clear" /\ UNCHANGED preferred
          \/ /\ call'[p].nm = applied /\ pc'[p] = "apply" /\ applyMu = NoProc
             /\ \/ call'[p].op = "set" /\ Offered(preferred', applied)
                \/ call'[p].op = "clear" /\ preferred' = NoExit
      BY <1>2, <2>2, AppliesCall DEF ClearExit, SetExit, ClearPreferred, Goto, Types, Offered
    <3>2. UNCHANGED <<applied, latest>>
      BY <2>2 DEF ClearExit, SetExit, ClearPreferred, books, world
    <3>3. Version(p)'
      BY <1>1, <1>2, <3>1, <3>2 DEF Versioned, Version, Selecting, Offered, Inside
    <3>. QED
      BY <1>4, <1>5, <2>0, <3>1, <3>3
  <2>3. CASE SetInternetFallback(p)
    <3>1. call'[p].nm = applied /\ pc'[p] = "wait"
      BY <1>2, <2>3 DEF SetInternetFallback, Goto, NoCall
    <3>2. UNCHANGED <<applied, latest, preferred>>
      BY <2>3 DEF SetInternetFallback, books, world
    <3>3. Version(p)'
      BY <1>2, <3>1, <3>2 DEF Versioned, Version, Selecting, Inside
    <3>. QED
      BY <1>4, <1>5, <2>0, <3>2, <3>3
  <2>4. ASSUME NEW op \in {"roam", "health"}, Recover(p, op) PROVE Versioned'
    <3>1. call'[p].nm = 0 /\ pc'[p] = "demote"
      BY <1>2, <2>4 DEF Recover, Goto, NoCall
    <3>2. UNCHANGED <<latest, preferred>>
      BY <2>4 DEF Recover, intent, world
    <3>3. Version(p)'
      BY <1>2, <3>1, <3>2 DEF Version, Selecting, Inside
    <3>. QED
      BY <1>4, <1>5, <2>0, <3>2, <3>3
  <2>. QED
    BY <1>5, <2>1, <2>2, <2>3, <2>4 DEF Begin
<1>6. ASSUME NEW p \in Procs, Transact(p), ~Commit(p) PROVE Versioned'
  <2>1. UNCHANGED <<applied, latest, preferred>>
    BY <1>6 DEF Transact, Lock, Refuse, ReadExit, ArmFirst, Reconfigure, Rollback, Disarm, intent,
                books, world
  <2>2. call'[p].op = call[p].op /\ call'[p].nm = call[p].nm
    BY <1>2, <1>6, ReadCall, ArmCall
       DEF Transact, Lock, Refuse, ArmFirst, Reconfigure, Rollback, Disarm, Types
  <2>3. \/ pc[p] = "wait" /\ Lock(p) /\ pc'[p] = "apply"
        \/ pc[p] \in Inside /\ pc'[p] = "failed"
        \/ pc[p] \in Inside /\ pc'[p] \in Inside \ {"apply"} /\ (pc[p] # "apply" \/ ReadExit(p))
    BY <1>2, <1>6 DEF Transact, Lock, Refuse, ReadExit, ArmFirst, Reconfigure, Rollback, Disarm,
                      Fail, Goto, Inside
  <2>4. Lock(p) => pc[p] = "wait" /\ call[p].op \notin {"set", "clear"}
    BY DEF Lock, Ordered, Order
  <2>5. ReadExit(p) => call[p].nm >= applied
    BY DEF ReadExit
  <2>6. Version(p)'
    BY <1>1, <2>1, <2>2, <2>3, <2>4, <2>5 DEF Versioned, Version, Selecting, Offered, Inside
  <2>. QED
    BY <1>4, <1>6, <2>1, <2>6
<1>7. ASSUME NEW p \in Procs, Commit(p) PROVE Versioned'
  <2>1. /\ applied' = call[p].nm /\ savedMap' \in {savedMap, call[p].nm} /\ pc[p] = "commit"
        /\ UNCHANGED <<call, preferred, latest>> /\ pc'[p] = "done"
    BY <1>2, <1>7 DEF Commit, Goto, intent, world
  <2>2. \A q \in Procs \ {p} : pc'[q] = pc[q] /\ ~(pc[q] \in Inside \/ Selecting(q))
    BY <1>7, <2>1, OthersStep, HoldsMutex DEF Transact, Inside
  <2>3. \A q \in Procs : Version(q)'
    BY <1>1, <2>1, <2>2 DEF Versioned, Version, Selecting, Inside
  <2>. QED
    BY <1>3, <2>1, <2>3 DEF Versioned, Version
<1>8. ASSUME NEW p \in Procs, End(p) PROVE Versioned'
  <2>1. preferred' = preferred \/ applyMu = p
    BY <1>8 DEF End, EndApply, EndChoice, UndoChoice, EndFallback, EndSilent, UndoSilent, EndDemote,
                Rebuild, Snapshot, Rearm, RearmStale, intent, Mutex
  <2>2. UNCHANGED latest
    BY <1>8 DEF End, EndApply, EndChoice, UndoChoice, EndFallback, EndSilent, UndoSilent, EndDemote,
                Rebuild, Snapshot, Rearm, RearmStale, world
  <2>3. /\ call'[p].nm \in {call[p].nm, applied, 0}
        /\ pc'[p] \in {"idle", "demote", "rebuild", "refresh", "rearm"}
    <3>1. CASE Ends(p)
      BY <3>1, EndsCall
    <3>2. CASE EndSilent(p) /\ ~Ends(p)
      BY <1>2, <3>2 DEF EndSilent, Goto, NoCall
    <3>3. CASE EndDemote(p) \/ (Rebuild(p) /\ ~Ends(p))
      BY <1>2, <3>3 DEF EndDemote, Rebuild, EndRecovery, Goto
    <3>4. CASE Snapshot(p)
      <4>1. call'[p].nm = applied
        <5>1. PICK x, f : call' = [call EXCEPT ![p].nm = applied, ![p].exit = x, ![p].flag = f]
          BY <3>4 DEF Snapshot
        <5>. QED
          BY <1>2, <5>1 DEF Call
      <4>. QED
        BY <1>2, <3>4, <4>1 DEF Snapshot, Goto
    <3>5. CASE RearmStale(p) /\ ~Ends(p)
      <4>1. call' = [call EXCEPT ![p].tries = @ + 1]
        BY <3>5 DEF RearmStale, EndRecovery
      <4>2. call'[p].nm = call[p].nm
        BY <1>2, <4>1 DEF Call
      <4>. QED
        BY <1>2, <3>5, <4>2 DEF RearmStale, EndRecovery, Goto
    <3>. QED
      BY <1>8, <3>1, <3>2, <3>3, <3>4, <3>5
         DEF End, EndApply, EndChoice, UndoChoice, EndFallback, UndoSilent, Rearm, EndRecovery
  <2>4. Version(p)'
    BY <1>2, <2>2, <2>3 DEF Versioned, Version, Selecting, Inside
  <2>5. ~Commit(p)
    BY <1>2, <2>3 DEF Commit, Goto
  <2>. QED
    BY <1>4, <1>8, <2>1, <2>4, <2>5
<1>9. CASE Exit \/ Kill
  <2>1. \A p \in Procs : call'[p].nm = 0 /\ pc'[p] = "idle"
    BY <1>9 DEF Exit, Kill, Gone, NoCall
  <2>2. UNCHANGED <<applied, savedMap, latest>>
    BY <1>9 DEF Exit, Kill, Gone, books, world
  <2>. QED
    BY <1>2, <2>1, <2>2 DEF Versioned, Version, Selecting, Inside
<1>10. CASE Start
  <2>1. applied' = 0 /\ UNCHANGED <<savedMap, latest>>
    BY <1>10 DEF Start
  <2>2. \A q \in Procs : call'[q].nm \in {call[q].nm, savedMap} /\ pc'[q] \in {"idle", "wait"}
    <3>1. \A q \in Procs : pc[q] = "idle"
      BY <1>10 DEF Start, NobodyDown
    <3>2. CASE UNCHANGED <<pc, call>>
      BY <3>1, <3>2
    <3>3. ASSUME NEW p \in setting.procs, Applies(p, "sync", savedMap, NoExit, FALSE),
                 Goto(p, "wait")
          PROVE  \A q \in Procs : call'[q].nm \in {call[q].nm, savedMap}
                                  /\ pc'[q] \in {"idle", "wait"}
      <4>1. p \in Procs
        BY DEF Types, World, Setting
      <4>2. call'[p].nm = savedMap
        BY <3>3, <4>1, AppliesCall DEF Types
      <4>3. \A q \in Procs \ {p} : call'[q] = call[q]
        BY <1>2, <3>3 DEF Applies
      <4>. QED
        BY <1>2, <3>1, <3>3, <4>2, <4>3 DEF Goto
    <3>. QED
      BY <1>10, <3>2, <3>3 DEF Start
  <2>. QED
    BY <1>2, <2>1, <2>2 DEF Versioned, Version, Selecting, Inside
<1>11. CASE Publish
  BY <1>1, <1>2, <1>11 DEF Publish, intent, books, locals, Versioned, Version, Selecting, Offered
<1>12. CASE Handshake \/ DeviceDies \/ Stop \/ TearDown \/ ClearGuard \/ ClearIntent
  BY <1>1, <1>12 DEF Handshake, DeviceDies, Stop, TearDown, ClearGuard, ClearIntent, locals, intent,
                     books, world, Versioned, Version, Selecting, Offered
<1>13. CASE UNCHANGED vars
  BY <1>1, <1>13 DEF vars, locals, intent, books, world, Versioned, Version, Selecting, Offered
<1>. QED
  BY <1>5, <1>6, <1>7, <1>8, <1>9, <1>10, <1>11, <1>12, <1>13 DEF Next

\* Where p has applyMu, or could take it, or changes the fallback, nobody else has
\* anything to take back.
LEMMA NobodyElsePending ==
    ASSUME Types, Mutex, Ordered, Careful, NEW p \in Procs, p \in setting.procs,
           applyMu \in {p, NoProc} \/ "fallback" \in setting.ops
    PROVE  \A q \in Procs \ {p} : ~Pending(q)
<1>. SUFFICES ASSUME NEW q \in Procs \ {p}, Pending(q) PROVE FALSE
  OBVIOUS
<1>1. "fallback" \in setting.ops => setting.procs = {p}
  BY DEF Careful, Alone
<1>2. pc[q] # "idle" => q \in setting.procs
  BY DEF Ordered, Order
<1>3. pc[q] # "idle"
  BY DEF Pending, Selecting, Ordered, Order, Inside
<1>4. ~(call[q].op = "fallback")
  BY <1>1, <1>2, <1>3 DEF Ordered, Order
<1>5. applyMu = q
  BY <1>4, HoldsMutex DEF Pending
<1>. QED
  BY <1>1, <1>2, <1>3, <1>5, NamesAssumption

\* A step of p, with nobody else pending, need answer only for p's claims.
LEMMA GuardedByOne ==
    ASSUME NEW p \in Procs, \A q \in Procs \ {p} : ~Pending(q),
           \A q \in Procs \ {p} : pc'[q] = pc[q] /\ call'[q] = call[q],
           phase' = "running" => Claims(p)' /\ (~Pending(p)' /\ Wish' => Armed')
    PROVE  Guarded'
<1>1. \A q \in Procs \ {p} : ~Pending(q)'
  BY DEF Pending, Selecting
<1>2. \A q \in Procs \ {p} : Claims(q)'
  BY <1>1 DEF Claims, Keeps, Restores, Intends, Loaded, Pending, Selecting, Inside
<1>. QED
  BY <1>1, <1>2 DEF Guarded

\* A step of a goroutine that has nothing to take back, and does not touch what
\* the claims are about.
LEMMA GuardedByNeutral ==
    ASSUME Guarded, NEW p \in Procs, ~Pending(p), ~Pending(p)',
           \A q \in Procs \ {p} : pc'[q] = pc[q] /\ call'[q] = call[q],
           UNCHANGED <<preferred, fallback, applied, current, maps, phase>>
    PROVE  Guarded'
<1>1. \A q \in Procs : Pending(q)' <=> Pending(q)
  BY DEF Pending, Selecting
<1>2. Claims(p)'
  BY DEF Claims, Keeps, Restores, Intends, Loaded, Pending, Selecting, Inside
<1>3. Guarded /\ phase = "running" => \A q \in Procs \ {p} : Claims(q)'
  BY DEF Guarded, Claims, Keeps, Restores, Intends, Loaded, Before, After, Wish, Armed, Offered
<1>. QED
  BY <1>1, <1>2, <1>3 DEF Guarded, Wish, Armed, Offered

\* Beginning: only the calls that change the user's wish have something to keep.
LEMMA GuardedBegin ==
    ASSUME Types, Mutex, Ordered, Careful, Guarded, UNCHANGED maps, NEW p \in Procs, Begin(p)
    PROVE  Guarded'
<1>1. pc \in [Procs -> Labels] /\ call \in [Procs -> Call]
  BY DEF Types, Places, Calls
<1>2. \A q \in Procs \ {p} : pc'[q] = pc[q] /\ call'[q] = call[q]
  BY OthersStep
<1>3. pc[p] \in {"idle", "clear", "demote"} /\ p \in setting.procs
  BY BeginsFrom
<1>4. ~Pending(p)
  BY BeginsFrom
<1>5. CASE Sync(p) \/ Reapply(p) \/ RelayDrop(p) \/ Silent(p) \/ ClearExit(p)
  <2>1. /\ call'[p].op \in {"sync", "reapply", "drop", "silent", "clear"}
        /\ pc'[p] \in {"wait", "clear"}
    BY <1>1, <1>5, AppliesCall DEF Sync, Reapply, RelayDrop, Silent, ClearExit, Goto, Types
  <2>2. ~Pending(p)'
    BY <2>1 DEF Pending, Selecting, Inside
  <2>3. UNCHANGED <<preferred, fallback, applied, current, phase>>
    BY <1>5 DEF Sync, Reapply, RelayDrop, Silent, ClearExit, intent, books, wall, life
  <2>. QED
    BY <1>2, <1>4, <2>2, <2>3, GuardedByNeutral
<1>6. CASE Demote(p)
  <2>1. call'[p].op \in {"roam", "health"} /\ pc'[p] \in {"wait", "rebuild"}
    BY <1>1, <1>6, AppliesCall DEF Demote, Goto, Types, Ordered, Order
  <2>2. ~Pending(p)'
    BY <2>1 DEF Pending, Selecting, Inside
  <2>3. UNCHANGED <<preferred, fallback, applied, current, phase>>
    BY <1>6 DEF Demote, intent, wall, life
  <2>. QED
    BY <1>2, <1>4, <2>2, <2>3, GuardedByNeutral
<1>7. ASSUME NEW op \in {"roam", "health"}, Recover(p, op) PROVE Guarded'
  <2>1. call'[p].op = op /\ pc'[p] = "demote"
    BY <1>1, <1>7 DEF Recover, Goto, NoCall
  <2>2. ~Pending(p)'
    BY <2>1 DEF Pending, Selecting, Inside
  <2>3. UNCHANGED <<preferred, fallback, applied, current, phase>>
    BY <1>7 DEF Recover, intent, books, wall
  <2>. QED
    BY <1>2, <1>4, <2>2, <2>3, GuardedByNeutral
<1>8. CASE SetExit(p) \/ ClearPreferred(p)
  <2>1. /\ call'[p].op \in {"set", "clear"} /\ call'[p].exit = preferred /\ pc'[p] = "apply"
        /\ applyMu = NoProc
    BY <1>1, <1>8, AppliesCall DEF SetExit, ClearPreferred, Goto, Types
  <2>2. UNCHANGED <<fallback, applied, current, phase>>
    BY <1>8 DEF SetExit, ClearPreferred, books, wall, life
  <2>3. \A q \in Procs \ {p} : ~Pending(q)
    BY <1>3, <2>1, NobodyElsePending
  <2>4. phase = "running" /\ Wish => Armed
    BY <1>4, <2>3 DEF Guarded
  <2>5. Pending(p)' /\ (phase' = "running" => Claims(p)')
    BY <2>1, <2>2, <2>4 DEF Pending, Claims, Keeps, Restores, Intends, Loaded, Before, Wish, Armed,
                            Offered, Inside
  <2>. QED
    BY <1>2, <2>3, <2>5, GuardedByOne DEF Guarded
<1>9. CASE SetInternetFallback(p)
  <2>1. call'[p].op = "fallback" /\ call'[p].flag = fallback /\ pc'[p] = "wait"
    BY <1>1, <1>9 DEF SetInternetFallback, Goto, NoCall
  <2>2. UNCHANGED <<preferred, applied, current, phase>> /\ "fallback" \in setting.ops
    BY <1>9 DEF SetInternetFallback, Begins, books, wall, life
  <2>3. \A q \in Procs \ {p} : ~Pending(q)
    BY <1>3, <2>2, NobodyElsePending
  <2>4. phase = "running" /\ Wish => Armed
    BY <1>4, <2>3 DEF Guarded
  <2>5. Pending(p)' /\ (phase' = "running" => Claims(p)')
    BY <2>1, <2>2, <2>4 DEF Pending, Claims, Keeps, Restores, Intends, Loaded, Before, Wish, Armed,
                            Offered, Inside
  <2>. QED
    BY <1>2, <2>3, <2>5, GuardedByOne DEF Guarded
<1>. QED
  BY <1>5, <1>6, <1>7, <1>8, <1>9 DEF Begin

\* A transaction: the predecessor's policy stays until the routes are settled, the
\* candidate's is in before it is booked.
LEMMA GuardedTransact ==
    ASSUME Types, Mutex, Ordered, Careful, Guarded, UNCHANGED maps, NEW p \in Procs, Transact(p)
    PROVE  Guarded'
<1>. SUFFICES ASSUME phase = "running" PROVE Guarded'
  BY DEF Transact, Lock, Refuse, ReadExit, ArmFirst, Reconfigure, Rollback, Disarm, Commit, life,
         Guarded
<1>1. pc \in [Procs -> Labels] /\ call \in [Procs -> Call] /\ call[p].nm \in 0 .. MaxVersion
  BY DEF Types, Places, Calls, Call
<1>2. \A q \in Procs \ {p} : pc'[q] = pc[q] /\ call'[q] = call[q]
  BY OthersStep
<1>3. UNCHANGED <<preferred, fallback, maps>>
  BY DEF Transact, Lock, Refuse, ReadExit, ArmFirst, Reconfigure, Rollback, Disarm, Commit, intent
<1>4. (pc[p] = "wait" /\ applyMu = NoProc) \/ pc[p] \in Inside
  BY DEF Transact, Lock, Refuse, ReadExit, ArmFirst, Reconfigure, Rollback, Disarm, Commit, Inside
<1>5. \A q \in Procs \ {p} : ~Pending(q)
  <2>1. p \in setting.procs /\ applyMu \in {p, NoProc}
    BY <1>4, HoldsMutex DEF Ordered, Order, Inside
  <2>. QED
    BY <2>1, NobodyElsePending
<1>6. Claims(p) /\ (~Pending(p) /\ Wish => Armed)
  BY <1>5 DEF Guarded
<1>7. ASSUME Claims(p)', ~Pending(p)' /\ Wish' => Armed' PROVE Guarded'
  BY <1>2, <1>5, <1>7, GuardedByOne
\* It fails with what it began with.
<1>8. ASSUME pc[p] \in Inside \ {"commit"}, pc'[p] = "failed", UNCHANGED <<call, applied>>,
             Before(p) => Armed'
      PROVE  Guarded'
  <2>1. Claims(p)'
    BY <1>3, <1>8 DEF Claims, Keeps, Restores, Intends, Loaded, Before, Offered, Armed
  <2>2. ~Pending(p)' /\ Wish' => Armed'
    BY <1>3, <1>8 DEF Pending, Selecting, Before, Wish, Offered, Armed
  <2>. QED
    BY <1>7, <2>1, <2>2
<1>9. CASE Lock(p)
  <2>1. UNCHANGED <<call, applied, current>> /\ pc[p] = "wait" /\ pc'[p] = "apply"
    BY <1>1, <1>9 DEF Lock, Goto, books, wall
  <2>2. call[p].op \notin {"set", "clear"}
    BY <2>1 DEF Ordered, Order
  <2>3. Before(p) => Armed
    BY <1>6, <2>1, <2>2 DEF Claims, Keeps, Before, Wish, Pending, Selecting, Inside
  <2>4. Claims(p)' /\ Pending(p)'
    BY <1>3, <2>1, <2>3 DEF Claims, Keeps, Restores, Intends, Loaded, Before, Offered, Armed,
                            Pending, Inside
  <2>. QED
    BY <1>7, <2>4
<1>10. CASE Refuse(p)
  <2>1. UNCHANGED <<call, applied, current>> /\ pc[p] = "apply" /\ pc'[p] = "failed"
    BY <1>1, <1>10 DEF Refuse, Fail, Goto, books, wall
  <2>. QED
    BY <1>6, <1>8, <2>1 DEF Claims, Keeps, Armed, Inside
<1>11. CASE ReadExit(p)
  <2>1. UNCHANGED <<applied, current>> /\ pc[p] = "apply" /\ pc'[p] = "guard"
    BY <1>1, <1>11 DEF ReadExit, Goto, books, wall
  <2>2. /\ call'[p].op = call[p].op /\ call'[p].exit = call[p].exit
        /\ call'[p].flag = call[p].flag
    BY <1>11, ReadCall DEF Types
  <2>3. Claims(p)' /\ Pending(p)'
    BY <1>3, <1>6, <2>1, <2>2 DEF Claims, Keeps, Restores, Intends, Loaded, Before, Offered, Armed,
                                  Pending, Inside
  <2>. QED
    BY <1>7, <2>3
<1>12. CASE ArmFirst(p)
  <2>1. UNCHANGED applied /\ pc[p] = "guard"
    BY <1>12 DEF ArmFirst, books
  <2>2. Before(p) => Armed
    BY <1>6, <2>1 DEF Claims, Keeps
  <2>3. CASE pc' = [pc EXCEPT ![p] = "failed"] /\ UNCHANGED <<wall, call>>
    BY <1>1, <1>8, <2>1, <2>2, <2>3 DEF wall, Armed, Inside
  <2>4. CASE /\ pc' = [pc EXCEPT ![p] = "engine"]
             /\ call' = [call EXCEPT ![p].prior = current, ![p].desired = Policy(call[p].nm)]
             /\ current' = IF current # Off /\ Policy(call[p].nm) = Off THEN current
                           ELSE Policy(call[p].nm)
    <3>1. /\ call'[p].op = call[p].op /\ call'[p].nm = call[p].nm
          /\ call'[p].exit = call[p].exit /\ call'[p].flag = call[p].flag
          /\ call'[p].prior = current /\ call'[p].desired = Policy(call[p].nm)
      BY <2>4, ArmCall DEF Types
    <3>2. Policy(call[p].nm) # Off <=> After(p)
      BY <1>1, PolicyArmed DEF After
    <3>3. pc'[p] = "engine"
      BY <1>1, <2>4
    <3>4. (Before(p) <=> Before(p)') /\ (After(p) <=> After(p)')
      BY <1>3, <2>1, <3>1 DEF Before, After, Offered
    <3>5. (Armed => Armed') /\ (After(p) => Armed')
      BY <2>4, <3>2 DEF Armed
    <3>6. Claims(p)' /\ Pending(p)'
      BY <2>2, <3>1, <3>2, <3>3, <3>4, <3>5 DEF Claims, Keeps, Restores, Intends, Loaded, Armed,
                                                Pending, Inside
    <3>. QED
      BY <1>7, <3>6
  <2>. QED
    BY <1>12, <2>3, <2>4 DEF ArmFirst, Fail, Goto, Load, wall
<1>13. CASE Reconfigure(p)
  <2>1. /\ UNCHANGED <<call, applied, current>> /\ pc[p] = "engine"
        /\ pc'[p] \in {"commit", "disarm", "rollback"}
        /\ pc'[p] = "commit" => current = call[p].desired
    BY <1>1, <1>13 DEF Reconfigure, Goto, books, wall
  <2>2. Claims(p)' /\ Pending(p)'
    BY <1>3, <1>6, <2>1 DEF Claims, Keeps, Restores, Intends, Loaded, Before, After, Offered, Armed,
                            Pending, Inside
  <2>. QED
    BY <1>7, <2>2
<1>14. CASE Rollback(p)
  <2>1. /\ UNCHANGED <<call, applied>> /\ pc[p] = "rollback" /\ pc'[p] = "failed"
        /\ current' \in {current, call[p].prior}
    BY <1>1, <1>14 DEF Rollback, Fail, Goto, Load, books, wall
  <2>. QED
    BY <1>6, <1>8, <2>1 DEF Claims, Keeps, Restores, Armed, Inside
<1>15. CASE Disarm(p)
  <2>1. UNCHANGED <<call, applied>> /\ pc[p] = "disarm"
    BY <1>15 DEF Disarm, books
  <2>2. CASE pc'[p] = "failed" /\ UNCHANGED current
    BY <1>6, <1>8, <2>1, <2>2 DEF Claims, Keeps, Armed, Inside
  <2>3. CASE pc'[p] = "commit" /\ current' = call[p].desired
    <3>1. Claims(p)' /\ Pending(p)'
      BY <1>3, <1>6, <2>1, <2>3 DEF Claims, Keeps, Restores, Intends, Loaded, After, Offered, Armed,
                                    Pending, Inside
    <3>. QED
      BY <1>7, <3>1
  <2>. QED
    BY <1>1, <1>15, <2>2, <2>3 DEF Disarm, Fail, Goto, Load, wall
<1>16. CASE Commit(p)
  <2>1. /\ UNCHANGED <<call, current>> /\ pc[p] = "commit" /\ pc'[p] = "done"
        /\ applied' = call[p].nm
    BY <1>1, <1>16 DEF Commit, Goto, wall
  <2>2. Wish' => Armed'
    BY <1>3, <1>6, <2>1 DEF Claims, Loaded, After, Wish, Offered, Armed
  <2>3. Claims(p)'
    BY <2>1, <2>2 DEF Claims, Keeps, Restores, Intends, Loaded
  <2>. QED
    BY <1>7, <2>2, <2>3
<1>. QED
  BY <1>9, <1>10, <1>11, <1>12, <1>13, <1>14, <1>15, <1>16 DEF Transact

\* Returning: what a call kept is what the books now say, or say again.
LEMMA GuardedEnd ==
    ASSUME Types, Mutex, Ordered, Ordered', Careful, Guarded, UNCHANGED maps, NEW p \in Procs, End(p)
    PROVE  Guarded'
<1>1. pc \in [Procs -> Labels] /\ call \in [Procs -> Call]
  BY DEF Types, Places, Calls
<1>2. \A q \in Procs \ {p} : pc'[q] = pc[q] /\ call'[q] = call[q]
  BY OthersStep
<1>3. pc[p] \in {"done", "failed", "rebuild", "refresh", "rearm"} /\ p \in setting.procs
  BY DEF End, EndApply, EndChoice, UndoChoice, EndFallback, EndSilent, UndoSilent, EndDemote,
         Rebuild, Snapshot, Rearm, RearmStale, Ordered, Order
<1>4. Ends(p) => ~Pending(p)' /\ Claims(p)'
  BY EndsCall DEF Pending, Selecting, Claims, Keeps, Restores, Intends, Loaded, Inside
<1>5. CASE EndApply(p) \/ EndSilent(p) \/ UndoSilent(p) \/ EndDemote(p) \/ Rebuild(p) \/ Snapshot(p)
           \/ RearmStale(p)
  <2>1. ~Pending(p)
    BY <1>5 DEF EndApply, EndSilent, UndoSilent, EndDemote, Rebuild, Snapshot, RearmStale, Ordered, Order,
                Pending, Selecting, Inside
  <2>2. UNCHANGED <<preferred, fallback, applied, current, phase>>
    BY <1>5 DEF EndApply, EndSilent, UndoSilent, EndDemote, Rebuild, Snapshot, RearmStale, intent,
                books, wall, life
  <2>3. ~Pending(p)'
    <3>1. CASE Ends(p)
      BY <1>4, <3>1
    <3>2. CASE ~Ends(p)
      <4>1. pc'[p] \in {"demote", "rebuild", "refresh", "rearm"}
        BY <1>1, <1>5, <3>2 DEF EndApply, EndSilent, UndoSilent, EndDemote, Rebuild, Snapshot,
                                RearmStale, EndRecovery, Goto
      <4>. QED
        BY <4>1 DEF Ordered, Order, Pending, Selecting, Inside
    <3>. QED
      BY <3>1, <3>2
  <2>. QED
    BY <1>2, <2>1, <2>2, <2>3, GuardedByNeutral
<1>6. CASE EndChoice(p) \/ UndoChoice(p) \/ EndFallback(p) \/ Rearm(p)
  <2>1. \A q \in Procs \ {p} : ~Pending(q)
    <3>1. applyMu \in {p, NoProc} \/ "fallback" \in setting.ops
      BY <1>6 DEF EndChoice, UndoChoice, EndFallback, Rearm, Mutex, Ordered, Order
    <3>. QED
      BY <1>3, <3>1, NobodyElsePending
  <2>2. Ends(p) /\ UNCHANGED <<applied, phase>>
    BY <1>6 DEF EndChoice, UndoChoice, EndFallback, Rearm, EndRecovery, books, life
  <2>3. phase = "running" => Claims(p) /\ (~Pending(p) /\ Wish => Armed)
    BY <2>1 DEF Guarded
  <2>4. phase = "running" /\ Wish' => Armed'
    <3>1. CASE EndChoice(p) \/ UndoChoice(p) \/ EndFallback(p)
      BY <2>3, <3>1 DEF EndChoice, UndoChoice, EndFallback, Claims, Keeps, Loaded, Before, Wish,
                        Offered, Armed, books, wall
    <3>2. CASE Rearm(p)
      <4>1. applied \in 0 .. MaxVersion
        BY DEF Types, Books
      <4>2. Wish' <=> Policy(applied) # Off
        BY <3>2, <4>1, PolicyArmed DEF Rearm, Wish, Offered, intent
      <4>3. Wish' <=> Wish
        BY <3>2 DEF Rearm, Wish, Offered, intent
      <4>4. ~Pending(p)
        BY <3>2 DEF Rearm, Ordered, Order, Pending, Selecting, Inside
      <4>5. current' \in {current, Policy(applied)}
        BY <3>2 DEF Rearm, Load, wall
      <4>. QED
        BY <2>3, <4>2, <4>3, <4>4, <4>5 DEF Armed
    <3>. QED
      BY <1>6, <3>1, <3>2
  <2>. QED
    BY <1>2, <1>4, <2>1, <2>2, <2>4, GuardedByOne DEF Guarded
<1>. QED
  BY <1>5, <1>6 DEF End

\* The claims survive every step; a new process begins without any.
LEMMA GuardedStep ==
    ASSUME Types, Mutex, NobodyDown, Ordered, Ordered', Careful, Guarded, [Next]_vars
    PROVE  Guarded'
<1>1. UNCHANGED maps
  BY FixedStep
<1>2. ASSUME NEW p \in Procs, Begin(p) \/ Transact(p) \/ End(p) PROVE Guarded'
  BY <1>1, <1>2, GuardedBegin, GuardedTransact, GuardedEnd
<1>3. CASE Publish \/ Handshake \/ DeviceDies \/ UNCHANGED vars
  <2>1. UNCHANGED <<preferred, fallback, applied, current, pc, call, phase>>
    BY <1>3 DEF Publish, Handshake, DeviceDies, vars, intent, books, wall, locals, life
  <2>. QED
    BY <1>1, <2>1 DEF Guarded, Claims, Keeps, Restores, Intends, Loaded, Before, After, Wish, Armed,
                      Offered, Pending, Selecting
<1>4. CASE Stop \/ TearDown \/ ClearGuard \/ ClearIntent \/ Exit \/ Kill
  BY <1>4 DEF Stop, TearDown, ClearGuard, ClearIntent, Exit, Kill, Gone, Guarded
<1>5. CASE Start
  <2>1. applied' = 0 /\ ~Wish'
    BY <1>5 DEF Start, Wish, Offered
  <2>2. \A q \in Procs : pc'[q] \in {"idle", "wait"} /\ call'[q].op # "fallback"
    <3>1. \A q \in Procs : pc[q] = "idle" /\ call[q].op # "fallback"
      BY <1>5 DEF Start, NobodyDown, Ordered, Order, Inside
    <3>2. CASE UNCHANGED <<pc, call>>
      BY <3>1, <3>2
    <3>3. ASSUME NEW p \in setting.procs, Applies(p, "sync", savedMap, NoExit, FALSE),
                 Goto(p, "wait")
          PROVE  \A q \in Procs : pc'[q] \in {"idle", "wait"} /\ call'[q].op # "fallback"
      <4>1. p \in Procs
        BY DEF Types, World, Setting
      <4>2. call'[p].op = "sync" /\ \A q \in Procs \ {p} : call'[q] = call[q]
        BY <3>3, <4>1, AppliesCall DEF Types, Calls, Applies
      <4>. QED
        BY <3>1, <3>3, <4>2 DEF Types, Places, Goto
    <3>. QED
      BY <1>5, <3>2, <3>3 DEF Start
  <2>. QED
    BY <2>1, <2>2 DEF Guarded, Claims, Keeps, Restores, Intends, Loaded, Inside
<1>. QED
  BY <1>2, <1>3, <1>4, <1>5 DEF Next

\* Only a commit changes the exit of the status, and only who holds applyMu the
\* preference.
LEMMA ToldStep ==
    ASSUME Types, Mutex, NobodyDown, Ordered, Ordered', Told, [Next]_vars
    PROVE  Told'
<1>1. UNCHANGED maps
  BY FixedStep
<1>2. /\ pc \in [Procs -> Labels] /\ call \in [Procs -> Call]
      /\ status \in [killSwitch : BOOLEAN, selected : SomeExit]
  BY DEF Types, Places, Calls, Books
\* A step of p that keeps the preference and the status, and selects as before.
<1>3. ASSUME NEW p \in Procs, \A q \in Procs \ {p} : pc'[q] = pc[q] /\ call'[q] = call[q],
             UNCHANGED <<preferred, applied, phase>>, status'.selected = status.selected,
             \/ ~Selecting(p) /\ ~Selecting(p)'
             \/ /\ Selecting(p) /\ Selecting(p)' /\ call'[p].exit = call[p].exit
                /\ pc[p] # "done" /\ pc'[p] # "done"
      PROVE  Told'
  BY <1>1, <1>3 DEF Told, Selecting, Offered
\* Nobody else selects.
<1>4. ASSUME NEW p \in Procs, applyMu \in {p, NoProc},
             \A q \in Procs \ {p} : pc'[q] = pc[q] /\ call'[q] = call[q]
      PROVE  \A q \in Procs \ {p} : ~Selecting(q) /\ ~Selecting(q)'
  BY <1>4, HoldsMutex, NamesAssumption DEF Selecting
<1>5. ASSUME NEW p \in Procs, Begin(p) PROVE Told'
  <2>1. \A q \in Procs \ {p} : pc'[q] = pc[q] /\ call'[q] = call[q]
    BY <1>5, OthersStep
  <2>2. pc[p] \in {"idle", "clear", "demote"} /\ ~Selecting(p)
    BY <1>5 DEF Begin, Begins, Sync, Reapply, RelayDrop, SetExit, ClearExit, ClearPreferred,
                SetInternetFallback, Silent, Demote, Recover, Selecting, Inside
  <2>3. CASE SetExit(p) \/ ClearPreferred(p)
    <3>1. /\ call'[p].op \in {"set", "clear"} /\ call'[p].exit = preferred /\ pc'[p] = "apply"
          /\ applyMu = NoProc /\ UNCHANGED <<applied, phase, status>>
      BY <1>2, <2>3, AppliesCall DEF SetExit, ClearPreferred, Goto, Types, books, life
    <3>2. Selecting(p)'
      BY <3>1 DEF Selecting, Inside
    <3>3. \A q \in Procs \ {p} : ~Selecting(q) /\ ~Selecting(q)'
      BY <1>4, <2>1, <3>1
    <3>. QED
      BY <1>1, <2>2, <3>1, <3>2, <3>3 DEF Told, Offered
  <2>4. CASE ~SetExit(p) /\ ~ClearPreferred(p)
    <3>1. pc'[p] \in {"wait", "clear", "demote", "rebuild"}
      BY <1>2, <1>5, <2>4 DEF Begin, Sync, Reapply, RelayDrop, ClearExit, SetInternetFallback,
                              Silent, Demote, Recover, Goto
    <3>2. UNCHANGED <<preferred, applied, phase, status>>
      BY <1>5, <2>4 DEF Begin, Sync, Reapply, RelayDrop, ClearExit, SetInternetFallback, Silent,
                        Demote, Recover, intent, books, life
    <3>3. ~Selecting(p)'
      BY <3>1 DEF Selecting, Inside
    <3>. QED
      BY <1>3, <2>1, <2>2, <3>2, <3>3
  <2>. QED
    BY <2>3, <2>4
<1>6. ASSUME NEW p \in Procs, Transact(p) PROVE Told'
  <2>1. \A q \in Procs \ {p} : pc'[q] = pc[q] /\ call'[q] = call[q]
    BY <1>6, OthersStep
  <2>2. CASE Commit(p)
    <3>1. /\ status'.selected = Selected(call[p].nm) /\ applied' = call[p].nm
          /\ UNCHANGED preferred /\ pc[p] = "commit" /\ pc'[p] = "done"
      BY <1>2, <2>2 DEF Commit, Goto, intent
    <3>2. \A q \in Procs \ {p} : ~Selecting(q)'
      BY <1>4, <2>1, <3>1, HoldsMutex DEF Inside
    <3>3. status'.selected # NoExit => Offered(preferred, applied)'
      <4>1. call[p].nm \in 0 .. MaxVersion
        BY <1>2 DEF Call
      <4>. QED
        BY <1>1, <3>1, <4>1, PolicyArmed DEF Offered
    <3>. QED
      BY <3>1, <3>2, <3>3 DEF Told
  <2>3. CASE ~Commit(p)
    <3>1. UNCHANGED <<preferred, applied, phase, status>>
      BY <1>6, <2>3 DEF Transact, Lock, Refuse, ReadExit, ArmFirst, Reconfigure, Rollback, Disarm,
                        intent, books, life
    <3>2. call'[p].op = call[p].op /\ call'[p].exit = call[p].exit
      BY <1>2, <1>6, <2>3, ReadCall, ArmCall
         DEF Transact, Lock, Refuse, ArmFirst, Reconfigure, Rollback, Disarm, Types
    <3>3. /\ pc[p] = "wait" \/ pc[p] \in Inside
          /\ pc'[p] = "failed" \/ pc'[p] \in Inside
      BY <1>2, <1>6, <2>3 DEF Transact, Lock, Refuse, ReadExit, ArmFirst, Reconfigure, Rollback,
                              Disarm, Fail, Goto, Inside
    <3>. QED
      BY <1>3, <2>1, <3>1, <3>2, <3>3 DEF Selecting, Ordered, Order, Inside
  <2>. QED
    BY <2>2, <2>3
<1>7. ASSUME NEW p \in Procs, End(p) PROVE Told'
  <2>1. \A q \in Procs \ {p} : pc'[q] = pc[q] /\ call'[q] = call[q]
    BY <1>7, OthersStep
  <2>2. ~Selecting(p)'
    <3>1. CASE Ends(p)
      BY <3>1, EndsCall DEF Selecting
    <3>2. CASE ~Ends(p)
      <4>1. pc'[p] \in {"demote", "rebuild", "refresh", "rearm"}
        BY <1>2, <1>7, <3>2 DEF End, EndApply, EndChoice, UndoChoice, EndFallback, EndSilent,
             UndoSilent, EndDemote, Rebuild, Snapshot, Rearm, RearmStale, EndRecovery, Goto
      <4>. QED
        BY <4>1 DEF Selecting, Inside
    <3>. QED
      BY <3>1, <3>2
  <2>3. UNCHANGED <<applied, phase>> /\ status'.selected = status.selected
    BY <1>2, <1>7 DEF End, EndApply, EndChoice, UndoChoice, EndFallback, EndSilent, UndoSilent,
                      EndDemote, Rebuild, Snapshot, Rearm, RearmStale, books, life
  <2>4. CASE EndChoice(p) \/ UndoChoice(p)
    <3>1. Selecting(p) /\ applyMu = p
      BY <2>4 DEF EndChoice, UndoChoice, Mutex, Selecting
    <3>2. \A q \in Procs \ {p} : ~Selecting(q) /\ ~Selecting(q)'
      BY <1>4, <2>1, <3>1
    <3>3. \/ pc[p] = "done" /\ UNCHANGED preferred
          \/ pc[p] = "failed" /\ preferred' = call[p].exit
      BY <2>4 DEF EndChoice, UndoChoice
    <3>. QED
      BY <1>1, <2>2, <2>3, <3>1, <3>2, <3>3 DEF Told, Offered
  <2>5. CASE ~EndChoice(p) /\ ~UndoChoice(p)
    <3>1. ~Selecting(p) /\ UNCHANGED preferred
      BY <1>7, <2>5 DEF End, EndApply, EndFallback, EndSilent, UndoSilent, EndDemote, Rebuild,
                        Snapshot, Rearm, RearmStale, Selecting, Inside, intent
    <3>. QED
      BY <1>3, <2>1, <2>2, <2>3, <3>1
  <2>. QED
    BY <2>4, <2>5
<1>8. CASE Publish \/ Handshake \/ DeviceDies \/ UNCHANGED vars
  <2>1. UNCHANGED <<preferred, applied, status, pc, call, phase>>
    BY <1>8 DEF Publish, Handshake, DeviceDies, vars, intent, books, locals, life
  <2>. QED
    BY <1>1, <2>1 DEF Told, Selecting, Offered
<1>9. CASE Stop \/ TearDown \/ ClearGuard \/ ClearIntent \/ Exit \/ Kill
  BY <1>9 DEF Stop, TearDown, ClearGuard, ClearIntent, Exit, Kill, Gone, Told
<1>10. CASE Start
  BY <1>10 DEF Start, NoStatus, Told
<1>. QED
  BY <1>5, <1>6, <1>7, <1>8, <1>9, <1>10 DEF Next

\* Who is committed to an exit, and asks for nothing else, is behind the firewall;
\* what a transaction would restore or load keeps him there.
LEMMA Shielded ==
    ASSUME Types, Mutex, Ordered, Versioned, Guarded, Told,
           status.selected # NoExit, ~Unprotected, phase = "running"
    PROVE  /\ Armed
           /\ \A p \in Procs : pc[p] = "rollback" => call[p].prior # Off
           /\ \A p \in Procs : pc[p] = "disarm" => call[p].desired # Off
           /\ applyMu = NoProc => Wish
<1>1. /\ ~fallback /\ preferred # NoExit /\ phase = "running"
      /\ \A p \in Procs : call[p].op # "fallback"
      /\ \A v \in applied + 1 .. latest : preferred \in maps[v]
  BY DEF Unprotected, Busy
<1>2. CASE \A p \in Procs : ~Pending(p)
  BY <1>1, <1>2 DEF Guarded, Told, Wish, Pending, Inside
<1>3. ASSUME NEW p \in Procs, Pending(p)
      PROVE  /\ Armed /\ applyMu = p
             /\ pc[p] = "rollback" => call[p].prior # Off
             /\ pc[p] = "disarm" => call[p].desired # Off
             /\ \A q \in Procs \ {p} : pc[q] \notin Inside
  <2>1. applyMu = p
    BY <1>1, <1>3, HoldsMutex DEF Pending
  <2>2. \A q \in Procs \ {p} : ~(pc[q] \in Inside \/ Selecting(q))
    BY <2>1, HoldsMutex
  <2>3. Claims(p)
    BY <1>1 DEF Guarded
  <2>4. CASE pc[p] = "done"
    <3>1. Wish /\ call[p].op \in {"set", "clear"}
      BY <1>1, <1>3, <2>2, <2>4 DEF Told, Wish, Pending, Selecting, Inside
    <3>. QED
      BY <2>1, <2>2, <2>3, <2>4, <3>1 DEF Claims, Loaded
  <2>5. CASE pc[p] # "done"
    <3>1. Before(p)
      BY <1>1, <1>3, <2>2, <2>5 DEF Told, Before, Pending, Selecting, Inside
    <3>2. ASSUME pc[p] \in Inside \ {"apply"} PROVE After(p)
      <4>1. call[p].nm \in applied .. latest /\ applied \in Nat /\ latest \in Nat
        BY <3>2 DEF Versioned, Version, Types, Books, World, Versions, Calls, Call
      <4>2. CASE call[p].nm = applied
        BY <1>1, <3>1, <3>2, <4>2 DEF Before, After, Versioned, Version
      <4>3. CASE call[p].nm # applied
        BY <1>1, <4>1, <4>3 DEF After, Offered
      <4>. QED
        BY <4>2, <4>3
    <3>. QED
      BY <1>1, <1>3, <2>1, <2>2, <2>3, <2>5, <3>1, <3>2
         DEF Claims, Keeps, Restores, Intends, Loaded, Pending, Selecting, Inside
  <2>. QED
    BY <2>4, <2>5
<1>4. ASSUME NEW p \in Procs, Pending(p)
      PROVE  /\ Armed
             /\ \A q \in Procs : pc[q] = "rollback" => call[q].prior # Off
             /\ \A q \in Procs : pc[q] = "disarm" => call[q].desired # Off
             /\ applyMu = NoProc => Wish
  BY <1>3, <1>4, NamesAssumption DEF Inside
<1>. QED
  BY <1>2, <1>4

\* The inductive invariant.
GuardInv == Types /\ Mutex /\ Honest /\ Ordered /\ Versioned /\ (Careful => Guarded) /\ Told

LEMMA GuardInit == Init => GuardInv
<1>. SUFFICES ASSUME Init PROVE GuardInv
  OBVIOUS
<1>1. \A p \in Procs : pc[p] = "idle" /\ call[p].op = "none" /\ call[p].nm = 0
  BY DEF Init, NoCall
<1>2. Mutex /\ Honest /\ Ordered
  BY <1>1 DEF Init, Mutex, Inside, Honest, Remembers, Backed, NobodyDown, NoStatus, Ordered, Order
<1>3. Versioned
  BY <1>1 DEF Init, Versioned, Version, Selecting, Inside
<1>4. Guarded /\ Told
  BY <1>1 DEF Init, Guarded, Told, NoStatus, Claims, Keeps, Restores, Intends, Loaded, Wish,
              Offered, Inside
<1>. QED
  BY <1>2, <1>3, <1>4, TypesInit DEF GuardInv

LEMMA GuardStep == GuardInv /\ [Next]_vars => GuardInv'
<1>. SUFFICES ASSUME GuardInv, [Next]_vars PROVE GuardInv'
  OBVIOUS
<1>. USE DEF GuardInv
<1>1. Types' /\ Mutex' /\ Honest'
  BY TypesStep, MutexStep, RemembersStep, BackedStep, NobodyDownStep DEF Honest
<1>2. Ordered' /\ Versioned'
  BY OrderedStep, VersionedStep DEF Honest
<1>3. Careful' <=> Careful
  BY FixedStep DEF Careful, Alone
<1>4. Careful => Guarded'
  BY <1>2, GuardedStep DEF Honest
<1>5. Told'
  BY <1>2, ToldStep DEF Honest
<1>. QED
  BY <1>1, <1>2, <1>3, <1>4, <1>5

LEMMA GuardIsKept == Spec => []GuardInv
BY GuardInit, GuardStep, PTL DEF Spec

\* When nothing is in progress and an exit is selected without the fallback, the
\* firewall is armed (refreshKillSwitch's comment), whatever failed before and
\* however many goroutines, netmaps and recoveries came together.
THEOREM ProtectedAtRest == Spec => []ProtectedAlone
<1>1. GuardInv => ProtectedAlone
  <2>. SUFFICES ASSUME GuardInv, Careful, Settled, Selected(applied) # NoExit, ~fallback
                PROVE  guard # Off
    BY DEF ProtectedAlone, Protected
  <2>1. Wish
    BY PolicyArmed DEF GuardInv, Types, Books, Wish
  <2>2. \A p \in Procs : ~Pending(p)
    BY DEF GuardInv, Settled, Pending, Selecting, Ordered, Order, Inside
  <2>. QED
    BY <2>1, <2>2 DEF GuardInv, Guarded, Settled, Armed, Honest, Remembers
<1>. QED
  BY <1>1, GuardIsKept, PTL

\* A daemon that was committed to an exit when it was stopped, and did not get to
\* its own cleanup, left traffic behind the firewall, or no tunnel at all.
Closing ==
    /\ ~Late /\ Careful /\ phase \in {"stopping", "exiting", "down"}
    /\ status.selected # NoExit /\ ~Unprotected
    => guard # Off \/ ~up \/ routes = NoExit

\* Without late calls only the process itself moves once it stops.
LEMMA StoppedStep ==
    ASSUME ~Late, Shutdown, Next, phase # "running"
    PROVE  Publish \/ Handshake \/ DeviceDies \/ TearDown \/ ClearGuard \/ ClearIntent
           \/ Exit \/ Kill \/ Start
<1>1. ASSUME NEW p \in Procs, Begin(p) \/ Transact(p) \/ End(p) PROVE FALSE
  BY <1>1, GoroutineStep DEF Shutdown
<1>2. ~Stop
  BY DEF Stop
<1>. QED
  BY <1>1, <1>2 DEF Next

LEMMA ClosingStep ==
    ASSUME GuardInv, Late \/ Shutdown, Closing, [Next]_vars
    PROVE  Closing'
<1>. SUFFICES ASSUME ~Late', Careful', phase' \in {"stopping", "exiting", "down"},
                     status'.selected # NoExit, ~Unprotected'
              PROVE  guard' # Off \/ ~up' \/ routes' = NoExit
  BY DEF Closing
<1>1. ~Late /\ Careful /\ UNCHANGED maps
  BY FixedStep DEF Late, Careful, Alone
<1>2. Shutdown
  BY <1>1
<1>3. CASE Kill
  BY <1>3 DEF Kill
<1>4. CASE Stop
  <2>1. status.selected # NoExit /\ ~Unprotected /\ phase = "running"
    BY <1>1, <1>4 DEF Stop, Unprotected, Busy, intent, books, world, locals
  <2>2. Armed
    BY <1>1, <2>1, Shielded DEF GuardInv
  <2>. QED
    BY <1>4, <2>2 DEF Stop, wall, Armed, GuardInv, Honest, Remembers
<1>5. CASE phase \in {"stopping", "exiting", "down"} /\ UNCHANGED <<intent, books, wall>>
           /\ (DeviceDies \/ TearDown \/ UNCHANGED device) /\ UNCHANGED <<applied, latest, call>>
  <2>1. status.selected # NoExit /\ ~Unprotected
    BY <1>1, <1>5 DEF Unprotected, Busy, intent, books
  <2>2. guard # Off \/ ~up \/ routes = NoExit
    BY <1>1, <1>5, <2>1 DEF Closing
  <2>. QED
    BY <1>5, <2>2 DEF wall, device, DeviceDies, TearDown
<1>6. CASE Publish
  <2>1. status.selected # NoExit /\ phase \in {"stopping", "exiting", "down"}
    BY <1>6 DEF Publish, books, life
  <2>2. ~Unprotected
    <3>1. applied \in Nat /\ latest \in Nat
      BY DEF GuardInv, Types, Books, World, Versions
    <3>2. applied + 1 .. latest \subseteq applied' + 1 .. latest'
      BY <1>6, <3>1 DEF Publish, books
    <3>. QED
      BY <1>1, <1>6, <2>1, <3>2 DEF Publish, Unprotected, Busy, intent, locals
  <2>. QED
    BY <1>1, <1>6, <2>1, <2>2 DEF Closing, Publish, device, wall
<1>7. CASE ClearGuard \/ ClearIntent
  BY <1>2, <1>7 DEF ClearGuard, ClearIntent, Shutdown, device
<1>8. CASE Exit
  <2>1. \A p \in Procs : pc[p] = "idle"
    BY <1>2, <1>8 DEF Exit, Shutdown
  <2>2. ~Busy("fallback")
    BY <2>1 DEF Busy, GuardInv, Ordered, Order, Inside
  <2>3. status.selected # NoExit /\ ~Unprotected /\ phase = "exiting"
    BY <1>1, <1>8, <2>2 DEF Exit, Gone, Unprotected, intent, books, world
  <2>. QED
    BY <1>1, <1>8, <2>3 DEF Closing, Exit, Gone, wall
<1>9. CASE Start
  BY <1>9 DEF Start
<1>10. CASE phase = "running" /\ ~Stop /\ ~Kill
  <2>1. UNCHANGED phase
    <3>1. CASE UNCHANGED vars
      BY <3>1 DEF vars, life
    <3>2. ASSUME NEW p \in Procs, Begin(p) \/ Transact(p) \/ End(p) PROVE UNCHANGED phase
      BY <3>2, GoroutineStep
    <3>3. CASE Publish \/ Handshake \/ DeviceDies
      BY <3>3 DEF Publish, Handshake, DeviceDies, life
    <3>4. ~(TearDown \/ ClearGuard \/ ClearIntent \/ Exit \/ Start)
      BY <1>10 DEF TearDown, ClearGuard, ClearIntent, Exit, Start
    <3>. QED
      BY <1>10, <3>1, <3>2, <3>3, <3>4 DEF Next
  <2>. QED
    BY <1>10, <2>1
<1>11. CASE (Handshake \/ DeviceDies \/ TearDown \/ UNCHANGED vars) /\ phase # "running"
  <2>1. /\ UNCHANGED <<intent, books, wall>> /\ (DeviceDies \/ TearDown \/ UNCHANGED device)
        /\ UNCHANGED <<applied, latest, call>>
    BY <1>11 DEF Handshake, DeviceDies, TearDown, vars, books, world, locals
  <2>2. phase \in {"stopping", "exiting", "down"}
    BY <1>11 DEF Handshake, DeviceDies, TearDown, vars, life
  <2>. QED
    BY <1>5, <2>1, <2>2
<1>. QED
  BY <1>1, <1>2, <1>3, <1>4, <1>6, <1>7, <1>8, <1>9, <1>10, <1>11, StoppedStep

\* No step of a transaction, a rollback, a recovery, a failure, an incomplete
\* shutdown, a kill or a restart lets traffic of a committed exit out in the clear
\* (applyNetmapLocked's order of firewall and routes, Run's cleanup), for any number
\* of goroutines, exits and netmaps and any failures.
THEOREM NeverLeaks == Spec => NoLeak
<1>. DEFINE Inv == GuardInv /\ (Late \/ Shutdown) /\ Closing
<1>1. Init => Inv
  BY GuardInit DEF Init, Shutdown, Closing
<1>2. Inv /\ [Next]_vars => Inv'
  <2>. SUFFICES ASSUME Inv, [Next]_vars PROVE Inv'
    OBVIOUS
  <2>1. Late => Late'
    BY FixedStep DEF Late
  <2>2. ~Late => Shutdown'
    BY ShutdownStep DEF GuardInv
  <2>. QED
    BY <2>1, <2>2, GuardStep, ClosingStep
<1>3. Inv /\ GuardInv' /\ [Next]_vars =>
         [Careful /\ Egress # "direct" /\ Egress' = "direct"
             => status.selected = NoExit \/ Unprotected]_vars
  <2>. SUFFICES ASSUME Inv, Remembers', Next, Careful, Egress # "direct", Egress' = "direct",
                       status.selected # NoExit, ~Unprotected, vars' # vars
                PROVE  FALSE
    BY DEF GuardInv, Honest
  <2>1. CASE phase = "running"
    <3>1. /\ Armed /\ (applyMu = NoProc => Wish)
          /\ \A p \in Procs : pc[p] = "rollback" => call[p].prior # Off
          /\ \A p \in Procs : pc[p] = "disarm" => call[p].desired # Off
      BY <2>1, Shielded DEF GuardInv
    <3>2. current' # Off
      <4>1. CASE UNCHANGED wall
        BY <3>1, <4>1 DEF wall, Armed
      <4>2. ASSUME NEW p \in Procs, ArmFirst(p) PROVE current' # Off
        BY <3>1, <4>2 DEF ArmFirst, Load, wall, Armed
      <4>3. ASSUME NEW p \in Procs, Rollback(p) \/ Disarm(p) PROVE current' # Off
        BY <3>1, <4>3 DEF Rollback, Disarm, Load, wall, Armed
      <4>4. ASSUME NEW p \in Procs, Rearm(p) PROVE current' # Off
        <5>1. Policy(applied) # Off
          BY <3>1, <4>4, PolicyArmed DEF Rearm, GuardInv, Types, Books, Wish
        <5>. QED
          BY <3>1, <4>4, <5>1 DEF Rearm, Load, wall, Armed
      <4>5. ~(ClearGuard \/ Start)
        BY <2>1 DEF ClearGuard, Start
      <4>. QED
        BY <4>1, <4>2, <4>3, <4>4, <4>5, WallFrame
    <3>. QED
      BY <3>2 DEF Remembers, Egress
  <2>2. CASE phase # "running"
    <3>1. ~Late /\ Shutdown /\ phase # "clearing"
      BY <2>2 DEF Unprotected
    <3>2. guard # Off
      BY <2>2, <3>1 DEF Closing, Egress, Shutdown, GuardInv, Types, Life
    <3>3. UNCHANGED guard
      BY <3>1, <2>2, StoppedStep DEF Publish, Handshake, DeviceDies, TearDown, ClearGuard,
         ClearIntent, Exit, Kill, Gone, Start, wall
    <3>. QED
      BY <3>2, <3>3 DEF Egress
  <2>. QED
    BY <2>1, <2>2
<1>. QED
  BY <1>1, <1>2, <1>3, PTL DEF Spec, NoLeak

-----------------------------------------------------------------------------
(* At rest: who prefers availability, or DIRECT, is not blocked.  The mirror *)
(* of Guarded: what is not asked for is not armed.                           *)

\* What a pending call keeps, could restore, intends and has loaded.
Open(p) ==
    /\ \/ pc[p] \in {"apply", "guard"}
       \/ call[p].op = "fallback" /\ pc[p] \in {"wait", "failed"}
       \/ call[p].op \in {"set", "clear"} /\ pc[p] = "failed"
       => (~Before(p) => ~Armed)
    /\ pc[p] \in {"engine", "rollback"} /\ ~Before(p) => call[p].prior = Off
    /\ pc[p] \in {"engine", "rollback", "disarm"} /\ ~After(p) => call[p].desired = Off
    /\ pc[p] = "commit" /\ ~After(p) => ~Armed
    /\ pc[p] = "done" /\ call[p].op \in {"set", "clear", "fallback"} /\ ~Wish => ~Armed
Opened ==
    phase = "running" =>
       /\ (\A p \in Procs : ~Pending(p)) /\ ~Wish => ~Armed
       /\ \A p \in Procs : Open(p)

\* Orderly, the kernel has what the enforcer remembers, and nothing once the
\* process has stopped.
Emptied ==
    /\ guard = current
    /\ phase \in {"clean", "exiting", "down"} => guard = Off

\* A step of p, with nobody else pending, need answer only for p's claims.
LEMMA OpenedByOne ==
    ASSUME NEW p \in Procs, \A q \in Procs \ {p} : ~Pending(q),
           \A q \in Procs \ {p} : pc'[q] = pc[q] /\ call'[q] = call[q],
           phase' = "running" => Open(p)' /\ (~Pending(p)' /\ ~Wish' => ~Armed')
    PROVE  Opened'
<1>1. \A q \in Procs \ {p} : ~Pending(q)'
  BY DEF Pending, Selecting
<1>2. \A q \in Procs \ {p} : Open(q)'
  BY <1>1 DEF Open, Pending, Selecting, Inside
<1>. QED
  BY <1>1, <1>2 DEF Opened

\* A step of a goroutine that has nothing to take back, and does not touch what
\* the claims are about.
LEMMA OpenedByNeutral ==
    ASSUME Opened, NEW p \in Procs, ~Pending(p), ~Pending(p)',
           \A q \in Procs \ {p} : pc'[q] = pc[q] /\ call'[q] = call[q],
           UNCHANGED <<preferred, fallback, applied, current, maps, phase>>
    PROVE  Opened'
<1>1. \A q \in Procs : Pending(q)' <=> Pending(q)
  BY DEF Pending, Selecting
<1>2. Open(p)'
  BY DEF Open, Pending, Selecting, Inside
<1>3. Opened /\ phase = "running" => \A q \in Procs \ {p} : Open(q)'
  BY DEF Opened, Open, Before, After, Wish, Armed, Offered
<1>. QED
  BY <1>1, <1>2, <1>3 DEF Opened, Wish, Armed, Offered

\* Beginning: only the calls that change the user's wish have something to keep.
LEMMA OpenedBegin ==
    ASSUME Types, Mutex, Ordered, Careful, Orderly, Opened, UNCHANGED maps, NEW p \in Procs, Begin(p)
    PROVE  Opened'
<1>1. pc \in [Procs -> Labels] /\ call \in [Procs -> Call]
  BY DEF Types, Places, Calls
<1>2. \A q \in Procs \ {p} : pc'[q] = pc[q] /\ call'[q] = call[q]
  BY OthersStep
<1>3. pc[p] \in {"idle", "clear", "demote"} /\ p \in setting.procs
  BY BeginsFrom
<1>4. ~Pending(p)
  BY BeginsFrom
<1>5. CASE Sync(p) \/ Reapply(p) \/ RelayDrop(p) \/ Silent(p) \/ ClearExit(p)
  <2>1. /\ call'[p].op \in {"sync", "reapply", "drop", "silent", "clear"}
        /\ pc'[p] \in {"wait", "clear"}
    BY <1>1, <1>5, AppliesCall DEF Sync, Reapply, RelayDrop, Silent, ClearExit, Goto, Types
  <2>2. ~Pending(p)'
    BY <2>1 DEF Pending, Selecting, Inside
  <2>3. UNCHANGED <<preferred, fallback, applied, current, phase>>
    BY <1>5 DEF Sync, Reapply, RelayDrop, Silent, ClearExit, intent, books, wall, life
  <2>. QED
    BY <1>2, <1>4, <2>2, <2>3, OpenedByNeutral
<1>6. CASE Demote(p)
  <2>1. call'[p].op \in {"roam", "health"} /\ pc'[p] \in {"wait", "rebuild"}
    BY <1>1, <1>6, AppliesCall DEF Demote, Goto, Types, Ordered, Order
  <2>2. ~Pending(p)'
    BY <2>1 DEF Pending, Selecting, Inside
  <2>3. UNCHANGED <<preferred, fallback, applied, current, phase>>
    BY <1>6 DEF Demote, intent, wall, life
  <2>. QED
    BY <1>2, <1>4, <2>2, <2>3, OpenedByNeutral
<1>7. ASSUME NEW op \in {"roam", "health"}, Recover(p, op) PROVE Opened'
  <2>1. call'[p].op = op /\ pc'[p] = "demote"
    BY <1>1, <1>7 DEF Recover, Goto, NoCall
  <2>2. ~Pending(p)'
    BY <2>1 DEF Pending, Selecting, Inside
  <2>3. UNCHANGED <<preferred, fallback, applied, current, phase>>
    BY <1>7 DEF Recover, intent, books, wall
  <2>. QED
    BY <1>2, <1>4, <2>2, <2>3, OpenedByNeutral
<1>8. CASE SetExit(p) \/ ClearPreferred(p)
  <2>1. /\ call'[p].op \in {"set", "clear"} /\ call'[p].exit = preferred /\ pc'[p] = "apply"
        /\ applyMu = NoProc
    BY <1>1, <1>8, AppliesCall DEF SetExit, ClearPreferred, Goto, Types
  <2>2. UNCHANGED <<fallback, applied, current, phase>>
    BY <1>8 DEF SetExit, ClearPreferred, books, wall, life
  <2>3. \A q \in Procs \ {p} : ~Pending(q)
    BY <1>3, <2>1, NobodyElsePending
  <2>4. phase = "running" /\ ~Wish => ~Armed
    BY <1>4, <2>3 DEF Opened
  <2>5. Pending(p)' /\ (phase' = "running" => Open(p)')
    BY <2>1, <2>2, <2>4 DEF Pending, Open, Before, Wish, Armed,
                            Offered, Inside
  <2>. QED
    BY <1>2, <2>3, <2>5, OpenedByOne DEF Opened
<1>9. CASE SetInternetFallback(p)
  <2>1. call'[p].op = "fallback" /\ call'[p].flag = fallback /\ pc'[p] = "wait"
    BY <1>1, <1>9 DEF SetInternetFallback, Goto, NoCall
  <2>2. UNCHANGED <<preferred, applied, current, phase>> /\ "fallback" \in setting.ops
    BY <1>9 DEF SetInternetFallback, Begins, books, wall, life
  <2>3. \A q \in Procs \ {p} : ~Pending(q)
    BY <1>3, <2>2, NobodyElsePending
  <2>4. phase = "running" /\ ~Wish => ~Armed
    BY <1>4, <2>3 DEF Opened
  <2>5. Pending(p)' /\ (phase' = "running" => Open(p)')
    BY <2>1, <2>2, <2>4 DEF Pending, Open, Before, Wish, Armed,
                            Offered, Inside
  <2>. QED
    BY <1>2, <2>3, <2>5, OpenedByOne DEF Opened
<1>. QED
  BY <1>5, <1>6, <1>7, <1>8, <1>9 DEF Begin

\* A transaction: the predecessor's policy stays until the routes are settled, the
\* candidate's is in before it is booked.
LEMMA OpenedTransact ==
    ASSUME Types, Mutex, Ordered, Careful, Orderly, Opened, UNCHANGED maps, NEW p \in Procs, Transact(p)
    PROVE  Opened'
<1>. SUFFICES ASSUME phase = "running" PROVE Opened'
  BY DEF Transact, Lock, Refuse, ReadExit, ArmFirst, Reconfigure, Rollback, Disarm, Commit, life,
         Opened
<1>1. pc \in [Procs -> Labels] /\ call \in [Procs -> Call] /\ call[p].nm \in 0 .. MaxVersion
  BY DEF Types, Places, Calls, Call
<1>2. \A q \in Procs \ {p} : pc'[q] = pc[q] /\ call'[q] = call[q]
  BY OthersStep
<1>3. UNCHANGED <<preferred, fallback, maps>>
  BY DEF Transact, Lock, Refuse, ReadExit, ArmFirst, Reconfigure, Rollback, Disarm, Commit, intent
<1>4. (pc[p] = "wait" /\ applyMu = NoProc) \/ pc[p] \in Inside
  BY DEF Transact, Lock, Refuse, ReadExit, ArmFirst, Reconfigure, Rollback, Disarm, Commit, Inside
<1>5. \A q \in Procs \ {p} : ~Pending(q)
  <2>1. p \in setting.procs /\ applyMu \in {p, NoProc}
    BY <1>4, HoldsMutex DEF Ordered, Order, Inside
  <2>. QED
    BY <2>1, NobodyElsePending
<1>6. Open(p) /\ (~Pending(p) /\ ~Wish => ~Armed)
  BY <1>5 DEF Opened
<1>7. ASSUME Open(p)', ~Pending(p)' /\ ~Wish' => ~Armed' PROVE Opened'
  BY <1>2, <1>5, <1>7, OpenedByOne
\* It fails with what it began with.
<1>8. ASSUME pc[p] \in Inside \ {"commit"}, pc'[p] = "failed", UNCHANGED <<call, applied>>,
             ~Before(p) => ~Armed'
      PROVE  Opened'
  <2>1. Open(p)'
    BY <1>3, <1>8 DEF Open, Before, Offered, Armed
  <2>2. ~Pending(p)' /\ ~Wish' => ~Armed'
    BY <1>3, <1>8 DEF Pending, Selecting, Before, Wish, Offered, Armed
  <2>. QED
    BY <1>7, <2>1, <2>2
<1>9. CASE Lock(p)
  <2>1. UNCHANGED <<call, applied, current>> /\ pc[p] = "wait" /\ pc'[p] = "apply"
    BY <1>1, <1>9 DEF Lock, Goto, books, wall
  <2>2. call[p].op \notin {"set", "clear"}
    BY <2>1 DEF Ordered, Order
  <2>3. ~Before(p) => ~Armed
    BY <1>6, <2>1, <2>2 DEF Open, Before, Wish, Pending, Selecting, Inside
  <2>4. Open(p)' /\ Pending(p)'
    BY <1>3, <2>1, <2>3 DEF Open, Before, Offered, Armed,
                            Pending, Inside
  <2>. QED
    BY <1>7, <2>4
<1>10. CASE Refuse(p)
  <2>1. UNCHANGED <<call, applied, current>> /\ pc[p] = "apply" /\ pc'[p] = "failed"
    BY <1>1, <1>10 DEF Refuse, Fail, Goto, books, wall
  <2>. QED
    BY <1>6, <1>8, <2>1 DEF Open, Armed, Inside
<1>11. CASE ReadExit(p)
  <2>1. UNCHANGED <<applied, current>> /\ pc[p] = "apply" /\ pc'[p] = "guard"
    BY <1>1, <1>11 DEF ReadExit, Goto, books, wall
  <2>2. /\ call'[p].op = call[p].op /\ call'[p].exit = call[p].exit
        /\ call'[p].flag = call[p].flag
    BY <1>11, ReadCall DEF Types
  <2>3. Open(p)' /\ Pending(p)'
    BY <1>3, <1>6, <2>1, <2>2 DEF Open, Before, Offered, Armed,
                                  Pending, Inside
  <2>. QED
    BY <1>7, <2>3
<1>12. CASE ArmFirst(p)
  <2>1. UNCHANGED applied /\ pc[p] = "guard"
    BY <1>12 DEF ArmFirst, books
  <2>2. ~Before(p) => ~Armed
    BY <1>6, <2>1 DEF Open
  <2>3. CASE pc' = [pc EXCEPT ![p] = "failed"] /\ UNCHANGED <<wall, call>>
    BY <1>1, <1>8, <2>1, <2>2, <2>3 DEF wall, Armed, Inside
  <2>4. CASE /\ pc' = [pc EXCEPT ![p] = "engine"]
             /\ call' = [call EXCEPT ![p].prior = current, ![p].desired = Policy(call[p].nm)]
             /\ current' = IF current # Off /\ Policy(call[p].nm) = Off THEN current
                           ELSE Policy(call[p].nm)
    <3>1. /\ call'[p].op = call[p].op /\ call'[p].nm = call[p].nm
          /\ call'[p].exit = call[p].exit /\ call'[p].flag = call[p].flag
          /\ call'[p].prior = current /\ call'[p].desired = Policy(call[p].nm)
      BY <2>4, ArmCall DEF Types
    <3>2. Policy(call[p].nm) # Off <=> After(p)
      BY <1>1, PolicyArmed DEF After
    <3>3. pc'[p] = "engine"
      BY <1>1, <2>4
    <3>4. (Before(p) <=> Before(p)') /\ (After(p) <=> After(p)')
      BY <1>3, <2>1, <3>1 DEF Before, After, Offered
    <3>5. (~Armed /\ ~After(p) => ~Armed')
      BY <2>4, <3>2 DEF Armed
    <3>6. Open(p)' /\ Pending(p)'
      BY <2>2, <3>1, <3>2, <3>3, <3>4, <3>5 DEF Open, Armed,
                                                Pending, Inside
    <3>. QED
      BY <1>7, <3>6
  <2>. QED
    BY <1>12, <2>3, <2>4 DEF ArmFirst, Fail, Goto, Load, wall
<1>13. CASE Reconfigure(p)
  <2>1. /\ UNCHANGED <<call, applied, current>> /\ pc[p] = "engine"
        /\ pc'[p] \in {"commit", "disarm", "rollback"}
        /\ pc'[p] = "commit" => current = call[p].desired
    BY <1>1, <1>13 DEF Reconfigure, Goto, books, wall
  <2>2. Open(p)' /\ Pending(p)'
    BY <1>3, <1>6, <2>1 DEF Open, Before, After, Offered, Armed,
                            Pending, Inside
  <2>. QED
    BY <1>7, <2>2
<1>14. CASE Rollback(p)
  <2>1. /\ UNCHANGED <<call, applied>> /\ pc[p] = "rollback" /\ pc'[p] = "failed"
        /\ current' = call[p].prior
    BY <1>1, <1>14 DEF Rollback, Fail, Fails, Orderly, Goto, Load, books, wall
  <2>. QED
    BY <1>6, <1>8, <2>1 DEF Open, Armed, Inside
<1>15. CASE Disarm(p)
  <2>1. UNCHANGED <<call, applied>> /\ pc[p] = "disarm"
    BY <1>15 DEF Disarm, books
  <2>2. pc'[p] = "commit" /\ current' = call[p].desired
    BY <1>1, <1>15 DEF Disarm, Fails, Orderly, Goto, Load
  <2>3. Open(p)' /\ Pending(p)'
    BY <1>3, <1>6, <2>1, <2>2 DEF Open, After, Offered, Armed, Pending, Inside
  <2>. QED
    BY <1>7, <2>3
<1>16. CASE Commit(p)
  <2>1. /\ UNCHANGED <<call, current>> /\ pc[p] = "commit" /\ pc'[p] = "done"
        /\ applied' = call[p].nm
    BY <1>1, <1>16 DEF Commit, Goto, wall
  <2>2. ~Wish' => ~Armed'
    BY <1>3, <1>6, <2>1 DEF Open, After, Wish, Offered, Armed
  <2>3. Open(p)'
    BY <2>1, <2>2 DEF Open
  <2>. QED
    BY <1>7, <2>2, <2>3
<1>. QED
  BY <1>9, <1>10, <1>11, <1>12, <1>13, <1>14, <1>15, <1>16 DEF Transact

\* Returning: what a call kept is what the books now say, or say again.
LEMMA OpenedEnd ==
    ASSUME Types, Mutex, Ordered, Ordered', Careful, Orderly, Opened, UNCHANGED maps, NEW p \in Procs, End(p)
    PROVE  Opened'
<1>1. pc \in [Procs -> Labels] /\ call \in [Procs -> Call]
  BY DEF Types, Places, Calls
<1>2. \A q \in Procs \ {p} : pc'[q] = pc[q] /\ call'[q] = call[q]
  BY OthersStep
<1>3. pc[p] \in {"done", "failed", "rebuild", "refresh", "rearm"} /\ p \in setting.procs
  BY DEF End, EndApply, EndChoice, UndoChoice, EndFallback, EndSilent, UndoSilent, EndDemote,
         Rebuild, Snapshot, Rearm, RearmStale, Ordered, Order
<1>4. Ends(p) => ~Pending(p)' /\ Open(p)'
  BY EndsCall DEF Pending, Selecting, Open, Inside
<1>5. CASE EndApply(p) \/ EndSilent(p) \/ UndoSilent(p) \/ EndDemote(p) \/ Rebuild(p) \/ Snapshot(p)
           \/ RearmStale(p)
  <2>1. ~Pending(p)
    BY <1>5 DEF EndApply, EndSilent, UndoSilent, EndDemote, Rebuild, Snapshot, RearmStale, Ordered, Order,
                Pending, Selecting, Inside
  <2>2. UNCHANGED <<preferred, fallback, applied, current, phase>>
    BY <1>5 DEF EndApply, EndSilent, UndoSilent, EndDemote, Rebuild, Snapshot, RearmStale, intent,
                books, wall, life
  <2>3. ~Pending(p)'
    <3>1. CASE Ends(p)
      BY <1>4, <3>1
    <3>2. CASE ~Ends(p)
      <4>1. pc'[p] \in {"demote", "rebuild", "refresh", "rearm"}
        BY <1>1, <1>5, <3>2 DEF EndApply, EndSilent, UndoSilent, EndDemote, Rebuild, Snapshot,
                                RearmStale, EndRecovery, Goto
      <4>. QED
        BY <4>1 DEF Ordered, Order, Pending, Selecting, Inside
    <3>. QED
      BY <3>1, <3>2
  <2>. QED
    BY <1>2, <2>1, <2>2, <2>3, OpenedByNeutral
<1>6. CASE EndChoice(p) \/ UndoChoice(p) \/ EndFallback(p) \/ Rearm(p)
  <2>1. \A q \in Procs \ {p} : ~Pending(q)
    <3>1. applyMu \in {p, NoProc} \/ "fallback" \in setting.ops
      BY <1>6 DEF EndChoice, UndoChoice, EndFallback, Rearm, Mutex, Ordered, Order
    <3>. QED
      BY <1>3, <3>1, NobodyElsePending
  <2>2. Ends(p) /\ UNCHANGED <<applied, phase>>
    BY <1>6 DEF EndChoice, UndoChoice, EndFallback, Rearm, EndRecovery, books, life
  <2>3. phase = "running" => Open(p) /\ (~Pending(p) /\ ~Wish => ~Armed)
    BY <2>1 DEF Opened
  <2>4. phase = "running" /\ ~Wish' => ~Armed'
    <3>1. CASE EndChoice(p) \/ UndoChoice(p) \/ EndFallback(p)
      BY <2>3, <3>1 DEF EndChoice, UndoChoice, EndFallback, Open, Before, Wish,
                        Offered, Armed, books, wall
    <3>2. CASE Rearm(p)
      <4>1. applied \in 0 .. MaxVersion
        BY DEF Types, Books
      <4>2. Wish' <=> Policy(applied) # Off
        BY <3>2, <4>1, PolicyArmed DEF Rearm, Wish, Offered, intent
      <4>3. Wish' <=> Wish
        BY <3>2 DEF Rearm, Wish, Offered, intent
      <4>4. ~Pending(p)
        BY <3>2 DEF Rearm, Ordered, Order, Pending, Selecting, Inside
      <4>5. current' \in {current, Policy(applied)}
        BY <3>2 DEF Rearm, Load, wall
      <4>. QED
        BY <2>3, <4>2, <4>3, <4>4, <4>5 DEF Armed
    <3>. QED
      BY <1>6, <3>1, <3>2
  <2>. QED
    BY <1>2, <1>4, <2>1, <2>2, <2>4, OpenedByOne DEF Opened
<1>. QED
  BY <1>5, <1>6 DEF End

\* The claims survive every step; a new process begins without any.
LEMMA OpenedStep ==
    ASSUME Types, Mutex, NobodyDown, Ordered, Ordered', Careful, Orderly, Opened, [Next]_vars
    PROVE  Opened'
<1>1. UNCHANGED maps
  BY FixedStep
<1>2. ASSUME NEW p \in Procs, Begin(p) \/ Transact(p) \/ End(p) PROVE Opened'
  BY <1>1, <1>2, OpenedBegin, OpenedTransact, OpenedEnd
<1>3. CASE Publish \/ Handshake \/ DeviceDies \/ UNCHANGED vars
  <2>1. UNCHANGED <<preferred, fallback, applied, current, pc, call, phase>>
    BY <1>3 DEF Publish, Handshake, DeviceDies, vars, intent, books, wall, locals, life
  <2>. QED
    BY <1>1, <2>1 DEF Opened, Open, Before, After, Wish, Armed,
                      Offered, Pending, Selecting
<1>4. CASE Stop \/ TearDown \/ ClearGuard \/ ClearIntent \/ Exit \/ Kill
  BY <1>4 DEF Stop, TearDown, ClearGuard, ClearIntent, Exit, Kill, Gone, Opened
<1>5. CASE Start
  <2>1. applied' = 0 /\ ~Wish' /\ ~Armed'
    BY <1>5 DEF Start, Wish, Armed, Offered
  <2>2. \A q \in Procs : pc'[q] \in {"idle", "wait"} /\ call'[q].op # "fallback"
    <3>1. \A q \in Procs : pc[q] = "idle" /\ call[q].op # "fallback"
      BY <1>5 DEF Start, NobodyDown, Ordered, Order, Inside
    <3>2. CASE UNCHANGED <<pc, call>>
      BY <3>1, <3>2
    <3>3. ASSUME NEW p \in setting.procs, Applies(p, "sync", savedMap, NoExit, FALSE),
                 Goto(p, "wait")
          PROVE  \A q \in Procs : pc'[q] \in {"idle", "wait"} /\ call'[q].op # "fallback"
      <4>1. p \in Procs
        BY DEF Types, World, Setting
      <4>2. call'[p].op = "sync" /\ \A q \in Procs \ {p} : call'[q] = call[q]
        BY <3>3, <4>1, AppliesCall DEF Types, Calls, Applies
      <4>. QED
        BY <3>1, <3>3, <4>2 DEF Types, Places, Goto
    <3>. QED
      BY <1>5, <3>2, <3>3 DEF Start
  <2>. QED
    BY <2>1, <2>2 DEF Opened, Open, Inside
<1>. QED
  BY <1>2, <1>3, <1>4, <1>5 DEF Next

LEMMA EmptiedStep ==
    ASSUME Orderly, Types, Shutdown, Emptied, [Next]_vars
    PROVE  Emptied'
<1>1. ASSUME NEW p \in Procs, Begin(p) \/ Transact(p) \/ End(p) PROVE Emptied'
  <2>1. phase = "running" /\ UNCHANGED phase
    BY <1>1, GoroutineStep DEF Shutdown, Orderly, Late
  <2>2. CASE UNCHANGED wall
    BY <2>1, <2>2 DEF wall, Emptied
  <2>3. CASE ArmFirst(p) \/ Rollback(p) \/ Disarm(p) \/ Rearm(p)
    BY <2>1, <2>3 DEF ArmFirst, Rollback, Disarm, Rearm, Load, wall, Emptied
  <2>4. CASE ~(ArmFirst(p) \/ Rollback(p) \/ Disarm(p) \/ Rearm(p))
    <3>1. UNCHANGED wall
      BY <1>1, <2>4 DEF Begin, Transact, End, Sync, Reapply, RelayDrop, SetExit, ClearExit,
           ClearPreferred, SetInternetFallback, Silent, Demote, Recover, Lock, Refuse, ReadExit,
           Reconfigure, Commit, EndApply, EndChoice, UndoChoice, EndFallback, EndSilent, UndoSilent,
           EndDemote, Rebuild, Snapshot, RearmStale
    <3>. QED
      BY <2>2, <3>1
  <2>. QED
    BY <2>3, <2>4
<1>2. CASE Publish \/ Handshake \/ DeviceDies \/ UNCHANGED vars
  BY <1>2 DEF Publish, Handshake, DeviceDies, vars, wall, life, Emptied
<1>3. CASE Stop \/ TearDown \/ ClearGuard \/ ClearIntent
  BY <1>3 DEF Stop, TearDown, ClearGuard, ClearIntent, Load, Fails, Orderly, wall, Emptied
<1>4. CASE Exit \/ Kill
  BY <1>4 DEF Exit, Kill, Gone, Orderly, wall, Emptied
<1>5. CASE Start
  BY <1>5 DEF Start, Emptied
<1>. QED
  BY <1>1, <1>2, <1>3, <1>4, <1>5 DEF Next

-----------------------------------------------------------------------------
(* At rest: the daemon believes what the engine was told.                   *)

\* What p is about to route; and the netmap it owes the engine: whoever books an
\* exit as demoted goes on to apply that.
Routed(p) == IF call[p].routed THEN Selected(call[p].nm) ELSE NoExit
Owes(p) == pc[p] \in {"wait", "apply", "guard", "engine"} /\ call[p].nm = applied /\ applied > 0

\* The engine has what the books say, unless a transaction has just told it or
\* somebody owes it.
Matched ==
    /\ \A p \in Procs : call[p].op \notin {"silent", "health"}
    /\ phase = "running" =>
        /\ up
        /\ \A p \in Procs : pc[p] # "rollback"
        /\ \A p \in Procs : pc[p] = "demote" => applied > 0
        /\ \A p \in Procs : pc[p] \in {"disarm", "commit"} => cfg = Routed(p)
        /\ (\A p \in Procs : pc[p] \notin {"disarm", "commit"})
              => cfg = (IF exitRouted THEN exitKey ELSE NoExit) \/ \E p \in Procs : Owes(p)

\* A step of a goroutine that leaves alone what the books are about and is in no
\* transaction's last steps keeps them; so does one that books what it owes.
LEMMA MatchedByOne ==
    ASSUME Matched, NEW p \in Procs,
           \A q \in Procs \ {p} : pc'[q] = pc[q] /\ call'[q] = call[q],
           UNCHANGED <<phase, applied, maps, exitKey, cfg>>, up' \/ phase # "running",
           call'[p].op \notin {"silent", "health"},
           phase = "running" =>
             /\ pc'[p] \notin {"rollback", "disarm", "commit"}
             /\ pc'[p] = "demote" => applied > 0
             /\ pc[p] \notin {"disarm", "commit"}
             /\ Owes(p) => Owes(p)'
             /\ exitRouted' = exitRouted \/ Owes(p)'
             /\ preferred' = preferred \/ \A q \in Procs : pc[q] \notin {"disarm", "commit"}
    PROVE  Matched'
<1>1. \A q \in Procs : call'[q].op \notin {"silent", "health"}
  BY DEF Matched
<1>. SUFFICES ASSUME phase = "running" PROVE Matched'
  BY <1>1 DEF Matched
<1>2. \A q \in Procs : Owes(q) => Owes(q)'
  BY DEF Owes
<1>3. \A q \in Procs \ {p} : preferred' = preferred => Routed(q)' = Routed(q)
  BY DEF Routed, Selected
<1>. QED
  BY <1>1, <1>2, <1>3 DEF Matched

LEMMA MatchedBegin ==
    ASSUME Unfailing, Types, Mutex, Ordered, Matched, UNCHANGED maps, NEW p \in Procs, Begin(p)
    PROVE  Matched'
<1>1. pc \in [Procs -> Labels] /\ call \in [Procs -> Call]
  BY DEF Types, Places, Calls
<1>2. \A q \in Procs \ {p} : pc'[q] = pc[q] /\ call'[q] = call[q]
  BY OthersStep
<1>3. /\ pc[p] \in {"idle", "clear", "demote"} /\ ~Owes(p)
      /\ UNCHANGED <<phase, applied, exitKey, cfg, up>>
  BY DEF Begin, Begins, Sync, Reapply, RelayDrop, SetExit, ClearExit, ClearPreferred,
         SetInternetFallback, Silent, Demote, Recover, Owes, books, device, life
<1>4. phase = "running" => up
  BY DEF Matched
<1>5. CASE Sync(p) \/ Reapply(p) \/ ClearExit(p)
  <2>1. /\ call'[p].op \in {"sync", "reapply", "clear"} /\ pc'[p] \in {"wait", "clear"}
        /\ UNCHANGED <<preferred, exitRouted>>
    BY <1>1, <1>5, AppliesCall DEF Sync, Reapply, ClearExit, Goto, Types, intent, books
  <2>. QED
    BY <1>2, <1>3, <1>4, <2>1, MatchedByOne
<1>6. CASE SetInternetFallback(p)
  <2>1. /\ call'[p].op = "fallback" /\ pc'[p] = "wait"
        /\ UNCHANGED <<preferred, exitRouted>>
    BY <1>1, <1>6 DEF SetInternetFallback, NoCall, Goto, books
  <2>. QED
    BY <1>2, <1>3, <1>4, <2>1, MatchedByOne
<1>7. CASE SetExit(p) \/ ClearPreferred(p)
  <2>1. /\ call'[p].op \in {"set", "clear"} /\ pc'[p] = "apply"
        /\ applyMu = NoProc /\ UNCHANGED exitRouted
    BY <1>1, <1>7, AppliesCall DEF SetExit, ClearPreferred, Goto, Types, books
  <2>2. \A q \in Procs : pc[q] \notin {"disarm", "commit"}
    BY <2>1, NamesAssumption DEF Mutex, Inside
  <2>. QED
    BY <1>2, <1>3, <1>4, <2>1, <2>2, MatchedByOne
<1>8. CASE RelayDrop(p)
  <2>1. /\ call'[p].op = "drop" /\ call'[p].nm = applied /\ pc'[p] = "wait"
        /\ applied > 0 /\ UNCHANGED preferred
    BY <1>1, <1>8, AppliesCall DEF RelayDrop, Goto, Types, intent
  <2>2. Owes(p)'
    BY <1>3, <2>1 DEF Owes
  <2>. QED
    BY <1>2, <1>3, <1>4, <2>1, <2>2, MatchedByOne
<1>9. CASE Demote(p)
  <2>1. pc[p] = "demote" /\ call'[p].op = call[p].op /\ UNCHANGED preferred
    BY <1>1, <1>9, AppliesCall DEF Demote, Types, intent
  <2>2. call'[p].op \notin {"silent", "health"}
    BY <2>1 DEF Matched
  <2>3. CASE pc'[p] = "wait" /\ call'[p].nm = applied
    <3>1. phase = "running" => Owes(p)'
      BY <1>3, <2>1, <2>3 DEF Owes, Matched
    <3>. QED
      BY <1>2, <1>3, <1>4, <2>1, <2>2, <2>3, <3>1, MatchedByOne
  <2>4. CASE pc'[p] = "rebuild" /\ UNCHANGED exitRouted
    BY <1>2, <1>3, <1>4, <2>1, <2>2, <2>4, MatchedByOne
  <2>. QED
    BY <1>1, <1>9, <2>3, <2>4, AppliesCall DEF Demote, Goto, Types
<1>10. ASSUME NEW op \in {"roam", "health"}, Recover(p, op) PROVE Matched'
  <2>1. op = "roam"
    BY <1>10 DEF Recover, Begins, Unfailing
  <2>2. /\ call'[p].op = "roam" /\ pc'[p] = "demote" /\ applied > 0
        /\ UNCHANGED <<preferred, exitRouted>>
    BY <1>1, <1>10, <2>1 DEF Recover, NoCall, Goto, intent, books
  <2>. QED
    BY <1>2, <1>3, <1>4, <2>2, MatchedByOne
<1>11. ~Silent(p)
  BY DEF Silent, Begins, Unfailing
<1>. QED
  BY <1>5, <1>6, <1>7, <1>8, <1>9, <1>10, <1>11 DEF Begin

LEMMA MatchedTransact ==
    ASSUME Unfailing, Types, Mutex, Ordered, Versioned, Matched, UNCHANGED maps, NEW p \in Procs,
           Transact(p)
    PROVE  Matched'
<1>1. pc \in [Procs -> Labels] /\ call \in [Procs -> Call]
  BY DEF Types, Places, Calls
<1>2. \A q \in Procs \ {p} : pc'[q] = pc[q] /\ call'[q] = call[q]
  BY OthersStep
<1>3. UNCHANGED <<preferred, phase, up>>
  BY DEF Transact, Lock, Refuse, ReadExit, ArmFirst, Reconfigure, Rollback, Disarm, Commit, intent,
         life, device
<1>4. call'[p].op = call[p].op /\ call'[p].op \notin {"silent", "health"}
  BY <1>1, ReadCall, ArmCall DEF Transact, Lock, Refuse, ArmFirst, Reconfigure, Rollback, Disarm,
     Commit, Types, Matched
<1>. SUFFICES ASSUME phase = "running" PROVE Matched'
  BY <1>2, <1>3, <1>4 DEF Matched
<1>5. up
  BY DEF Matched
<1>6. pc[p] \in Inside => \A q \in Procs \ {p} : pc[q] \notin Inside
  BY DEF Mutex
<1>7. CASE Lock(p) \/ Refuse(p)
  <2>1. /\ call' = call /\ UNCHANGED <<applied, exitKey, cfg, exitRouted>>
        /\ pc[p] \in {"wait", "apply"} /\ pc'[p] \in {"apply", "failed"}
        /\ Owes(p) => Owes(p)'
    BY <1>1, <1>7 DEF Lock, Refuse, Fail, Goto, books, device, Owes, Types, Books, Call
  <2>. QED
    BY <1>2, <1>3, <1>4, <1>5, <2>1, MatchedByOne
<1>8. CASE ReadExit(p)
  <2>1. /\ call'[p].nm = call[p].nm /\ UNCHANGED <<applied, exitKey, cfg, exitRouted>>
        /\ pc[p] = "apply" /\ pc'[p] = "guard"
    BY <1>1, <1>8, ReadCall DEF ReadExit, Goto, books, device, Types
  <2>2. Owes(p) => Owes(p)'
    BY <2>1 DEF Owes
  <2>. QED
    BY <1>2, <1>3, <1>4, <1>5, <2>1, <2>2, MatchedByOne
<1>9. CASE ArmFirst(p)
  <2>1. /\ UNCHANGED <<applied, exitKey, cfg, exitRouted>>
        /\ pc[p] = "guard" /\ pc'[p] = "engine"
        /\ call' = [call EXCEPT ![p].prior = current, ![p].desired = Policy(call[p].nm)]
    BY <1>1, <1>9 DEF ArmFirst, Fails, Unfailing, Goto, books, device
  <2>2. Owes(p) => Owes(p)'
    BY <2>1, ArmCall DEF Owes, Types
  <2>. QED
    BY <1>2, <1>3, <1>4, <1>5, <2>1, <2>2, MatchedByOne
<1>10. CASE Reconfigure(p)
  <2>1. /\ pc[p] = "engine" /\ pc'[p] \in {"commit", "disarm"} /\ call' = call
        /\ cfg' = Routed(p)
    BY <1>1, <1>5, <1>10 DEF Reconfigure, Fails, Unfailing, Goto, Routed
  <2>3. UNCHANGED applied
    BY <1>10 DEF Reconfigure, books
  <2>2. Routed(p)' = Routed(p)
    BY <1>3, <2>1 DEF Routed, Selected
  <2>. QED
    BY <1>2, <1>3, <1>4, <1>5, <1>6, <2>1, <2>2, <2>3 DEF Matched, Inside
<1>11. ~Rollback(p)
  BY DEF Rollback, Matched
<1>12. CASE Disarm(p)
  <2>1. /\ pc[p] = "disarm" /\ pc'[p] = "commit" /\ call' = call /\ UNCHANGED cfg
    BY <1>1, <1>12 DEF Disarm, Fails, Unfailing, Goto, device
  <2>3. UNCHANGED applied
    BY <1>12 DEF Disarm, books
  <2>2. Routed(p)' = Routed(p)
    BY <1>3, <2>1 DEF Routed, Selected
  <2>. QED
    BY <1>2, <1>3, <1>4, <1>5, <1>6, <2>1, <2>2, <2>3 DEF Matched, Inside
<1>13. CASE Commit(p)
  <2>1. /\ pc[p] = "commit" /\ pc'[p] = "done" /\ call' = call /\ UNCHANGED cfg
        /\ exitKey' = Selected(call[p].nm) /\ exitRouted' = call[p].routed
    BY <1>1, <1>13 DEF Commit, Goto, device
  <2>2. cfg' = IF exitRouted' THEN exitKey' ELSE NoExit
    BY <2>1 DEF Matched, Routed
  <2>3. applied' >= applied /\ applied \in Nat /\ applied' \in Nat
    BY <1>1, <1>13, <2>1 DEF Commit, Versioned, Version, Inside, Types, Books, Call
  <2>. QED
    BY <1>2, <1>3, <1>4, <1>5, <1>6, <2>1, <2>2, <2>3 DEF Matched, Inside
<1>. QED
  BY <1>7, <1>8, <1>9, <1>10, <1>11, <1>12, <1>13 DEF Transact

LEMMA MatchedEnd ==
    ASSUME Unfailing, Types, Mutex, Ordered, Matched, UNCHANGED maps, NEW p \in Procs, End(p)
    PROVE  Matched'
<1>1. pc \in [Procs -> Labels] /\ call \in [Procs -> Call]
  BY DEF Types, Places, Calls
<1>2. \A q \in Procs \ {p} : pc'[q] = pc[q] /\ call'[q] = call[q]
  BY OthersStep
<1>3. ~EndSilent(p) /\ ~UndoSilent(p)
  BY DEF EndSilent, UndoSilent, Matched
<1>4. /\ pc[p] \in {"done", "failed", "rebuild", "refresh", "rearm", "wait"} \cup Inside
      /\ UNCHANGED <<phase, applied, exitKey, exitRouted, cfg>>
  BY <1>3 DEF End, EndApply, EndChoice, UndoChoice, EndFallback, EndDemote, Rebuild, Snapshot, Rearm,
         RearmStale, books, device, life, Ordered, Order
<1>5. pc[p] \in {"done", "failed", "rebuild", "refresh", "rearm"} /\ ~Owes(p)
  BY <1>3 DEF End, EndApply, EndChoice, UndoChoice, EndFallback, EndDemote, Rebuild, Snapshot, Rearm,
         RearmStale, Owes
<1>6. phase = "running" => up'
  BY <1>3 DEF End, EndApply, EndChoice, UndoChoice, EndFallback, EndDemote, Rebuild, Snapshot, Rearm,
         RearmStale, device, Fails, Unfailing, Matched
<1>7. /\ call'[p].op \notin {"silent", "health"}
      /\ pc'[p] \in {"idle", "rebuild", "refresh", "rearm"}
  <2>1. CASE Ends(p)
    BY <2>1, EndsCall
  <2>2. CASE ~Ends(p)
    <3>1. pc'[p] \in {"rebuild", "refresh", "rearm"}
      BY <1>1, <1>3, <2>2 DEF End, EndApply, EndChoice, UndoChoice, EndFallback, EndDemote, Rebuild,
           Snapshot, Rearm, RearmStale, EndRecovery, Goto
    <3>2. call'[p].op = call[p].op
      <4>1. ASSUME NEW nm, NEW exit, NEW flag,
                   call' = [call EXCEPT ![p].nm = nm, ![p].exit = exit, ![p].flag = flag]
            PROVE  call'[p].op = call[p].op
        BY <1>1, <4>1 DEF Call
      <4>2. CASE call' = [call EXCEPT ![p].tries = @ + 1]
        BY <1>1, <4>2 DEF Call
      <4>. QED
        BY <1>3, <2>2, <4>1, <4>2 DEF End, EndApply, EndChoice, UndoChoice, EndFallback, EndDemote,
             Rebuild, Snapshot, Rearm, RearmStale, EndRecovery
    <3>. QED
      BY <3>1, <3>2 DEF Matched
  <2>. QED
    BY <2>1, <2>2
<1>8. preferred' = preferred \/ \A q \in Procs : pc[q] \notin {"disarm", "commit"}
  <2>1. CASE UndoChoice(p)
    BY <2>1, NamesAssumption DEF UndoChoice, Mutex, Inside
  <2>2. CASE ~UndoChoice(p)
    BY <1>3, <2>2 DEF End, EndApply, EndChoice, EndFallback, EndDemote, Rebuild, Snapshot, Rearm,
         RearmStale, intent
  <2>. QED
    BY <2>1, <2>2
<1>. QED
  BY <1>2, <1>4, <1>5, <1>6, <1>7, <1>8, MatchedByOne

\* The engine has what the books say, or a call that owes it to them.
LEMMA MatchedStep ==
    ASSUME Unfailing, Types, Mutex, NobodyDown, Ordered, Versioned, Matched, [Next]_vars
    PROVE  Matched'
<1>1. UNCHANGED maps
  BY FixedStep
<1>2. ASSUME NEW p \in Procs, Begin(p) \/ Transact(p) \/ End(p) PROVE Matched'
  BY <1>1, <1>2, MatchedBegin, MatchedTransact, MatchedEnd
<1>3. CASE Publish \/ Handshake \/ UNCHANGED vars
  BY <1>1, <1>3 DEF Publish, Handshake, vars, intent, books, device, locals, life, Matched, Owes,
     Routed, Selected
<1>4. ~DeviceDies
  BY DEF DeviceDies, Unfailing
<1>5. CASE Stop \/ TearDown \/ ClearGuard \/ ClearIntent
  BY <1>5 DEF Stop, TearDown, ClearGuard, ClearIntent, locals, Matched
<1>7. CASE Exit \/ Kill
  BY <1>7 DEF Exit, Kill, Gone, NoCall, Matched
<1>6. CASE Start
  <2>1. CASE UNCHANGED <<pc, call>>
    BY <1>6, <2>1 DEF Start, NobodyDown, Matched
  <2>2. ASSUME NEW p \in setting.procs, Applies(p, "sync", savedMap, NoExit, FALSE), Goto(p, "wait")
        PROVE  Matched'
    <3>1. p \in Procs /\ call'[p].op = "sync" /\ pc'[p] = "wait"
      BY <2>2, AppliesCall DEF Types, World, Setting, Goto, Places
    <3>2. \A q \in Procs \ {p} : pc'[q] = pc[q] /\ call'[q] = call[q]
      BY <2>2 DEF Applies, Goto, Types, Places, Calls
    <3>. QED
      BY <1>6, <3>1, <3>2 DEF Start, NobodyDown, Matched
  <2>. QED
    BY <1>6, <2>1, <2>2 DEF Start
<1>. QED
  BY <1>2, <1>3, <1>4, <1>5, <1>6, <1>7 DEF Next

-----------------------------------------------------------------------------
(* At rest: the files hold the choice.                                      *)

\* p has a choice in hand: ClearExit from the file it writes first.
Choosing(p) == Selecting(p) \/ pc[p] = "clear"

\* The files hold the choice, or what a call that is under way returns to (SetExit)
\* or has written ahead (ClearExit).
Saved ==
    /\ \A p \in Procs : call[p].op = "clear" => "clear" \in setting.ops
    /\ phase # "down" =>
        /\ (\A p \in Procs : ~Choosing(p)) => savedExit = preferred
        /\ \A p \in Procs : Selecting(p) /\ call[p].op = "set" => call[p].exit = savedExit
        /\ \A p \in Procs : Choosing(p) /\ call[p].op = "clear" => savedExit = NoExit
        /\ \A p \in Procs : Selecting(p) /\ call[p].op = "clear" /\ pc[p] # "failed" => preferred = NoExit
        /\ (\A p \in Procs : call[p].op # "fallback") => savedFallback = fallback
        /\ \A p \in Procs : call[p].op = "fallback" => call[p].flag = savedFallback /\ call[p].want = fallback

\* A transaction keeps what the call was made for.
LEMMA TransactCall ==
    ASSUME Calls, NEW p \in Procs, Transact(p)
    PROVE  /\ call'[p].op = call[p].op /\ call'[p].exit = call[p].exit
           /\ call'[p].flag = call[p].flag /\ call'[p].want = call[p].want
           /\ call'[p].tries = call[p].tries
<1>. USE DEF Calls, Call
<1>1. CASE ReadExit(p)
  <2>1. PICK r : call' = [call EXCEPT ![p].routed = r]
    BY <1>1 DEF ReadExit
  <2>. QED
    BY <2>1
<1>2. CASE call' = [call EXCEPT ![p].prior = current, ![p].desired = Policy(call[p].nm)]
  <2>1. call' = [call EXCEPT ![p] = [@ EXCEPT !.prior = current, !.desired = Policy(call[p].nm)]]
    BY <1>2
  <2>. QED
    BY <2>1
<1>3. CASE call' = call
  BY <1>3
<1>. QED
  BY <1>1, <1>2, <1>3 DEF Transact, Lock, Refuse, ArmFirst, Reconfigure, Rollback, Disarm, Commit

\* What a step of p does not change about choices, nobody need answer for.
LEMMA SavedByNeutral ==
    ASSUME Saved, NEW p \in Procs, \A q \in Procs \ {p} : pc'[q] = pc[q] /\ call'[q] = call[q],
           UNCHANGED <<intent, setting, phase>>,
           call'[p].op = "clear" => "clear" \in setting.ops,
           \/ /\ ~Choosing(p) /\ ~Choosing(p)'
              /\ call[p].op # "fallback" /\ call'[p].op # "fallback"
           \/ /\ call'[p].op = call[p].op /\ call'[p].exit = call[p].exit
              /\ call'[p].flag = call[p].flag /\ call'[p].want = call[p].want
              /\ (Choosing(p)' <=> Choosing(p)) /\ (Selecting(p)' <=> Selecting(p))
              /\ pc[p] # "failed"
    PROVE  Saved'
<1>1. \A q \in Procs \ {p} : (Choosing(q)' <=> Choosing(q)) /\ (Selecting(q)' <=> Selecting(q))
  BY DEF Choosing, Selecting
<1>2. Choosing(p)' <=> Choosing(p)
  OBVIOUS
<1>3. Selecting(p) => Choosing(p)
  BY DEF Choosing
<1>4. Selecting(p)' => Choosing(p)'
  BY DEF Choosing
<1>. QED
  BY <1>1, <1>2, <1>3, <1>4 DEF Saved, intent

\* Where p has applyMu, or could take it, nobody else has a choice in hand; where
\* it changes the fallback, nobody else does.
LEMMA NobodyElseChooses ==
    ASSUME Saving, Mutex, Ordered, Saved, NEW p \in Procs, p \in setting.procs,
           applyMu \in {p, NoProc} \/ "clear" \in setting.ops
    PROVE  \A q \in Procs \ {p} : ~Choosing(q)
<1>. SUFFICES ASSUME NEW q \in Procs \ {p}, Choosing(q) PROVE FALSE
  OBVIOUS
<1>1. pc[q] # "idle" /\ q \in setting.procs
  BY DEF Choosing, Selecting, Inside, Ordered, Order
<1>2. "clear" \notin setting.ops
  BY <1>1 DEF Saving, Alone
<1>3. Selecting(q)
  BY <1>2 DEF Choosing, Ordered, Order, Saved
<1>. QED
  BY <1>2, <1>3, HoldsMutex, NamesAssumption

LEMMA NobodyElseFallsBack ==
    ASSUME Saving, Ordered, NEW p \in Procs, p \in setting.procs, "fallback" \in setting.ops
    PROVE  \A q \in Procs \ {p} : call[q].op # "fallback"
BY DEF Saving, Careful, Alone, Ordered, Order, Inside

\* Where only p has a choice in hand, it alone answers for it.
LEMMA SavedByOne ==
    ASSUME Saved, NEW p \in Procs, \A q \in Procs \ {p} : pc'[q] = pc[q] /\ call'[q] = call[q],
           UNCHANGED <<setting, phase>>, \A q \in Procs \ {p} : ~Choosing(q),
           UNCHANGED <<fallback, savedFallback>>,
           call[p].op # "fallback", call'[p].op # "fallback",
           call'[p].op = "clear" => "clear" \in setting.ops,
           phase # "down" =>
             /\ ~Choosing(p)' => savedExit' = preferred'
             /\ Selecting(p)' /\ call'[p].op = "set" => call'[p].exit = savedExit'
             /\ Choosing(p)' /\ call'[p].op = "clear" => savedExit' = NoExit
             /\ Selecting(p)' /\ call'[p].op = "clear" /\ pc'[p] # "failed" => preferred' = NoExit
    PROVE  Saved'
<1>1. \A q \in Procs \ {p} : ~Choosing(q)' /\ ~Selecting(q)'
  BY DEF Choosing, Selecting
<1>2. Selecting(p)' => Choosing(p)'
  BY DEF Choosing
<1>. QED
  BY <1>1, <1>2 DEF Saved

LEMMA SavedBegin ==
    ASSUME Saving, Types, Mutex, Ordered, Saved, UNCHANGED setting, NEW p \in Procs, Begin(p)
    PROVE  Saved'
<1>1. pc \in [Procs -> Labels] /\ call \in [Procs -> Call]
  BY DEF Types, Places, Calls
<1>2. \A q \in Procs \ {p} : pc'[q] = pc[q] /\ call'[q] = call[q]
  BY OthersStep
<1>3. /\ pc[p] \in {"idle", "clear", "demote"} /\ p \in setting.procs /\ UNCHANGED phase
      /\ call[p].op # "fallback" /\ ~Selecting(p)
  BY BeginsFrom DEF Pending
<1>4. CASE Sync(p) \/ Reapply(p) \/ RelayDrop(p) \/ Silent(p) \/ Demote(p)
  <2>1. /\ call'[p].op \in {"sync", "reapply", "drop", "silent", "roam", "health"}
        /\ pc'[p] \in {"wait", "rebuild"} /\ pc[p] # "clear" /\ UNCHANGED intent
    <3>1. CASE Demote(p)
      BY <1>1, <3>1, AppliesCall DEF Demote, Goto, Types, Ordered, Order
    <3>2. CASE ~Demote(p)
      BY <1>1, <1>4, <3>2, AppliesCall DEF Sync, Reapply, RelayDrop, Silent, Goto, Types, Begins
    <3>. QED
      BY <3>1, <3>2
  <2>2. ~Choosing(p) /\ ~Choosing(p)'
    BY <1>3, <2>1 DEF Choosing, Selecting
  <2>. QED
    BY <1>2, <1>3, <2>1, <2>2, SavedByNeutral
<1>5. ASSUME NEW op \in {"roam", "health"}, Recover(p, op) PROVE Saved'
  <2>1. /\ call'[p].op = op /\ pc'[p] = "demote" /\ pc[p] = "idle" /\ UNCHANGED intent
    BY <1>1, <1>5 DEF Recover, Begins, NoCall, Goto
  <2>2. ~Choosing(p) /\ ~Choosing(p)'
    BY <1>3, <2>1 DEF Choosing, Selecting
  <2>. QED
    BY <1>2, <1>3, <2>1, <2>2, SavedByNeutral
<1>6. CASE SetExit(p)
  <2>1. /\ call'[p].op = "set" /\ call'[p].exit = preferred /\ pc'[p] = "apply" /\ pc[p] = "idle"
        /\ applyMu = NoProc /\ UNCHANGED <<savedExit, fallback, savedFallback>>
    BY <1>1, <1>6, AppliesCall DEF SetExit, Goto, Types, Begins
  <2>2. \A q \in Procs \ {p} : ~Choosing(q)
    BY <1>3, <2>1, NobodyElseChooses
  <2>3. phase # "down" => savedExit = preferred
    BY <1>3, <2>1, <2>2 DEF Saved, Choosing
  <2>4. Choosing(p)'
    BY <2>1 DEF Choosing, Selecting, Inside
  <2>. QED
    BY <1>2, <1>3, <2>1, <2>2, <2>3, <2>4, SavedByOne
<1>7. CASE ClearExit(p)
  <2>1. /\ call'[p].op = "clear" /\ pc'[p] = "clear" /\ savedExit' = NoExit
        /\ UNCHANGED <<preferred, fallback, savedFallback>> /\ "clear" \in setting.ops
    BY <1>1, <1>7, AppliesCall DEF ClearExit, Goto, Types, Begins
  <2>2. \A q \in Procs \ {p} : ~Choosing(q)
    BY <1>3, <2>1, NobodyElseChooses
  <2>3. Choosing(p)' /\ ~Selecting(p)'
    BY <2>1 DEF Choosing, Selecting, Inside
  <2>. QED
    BY <1>2, <1>3, <2>1, <2>2, <2>3, SavedByOne
<1>8. CASE ClearPreferred(p)
  <2>1. /\ call'[p].op = "clear" /\ pc'[p] = "apply" /\ pc[p] = "clear" /\ preferred' = NoExit
        /\ UNCHANGED <<savedExit, fallback, savedFallback>>
    BY <1>1, <1>8, AppliesCall DEF ClearPreferred, Goto, Types
  <2>2. call[p].op = "clear" /\ "clear" \in setting.ops
    BY <2>1 DEF Ordered, Order, Saved
  <2>3. \A q \in Procs \ {p} : ~Choosing(q)
    BY <1>3, <2>2, NobodyElseChooses
  <2>4. phase # "down" => savedExit = NoExit
    BY <2>1, <2>2 DEF Saved, Choosing
  <2>5. Choosing(p)'
    BY <2>1 DEF Choosing, Selecting, Inside
  <2>. QED
    BY <1>2, <1>3, <2>1, <2>2, <2>3, <2>4, <2>5, SavedByOne
<1>9. CASE SetInternetFallback(p)
  <2>1. /\ call'[p].op = "fallback" /\ call'[p].flag = fallback /\ call'[p].want = fallback'
        /\ pc'[p] = "wait" /\ pc[p] = "idle" /\ "fallback" \in setting.ops
        /\ UNCHANGED <<preferred, savedExit, savedFallback>>
    BY <1>1, <1>9 DEF SetInternetFallback, Begins, NoCall, Goto
  <2>2. \A q \in Procs : call[q].op # "fallback"
    BY <1>3, <2>1, NobodyElseFallsBack
  <2>3. phase # "down" => savedFallback = fallback
    BY <2>2 DEF Saved
  <2>5. ~Choosing(p) /\ ~Choosing(p)' /\ ~Selecting(p)'
    BY <1>3, <2>1 DEF Choosing, Selecting
  <2>6. \A q \in Procs \ {p} : (Choosing(q)' <=> Choosing(q)) /\ (Selecting(q)' <=> Selecting(q))
    BY <1>2 DEF Choosing, Selecting
  <2>. QED
    BY <1>2, <1>3, <2>1, <2>2, <2>3, <2>5, <2>6 DEF Saved
<1>. QED
  BY <1>4, <1>5, <1>6, <1>7, <1>8, <1>9 DEF Begin

\* A transaction changes neither the choice nor its file.
LEMMA SavedTransact ==
    ASSUME Types, Ordered, Saved, UNCHANGED setting, NEW p \in Procs, Transact(p)
    PROVE  Saved'
<1>1. pc \in [Procs -> Labels] /\ call \in [Procs -> Call] /\ Calls
  BY DEF Types, Places, Calls
<1>2. \A q \in Procs \ {p} : pc'[q] = pc[q] /\ call'[q] = call[q]
  BY OthersStep
<1>3. /\ call'[p].op = call[p].op /\ call'[p].exit = call[p].exit
      /\ call'[p].flag = call[p].flag /\ call'[p].want = call[p].want
  BY <1>1, TransactCall
<1>4. UNCHANGED <<intent, phase>>
  BY DEF Transact, Lock, Refuse, ReadExit, ArmFirst, Reconfigure, Rollback, Disarm, Commit, life
<1>5. /\ pc[p] \in Inside \cup {"wait"} /\ pc'[p] \in Inside \cup {"done", "failed"}
      /\ pc[p] = "wait" => pc'[p] = "apply"
  BY <1>1 DEF Transact, Lock, Refuse, ReadExit, ArmFirst, Reconfigure, Rollback, Disarm, Commit,
     Fail, Goto, Inside
<1>6. (Choosing(p)' <=> Choosing(p)) /\ (Selecting(p)' <=> Selecting(p)) /\ pc[p] # "failed"
  BY <1>3, <1>5 DEF Choosing, Selecting, Inside, Ordered, Order
<1>7. call'[p].op = "clear" => "clear" \in setting.ops
  BY <1>3 DEF Saved
<1>. QED
  BY <1>2, <1>3, <1>4, <1>6, <1>7, SavedByNeutral

\* A call that returns has written its choice, or taken it back.
LEMMA SavedEnd ==
    ASSUME Saving, Types, Mutex, Ordered, Saved, UNCHANGED setting, NEW p \in Procs, End(p)
    PROVE  Saved'
<1>1. pc \in [Procs -> Labels] /\ call \in [Procs -> Call]
  BY DEF Types, Places, Calls
<1>2. \A q \in Procs \ {p} : pc'[q] = pc[q] /\ call'[q] = call[q]
  BY OthersStep
<1>3. /\ pc[p] \in {"done", "failed", "rebuild", "refresh", "rearm"} /\ p \in setting.procs
      /\ UNCHANGED phase
  BY DEF End, EndApply, EndChoice, UndoChoice, EndFallback, EndSilent, UndoSilent, EndDemote,
         Rebuild, Snapshot, Rearm, RearmStale, Ordered, Order, life, Inside
<1>4. Ends(p) => ~Choosing(p)' /\ call'[p].op = "none"
  BY EndsCall DEF Choosing, Selecting, Inside
<1>5. CASE EndApply(p) \/ EndSilent(p) \/ UndoSilent(p) \/ EndDemote(p) \/ Rebuild(p) \/ Snapshot(p)
           \/ Rearm(p) \/ RearmStale(p)
  <2>1. ~Choosing(p) /\ call[p].op # "fallback" /\ UNCHANGED intent
    BY <1>5 DEF EndApply, EndSilent, UndoSilent, EndDemote, Rebuild, Snapshot, Rearm, RearmStale,
                Choosing, Selecting, Inside, Ordered, Order
  <2>2. /\ ~Choosing(p)' /\ call'[p].op # "fallback"
        /\ call'[p].op = "clear" => "clear" \in setting.ops
    <3>1. CASE Ends(p)
      BY <1>4, <3>1
    <3>2. CASE ~Ends(p)
      <4>1. pc'[p] \in {"demote", "rebuild", "refresh", "rearm"}
        BY <1>1, <1>5, <3>2 DEF EndApply, EndSilent, UndoSilent, EndDemote, Rebuild, Snapshot, Rearm,
                                RearmStale, EndRecovery, Goto
      <4>2. call'[p].op \in {"roam", call[p].op}
        <5>1. ASSUME NEW nm, NEW exit, NEW flag,
                     call' = [call EXCEPT ![p].nm = nm, ![p].exit = exit, ![p].flag = flag]
              PROVE  call'[p].op = call[p].op
          BY <1>1, <5>1 DEF Call
        <5>2. CASE call' = [call EXCEPT ![p].tries = @ + 1]
          BY <1>1, <5>2 DEF Call
        <5>3. CASE EndSilent(p)
          BY <1>1, <3>2, <5>3 DEF EndSilent, NoCall
        <5>4. CASE EndApply(p) \/ UndoSilent(p) \/ EndDemote(p) \/ Rebuild(p) \/ Rearm(p)
          BY <3>2, <5>4 DEF EndApply, UndoSilent, EndDemote, Rebuild, Rearm, EndRecovery
        <5>5. CASE Snapshot(p)
          BY <5>1, <5>5 DEF Snapshot
        <5>6. CASE RearmStale(p)
          BY <3>2, <5>2, <5>6 DEF RearmStale, EndRecovery
        <5>. QED
          BY <1>5, <5>3, <5>4, <5>5, <5>6
      <4>. QED
        BY <2>1, <4>1, <4>2 DEF Choosing, Selecting, Inside, Saved
    <3>. QED
      BY <3>1, <3>2
  <2>. QED
    BY <1>2, <1>3, <2>1, <2>2, SavedByNeutral
<1>6. CASE EndChoice(p) \/ UndoChoice(p)
  <2>1. /\ call[p].op \in {"set", "clear"} /\ Selecting(p) /\ applyMu = p
        /\ pc[p] = IF EndChoice(p) THEN "done" ELSE "failed"
        /\ Ends(p) /\ UNCHANGED <<fallback, savedFallback>>
    BY <1>6 DEF EndChoice, UndoChoice, Selecting, Mutex
  <2>2. \A q \in Procs \ {p} : ~Choosing(q)
    BY <1>3, <2>1, NobodyElseChooses
  <2>3. phase # "down" => savedExit' = preferred'
    BY <1>6, <2>1 DEF EndChoice, UndoChoice, Fails, Saving, Saved, Choosing
  <2>. QED
    BY <1>2, <1>3, <1>4, <2>1, <2>2, <2>3, SavedByOne DEF Choosing
<1>7. CASE EndFallback(p)
  <2>1. /\ call[p].op = "fallback" /\ "fallback" \in setting.ops
        /\ Ends(p) /\ UNCHANGED <<preferred, savedExit>>
    BY <1>7 DEF EndFallback, Ordered, Order
  <2>2. \A q \in Procs \ {p} : call[q].op # "fallback"
    BY <1>3, <2>1, NobodyElseFallsBack
  <2>3. phase # "down" => savedFallback' = fallback'
    BY <1>7 DEF EndFallback, Fails, Saving, Saved
  <2>4. ~Choosing(p) /\ ~Selecting(p) /\ ~Selecting(p)'
    BY <1>4, <2>1 DEF Choosing, Selecting, Ordered, Order, Inside
  <2>5. \A q \in Procs \ {p} : (Choosing(q)' <=> Choosing(q)) /\ (Selecting(q)' <=> Selecting(q))
    BY <1>2 DEF Choosing, Selecting
  <2>. QED
    BY <1>2, <1>3, <1>4, <2>1, <2>2, <2>3, <2>4, <2>5 DEF Saved
<1>. QED
  BY <1>5, <1>6, <1>7 DEF End

\* The files hold the choice, or a call that is about to settle it; a process that
\* starts reads them.
LEMMA SavedStep ==
    ASSUME Saving, Types, Mutex, NobodyDown, Ordered, Saved, [Next]_vars
    PROVE  Saved'
<1>1. UNCHANGED setting
  BY FixedStep
<1>2. ASSUME NEW p \in Procs, Begin(p) \/ Transact(p) \/ End(p) PROVE Saved'
  BY <1>1, <1>2, SavedBegin, SavedTransact, SavedEnd
<1>3. CASE Publish \/ Handshake \/ DeviceDies \/ Stop \/ TearDown \/ ClearGuard \/ ClearIntent
           \/ UNCHANGED vars
  <2>1. UNCHANGED <<intent, pc, call>> /\ (phase = "down" <=> phase' = "down")
    BY <1>3 DEF Publish, Handshake, DeviceDies, Stop, TearDown, ClearGuard, ClearIntent, vars, life,
       locals
  <2>. QED
    BY <1>1, <2>1 DEF Saved, Choosing, Selecting, intent
<1>4. CASE Exit \/ Kill
  BY <1>4 DEF Exit, Kill, Gone, NoCall, Saved
<1>5. CASE Start
  <2>1. savedExit' = preferred' /\ savedFallback' = fallback'
    BY <1>5 DEF Start
  <2>2. \A q \in Procs : call[q].op # "fallback" /\ pc[q] = "idle"
    BY <1>5 DEF Start, NobodyDown, Ordered, Order, Inside
  <2>3. CASE UNCHANGED <<pc, call>>
    BY <1>1, <2>1, <2>2, <2>3 DEF Saved, Choosing, Selecting, Inside
  <2>4. ASSUME NEW p \in setting.procs, Applies(p, "sync", savedMap, NoExit, FALSE), Goto(p, "wait")
        PROVE  Saved'
    <3>1. p \in Procs
      BY DEF Types, World, Setting
    <3>2. call'[p].op = "sync" /\ \A q \in Procs \ {p} : call'[q] = call[q]
      BY <2>4, <3>1, AppliesCall DEF Types, Calls, Applies
    <3>3. \A q \in Procs : pc'[q] \in {"idle", "wait"}
      BY <2>2, <2>4 DEF Types, Places, Goto
    <3>4. \A q \in Procs : ~Choosing(q)' /\ ~Selecting(q)' /\ call'[q].op # "fallback"
      BY <2>2, <3>2, <3>3 DEF Choosing, Selecting, Inside
    <3>. QED
      BY <1>1, <2>1, <3>2, <3>4 DEF Saved
  <2>. QED
    BY <1>5, <2>3, <2>4 DEF Start
<1>. QED
  BY <1>2, <1>3, <1>4, <1>5 DEF Next

-----------------------------------------------------------------------------
(* At rest: the firewall admits the device there is.  One call at a time ... *)

\* One call at a time, in a world whose firewall and recovery work.
Steady == Alone /\ setting.faults \cap {"guard", "recover"} = {}

\* What is loaded, could be restored or is intended admits the device there is;
\* a snapshot cannot become stale.
Admits(p) ==
    /\ pc[p] \notin {"refresh", "rearm"} => current \in {Off, iface}
    /\ pc[p] \in {"engine", "rollback"} => call[p].prior \in {Off, iface}
    /\ pc[p] \in {"engine", "rollback", "disarm"} => call[p].desired \in {Off, iface}
    /\ pc[p] = "rearm" => Current(p)
Admitted == phase # "down" => \A p \in setting.procs : Admits(p)

\* Only a goroutine of the setting moves.
LEMMA ActsInSetting ==
    ASSUME Ordered, NEW p \in Procs, Begin(p) \/ Transact(p) \/ End(p)
    PROVE  p \in setting.procs
<1>1. CASE Begin(p)
  BY <1>1 DEF Begin, Begins, Sync, Reapply, RelayDrop, SetExit, ClearExit, ClearPreferred,
     SetInternetFallback, Silent, Demote, Recover, Ordered, Order
<1>2. CASE Transact(p)
  BY <1>2 DEF Transact, Lock, Refuse, ReadExit, ArmFirst, Reconfigure, Rollback, Disarm, Commit,
     Ordered, Order
<1>3. CASE End(p)
  BY <1>3 DEF End, EndApply, EndChoice, UndoChoice, EndFallback, EndSilent, UndoSilent, EndDemote,
     Rebuild, Snapshot, Rearm, RearmStale, Ordered, Order, Inside
<1>. QED
  BY <1>1, <1>2, <1>3

LEMMA AdmitsTransact ==
    ASSUME Steady, Types, NEW p \in Procs, Admits(p), Transact(p)
    PROVE  Admits(p)'
<1>1. pc \in [Procs -> Labels] /\ call \in [Procs -> Call]
  BY DEF Types, Places, Calls
<1>2. /\ UNCHANGED iface /\ pc[p] \in Inside \cup {"wait"}
      /\ pc'[p] \in Inside \cup {"done", "failed"}
      /\ current \in {Off, iface}
  BY <1>1 DEF Transact, Lock, Refuse, ReadExit, ArmFirst, Reconfigure, Rollback, Disarm, Commit,
     Fail, Goto, Inside, device, Admits
<1>3. \A v \in 0 .. MaxVersion : Policy(v) \in {Off, iface}
  BY DEF Policy
<1>4. CASE Lock(p) \/ Refuse(p) \/ ReadExit(p) \/ Commit(p)
  BY <1>1, <1>2, <1>4 DEF Lock, Refuse, ReadExit, Commit, Fail, Goto, wall, Admits
<1>5. CASE ArmFirst(p)
  <2>1. CASE pc' = [pc EXCEPT ![p] = "failed"] /\ UNCHANGED wall
    BY <1>1, <1>2, <2>1 DEF wall, Admits
  <2>2. CASE /\ pc' = [pc EXCEPT ![p] = "engine"]
             /\ call' = [call EXCEPT ![p].prior = current, ![p].desired = Policy(call[p].nm)]
             /\ current' \in {current, Policy(call[p].nm)}
    <3>1. call'[p].prior = current /\ call'[p].desired = Policy(call[p].nm)
      BY <2>2, ArmCall DEF Types
    <3>2. Policy(call[p].nm) \in {Off, iface}
      BY DEF Policy
    <3>. QED
      BY <1>1, <1>2, <2>2, <3>1, <3>2 DEF Admits
  <2>. QED
    BY <1>5, <2>1, <2>2 DEF ArmFirst, Fail, Goto, Load, wall
<1>6. CASE Reconfigure(p)
  BY <1>1, <1>2, <1>6 DEF Reconfigure, Goto, wall, Admits
<1>7. CASE Rollback(p)
  BY <1>1, <1>2, <1>7 DEF Rollback, Fail, Goto, Load, wall, Admits
<1>8. CASE Disarm(p)
  BY <1>1, <1>2, <1>8 DEF Disarm, Fail, Fails, Steady, Goto, Load, wall, Admits
<1>. QED
  BY <1>4, <1>5, <1>6, <1>7, <1>8 DEF Transact

LEMMA AdmitsEnd ==
    ASSUME Steady, Types, Ordered, NEW p \in Procs, Admits(p), End(p)
    PROVE  Admits(p)'
<1>1. pc \in [Procs -> Labels] /\ call \in [Procs -> Call]
  BY DEF Types, Places, Calls
<1>2. Ends(p) => pc'[p] = "idle"
  BY EndsCall
<1>3. CASE EndApply(p) \/ EndChoice(p) \/ UndoChoice(p) \/ EndFallback(p) \/ EndSilent(p)
           \/ UndoSilent(p) \/ EndDemote(p)
  <2>1. UNCHANGED <<current, iface>> /\ pc[p] \notin {"refresh", "rearm"}
    BY <1>3 DEF EndApply, EndChoice, UndoChoice, EndFallback, EndSilent, UndoSilent, EndDemote,
       device, wall, Ordered, Order, Inside
  <2>2. pc'[p] \in {"idle", "demote", "rebuild"}
    BY <1>1, <1>2, <1>3 DEF EndApply, EndChoice, UndoChoice, EndFallback, EndSilent, UndoSilent,
       EndDemote, Goto
  <2>. QED
    BY <2>1, <2>2 DEF Admits
<1>4. CASE Rebuild(p)
  <2>1. pc'[p] = "refresh"
    BY <1>1, <1>4 DEF Rebuild, Fails, Steady, Goto
  <2>. QED
    BY <2>1 DEF Admits
<1>5. CASE Snapshot(p)
  <2>1. pc'[p] = "rearm" /\ UNCHANGED <<applied, preferred, fallback>>
    BY <1>1, <1>5 DEF Snapshot, Goto, intent, books
  <2>2. call'[p].nm = applied /\ call'[p].exit = preferred /\ call'[p].flag = fallback
    BY <1>1, <1>5 DEF Snapshot, Call
  <2>. QED
    BY <2>1, <2>2 DEF Admits, Current
<1>6. CASE Rearm(p)
  <2>1. current' = Policy(applied) /\ UNCHANGED iface /\ Ends(p)
    BY <1>6 DEF Rearm, Fails, Steady, EndRecovery, Load, wall, device
  <2>2. Policy(applied) \in {Off, iface}
    BY DEF Policy
  <2>. QED
    BY <1>2, <2>1, <2>2 DEF Admits
<1>7. ~RearmStale(p)
  BY DEF RearmStale, Admits
<1>. QED
  BY <1>3, <1>4, <1>5, <1>6, <1>7 DEF End

\* The firewall admits the device there is, or a recovery is about to see to it.
LEMMA AdmittedStep ==
    ASSUME Steady, Types, NobodyDown, Ordered, Admitted, [Next]_vars
    PROVE  Admitted'
<1>1. UNCHANGED setting /\ setting.procs \subseteq Procs
  BY FixedStep DEF Types, World, Setting
<1>2. ASSUME NEW p \in Procs, Begin(p) \/ Transact(p) \/ End(p) PROVE Admitted'
  <2>1. setting.procs = {p}
    BY <1>2, ActsInSetting DEF Steady, Alone
  <2>2. phase # "down" => Admits(p)
    BY <2>1 DEF Admitted
  <2>3. UNCHANGED phase
    BY <1>2, GoroutineStep
  <2>4. CASE Begin(p)
    <3>1. UNCHANGED <<current, iface>> /\ pc[p] \in {"idle", "clear", "demote"}
      BY <2>4 DEF Begin, Begins, Sync, Reapply, RelayDrop, SetExit, ClearExit, ClearPreferred,
         SetInternetFallback, Silent, Demote, Recover, wall, device
    <3>2. pc'[p] \in {"wait", "apply", "clear", "demote", "rebuild"}
      BY <2>4 DEF Begin, Sync, Reapply, RelayDrop, SetExit, ClearExit, ClearPreferred,
         SetInternetFallback, Silent, Demote, Recover, Goto, Types, Places
    <3>. QED
      BY <1>1, <2>1, <2>2, <2>3, <3>1, <3>2 DEF Admitted, Admits, Inside
  <2>. QED
    BY <1>1, <1>2, <2>1, <2>2, <2>3, <2>4, AdmitsTransact, AdmitsEnd DEF Admitted
<1>3. CASE Publish \/ Handshake \/ DeviceDies \/ Stop \/ TearDown \/ ClearIntent \/ UNCHANGED vars
  <2>1. /\ UNCHANGED <<pc, call, current, iface, applied, preferred, fallback>>
        /\ phase = "down" => phase' = "down"
    BY <1>3 DEF Publish, Handshake, DeviceDies, Stop, TearDown, ClearIntent, vars, intent, books,
       device, wall, life, locals
  <2>. QED
    BY <1>1, <2>1 DEF Admitted, Admits, Current
<1>4. CASE ClearGuard
  <2>1. /\ UNCHANGED <<pc, call, iface, applied, preferred, fallback>>
        /\ phase # "down" /\ current' = Off
    BY <1>4 DEF ClearGuard, Load, Fails, Steady, intent, books, device, locals
  <2>. QED
    BY <1>1, <2>1 DEF Admitted, Admits, Current
<1>5. CASE Exit \/ Kill
  BY <1>5 DEF Exit, Kill, Gone, Admitted
<1>6. CASE Start
  <2>1. current' = Off /\ \A q \in Procs : pc'[q] \in {"idle", "wait"}
    <3>1. \A q \in Procs : pc[q] = "idle"
      BY <1>6 DEF Start, NobodyDown
    <3>. QED
      BY <1>6, <3>1 DEF Start, Goto, Types, Places
  <2>. QED
    BY <1>1, <2>1 DEF Admitted, Admits
<1>. QED
  BY <1>2, <1>3, <1>4, <1>5, <1>6 DEF Next

-----------------------------------------------------------------------------
(* ... or several, none of which is taken back.                             *)

\* Nothing fails that a choice would be taken back for.
Smooth ==
    /\ setting.ops \cap {"fallback", "health"} = {}
    /\ setting.faults \cap {"guard", "recover", "engine", "routes"} = {}

\* The firewall admits a device that is gone; so does a policy p is about to load
\* or has loaded.
Behind == current \notin {Off, iface}
Carries(p) == pc[p] \in {"engine", "disarm", "commit"} /\ call[p].desired \notin {Off, iface}

\* p is about to load the policy of the device there is.
Settling(p) ==
    \/ call[p].op \in {"set", "clear"} /\ pc[p] \in {"apply", "guard"}
    \/ pc[p] \in {"engine", "disarm"} /\ call[p].desired \in {Off, iface}

\* A recovery has tries left: a second one, only if nothing but a new transaction
\* can make its snapshot stale.
Follows(r) ==
    /\ pc[r] \in {"refresh", "rearm"}
    /\ \/ call[r].tries = 0
       \/ /\ call[r].tries = 1
          /\ \A p \in Procs : ~Carries(p)
          /\ pc[r] = "rearm" => Current(r) \/ \E p \in Procs : Settling(p)

\* Recoveries run on a netmap, choices on one are not taken back, and each recovery
\* begins with all its tries.
Tried(p) ==
    /\ pc[p] \in {"demote", "rebuild", "refresh", "rearm"} => applied > 0
    /\ pc[p] # "idle" /\ call[p].op \in {"roam", "silent"} => applied > 0
    /\ pc[p] = "failed" /\ call[p].op \in {"set", "clear"} => applied = 0
    /\ pc[p] \notin {"refresh", "rearm"} => call[p].tries = 0

Followed ==
    /\ phase = "running" =>
         /\ up
         /\ \A p \in Procs : Tried(p) /\ pc[p] # "rollback" /\ call[p].op # "health"
         /\ Behind \/ (\E p \in Procs : Carries(p)) => \E r \in Procs : Follows(r)
    /\ phase = "down" => \A p \in Procs : call[p] = NoCall

\* A recovery keeps its tries while somebody else moves without making its snapshot
\* stale or loading an old policy.
LEMMA FollowsKept ==
    ASSUME NEW p \in Procs, \A q \in Procs \ {p} : pc'[q] = pc[q] /\ call'[q] = call[q],
           UNCHANGED <<iface, applied, preferred, fallback>>,
           Carries(p)' => Carries(p), Settling(p) => Settling(p)',
           NEW r \in Procs \ {p}, Follows(r)
    PROVE  Follows(r)'
<1>1. \A q \in Procs : (Carries(q)' => Carries(q)) /\ (Settling(q) => Settling(q)')
  BY DEF Carries, Settling
<1>. QED
  BY <1>1 DEF Follows, Current

\* What p's step leaves of the rest.
LEMMA FollowedByOne ==
    ASSUME Followed, phase = "running", UNCHANGED phase, up', NEW p \in Procs,
           \A q \in Procs \ {p} : pc'[q] = pc[q] /\ call'[q] = call[q], UNCHANGED applied,
           Tried(p)', pc'[p] # "rollback", call'[p].op # "health",
           Behind' \/ (\E q \in Procs : Carries(q)') => \E r \in Procs : Follows(r)'
    PROVE  Followed'
BY DEF Followed, Tried

LEMMA FollowedByNeutral ==
    ASSUME Followed, phase = "running", NEW p \in Procs,
           \A q \in Procs \ {p} : pc'[q] = pc[q] /\ call'[q] = call[q],
           UNCHANGED <<phase, up, current, iface, applied, preferred, fallback>>,
           pc[p] \notin {"refresh", "rearm"}, Carries(p)' => Carries(p), Settling(p) => Settling(p)',
           Tried(p)', pc'[p] # "rollback", call'[p].op # "health"
    PROVE  Followed'
<1>1. ASSUME Behind' \/ \E q \in Procs : Carries(q)' PROVE \E r \in Procs : Follows(r)'
  <2>1. Behind \/ \E q \in Procs : Carries(q)
    BY <1>1 DEF Behind, Carries
  <2>2. PICK r \in Procs : Follows(r)
    BY <2>1 DEF Followed
  <2>3. r # p
    BY <2>2 DEF Follows
  <2>. QED
    BY <2>2, <2>3, FollowsKept
<1>. QED
  BY <1>1, FollowedByOne DEF Followed

\* Without a netmap there is no recovery, and nothing is behind.
LEMMA NothingBehind ==
    ASSUME Followed, phase = "running", applied = 0
    PROVE  ~Behind /\ \A p \in Procs : ~Carries(p)
BY DEF Followed, Follows, Tried

LEMMA FollowedBegin ==
    ASSUME Smooth, Types, Mutex, Ordered, Followed, phase = "running", NEW p \in Procs, Begin(p)
    PROVE  Followed'
<1>1. pc \in [Procs -> Labels] /\ call \in [Procs -> Call] /\ Calls
  BY DEF Types, Places, Calls
<1>2. \A q \in Procs \ {p} : pc'[q] = pc[q] /\ call'[q] = call[q]
  BY OthersStep
<1>3. /\ pc[p] \in {"idle", "clear", "demote"}
      /\ UNCHANGED <<phase, up, current, iface, applied>>
  BY DEF Begin, Begins, Sync, Reapply, RelayDrop, SetExit, ClearExit, ClearPreferred,
         SetInternetFallback, Silent, Demote, Recover, Ordered, Order, books, device, wall, life
<1>4. ~Carries(p) /\ ~Settling(p) /\ Tried(p) /\ up
  BY <1>3 DEF Carries, Settling, Followed
<1>5. \A op, nm, exit, flag : Applies(p, op, nm, exit, flag) => call'[p].op = op /\ call'[p].tries = 0
  BY <1>1 DEF Applies, NoCall
<1>6. CASE Sync(p) \/ Reapply(p) \/ RelayDrop(p) \/ ClearExit(p) \/ Silent(p)
  <2>1. /\ call'[p].op \in {"sync", "reapply", "drop", "clear", "silent"} /\ call'[p].tries = 0
    BY <1>5, <1>6 DEF Sync, Reapply, RelayDrop, ClearExit, Silent
  <2>2. call'[p].op = "silent" => applied > 0
    <3>1. CASE Silent(p)
      BY <3>1 DEF Silent
    <3>2. CASE ~Silent(p)
      <4>1. call'[p].op \in {"sync", "reapply", "drop", "clear"}
        BY <1>5, <1>6, <3>2 DEF Sync, Reapply, RelayDrop, ClearExit
      <4>. QED
        BY <4>1
    <3>. QED
      BY <3>1, <3>2
  <2>3. pc'[p] \in {"wait", "clear"} /\ UNCHANGED <<preferred, fallback>>
    BY <1>1, <1>6 DEF Sync, Reapply, RelayDrop, ClearExit, Silent, Goto, intent
  <2>4. Tried(p)' /\ ~Carries(p)'
    BY <1>3, <2>1, <2>2, <2>3 DEF Tried, Carries
  <2>. QED
    BY <1>2, <1>3, <1>4, <2>1, <2>3, <2>4, FollowedByNeutral
<1>7. CASE Demote(p)
  <2>1. /\ call'[p].op = call[p].op /\ call'[p].tries = 0 /\ pc[p] = "demote"
        /\ pc'[p] \in {"wait", "rebuild"} /\ UNCHANGED <<preferred, fallback>>
    BY <1>1, <1>4, <1>5, <1>7 DEF Demote, Goto, intent, Tried
  <2>2. Tried(p)' /\ ~Carries(p)' /\ call'[p].op # "health"
    BY <1>3, <1>4, <2>1 DEF Tried, Carries, Followed
  <2>. QED
    BY <1>2, <1>3, <1>4, <2>1, <2>2, FollowedByNeutral
<1>8. ASSUME NEW op \in {"roam", "health"}, Recover(p, op) PROVE Followed'
  <2>1. op = "roam"
    BY <1>8 DEF Recover, Begins, Smooth
  <2>2. /\ call'[p].op = "roam" /\ call'[p].tries = 0 /\ pc'[p] = "demote" /\ applied > 0
        /\ UNCHANGED <<preferred, fallback>>
    BY <1>1, <1>8, <2>1 DEF Recover, NoCall, Goto, intent
  <2>3. Tried(p)' /\ ~Carries(p)'
    BY <1>3, <2>2 DEF Tried, Carries
  <2>. QED
    BY <1>2, <1>3, <1>4, <2>2, <2>3, FollowedByNeutral
<1>9. CASE SetExit(p) \/ ClearPreferred(p)
  <2>1. /\ call'[p].op \in {"set", "clear"} /\ call'[p].tries = 0 /\ pc'[p] = "apply"
        /\ applyMu = NoProc
    BY <1>1, <1>5, <1>9 DEF SetExit, ClearPreferred, Goto
  <2>2. Tried(p)' /\ Settling(p)'
    BY <2>1 DEF Tried, Settling
  <2>3. \A q \in Procs : ~Carries(q)'
    BY <1>2, <2>1, NamesAssumption DEF Mutex, Inside, Carries
  <2>4. ASSUME Behind' PROVE \E r \in Procs : Follows(r)'
    <3>1. PICK r \in Procs : Follows(r)
      BY <1>3, <2>4 DEF Followed, Behind
    <3>2. r # p
      BY <1>3, <3>1 DEF Follows
    <3>. QED
      BY <1>2, <2>2, <2>3, <3>1, <3>2 DEF Follows
  <2>. QED
    BY <1>2, <1>3, <1>4, <2>1, <2>2, <2>3, <2>4, FollowedByOne
<1>10. ~SetInternetFallback(p)
  BY DEF SetInternetFallback, Begins, Smooth
<1>. QED
  BY <1>6, <1>7, <1>8, <1>9, <1>10 DEF Begin

LEMMA FollowedTransact ==
    ASSUME Smooth, Types, Mutex, Ordered, Versioned, Backed, Followed, phase = "running",
           NEW p \in Procs, Transact(p)
    PROVE  Followed'
<1>1. pc \in [Procs -> Labels] /\ call \in [Procs -> Call] /\ Calls
  BY DEF Types, Places, Calls
<1>2. \A q \in Procs \ {p} : pc'[q] = pc[q] /\ call'[q] = call[q]
  BY OthersStep
<1>3. call'[p].op = call[p].op /\ call'[p].tries = call[p].tries
  BY <1>1, TransactCall
<1>4. /\ UNCHANGED <<phase, up, iface, preferred, fallback>>
      /\ pc[p] \in Inside \cup {"wait"} /\ pc'[p] \in Inside \cup {"done", "failed"}
  BY <1>1 DEF Transact, Lock, Refuse, ReadExit, ArmFirst, Reconfigure, Rollback, Disarm, Commit,
     Fail, Goto, Inside, intent, device, life
<1>5. Tried(p) /\ up /\ call[p].op # "health" /\ call[p].tries = 0
  BY <1>4 DEF Followed, Tried, Inside
<1>6. /\ (pc'[p] = "failed" /\ call[p].op \in {"set", "clear"} => applied' = 0)
      /\ (call[p].op \in {"roam", "silent"} => applied' > 0)
      => Tried(p)'
  BY <1>3, <1>4, <1>5 DEF Tried, Inside
<1>7. pc[p] \in Inside => \A q \in Procs \ {p} : ~Carries(q) /\ ~Carries(q)'
  BY <1>2 DEF Mutex, Carries, Inside
<1>8. \A q \in Procs : Follows(q) => q # p
  BY <1>4 DEF Follows, Inside
<1>9. CASE Lock(p) \/ ReadExit(p)
  <2>1. /\ UNCHANGED <<applied, current>> /\ pc[p] \in {"wait", "apply"}
        /\ pc'[p] = IF pc[p] = "wait" THEN "apply" ELSE "guard"
    BY <1>1, <1>9 DEF Lock, ReadExit, Goto, books, wall
  <2>2. Tried(p)' /\ ~Carries(p)'
    BY <1>4, <1>5, <1>6, <2>1 DEF Carries, Tried
  <2>3. Settling(p) => Settling(p)'
    BY <1>3, <2>1 DEF Settling, Ordered, Order
  <2>. QED
    BY <1>2, <1>3, <1>4, <1>5, <2>1, <2>2, <2>3, FollowedByNeutral DEF Inside
<1>10. CASE Refuse(p)
  <2>1. UNCHANGED <<applied, current>> /\ pc[p] = "apply" /\ pc'[p] = "failed"
    BY <1>1, <1>10 DEF Refuse, Fail, Goto, books, wall
  <2>2. call[p].op \in {"set", "clear"} => applied = 0
    <3>1. call[p].op \in {"set", "clear"} => call[p].nm = applied
      BY <2>1 DEF Versioned, Version, Selecting, Inside
    <3>2. applied \in Nat
      BY DEF Types, Books
    <3>. QED
      BY <1>10, <3>1, <3>2 DEF Refuse
  <2>3. Tried(p)' /\ ~Carries(p)'
    BY <1>5, <1>6, <2>1, <2>2 DEF Carries, Tried
  <2>4. CASE call[p].op \in {"set", "clear"}
    <3>1. ~Behind' /\ \A q \in Procs : ~Carries(q)'
      BY <1>2, <1>4, <2>1, <2>2, <2>3, <2>4, NothingBehind DEF Behind, Carries
    <3>. QED
      BY <1>2, <1>3, <1>4, <1>5, <2>1, <2>3, <3>1, FollowedByOne
  <2>5. CASE call[p].op \notin {"set", "clear"}
    <3>1. ~Settling(p)
      BY <2>1, <2>5 DEF Settling
    <3>. QED
      BY <1>2, <1>3, <1>4, <1>5, <2>1, <2>3, <3>1, FollowedByNeutral
  <2>. QED
    BY <2>4, <2>5
<1>11. CASE ArmFirst(p)
  <2>1. /\ UNCHANGED applied /\ pc[p] = "guard" /\ pc'[p] = "engine"
        /\ call' = [call EXCEPT ![p].prior = current, ![p].desired = Policy(call[p].nm)]
        /\ current' \in {current, Policy(call[p].nm)}
    BY <1>1, <1>11 DEF ArmFirst, Fails, Smooth, Goto, Load, books, wall
  <2>2. call'[p].desired = Policy(call[p].nm) /\ Policy(call[p].nm) \in {Off, iface}
    BY <1>1, <2>1, ArmCall DEF Policy
  <2>3. Tried(p)' /\ ~Carries(p)' /\ Settling(p)'
    BY <1>4, <1>5, <1>6, <2>1, <2>2 DEF Carries, Settling, Tried
  <2>4. ASSUME Behind' \/ \E q \in Procs : Carries(q)' PROVE \E r \in Procs : Follows(r)'
    <3>1. Behind \/ \E q \in Procs : Carries(q)
      BY <1>2, <1>4, <2>1, <2>2, <2>3, <2>4 DEF Behind, Carries
    <3>2. PICK r \in Procs : Follows(r)
      BY <3>1 DEF Followed
    <3>. QED
      BY <1>2, <1>4, <1>8, <2>1, <2>3, <3>2, FollowsKept
  <2>. QED
    BY <1>2, <1>3, <1>4, <1>5, <2>1, <2>3, <2>4, FollowedByOne
<1>12. CASE Reconfigure(p)
  <2>1. /\ UNCHANGED <<applied, current, call>> /\ pc[p] = "engine" /\ pc'[p] \in {"commit", "disarm"}
        /\ pc'[p] = "commit" => current = call[p].desired
    BY <1>1, <1>5, <1>12 DEF Reconfigure, Fails, Smooth, Goto, books, wall
  <2>2. Tried(p)' /\ (Carries(p)' => Carries(p))
    BY <1>4, <1>5, <1>6, <2>1 DEF Carries, Tried
  <2>3. CASE Settling(p) => Settling(p)'
    BY <1>2, <1>3, <1>4, <1>5, <2>1, <2>2, <2>3, FollowedByNeutral
  <2>4. CASE Settling(p) /\ ~Settling(p)'
    <3>1. call[p].desired \in {Off, iface} /\ pc'[p] = "commit"
      BY <1>4, <2>1, <2>4 DEF Settling
    <3>2. ~Behind' /\ \A q \in Procs : ~Carries(q)'
      BY <1>4, <1>7, <2>1, <3>1 DEF Behind, Carries, Inside
    <3>. QED
      BY <1>2, <1>3, <1>4, <1>5, <2>1, <2>2, <3>2, FollowedByOne
  <2>. QED
    BY <2>3, <2>4
<1>13. ~Rollback(p)
  BY DEF Rollback, Followed
<1>14. CASE Disarm(p)
  <2>1. /\ UNCHANGED <<applied, call>> /\ pc[p] = "disarm" /\ pc'[p] = "commit"
        /\ current' = call[p].desired
    BY <1>1, <1>14 DEF Disarm, Fails, Smooth, Goto, Load, books
  <2>2. Tried(p)' /\ (Carries(p)' <=> Carries(p))
    BY <1>4, <1>5, <1>6, <2>1 DEF Carries, Tried
  <2>3. Behind' <=> Carries(p)
    BY <1>4, <2>1 DEF Behind, Carries
  <2>4. ASSUME Carries(p) PROVE \E r \in Procs : Follows(r)'
    <3>1. PICK r \in Procs : Follows(r)
      BY <2>4 DEF Followed
    <3>. QED
      BY <1>2, <1>8, <2>4, <3>1 DEF Follows
  <2>. QED
    BY <1>2, <1>3, <1>4, <1>5, <1>7, <2>1, <2>2, <2>3, <2>4, FollowedByOne DEF Inside
<1>15. CASE Commit(p)
  <2>1. /\ UNCHANGED <<current, call>> /\ pc[p] = "commit" /\ pc'[p] = "done"
        /\ applied' = call[p].nm /\ current = call[p].desired
    BY <1>1, <1>15 DEF Commit, Goto, wall, Backed
  <2>2. applied' >= applied /\ applied \in Nat /\ applied' \in Nat
    BY <1>1, <2>1 DEF Versioned, Version, Inside, Types, Books, Call
  <2>3. \A q \in Procs : Tried(q)'
    <3>1. Tried(p)'
      BY <1>4, <1>5, <1>6, <2>1, <2>2 DEF Tried
    <3>2. ASSUME NEW q \in Procs \ {p} PROVE Tried(q)'
      <4>1. ~(pc[q] = "failed" /\ call[q].op \in {"set", "clear"})
        BY <2>1 DEF Mutex, Inside
      <4>. QED
        BY <1>2, <2>2, <4>1 DEF Followed, Tried
    <3>. QED
      BY <3>1, <3>2
  <2>4. (Behind' <=> Carries(p)) /\ \A q \in Procs : ~Carries(q)'
    BY <1>4, <1>7, <2>1 DEF Behind, Carries, Inside
  <2>5. ASSUME Carries(p) PROVE \E r \in Procs : Follows(r)'
    <3>1. PICK r \in Procs : Follows(r)
      BY <2>5 DEF Followed
    <3>. QED
      BY <1>2, <1>8, <2>5, <3>1 DEF Follows
  <2>. QED
    BY <1>2, <1>3, <1>4, <1>5, <2>1, <2>3, <2>4, <2>5 DEF Followed
<1>. QED
  BY <1>9, <1>10, <1>11, <1>12, <1>13, <1>14, <1>15 DEF Transact

LEMMA FollowedEnd ==
    ASSUME Smooth, Types, Mutex, Ordered, Followed, phase = "running", NEW p \in Procs, End(p)
    PROVE  Followed'
<1>1. pc \in [Procs -> Labels] /\ call \in [Procs -> Call]
  BY DEF Types, Places, Calls
<1>2. \A q \in Procs \ {p} : pc'[q] = pc[q] /\ call'[q] = call[q]
  BY OthersStep
<1>3. /\ UNCHANGED <<phase, applied>> /\ pc[p] \in {"done", "failed", "rebuild", "refresh", "rearm"}
      /\ call[p].op # "fallback"
  BY DEF End, EndApply, EndChoice, UndoChoice, EndFallback, EndSilent, UndoSilent, EndDemote,
         Rebuild, Snapshot, Rearm, RearmStale, books, life, Smooth, Ordered, Order, Inside
<1>4. Tried(p) /\ up /\ call[p].op # "health" /\ ~Carries(p) /\ ~Settling(p)
  BY <1>3 DEF Followed, Carries, Settling
<1>5. Ends(p) => /\ Tried(p)' /\ pc'[p] = "idle" /\ call'[p].op = "none"
                 /\ ~Carries(p)' /\ ~Settling(p)'
  BY <1>1 DEF Ends, Goto, NoCall, Tried, Carries, Settling
<1>6. CASE EndApply(p) \/ EndChoice(p) \/ EndSilent(p) \/ UndoSilent(p) \/ EndDemote(p)
  <2>1. /\ UNCHANGED <<current, iface, up, preferred, fallback>> /\ pc[p] \in {"done", "failed"}
    BY <1>6 DEF EndApply, EndChoice, EndSilent, UndoSilent, EndDemote, intent, device, wall
  <2>2. /\ Tried(p)' /\ ~Carries(p)' /\ pc'[p] # "rollback" /\ call'[p].op # "health"
    <3>1. CASE Ends(p)
      BY <1>5, <3>1
    <3>2. CASE EndSilent(p) /\ ~Ends(p)
      <4>1. call'[p].op = "roam" /\ call'[p].tries = 0 /\ pc'[p] = "demote"
        BY <1>1, <3>2 DEF EndSilent, Goto, NoCall
      <4>2. applied > 0
        BY <1>4, <3>2 DEF EndSilent, Tried
      <4>. QED
        BY <1>3, <4>1, <4>2 DEF Tried, Carries
    <3>3. CASE EndDemote(p)
      <4>1. UNCHANGED call /\ pc'[p] = "rebuild" /\ call[p].op = "roam"
        BY <1>1, <1>4, <3>3 DEF EndDemote, Goto
      <4>. QED
        BY <1>3, <1>4, <2>1, <4>1 DEF Tried, Carries
    <3>. QED
      BY <1>6, <3>1, <3>2, <3>3 DEF EndApply, EndChoice, UndoSilent
  <2>. QED
    BY <1>2, <1>3, <1>4, <2>1, <2>2, FollowedByNeutral
<1>7. CASE UndoChoice(p)
  <2>1. UNCHANGED <<current, iface, up>> /\ applied = 0 /\ Ends(p)
    BY <1>4, <1>7 DEF UndoChoice, device, wall, Tried
  <2>2. ~Behind' /\ \A q \in Procs : ~Carries(q)'
    BY <1>2, <1>5, <2>1, NothingBehind DEF Behind, Carries
  <2>. QED
    BY <1>2, <1>3, <1>4, <1>5, <2>1, <2>2, FollowedByOne
<1>8. ~EndFallback(p)
  BY <1>3 DEF EndFallback
<1>9. CASE Rebuild(p)
  <2>1. UNCHANGED call /\ pc[p] = "rebuild" /\ pc'[p] = "refresh" /\ up'
    BY <1>1, <1>4, <1>9 DEF Rebuild, Fails, Smooth, Goto
  <2>2. Tried(p)' /\ Follows(p)'
    BY <1>3, <1>4, <2>1 DEF Tried, Follows
  <2>. QED
    BY <1>2, <1>3, <1>4, <2>1, <2>2, FollowedByOne
<1>10. CASE Snapshot(p)
  <2>1. /\ UNCHANGED <<current, iface, up, preferred, fallback>> /\ pc[p] = "refresh"
        /\ pc'[p] = "rearm"
    BY <1>1, <1>10 DEF Snapshot, Goto, intent, device, wall
  <2>2. /\ call'[p].op = call[p].op /\ call'[p].tries = call[p].tries
        /\ call'[p].nm = applied /\ call'[p].exit = preferred /\ call'[p].flag = fallback
    BY <1>1, <1>10 DEF Snapshot, Call
  <2>3. Tried(p)' /\ ~Carries(p)'
    BY <1>3, <1>4, <2>1, <2>2 DEF Tried, Carries
  <2>4. ASSUME Behind' \/ \E q \in Procs : Carries(q)' PROVE \E r \in Procs : Follows(r)'
    <3>1. \A q \in Procs : Carries(q)' <=> Carries(q)
      BY <1>2, <1>4, <2>1, <2>3 DEF Carries
    <3>2. PICK r \in Procs : Follows(r)
      BY <2>1, <2>4, <3>1 DEF Followed, Behind
    <3>3. CASE r = p
      BY <1>3, <2>1, <2>2, <3>1, <3>2, <3>3 DEF Follows, Current
    <3>4. CASE r # p
      BY <1>2, <1>3, <1>4, <2>1, <2>3, <3>2, <3>4, FollowsKept
    <3>. QED
      BY <3>3, <3>4
  <2>. QED
    BY <1>2, <1>3, <1>4, <2>1, <2>2, <2>3, <2>4, FollowedByOne
<1>11. ASSUME applyMu = NoProc
       PROVE  \A q \in Procs : ~Carries(q) /\ ~Settling(q) /\ (q # p => ~Carries(q)')
  BY <1>2, <1>11, NamesAssumption DEF Mutex, Inside, Carries, Settling
<1>12. CASE Rearm(p)
  <2>1. /\ current' = Policy(applied) /\ UNCHANGED <<iface, up>> /\ Ends(p)
        /\ applyMu = NoProc
    BY <1>12 DEF Rearm, Fails, Smooth, EndRecovery, Load, wall, device
  <2>2. ~Behind'
    BY <2>1 DEF Policy, Behind
  <2>. QED
    BY <1>2, <1>3, <1>4, <1>5, <1>11, <2>1, <2>2, FollowedByOne
<1>13. CASE RearmStale(p)
  <2>1. /\ applyMu = NoProc /\ ~Current(p) /\ pc[p] = "rearm"
        /\ UNCHANGED <<current, iface, up, preferred, fallback>>
    BY <1>13 DEF RearmStale, intent, device, wall
  <2>2. Ends(p) \/ (/\ pc'[p] = "refresh" /\ call'[p].op = call[p].op
                   /\ call'[p].tries = call[p].tries + 1)
    BY <1>1, <1>13 DEF RearmStale, EndRecovery, Goto, Call
  <2>3. call[p].tries < 2 => ~Ends(p)
    <3>1. call[p].tries < 2 => pc'[p] = "refresh"
      BY <1>1, <1>13 DEF RearmStale, Goto
    <3>. QED
      BY <1>5, <3>1
  <2>4. Tried(p)' /\ ~Carries(p)' /\ pc'[p] # "rollback" /\ call'[p].op # "health"
    BY <1>3, <1>4, <1>5, <2>1, <2>2 DEF Tried, Carries
  <2>5. \A q \in Procs : ~Carries(q)'
    BY <1>11, <2>1, <2>4
  <2>6. ASSUME Behind' PROVE \E r \in Procs : Follows(r)'
    <3>1. PICK r \in Procs : Follows(r)
      BY <2>1, <2>6 DEF Followed, Behind
    <3>2. CASE r = p
      <4>1. call[p].tries = 0
        BY <1>11, <2>1, <3>1, <3>2 DEF Follows
      <4>2. pc'[p] = "refresh" /\ call'[p].tries = 1
        BY <2>2, <2>3, <4>1
      <4>. QED
        BY <2>5, <4>2 DEF Follows
    <3>3. CASE r # p
      BY <1>2, <1>3, <1>4, <2>1, <2>4, <3>1, <3>3, FollowsKept
    <3>. QED
      BY <3>2, <3>3
  <2>. QED
    BY <1>2, <1>3, <1>4, <2>1, <2>4, <2>5, <2>6, FollowedByOne
<1>. QED
  BY <1>6, <1>7, <1>8, <1>9, <1>10, <1>12, <1>13 DEF End

\* A policy of a device that is gone is in force only while a recovery that will
\* replace it has tries left.
LEMMA FollowedStep ==
    ASSUME Smooth, Types, Mutex, NobodyDown, Ordered, Versioned, Backed, Followed, [Next]_vars
    PROVE  Followed'
<1>1. ASSUME NEW p \in Procs, Begin(p) \/ Transact(p) \/ End(p) PROVE Followed'
  <2>1. UNCHANGED phase /\ phase # "down"
    BY <1>1, GoroutineStep DEF NobodyDown
  <2>2. CASE phase = "running"
    BY <1>1, <2>2, FollowedBegin, FollowedTransact, FollowedEnd
  <2>. QED
    BY <2>1, <2>2 DEF Followed
<1>2. CASE Publish \/ Handshake \/ UNCHANGED vars
  <2>1. UNCHANGED <<pc, call, current, iface, applied, preferred, fallback, phase, up>>
    BY <1>2 DEF Publish, Handshake, vars, intent, books, device, wall, life, locals
  <2>. QED
    BY <2>1 DEF Followed, Follows, Tried, Behind, Carries, Settling, Current
<1>3. ~DeviceDies
  BY DEF DeviceDies, Smooth
<1>4. CASE Stop \/ TearDown \/ ClearGuard \/ ClearIntent
  BY <1>4 DEF Stop, TearDown, ClearGuard, ClearIntent, Followed
<1>5. CASE Exit \/ Kill
  BY <1>5 DEF Exit, Kill, Gone, Followed
<1>6. CASE Start
  <2>1. current' = Off /\ up' /\ phase' = "running"
    BY <1>6 DEF Start
  <2>2. \A q \in Procs : pc'[q] \in {"idle", "wait"}
    <3>1. \A q \in Procs : pc[q] = "idle"
      BY <1>6 DEF Start, NobodyDown
    <3>. QED
      BY <1>6, <3>1 DEF Start, Goto, Types, Places
  <2>3. \A q \in Procs : call'[q].op \in {"none", "sync"} /\ call'[q].tries = 0
    <3>1. \A q \in Procs : call[q] = NoCall
      BY <1>6 DEF Start, Followed
    <3>2. CASE UNCHANGED call
      BY <3>1, <3>2 DEF NoCall
    <3>3. ASSUME NEW p \in setting.procs, Applies(p, "sync", savedMap, NoExit, FALSE)
          PROVE  \A q \in Procs : call'[q].op \in {"none", "sync"} /\ call'[q].tries = 0
      BY <3>1, <3>3 DEF Applies, NoCall, Types, Calls
    <3>. QED
      BY <1>6, <3>2, <3>3 DEF Start
  <2>. QED
    BY <2>1, <2>2, <2>3 DEF Followed, Tried, Behind, Carries
<1>. QED
  BY <1>1, <1>2, <1>3, <1>4, <1>5, <1>6 DEF Next

-----------------------------------------------------------------------------
(* Together.                                                                *)

\* Each part in the settings it is about.
RestInv ==
    /\ GuardInv
    /\ Late \/ Shutdown
    /\ Orderly => Emptied /\ (Careful => Opened)
    /\ Unfailing => Matched
    /\ Saving => Saved
    /\ Steady => Admitted
    /\ Smooth => Followed

LEMMA RestInit == Init => RestInv
<1>. SUFFICES ASSUME Init PROVE RestInv
  OBVIOUS
<1>1. /\ \A p \in Procs : pc[p] = "idle" /\ call[p].op = "none" /\ call[p].nm = 0
      /\ applied = 0 /\ phase = "running" /\ cleanup = TRUE /\ current = Off /\ guard = Off
  BY DEF Init, NoCall
<1>2. GuardInv
  BY GuardInit
<1>3. Shutdown /\ Emptied
  BY <1>1 DEF Shutdown, Emptied
<1>4. Opened
  BY <1>1 DEF Opened, Open, Wish, Armed, Offered, Inside
<1>5. Matched
  BY <1>1 DEF Init, Matched
<1>6. Saved
  BY <1>1 DEF Init, Saved, Choosing, Selecting, Inside
<1>7. Admitted
  <2>1. setting.procs \subseteq Procs
    BY <1>2 DEF GuardInv, Types, World, Setting
  <2>. QED
    BY <1>1, <2>1 DEF Admitted, Admits
<1>8. Followed
  BY <1>1 DEF Init, NoCall, Followed, Tried, Behind, Carries
<1>. QED
  BY <1>2, <1>3, <1>4, <1>5, <1>6, <1>7, <1>8 DEF RestInv

LEMMA RestStep == RestInv /\ [Next]_vars => RestInv'
<1>. SUFFICES ASSUME RestInv, [Next]_vars PROVE RestInv'
  OBVIOUS
<1>. USE DEF RestInv
<1>1. UNCHANGED setting
  BY FixedStep
<1>2. GuardInv'
  BY GuardStep
<1>3. /\ Types /\ Mutex /\ NobodyDown /\ Ordered /\ Versioned
      /\ Backed /\ Ordered'
  BY <1>2 DEF GuardInv, Honest
<1>4. (Late \/ Shutdown)'
  BY <1>1, <1>3, ShutdownStep DEF Late
<1>5. Orderly' => Emptied' /\ (Careful' => Opened')
  <2>1. (Orderly' <=> Orderly) /\ (Careful' <=> Careful) /\ (Orderly => ~Late)
    BY <1>1 DEF Orderly, Careful, Alone, Late
  <2>. QED
    BY <1>3, <2>1, EmptiedStep, OpenedStep
<1>6. Unfailing' => Matched'
  <2>1. Unfailing' <=> Unfailing
    BY <1>1 DEF Unfailing
  <2>. QED
    BY <1>3, <2>1, MatchedStep
<1>7. Saving' => Saved'
  <2>1. Saving' <=> Saving
    BY <1>1 DEF Saving, Careful, Alone
  <2>. QED
    BY <1>3, <2>1, SavedStep
<1>8. Steady' => Admitted'
  <2>1. Steady' <=> Steady
    BY <1>1 DEF Steady, Alone
  <2>. QED
    BY <1>3, <2>1, AdmittedStep
<1>9. Smooth' => Followed'
  <2>1. Smooth' <=> Smooth
    BY <1>1 DEF Smooth
  <2>. QED
    BY <1>3, <2>1, FollowedStep
<1>. QED
  BY <1>2, <1>4, <1>5, <1>6, <1>7, <1>8, <1>9

LEMMA RestIsKept == Spec => []RestInv
BY RestInit, RestStep, PTL DEF Spec

\* When nothing is in progress a host whose user is on DIRECT or prefers
\* availability is not blocked, the daemon believes what the engine was told, the
\* files hold the user's choice and an armed firewall admits the device there is
\* (applyNetmapLocked, and what SetExit, ClearExit, SetInternetFallback and the
\* recoveries do with its result), each in the settings its definition names.
THEOREM EverythingAtRest == Spec => []AtRest
<1>1. RestInv => AtRest
  <2>. SUFFICES ASSUME RestInv PROVE AtRest
    OBVIOUS
  <2>. USE DEF RestInv
  <2>1. ASSUME Settled PROVE \A p \in Procs : /\ ~Pending(p) /\ ~Choosing(p) /\ ~Owes(p)
                                             /\ pc[p] \notin {"disarm", "commit"}
                                             /\ call[p].op # "fallback"
    BY <2>1 DEF Settled, GuardInv, Ordered, Order, Pending, Choosing, Selecting, Owes, Inside
  <2>2. ASSUME Careful, Orderly, Settled, Selected(applied) = NoExit \/ fallback PROVE guard = Off
    <3>1. ~Wish
      BY <2>2, PolicyArmed DEF GuardInv, Types, Books, Wish
    <3>. QED
      BY <2>1, <2>2, <3>1 DEF Settled, Opened, Armed, Emptied
  <2>3. ASSUME Unfailing, Settled PROVE cfg = IF exitRouted THEN exitKey ELSE NoExit
    BY <2>1, <2>3 DEF Settled, Matched
  <2>4. ASSUME Saving, Settled PROVE savedExit = preferred /\ savedFallback = fallback
    BY <2>1, <2>4 DEF Settled, Saved
  <2>5. ASSUME Following, Settled, current # Off PROVE current = iface
    <3>1. CASE Alone
      <4>1. PICK p \in Procs : setting.procs = {p}
        BY <3>1 DEF Alone
      <4>2. Admits(p)
        BY <2>5, <3>1, <4>1 DEF Following, Steady, Admitted, Settled
      <4>. QED
        BY <2>5, <4>2 DEF Admits, Settled
    <3>2. CASE ~Alone
      <4>1. Followed
        BY <2>5, <3>2 DEF Following, Smooth
      <4>. QED
        BY <2>5, <4>1 DEF Settled, Followed, Follows, Behind
    <3>. QED
      BY <3>1, <3>2
  <2>. QED
    BY <2>2, <2>3, <2>4, <2>5
       DEF AtRest, DirectIsOpenOrderly, DirectIsOpen, BooksMatchUnfailing, BooksMatch,
           IntentDurableAlone, IntentDurable, FollowsDeviceFollowing, FollowsDevice
<1>. QED
  BY <1>1, RestIsKept, PTL
=============================================================================
