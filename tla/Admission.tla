------------------------------ MODULE Admission ------------------------------
(***************************************************************************)
(* The quota manager of the file-transfer receivers of one process          *)
(* (internal/filetransfer/admission.go), with the calls OpenReceiver,       *)
(* Finalize, Cancel, Close and the garbage collector make to it between     *)
(* their steps on the state root, and the restart that rebuilds it from     *)
(* the disk.                                                                *)
(*                                                                          *)
(* The code counts usage three times: in total, per tenant and per device.  *)
(* Here a device has a set of scopes, and usage is counted per scope.       *)
(***************************************************************************)
EXTENDS Integers, FiniteSets, FiniteSetsExt

CONSTANTS
    Procs,        \* goroutines working on transfers
    NoProc,
    Keys,         \* transfer ids in the state root
    NoKey,
    Devices,      \* recipient principals (tenant and device)
    NoDevice,
    Scopes,       \* the whole process, the tenants and the devices
    ScopesOf,     \* the scopes a device is counted in
    Claims,       \* offers: a key, the recipient device and the bytes it reserves
    MaxActive,    \* quotas, per scope
    MaxBytes,
    MaxRetained,
    MaxOwners,    \* bound on nextOwner
    Settings      \* which offers are made, and which of "cancel", "gc", "restart" happen

ASSUME NamesAssumption == NoProc \notin Procs /\ NoDevice \notin Devices /\ NoKey \notin Keys
ASSUME FiniteAssumption == IsFiniteSet(Procs) /\ IsFiniteSet(Keys)
ASSUME ClaimsAssumption == Claims \subseteq [key : Keys, dev : Devices, bytes : Nat]
ASSUME ScopesAssumption == ScopesOf \in [Devices -> SUBSET Scopes]
ASSUME QuotaAssumption ==
    MaxActive \in [Scopes -> Nat] /\ MaxBytes \in [Scopes -> Nat] /\ MaxRetained \in [Scopes -> Nat]
ASSUME BoundAssumption == MaxOwners \in Nat
ASSUME SettingsAssumption ==
    Settings \subseteq [offers : SUBSET Claims, ops : SUBSET {"cancel", "gc", "restart"}]

Rec == [dev : Devices, bytes : Nat]
NoRec == [dev |-> NoDevice, bytes |-> 0]

\* What a call holds: its offer; whether it counts as active, has claimed the
\* key, found it consumed; the owner number of a claim it may abort; whether
\* the reservation is on disk; whether its directory is still the one named;
\* whether a Cancel of the transfer released the reservation it had claimed.
Adm == [key : Keys \cup {NoKey}, dev : Devices \cup {NoDevice}, bytes : Nat,
        active : BOOLEAN, keyed : BOOLEAN, completed : BOOLEAN, owner : Nat,
        persistent : BOOLEAN, handle : BOOLEAN, released : BOOLEAN]
NewAdm(c, isActive) ==
    [key |-> c.key, dev |-> c.dev, bytes |-> c.bytes, active |-> isActive, keyed |-> FALSE,
     completed |-> FALSE, owner |-> 0, persistent |-> FALSE, handle |-> FALSE,
     released |-> FALSE]
NoAdm == NewAdm([key |-> NoKey, dev |-> NoDevice, bytes |-> 0], FALSE)

VARIABLES
    setting,
    active,        \* per scope, the transfers in progress
    bytes,         \* per scope, the bytes reserved
    reservations,  \* per key, the reservation in memory, or NoRec
    completed,     \* per key, the device of a consumed transfer, or NoDevice
    refs,          \* per key, how many admissions use it
    owners,        \* per key, which new claim may still be aborted; 0 if none
    nextOwner,
    mu,            \* who is inside loadPersistent with the mutex; other calls take
                   \* the mutex for one step
    seen, stones,  \* what loadPersistent read: the reservations, the consumed keys
    todo,          \* the keys it has not reconciled yet
    disk,          \* per key, the reservation.state in the state root, or NoRec
    consumed,      \* the keys with a consumed.state
    lease,         \* per key, who holds the transfer's lease
    pc, adm        \* each call, and its admission

usage == <<active, bytes>>
memory == <<usage, reservations, completed, refs, owners, nextOwner>>
loading == <<mu, seen, stones, todo>>
world == <<setting, disk, consumed, lease>>
vars == <<memory, loading, world, pc, adm>>

Zero == [s \in Scopes |-> 0]

Init ==
    /\ setting \in Settings
    /\ active = Zero /\ bytes = Zero
    /\ reservations = [k \in Keys |-> NoRec]
    /\ completed = [k \in Keys |-> NoDevice]
    /\ refs = [k \in Keys |-> 0] /\ owners = refs
    /\ nextOwner = 0
    /\ mu = NoProc /\ seen = reservations /\ stones = {} /\ todo = {}
    /\ disk = reservations /\ consumed = {} /\ lease = [k \in Keys |-> NoProc]
    /\ pc = [p \in Procs |-> "idle"]
    /\ adm = [p \in Procs |-> NoAdm]

-----------------------------------------------------------------------------
(* Usage. *)

Goto(p, label) == pc' = [pc EXCEPT ![p] = label]

Add(usageMap, dev, n) ==
    [s \in Scopes |-> usageMap[s] + (IF s \in ScopesOf[dev] THEN n ELSE 0)]

RecOf(p) == [dev |-> adm[p].dev, bytes |-> adm[p].bytes]

\* canRetainLocked.  A key that is in both maps counts twice.
Retained(s) ==
    Cardinality({k \in Keys : reservations[k] # NoRec /\ s \in ScopesOf[reservations[k].dev]})
    + Cardinality({k \in Keys : completed[k] # NoDevice /\ s \in ScopesOf[completed[k]]})
CanRetain(dev) == \A s \in ScopesOf[dev] : Retained(s) < MaxRetained[s]

\* Mutant: one byte too many.
CanReserve_OffByOne(rec) == \A s \in ScopesOf[rec.dev] : rec.bytes <= MaxBytes[s] - bytes[s] + 1

\* addReservedLocked
CanReserve(rec) == \A s \in ScopesOf[rec.dev] : rec.bytes <= MaxBytes[s] - bytes[s]
Reserve(k, rec) ==
    /\ reservations' = [reservations EXCEPT ![k] = rec]
    /\ bytes' = Add(bytes, rec.dev, rec.bytes)

\* dropReservationLocked, for the keys in ks that have a reservation.
Dropped(s, ks) ==
    MapThenSumSet(LAMBDA k : reservations[k].bytes,
                  {k \in ks : reservations[k] # NoRec /\ s \in ScopesOf[reservations[k].dev]})
Drop(ks) ==
    /\ reservations' = [k \in Keys |-> IF k \in ks THEN NoRec ELSE reservations[k]]
    /\ owners' = [k \in Keys |-> IF k \in ks /\ reservations[k] # NoRec THEN 0 ELSE owners[k]]
    /\ bytes' = [s \in Scopes |-> bytes[s] - Dropped(s, ks)]

\* Mutant: without activeOnce.
CloseActive_Twice(p) ==
    /\ active' = Add(active, adm[p].dev, -1)
    /\ refs' = [refs EXCEPT ![adm[p].key] = @ - (IF adm[p].keyed /\ @ > 0 THEN 1 ELSE 0)]
    /\ adm' = [adm EXCEPT ![p].active = FALSE]

\* closeActive; activeOnce makes a second call do nothing.
CloseActive(p) ==
    IF adm[p].active
    THEN /\ active' = Add(active, adm[p].dev, -1)
         /\ refs' = [refs EXCEPT ![adm[p].key] = @ - (IF adm[p].keyed /\ @ > 0 THEN 1 ELSE 0)]
         /\ adm' = [adm EXCEPT ![p].active = FALSE]
    ELSE UNCHANGED <<active, refs, adm>>

\* markCompleted
MarkCompleted(p) ==
    /\ Drop({adm[p].key})
    /\ completed' = [completed EXCEPT ![adm[p].key] = adm[p].dev]
    /\ UNCHANGED <<active, refs, nextOwner>>

\* A call that counts in its key's references.
Counted(p) == adm[p].active /\ adm[p].keyed

Unlease(p) == lease' = [k \in Keys |-> IF lease[k] = p THEN NoProc ELSE lease[k]]

-----------------------------------------------------------------------------
(* OpenReceiverWithManager. *)

\* begin admits the call against the active quotas.
Begin(p) ==
    /\ pc[p] = "idle"
    /\ mu = NoProc
    /\ \E c \in setting.offers :
          /\ \A s \in ScopesOf[c.dev] : active[s] < MaxActive[s]
          /\ active' = Add(active, c.dev, 1)
          /\ adm' = [adm EXCEPT ![p] = NewAdm(c, TRUE)]
    /\ Goto(p, "load")
    /\ UNCHANGED <<bytes, reservations, completed, refs, owners, nextOwner, loading, world>>

\* loadPersistent reads the state root and forgets what is neither there nor used.
LoadBegin(p) ==
    /\ pc[p] = "load"
    /\ mu = NoProc
    /\ mu' = p
    /\ seen' = disk /\ stones' = consumed
    /\ todo' = {k \in Keys : disk[k] # NoRec}
    /\ LET lost == {k \in Keys : disk[k] = NoRec /\ refs[k] = 0} IN
          /\ Drop(lost)
          /\ completed' = [k \in Keys |-> IF k \in lost THEN NoDevice ELSE completed[k]]
    /\ Goto(p, "loading")
    /\ UNCHANGED <<active, refs, nextOwner, world, adm>>

\* The consumed directories first.
LoadCompleted(p) ==
    /\ mu = p
    /\ \E k \in todo \cap stones :
          /\ todo' = todo \ {k}
          /\ IF completed[k] # NoDevice
             THEN UNCHANGED <<reservations, owners, bytes, completed>>
             ELSE /\ CanRetain(seen[k].dev)
                  /\ Drop(IF refs[k] = 0 THEN {k} ELSE {})
                  /\ completed' = [completed EXCEPT ![k] = seen[k].dev]
    /\ UNCHANGED <<active, refs, nextOwner, mu, seen, stones, world, pc, adm>>

\* A reservation whose record agrees, or that is in use, stays.
LoadKeeps(k) ==
    \/ reservations[k] # NoRec /\ (reservations[k] = seen[k] \/ refs[k] > 0)
    \/ completed[k] # NoDevice /\ refs[k] > 0

LoadReserved(p) ==
    /\ mu = p
    /\ todo \cap stones = {}
    /\ \E k \in todo :
          /\ todo' = todo \ {k}
          /\ IF LoadKeeps(k)
             THEN /\ owners' = [owners EXCEPT ![k] = IF reservations[k] = seen[k] THEN 0 ELSE @]
                  /\ UNCHANGED <<reservations, bytes, completed>>
             ELSE /\ reservations[k] = NoRec /\ completed[k] = NoDevice
                  /\ CanRetain(seen[k].dev) /\ CanReserve(seen[k])
                  /\ Reserve(k, seen[k])
                  /\ UNCHANGED <<owners, completed>>
    /\ UNCHANGED <<active, refs, nextOwner, mu, seen, stones, world, pc, adm>>

\* A record that disagrees with an unused entry replaces it.
LoadReplaces(p) ==
    /\ mu = p
    /\ todo \cap stones = {}
    /\ \E k \in todo :
          /\ ~LoadKeeps(k)
          /\ reservations[k] # NoRec \/ completed[k] # NoDevice
          /\ Drop({k})
          /\ completed' = [completed EXCEPT ![k] = NoDevice]
    /\ UNCHANGED <<active, refs, nextOwner, loading, world, pc, adm>>

LoadEnd(p) ==
    /\ mu = p
    /\ todo = {}
    /\ mu' = NoProc /\ seen' = [k \in Keys |-> NoRec] /\ stones' = {}
    /\ Goto(p, "claim")
    /\ UNCHANGED <<memory, todo, world, adm>>

\* A directory that does not fit the quotas fails every OpenReceiver.
LoadFails(p) ==
    /\ mu = p
    /\ \E k \in todo :
          \/ k \in stones /\ completed[k] = NoDevice /\ ~CanRetain(seen[k].dev)
          \/ /\ todo \cap stones = {}
             /\ reservations[k] = NoRec /\ completed[k] = NoDevice
             /\ ~CanRetain(seen[k].dev) \/ ~CanReserve(seen[k])
    /\ mu' = NoProc /\ todo' = {} /\ seen' = [k \in Keys |-> NoRec] /\ stones' = {}
    /\ Goto(p, "failing")
    /\ UNCHANGED <<memory, world, adm>>

\* Mutant: a second claimant is not counted.
ClaimShared_Uncounted(p) ==
    LET k == adm[p].key IN
    /\ pc[p] = "claim"
    /\ mu = NoProc
    /\ completed[k] # NoDevice \/ reservations[k] = RecOf(p)
    /\ adm' = [adm EXCEPT ![p].keyed = TRUE, ![p].completed = completed[k] # NoDevice,
                          ![p].owner = IF completed[k] # NoDevice THEN 0 ELSE owners[k]]
    /\ Goto(p, "publish")
    /\ UNCHANGED <<usage, reservations, completed, refs, owners, nextOwner, loading, world>>

\* claimReservation of a consumed transfer, of an equal reservation ...
ClaimShared(p) ==
    LET k == adm[p].key IN
    /\ pc[p] = "claim"
    /\ mu = NoProc
    /\ completed[k] # NoDevice \/ reservations[k] = RecOf(p)
    /\ refs' = [refs EXCEPT ![k] = @ + 1]
    /\ adm' = [adm EXCEPT ![p].keyed = TRUE, ![p].completed = completed[k] # NoDevice,
                          ![p].owner = IF completed[k] # NoDevice THEN 0 ELSE owners[k]]
    /\ Goto(p, "publish")
    /\ UNCHANGED <<active, bytes, reservations, completed, owners, nextOwner, loading, world>>

\* ... and of a new one.
ClaimNew(p) ==
    LET k == adm[p].key IN
    /\ pc[p] = "claim"
    /\ mu = NoProc
    /\ completed[k] = NoDevice /\ reservations[k] = NoRec
    /\ CanRetain(adm[p].dev) /\ CanReserve(RecOf(p))
    /\ nextOwner < MaxOwners
    /\ Reserve(k, RecOf(p))
    /\ nextOwner' = nextOwner + 1
    /\ owners' = [owners EXCEPT ![k] = nextOwner']
    /\ refs' = [refs EXCEPT ![k] = @ + 1]
    /\ adm' = [adm EXCEPT ![p].keyed = TRUE, ![p].owner = nextOwner']
    /\ Goto(p, "publish")
    /\ UNCHANGED <<active, completed, loading, world>>

\* Lstat, staging, rename: the winner's reservation is on disk, under its lease.
Publish(p) ==
    LET k == adm[p].key IN
    /\ pc[p] = "publish"
    /\ IF disk[k] = NoRec
       THEN /\ disk' = [disk EXCEPT ![k] = RecOf(p)]
            /\ lease' = [lease EXCEPT ![k] = p]
            /\ adm' = [adm EXCEPT ![p].persistent = TRUE]
       ELSE UNCHANGED <<disk, lease, adm>>
    /\ Goto(p, "open")
    /\ UNCHANGED <<setting, memory, loading, consumed>>

\* The reservation on disk must be this offer's, unless it is known to be consumed.
OpenState(p) ==
    LET k == adm[p].key IN
    /\ pc[p] = "open"
    /\ disk[k] # NoRec
    /\ adm[p].completed \/ disk[k] = RecOf(p)
    /\ adm' = [adm EXCEPT ![p].persistent = TRUE, ![p].handle = TRUE]
    /\ Goto(p, "mark")
    /\ UNCHANGED <<memory, loading, world>>

\* markReservationPersistent: nobody may abort it any more.
MarkPersistent(p) ==
    LET k == adm[p].key IN
    /\ pc[p] = "mark"
    /\ mu = NoProc
    /\ owners' = [owners EXCEPT ![k] = IF @ = adm[p].owner THEN 0 ELSE @]
    /\ adm' = [adm EXCEPT ![p].owner = 0]
    /\ Goto(p, "lease")
    /\ UNCHANGED <<usage, reservations, completed, refs, nextOwner, loading, world>>

LeaseTransfer(p) ==
    LET k == adm[p].key IN
    /\ pc[p] = "lease"
    /\ adm[p].handle
    /\ lease[k] \in {NoProc, p}
    /\ lease' = [lease EXCEPT ![k] = p]
    /\ Goto(p, "tombstone")
    /\ UNCHANGED <<setting, memory, loading, disk, consumed, adm>>

\* A transfer whose tombstone proves to be this offer's is recorded and refused.
AlreadyCompleted(p) ==
    /\ pc[p] = "tombstone"
    /\ mu = NoProc
    /\ adm[p].key \in consumed /\ disk[adm[p].key] = RecOf(p)
    /\ MarkCompleted(p)
    /\ Goto(p, "failing")
    /\ UNCHANGED <<loading, world, adm>>

Opened(p) ==
    /\ pc[p] = "tombstone"
    /\ adm[p].key \notin consumed
    /\ ~adm[p].completed
    /\ Goto(p, "receiving")
    /\ UNCHANGED <<memory, loading, world, adm>>

\* Any of these calls can fail, for a quota, a conflict or an I/O error.
Fail(p) ==
    /\ pc[p] \in {"load", "claim", "publish", "open", "mark", "lease", "tombstone"}
    /\ Goto(p, "failing")
    /\ UNCHANGED <<memory, loading, world, adm>>

\* The deferred cleanup closes the active slot first ...
FailClose(p) ==
    /\ pc[p] = "failing"
    /\ mu = NoProc
    /\ CloseActive(p)
    /\ Goto(p, IF adm[p].persistent THEN "unlease" ELSE "aborting")
    /\ UNCHANGED <<bytes, reservations, completed, owners, nextOwner, loading, world>>

\* ... then abortNewReservation drops a reservation nobody published or uses.
Abort(p) ==
    LET k == adm[p].key IN
    /\ pc[p] = "aborting"
    /\ mu = NoProc
    /\ IF adm[p].keyed /\ adm[p].owner # 0 /\ refs[k] = 0 /\ owners[k] = adm[p].owner
       THEN Drop({k})
       ELSE UNCHANGED <<bytes, reservations, owners>>
    /\ Goto(p, "unlease")
    /\ UNCHANGED <<active, completed, refs, nextOwner, loading, world, adm>>

Return(p) ==
    /\ pc[p] = "unlease"
    /\ Unlease(p)
    /\ adm' = [adm EXCEPT ![p] = NoAdm]
    /\ Goto(p, "idle")
    /\ UNCHANGED <<setting, memory, loading, disk, consumed>>

-----------------------------------------------------------------------------
(* The other operations of a receiver. *)

\* Finalize, commitConsumed: the tombstone is on disk ...
Commit(p) ==
    /\ pc[p] = "receiving"
    /\ consumed' = consumed \cup {adm[p].key}
    /\ Goto(p, "committed")
    /\ UNCHANGED <<setting, memory, loading, disk, lease, adm>>

\* ... before the manager turns the reservation into a retained transfer ...
Complete(p) ==
    /\ pc[p] = "committed"
    /\ mu = NoProc
    /\ MarkCompleted(p)
    /\ Goto(p, "completed")
    /\ UNCHANGED <<loading, world, adm>>

\* ... and gives up the active slot.
EndFinalize(p) ==
    /\ pc[p] = "completed"
    /\ mu = NoProc
    /\ CloseActive(p)
    /\ Goto(p, "finalized")
    /\ UNCHANGED <<bytes, reservations, completed, owners, nextOwner, loading, world>>

Close(p) ==
    /\ pc[p] \in {"receiving", "committed", "finalized", "closing"}
    /\ mu = NoProc
    /\ CloseActive(p)
    /\ Goto(p, "unlease")
    /\ UNCHANGED <<bytes, reservations, completed, owners, nextOwner, loading, world>>

\* A call that opened the directory keeps a handle on what is no longer there.
RemoveDirectory(k) ==
    /\ disk' = [disk EXCEPT ![k] = NoRec]
    /\ consumed' = consumed \ {k}
Detach(calls, k) ==
    [p \in Procs |-> [calls[p] EXCEPT !.handle = @ /\ calls[p].key # k]]

\* Cancel renames and empties the directory; its lease goes with the inode ...
Cancel(p) ==
    LET k == adm[p].key IN
    /\ "cancel" \in setting.ops
    /\ pc[p] \in {"receiving", "committed", "finalized"}
    /\ RemoveDirectory(k)
    /\ lease' = [lease EXCEPT ![k] = NoProc]
    /\ adm' = Detach(adm, k)
    /\ Goto(p, "cancelled")
    /\ UNCHANGED <<setting, memory, loading>>

\* ... then releaseReservation drops the reservation, whoever else uses it.
ReleaseReservation(p) ==
    /\ pc[p] = "cancelled"
    /\ mu = NoProc
    /\ Drop({adm[p].key})
    /\ adm' = [q \in Procs |->
                 [adm[q] EXCEPT !.released = @ \/ (Counted(q) /\ adm[q].key = adm[p].key)]]
    /\ Goto(p, "closing")
    /\ UNCHANGED <<active, completed, refs, nextOwner, loading, world>>

\* collectOne removes an expired transfer nobody has leased ...
Collect(p) ==
    /\ "gc" \in setting.ops
    /\ pc[p] = "idle"
    /\ \E k \in Keys :
          /\ disk[k] # NoRec
          /\ lease[k] = NoProc
          /\ RemoveDirectory(k)
          /\ adm' = [Detach(adm, k) EXCEPT ![p].key = k]
    /\ Goto(p, "collected")
    /\ UNCHANGED <<setting, memory, loading, lease>>

\* Mutant: the collector drops the reservation although a call uses it.
DropCollected_Used(p) ==
    /\ pc[p] = "collected"
    /\ mu = NoProc
    /\ Drop({adm[p].key})
    /\ completed' = [completed EXCEPT ![adm[p].key] = NoDevice]
    /\ adm' = [adm EXCEPT ![p] = NoAdm]
    /\ Goto(p, "idle")
    /\ UNCHANGED <<active, refs, nextOwner, loading, world>>

\* ... then dropReservation forgets it, unless a call has claimed it again.
DropCollected(p) ==
    LET k == adm[p].key IN
    /\ pc[p] = "collected"
    /\ mu = NoProc
    /\ IF refs[k] = 0
       THEN Drop({k}) /\ completed' = [completed EXCEPT ![k] = NoDevice]
       ELSE UNCHANGED <<bytes, reservations, owners, completed>>
    /\ adm' = [adm EXCEPT ![p] = NoAdm]
    /\ Goto(p, "idle")
    /\ UNCHANGED <<active, refs, nextOwner, loading, world>>

\* The process dies; a new manager starts empty.
Restart ==
    /\ "restart" \in setting.ops
    /\ active' = Zero /\ bytes' = Zero
    /\ reservations' = [k \in Keys |-> NoRec]
    /\ completed' = [k \in Keys |-> NoDevice]
    /\ refs' = [k \in Keys |-> 0] /\ owners' = refs'
    /\ nextOwner' = 0
    /\ mu' = NoProc /\ todo' = {} /\ seen' = reservations' /\ stones' = {}
    /\ lease' = [k \in Keys |-> NoProc]
    /\ pc' = [p \in Procs |-> "idle"]
    /\ adm' = [p \in Procs |-> NoAdm]
    /\ UNCHANGED <<setting, disk, consumed>>

-----------------------------------------------------------------------------

Open(p) ==
    \/ Begin(p) \/ LoadBegin(p) \/ LoadCompleted(p) \/ LoadReserved(p) \/ LoadReplaces(p)
    \/ LoadEnd(p) \/ LoadFails(p) \/ ClaimShared(p) \/ ClaimNew(p) \/ Publish(p)
    \/ OpenState(p) \/ MarkPersistent(p) \/ LeaseTransfer(p) \/ AlreadyCompleted(p)
    \/ Opened(p) \/ Fail(p) \/ FailClose(p) \/ Abort(p) \/ Return(p)

Use(p) ==
    \/ Commit(p) \/ Complete(p) \/ EndFinalize(p) \/ Close(p) \/ Cancel(p)
    \/ ReleaseReservation(p) \/ Collect(p) \/ DropCollected(p)

Next == (\E p \in Procs : Open(p) \/ Use(p)) \/ Restart

Spec == Init /\ [][Next]_vars

-----------------------------------------------------------------------------
(* Correctness. *)

\* Types; and the mutex is held by a call that is inside loadPersistent.
TypeOK ==
    /\ active \in [Scopes -> Nat] /\ bytes \in [Scopes -> Nat]
    /\ reservations \in [Keys -> Rec \cup {NoRec}]
    /\ completed \in [Keys -> Devices \cup {NoDevice}]
    /\ refs \in [Keys -> Nat] /\ owners \in [Keys -> Nat] /\ nextOwner \in 0 .. MaxOwners
    /\ mu \in Procs \cup {NoProc}
    /\ seen \in [Keys -> Rec \cup {NoRec}] /\ stones \subseteq Keys /\ todo \subseteq Keys
    /\ disk \in [Keys -> Rec \cup {NoRec}] /\ consumed \subseteq Keys
    /\ lease \in [Keys -> Procs \cup {NoProc}]
    /\ adm \in [Procs -> Adm]
    /\ \A p \in Procs : mu = p <=> pc[p] = "loading"

\* Every admission is counted once, however its call ended: in its scopes while
\* it is active, and in its key's references while it uses it (closeActive runs
\* once; nothing underflows).
CountersExact ==
    /\ \A s \in Scopes :
          active[s] = Cardinality({p \in Procs : adm[p].active /\ s \in ScopesOf[adm[p].dev]})
    /\ \A k \in Keys : refs[k] = Cardinality({p \in Procs : Counted(p) /\ adm[p].key = k})

\* The bytes charged to a scope are those of the reservations in it, and no
\* quota on what is in progress is exceeded.
ChargedExactly ==
    \A s \in Scopes :
        /\ bytes[s] = Dropped(s, Keys)
        /\ bytes[s] <= MaxBytes[s] /\ active[s] <= MaxActive[s]

\* Nor is the quota on what is kept.  A Cancel frees a reservation that others go
\* on using, and one that is completed as another device's moves to a scope that
\* nobody asks for room: neither is in the setting.
Private ==
    /\ "cancel" \notin setting.ops
    /\ \A c, e \in setting.offers : c.key = e.key => c.dev = e.dev
KeptWithinQuota == \A s \in Scopes : Retained(s) <= MaxRetained[s]
RetainedWithin == Private => KeptWithinQuota

\* The transfers on disk fit the quotas they were admitted under, so that the
\* next process can load them all (OpenReceiverWithManager's comment).
DiskWithinQuota ==
    \A s \in Scopes :
        LET here == {k \in Keys : disk[k] # NoRec /\ s \in ScopesOf[disk[k].dev]} IN
            /\ Cardinality(here) <= MaxRetained[s]
            /\ MapThenSumSet(LAMBDA k : disk[k].bytes, here \ consumed) <= MaxBytes[s]

\* A call that has claimed a key and not ended finds it reserved, or consumed,
\* whatever the other claimants of the key, loadPersistent and the collector drop;
\* only a Cancel of the transfer takes it away.
ClaimsHold ==
    \A p \in Procs : Counted(p) /\ ~adm[p].released =>
        \/ reservations[adm[p].key] = RecOf(p)
        \/ completed[adm[p].key] # NoDevice

\* The manager's books at every moment: the charges are those of the
\* reservations, and nobody's claim is charged, or freed, for another's
\* (TransferAdmission).
ClaimsCharged == TypeOK /\ ChargedExactly /\ RetainedWithin /\ ClaimsHold
=============================================================================
