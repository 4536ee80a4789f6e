----------------------------- MODULE TrustedTime -----------------------------
(***************************************************************************)
(* The wall-clock floor a file-transfer receiver keeps in its state root   *)
(* (internal/filetransfer/state.go, trustedTransferTime) and the expiry    *)
(* check openOffer makes with the time it returns.                         *)
(*                                                                         *)
(* The file .trusted-time.state holds a floor and the version of the local *)
(* device's key binding.  An opener takes an exclusive file lock, reads the *)
(* file, computes the new pair, and, if it changed, publishes it with      *)
(* atomicWriteState: write a temporary file, fsync, rename, fsync the      *)
(* directory.  "visible" is what a reader sees, "durable" what a power     *)
(* loss falls back to.  Only after the lock is released is the offer       *)
(* authenticated.                                                          *)
(*                                                                         *)
(* The 8-byte legacy format carries no version; a file that does not exist *)
(* behaves exactly like a legacy file with floor 0, so version 0 stands    *)
(* for both.                                                               *)
(***************************************************************************)
EXTENDS Integers

CONSTANTS
    Openers,      \* processes (or goroutines) inside OpenReceiver
    NoOpener,     \* no holder of the lock
    MaxTime,      \* bound on the clock readings and offer expiries
    MaxVersion,   \* bound on the key-binding version
    Settings      \* which of "kill", "syncfail", "power" happen; one of these sets does

ASSUME OpenersAssumption == NoOpener \notin Openers
ASSUME BoundsAssumption == MaxTime \in Nat /\ MaxVersion \in Nat \ {0}

Time == 0 .. MaxTime
Version == 1 .. MaxVersion
Stamp == [floor : Time, version : 0 .. MaxVersion]

VARIABLES
    visible,   \* the state file as a reader of the running system sees it
    durable,   \* the state file as the disk has it
    lock,      \* holder of .trusted-time.lock, or NoOpener
    pc,        \* where each opener is
    stamp,     \* its clock reading and key version; once decided, the pair it
               \* publishes, whose floor is the time it gets back
    refused,   \* per key version, the latest expiry of an offer refused as expired
    served,    \* the highest key version whose opener got a trusted time
    faults     \* never changes

vars == <<visible, durable, lock, pc, stamp, refused, served, faults>>

NoStamp == [floor |-> 0, version |-> 0]

Init ==
    /\ visible \in [floor : Time, version : {0}]
    /\ durable = visible
    /\ lock = NoOpener
    /\ pc = [o \in Openers |-> "idle"]
    /\ stamp = [o \in Openers |-> NoStamp]
    /\ refused = [v \in Version |-> 0]
    /\ served = 0
    /\ faults \in Settings

Stop(o) ==
    /\ pc' = [pc EXCEPT ![o] = "idle"]
    /\ stamp' = [stamp EXCEPT ![o] = NoStamp]

\* openTrustedTimeLock blocks until the lock is free; the clock the caller read
\* before is unconstrained, so it may lie before one another opener used.
Acquire(o) ==
    /\ pc[o] = "idle"
    /\ lock = NoOpener
    /\ lock' = o
    /\ \E now \in Time, version \in Version :
          stamp' = [stamp EXCEPT ![o] = [floor |-> now, version |-> version]]
    /\ pc' = [pc EXCEPT ![o] = "decide"]
    /\ UNCHANGED <<visible, durable, refused, served>>

\* Mutant: the floor advances by the reading instead of to it.
NextStamp_Added(file, now, version) ==
    [floor |-> file.floor + now, version |-> version]

\* Mutant: the floor restarts at now whatever the version.
NextStamp_AlwaysNow(file, now, version) == [floor |-> now, version |-> version]

\* The pair the code computes from the file, the clock and the key version:
\* a newer binding version restarts the floor at now, otherwise it only rises.
NextStamp(file, now, version) ==
    IF file.version # 0 /\ file.version < version
    THEN [floor |-> now, version |-> version]
    ELSE [floor   |-> IF now > file.floor THEN now ELSE file.floor,
          version |-> IF file.version = 0 THEN version ELSE file.version]

Return(o, version) ==
    /\ served' = IF version > served THEN version ELSE served
    /\ lock' = NoOpener
    /\ pc' = [pc EXCEPT ![o] = "authenticate"]

Decide(o) ==
    /\ pc[o] = "decide"
    /\ visible.version <= stamp[o].version
    /\ LET new == NextStamp(visible, stamp[o].floor, stamp[o].version) IN
          /\ stamp' = [stamp EXCEPT ![o] = new]
          /\ IF new = visible
             THEN Return(o, new.version)
             ELSE /\ pc' = [pc EXCEPT ![o] = "publish"]
                  /\ UNCHANGED <<lock, served>>
    /\ UNCHANGED <<visible, durable, refused>>

\* Mutant: the version test forgotten: a smaller binding version keeps the file.
RefuseRollback_Lenient(o) ==
    /\ pc[o] = "decide"
    /\ visible.version > stamp[o].version
    /\ Return(o, stamp[o].version)
    /\ UNCHANGED <<visible, durable, stamp, refused>>

\* "device key version rollback"
RefuseRollback(o) ==
    /\ pc[o] = "decide"
    /\ visible.version > stamp[o].version
    /\ lock' = NoOpener
    /\ Stop(o)
    /\ UNCHANGED <<visible, durable, refused, served>>

\* Mutant: the time is returned before the rename crossed the directory barrier.
Publish_NoBarrier(o) ==
    /\ pc[o] = "publish"
    /\ visible' = stamp[o]
    /\ Return(o, stamp[o].version)
    /\ UNCHANGED <<durable, stamp, refused>>

\* The rename inside atomicWriteState.
Publish(o) ==
    /\ pc[o] = "publish"
    /\ visible' = stamp[o]
    /\ pc' = [pc EXCEPT ![o] = "sync"]
    /\ UNCHANGED <<durable, lock, stamp, refused, served>>

SyncDirectory(o) ==
    /\ pc[o] = "sync"
    /\ durable' = visible
    /\ Return(o, stamp[o].version)
    /\ UNCHANGED <<visible, stamp, refused>>

\* The directory sync after the rename reports an error: the call fails, the
\* renamed file stays in place.
SyncFails(o) ==
    /\ "syncfail" \in faults
    /\ pc[o] = "sync"
    /\ lock' = NoOpener
    /\ Stop(o)
    /\ UNCHANGED <<visible, durable, refused, served>>

\* openOffer(..., trustedNow, ...): now.Unix() >= o.ExpiresAtUnix is refused,
\* any other offer goes on.  An offer binds one version of the recipient's key.
Authenticate(o) ==
    /\ pc[o] = "authenticate"
    /\ \E expires \in Time :
          refused' = IF stamp[o].floor >= expires /\ expires > refused[stamp[o].version]
                     THEN [refused EXCEPT ![stamp[o].version] = expires]
                     ELSE refused
    /\ Stop(o)
    /\ UNCHANGED <<visible, durable, lock, served>>

\* The process is killed anywhere; the kernel drops its file lock.
Kill(o) ==
    /\ "kill" \in faults
    /\ pc[o] # "idle"
    /\ lock' = IF lock = o THEN NoOpener ELSE lock
    /\ Stop(o)
    /\ UNCHANGED <<visible, durable, refused, served>>

\* The machine loses power: a rename whose directory was not synced may or may
\* not have reached the disk.
PowerLoss ==
    /\ "power" \in faults
    /\ \E survivor \in {visible, durable} :
          /\ visible' = survivor
          /\ durable' = survivor
    /\ lock' = NoOpener
    /\ pc' = [o \in Openers |-> "idle"]
    /\ stamp' = [o \in Openers |-> NoStamp]
    /\ UNCHANGED <<refused, served>>

Next ==
    /\ \/ \E o \in Openers :
             \/ Acquire(o) \/ Decide(o) \/ RefuseRollback(o) \/ Publish(o)
             \/ SyncDirectory(o) \/ SyncFails(o) \/ Authenticate(o) \/ Kill(o)
       \/ PowerLoss
    /\ UNCHANGED faults

Spec == Init /\ [][Next]_vars

-----------------------------------------------------------------------------

\* Type invariant of the state file, the lock and the openers' locals.
TypeOK ==
    /\ visible \in Stamp
    /\ durable \in Stamp
    /\ lock \in Openers \cup {NoOpener}
    /\ pc \in [Openers -> {"idle", "decide", "publish", "sync", "authenticate"}]
    /\ stamp \in [Openers -> Stamp]
    /\ \A o \in Openers : pc[o] # "idle" => stamp[o].version \in Version
    /\ refused \in [Version -> Time]
    /\ served \in 0 .. MaxVersion
    /\ faults \in Settings

\* The opener o gets its trusted time in this step.
Served(o) == pc[o] # "authenticate" /\ pc'[o] = "authenticate"

\* An offer once refused as expired is never again within the trusted time of a
\* later call under the same key version, whatever clock that call read and
\* whatever crashed in between (state.go, trustedTransferTime's comment).
NoRevival ==
    [][\A o \in Openers :
          Served(o) => refused[stamp'[o].version] <= stamp'[o].floor]_vars

\* Once a call was served under a key version, no call under an older version is.
NoKeyRollback ==
    [][\A o \in Openers : Served(o) => served <= stamp'[o].version]_vars

\* The floor on disk falls only at the recovery boundary: together with a
\* strictly newer key version.
FloorFallsOnlyOnRotation ==
    [][durable'.floor < durable.floor => durable'.version > durable.version]_vars

=============================================================================
