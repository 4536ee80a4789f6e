------------------------------- MODULE Receiver -------------------------------
(***************************************************************************)
(* One encrypted transfer on the receiving side: the state directory of the *)
(* transfer, the leases on it, and the operations of                        *)
(* internal/filetransfer that work on it concurrently: OpenReceiver,        *)
(* ReceiveChunk, Finalize, Cancel, Close and the garbage collector, with    *)
(* the process kills, power losses and failing directory syncs they must    *)
(* survive.  Quotas are in Admission, the expiry clock in TrustedTime.      *)
(*                                                                          *)
(* The state root names directories: "live" is the canonical transfer id,   *)
(* "staging" a .transfer-*.new, "quarantine" a .cancel-* or .gc-*.  A       *)
(* directory is an inode, and so is its transfer.lock: a handle, and a      *)
(* flock, outlive the name.  holder[d] is the process whose flock is on the *)
(* lock file that d holds now; a process whose lock file was unlinked still *)
(* believes in its lease, but excludes nobody.                              *)
(*                                                                          *)
(* Chunk bytes are abstracted to the set of chunks whose bytes verify.      *)
(***************************************************************************)
EXTENDS Integers, FiniteSets

CONSTANTS
    Procs,        \* processes working on the state root
    NoProc,
    Chunks,       \* the chunks of the file
    MaxDirs,      \* the most directories a setting allows
    Settings      \* what may happen around the transfer; one of these does

\* A setting: who takes part; which of "cancel", "cancelFinalized", "gc" they use;
\* which of "kill", "power", "syncfail", "rot", "foreign", "skew" occur; the bounds
\* on the directories ever created, and on kills and power losses together.
Setting == [procs : SUBSET Procs, ops : SUBSET {"cancel", "cancelFinalized", "gc"},
            faults : SUBSET {"kill", "power", "syncfail", "rot", "foreign", "skew"},
            dirs : 1 .. MaxDirs, crashes : Nat]

ASSUME ProcsAssumption == NoProc \notin Procs
ASSUME BoundsAssumption == MaxDirs \in Nat /\ Settings \subseteq Setting

Dirs == 1 .. MaxDirs
NoDir == 0
Places == {"none", "staging", "live", "quarantine", "gone"}

VARIABLES
    at, durAt,      \* each directory's name in the state root, and the one on disk
    files,          \* which of "reservation" (reservation.state), "expiry" (expires.at) and
                    \* "content" (content.part, resume.state) are in it
    part,           \* the chunks of content.part that verify
    resume,         \* the completion bitmap of resume.state
    tomb, durTomb,  \* which of consumed.pending, consumed.state are in it
    lockFile,       \* whether transfer.lock is in it
    holder,         \* who holds the flock on that file
    dest, durDest,  \* the destination name
    tmp, durTmp,    \* the reserved .ratelmesh-<id>.partial beside it
    tmpBy,          \* who has the file now at that name open for writing
    pc, dir,        \* where each process is, and the directory handle it has
    won,            \* it published the directory and keeps the lease it staged it under
    stg, quar,      \* its unpublished staging directory; the one it quarantined
    bits,           \* its in-memory completion bitmap
    expired,        \* the offer's expiry has passed
    delivered,      \* some Finalize returned success
    crashes,
    setting         \* never changes

fsVars == <<at, durAt, files, part, resume, tomb, durTomb, lockFile, holder>>
destVars == <<dest, durDest, tmp, durTmp, tmpBy>>
locals == <<dir, won, stg, quar, bits>>
procVars == <<pc, locals>>
envVars == <<expired, delivered, crashes, setting>>
vars == <<fsVars, destVars, procVars, envVars>>

Init ==
    /\ at = [d \in Dirs |-> "none"] /\ durAt = at
    /\ files = [d \in Dirs |-> {}]
    /\ part = [d \in Dirs |-> {}]
    /\ resume = [d \in Dirs |-> {}]
    /\ tomb = [d \in Dirs |-> {}] /\ durTomb = tomb
    /\ lockFile = [d \in Dirs |-> FALSE]
    /\ holder = [d \in Dirs |-> NoProc]
    /\ dest = "absent" /\ durDest = dest
    /\ tmp = "absent" /\ durTmp = tmp
    /\ tmpBy = NoProc
    /\ pc = [p \in Procs |-> "idle"]
    /\ dir = [p \in Procs |-> NoDir]
    /\ won = [p \in Procs |-> FALSE]
    /\ stg = [p \in Procs |-> NoDir]
    /\ quar = [p \in Procs |-> NoDir]
    /\ bits = [p \in Procs |-> {}]
    /\ expired = FALSE
    /\ delivered = FALSE
    /\ crashes = 0
    /\ setting \in Settings

-----------------------------------------------------------------------------
(* Helpers. *)

Live == IF \E d \in Dirs : at[d] = "live" THEN CHOOSE d \in Dirs : at[d] = "live" ELSE NoDir
Linked(d) == at[d] \in {"staging", "live", "quarantine"}

Goto(p, label) == pc' = [pc EXCEPT ![p] = label]

\* The locals of a call that has returned.
Forget(p) ==
    /\ dir' = [dir EXCEPT ![p] = NoDir]
    /\ won' = [won EXCEPT ![p] = FALSE]
    /\ stg' = [stg EXCEPT ![p] = NoDir]
    /\ quar' = [quar EXCEPT ![p] = NoDir]
    /\ bits' = [bits EXCEPT ![p] = {}]

\* acquireTransferLease: open or create transfer.lock and flock it without
\* waiting.  The directory may have been removed under the handle.
CanLease(d) == Linked(d) /\ holder[d] = NoProc
Lease(p, d) ==
    /\ lockFile' = [lockFile EXCEPT ![d] = TRUE]
    /\ holder' = [holder EXCEPT ![d] = p]

\* transferLease.close for every lease p has.
Unlease(p) == holder' = [d \in Dirs |-> IF holder[d] = p THEN NoProc ELSE holder[d]]

\* The deferred failure path of OpenReceiver: leases are closed, and an
\* unpublished staging directory is emptied.  cleanupStaging cannot remove the
\* directory itself, because transfer.lock is still in it.
FailOpen(p) ==
    /\ Unlease(p)
    /\ files' = [d \in Dirs |-> IF d = stg[p] THEN {} ELSE files[d]]
    /\ Goto(p, "idle")
    /\ Forget(p)
    /\ UNCHANGED <<at, durAt, part, resume, tomb, durTomb, lockFile, destVars, envVars>>

-----------------------------------------------------------------------------
(* OpenReceiverWithManager. *)

\* The offer authenticated, so it had not expired; Lstat decides between
\* creating the directory and joining the one that is there.
OpenBegin(p) ==
    /\ pc[p] = "idle" /\ p \in setting.procs
    /\ ~expired
    /\ Goto(p, IF Live = NoDir THEN "mkdir" ELSE "syncRoot")
    /\ UNCHANGED <<fsVars, destVars, locals, envVars>>

MakeStaging(p) ==
    /\ pc[p] = "mkdir"
    /\ \E d \in 1 .. setting.dirs :
          /\ at[d] = "none"
          /\ \A e \in 1 .. d - 1 : at[e] # "none"
          /\ at' = [at EXCEPT ![d] = "staging"]
          /\ stg' = [stg EXCEPT ![p] = d]
    /\ Goto(p, "stageLease")
    /\ UNCHANGED <<durAt, files, part, resume, tomb, durTomb, lockFile, holder, destVars,
                   dir, won, quar, bits, envVars>>

\* The staging inode is leased before any metadata is written to it.
LeaseStaging(p) ==
    /\ pc[p] = "stageLease"
    /\ CanLease(stg[p])
    /\ Lease(p, stg[p])
    /\ files' = [files EXCEPT ![stg[p]] = @ \cup {"reservation", "expiry"}]
    /\ Goto(p, "publish")
    /\ UNCHANGED <<at, durAt, part, resume, tomb, durTomb, destVars, locals,
                   envVars>>

\* The rename onto the transfer id; a loser keeps its staging directory, with
\* its lease closed, until the call ends.
PublishStaging(p) ==
    /\ pc[p] = "publish"
    /\ at[stg[p]] = "staging"
    /\ IF Live = NoDir
       THEN /\ at' = [at EXCEPT ![stg[p]] = "live"]
            /\ stg' = [stg EXCEPT ![p] = NoDir]
            /\ won' = [won EXCEPT ![p] = TRUE]
            /\ UNCHANGED holder
       ELSE /\ Unlease(p)
            /\ UNCHANGED <<at, stg, won>>
    /\ Goto(p, "syncRoot")
    /\ UNCHANGED <<durAt, files, part, resume, tomb, durTomb, lockFile, destVars, dir, quar,
                   bits, envVars>>

SyncRoot(p) ==
    /\ pc[p] = "syncRoot"
    /\ durAt' = at
    /\ Goto(p, "openChild")
    /\ UNCHANGED <<at, files, part, resume, tomb, durTomb, lockFile, holder, destVars, locals, envVars>>

OpenChild(p) ==
    /\ pc[p] = "openChild"
    /\ Live # NoDir
    /\ dir' = [dir EXCEPT ![p] = Live]
    /\ Goto(p, "readMeta")
    /\ UNCHANGED <<fsVars, destVars, won, stg, quar, bits, envVars>>

ReadReservation(p) ==
    /\ pc[p] = "readMeta"
    /\ "reservation" \in files[dir[p]]
    /\ Goto(p, "lease")
    /\ UNCHANGED <<fsVars, destVars, locals, envVars>>

\* Mutant: a busy lease does not stop the opener.
LeaseTransfer_Ignored(p) ==
    /\ pc[p] = "lease"
    /\ IF ~won[p] /\ CanLease(dir[p])
       THEN Lease(p, dir[p])
       ELSE UNCHANGED <<lockFile, holder>>
    /\ durTomb' = [durTomb EXCEPT ![dir[p]] = tomb[dir[p]]]
    /\ Goto(p, "expiry")
    /\ UNCHANGED <<at, durAt, files, part, resume, tomb, destVars, locals, envVars>>

\* A winner keeps the lease of the directory it published, even if another
\* directory has that name by now.  Then the directory is synced, which also
\* settles a tombstone whose own sync was cut short.
LeaseTransfer(p) ==
    /\ pc[p] = "lease"
    /\ \/ won[p] /\ UNCHANGED <<lockFile, holder>>
       \/ ~won[p] /\ CanLease(dir[p]) /\ Lease(p, dir[p])
    /\ durTomb' = [durTomb EXCEPT ![dir[p]] = tomb[dir[p]]]
    /\ Goto(p, "expiry")
    /\ UNCHANGED <<at, durAt, files, part, resume, tomb, destVars, locals, envVars>>

\* persistExpiry writes expires.at if it is not there.
PersistExpiry(p) ==
    /\ pc[p] = "expiry"
    /\ Linked(dir[p])
    /\ files' = [files EXCEPT ![dir[p]] = @ \cup {"expiry"}]
    /\ Goto(p, "tombstone")
    /\ UNCHANGED <<at, durAt, part, resume, tomb, durTomb, lockFile, holder, destVars, locals, envVars>>

\* Mutant: the tombstone is not looked at.
CheckTombstone_Skipped(p) ==
    /\ pc[p] = "tombstone"
    /\ Goto(p, "load")
    /\ UNCHANGED <<fsVars, destVars, locals, envVars>>

\* verifyConsumed("consumed.state")
CheckTombstone(p) ==
    /\ pc[p] = "tombstone"
    /\ "consumed" \notin tomb[dir[p]]
    /\ Goto(p, "load")
    /\ UNCHANGED <<fsVars, destVars, locals, envVars>>

\* content.part and resume.state are opened or created, every completed chunk
\* is hashed again, and the bitmap is persisted.  A loser must first have
\* removed its staging directory, and cannot (see FailOpen).
LoadState(p) ==
    /\ pc[p] = "load"
    /\ Linked(dir[p])
    /\ stg[p] = NoDir
    /\ LET trusted == resume[dir[p]] \cap part[dir[p]] IN
          /\ bits' = [bits EXCEPT ![p] = trusted]
          /\ resume' = [resume EXCEPT ![dir[p]] = trusted]
    /\ files' = [files EXCEPT ![dir[p]] = @ \cup {"content"}]
    /\ Goto(p, "open")
    /\ UNCHANGED <<at, durAt, part, tomb, durTomb, lockFile, holder, destVars, dir, won, stg,
                   quar, envVars>>

\* Every error return of the above.  A mkdir fails only at the bound.
OpenFails(p) ==
    /\ \/ pc[p] = "mkdir" /\ \A d \in 1 .. setting.dirs : at[d] # "none"
       \/ pc[p] = "stageLease" /\ ~CanLease(stg[p])
       \/ pc[p] = "publish" /\ at[stg[p]] # "staging"
       \/ pc[p] \in {"syncRoot", "lease"} /\ "syncfail" \in setting.faults
       \/ pc[p] = "openChild" /\ Live = NoDir
       \/ pc[p] = "readMeta" /\ "reservation" \notin files[dir[p]]
       \/ pc[p] = "lease" /\ ~won[p] /\ ~CanLease(dir[p])
       \/ pc[p] = "expiry" /\ ~Linked(dir[p])
       \/ pc[p] = "tombstone" /\ "consumed" \in tomb[dir[p]]
       \/ pc[p] = "load" /\ (~Linked(dir[p]) \/ stg[p] # NoDir)
    /\ FailOpen(p)

-----------------------------------------------------------------------------
(* Operations of an open receiver; r.mu makes each a sequence of its own. *)

\* WriteAt, Sync, setBit, persist.  A chunk that is already complete changes
\* nothing; if the directory is gone, persist fails and the bit is cleared.
ReceiveChunk(p) ==
    /\ pc[p] = "open"
    /\ Linked(dir[p])
    /\ \E c \in Chunks \ bits[p] :
          /\ part' = [part EXCEPT ![dir[p]] = @ \cup {c}]
          /\ bits' = [bits EXCEPT ![p] = @ \cup {c}]
          /\ resume' = [resume EXCEPT ![dir[p]] = bits[p] \cup {c}]
    /\ UNCHANGED <<at, durAt, files, tomb, durTomb, lockFile, holder, destVars, pc, dir, won, stg,
                   quar, envVars>>

\* Finalize up to and including stageConsumed: an existing pending tombstone is
\* taken as it is, a new one is published with a directory sync.
FinalizeBegin(p) ==
    /\ pc[p] = "open"
    /\ bits[p] = Chunks
    /\ Linked(dir[p])
    /\ tomb' = [tomb EXCEPT ![dir[p]] = @ \cup {"pending"}]
    /\ \/ /\ durTomb' = IF "pending" \in tomb[dir[p]] THEN durTomb
                        ELSE [durTomb EXCEPT ![dir[p]] = tomb'[dir[p]]]
          /\ Goto(p, "destination")
       \/ /\ "syncfail" \in setting.faults /\ "pending" \notin tomb[dir[p]]
          /\ UNCHANGED <<durTomb, pc>>
    /\ UNCHANGED <<at, durAt, files, part, resume, lockFile, holder, destVars, locals, envVars>>

\* Mutant: the existing destination is taken without a directory barrier.
DestinationExists_NoBarrier(p) ==
    /\ pc[p] = "destination"
    /\ dest = "good"
    /\ tmp' = "absent" /\ tmpBy' = NoProc
    /\ Goto(p, "commit")
    /\ UNCHANGED <<fsVars, dest, durDest, durTmp, locals, envVars>>

\* A file already at the destination is accepted if it has this content.
DestinationExists(p) ==
    /\ pc[p] = "destination"
    /\ dest = "good"
    /\ tmp' = "absent" /\ tmpBy' = NoProc
    /\ Goto(p, "syncCleanup")
    /\ UNCHANGED <<fsVars, dest, durDest, durTmp, locals, envVars>>

\* Mutant: a partial left by a crash is not recognised.
DestinationAbsent_NoRecovery(p) ==
    /\ pc[p] = "destination"
    /\ dest = "absent"
    /\ part[dir[p]] = Chunks
    /\ Goto(p, "create")
    /\ UNCHANGED <<fsVars, destVars, locals, envVars>>

\* The part file hashes right; look at the reserved partial.
DestinationAbsent(p) ==
    /\ pc[p] = "destination"
    /\ dest = "absent"
    /\ part[dir[p]] = Chunks
    /\ Goto(p, CASE tmp = "good" -> "relink" [] tmp = "partial" -> "dropPartial"
                 [] OTHER -> "create")
    /\ UNCHANGED <<fsVars, destVars, locals, envVars>>

DropPartial(p) ==
    /\ pc[p] = "dropPartial"
    /\ tmp # "absent"
    /\ tmp' = "absent" /\ tmpBy' = NoProc
    /\ durTmp' = "absent" /\ durDest' = dest
    /\ Goto(p, "create")
    /\ UNCHANGED <<fsVars, dest, locals, envVars>>

CreatePartial(p) ==
    /\ pc[p] = "create"
    /\ tmp = "absent"
    /\ tmp' = "partial" /\ tmpBy' = p
    /\ Goto(p, "copy")
    /\ UNCHANGED <<fsVars, dest, durDest, durTmp, locals, envVars>>

\* Mutant: the copied bytes are not hashed.
CopyPartial_Unhashed(p) ==
    /\ pc[p] = "copy"
    /\ IF tmpBy = p
       THEN tmp' = (IF part[dir[p]] = Chunks THEN "good" ELSE "partial") /\ tmpBy' = NoProc
       ELSE UNCHANGED <<tmp, tmpBy>>
    /\ Goto(p, "link")
    /\ UNCHANGED <<fsVars, dest, durDest, durTmp, locals, envVars>>

\* The copy is hashed as it is written, and synced.  If somebody removed the
\* name meanwhile, the bytes go to an unlinked file.
CopyPartial(p) ==
    /\ pc[p] = "copy"
    /\ part[dir[p]] = Chunks
    /\ IF tmpBy = p
       THEN tmp' = "good" /\ tmpBy' = NoProc
       ELSE UNCHANGED <<tmp, tmpBy>>
    /\ Goto(p, "link")
    /\ UNCHANGED <<fsVars, dest, durDest, durTmp, locals, envVars>>

\* Mutant: published by a rename that replaces what is there.
LinkDestination_Replaces(p) ==
    /\ pc[p] \in {"link", "relink"}
    /\ tmp # "absent"
    /\ dest' = tmp
    /\ Goto(p, "syncLink")
    /\ UNCHANGED <<fsVars, durDest, tmp, durTmp, tmpBy, locals, envVars>>

\* Link never overwrites.  In the recovery path it may find its own result.
LinkDestination(p) ==
    /\ \/ /\ pc[p] \in {"link", "relink"}
          /\ tmp # "absent" /\ dest = "absent"
          /\ dest' = tmp
       \/ /\ pc[p] = "relink"
          /\ dest = "good"
          /\ UNCHANGED dest
    /\ Goto(p, "syncLink")
    /\ UNCHANGED <<fsVars, durDest, tmp, durTmp, tmpBy, locals, envVars>>

\* The directory barrier, then verifyRootFile of the published name.
SyncLink(p) ==
    /\ pc[p] = "syncLink"
    /\ dest = "good"
    /\ durDest' = dest /\ durTmp' = tmp
    /\ Goto(p, "removePartial")
    /\ UNCHANGED <<fsVars, dest, tmp, tmpBy, locals, envVars>>

RemovePartial(p) ==
    /\ pc[p] = "removePartial"
    /\ tmp # "absent"
    /\ tmp' = "absent" /\ tmpBy' = NoProc
    /\ Goto(p, "syncCleanup")
    /\ UNCHANGED <<fsVars, dest, durDest, durTmp, locals, envVars>>

SyncCleanup(p) ==
    /\ pc[p] = "syncCleanup"
    /\ durDest' = dest /\ durTmp' = tmp
    /\ Goto(p, "commit")
    /\ UNCHANGED <<fsVars, dest, tmp, tmpBy, locals, envVars>>

\* finalizeStateLocked: commitConsumed renames the pending tombstone ...
CommitTombstone(p) ==
    /\ pc[p] = "commit"
    /\ Linked(dir[p])
    /\ IF "consumed" \in tomb[dir[p]]
       THEN UNCHANGED tomb /\ Goto(p, "removeState")
       ELSE /\ "pending" \in tomb[dir[p]]
            /\ tomb' = [tomb EXCEPT ![dir[p]] = {"consumed"}]
            /\ Goto(p, "syncCommit")
    /\ UNCHANGED <<at, durAt, files, part, resume, durTomb, lockFile, holder, destVars, locals, envVars>>

SyncCommit(p) ==
    /\ pc[p] = "syncCommit"
    /\ durTomb' = [durTomb EXCEPT ![dir[p]] = tomb[dir[p]]]
    /\ Goto(p, "removeState")
    /\ UNCHANGED <<at, durAt, files, part, resume, tomb, lockFile, holder, destVars, locals, envVars>>

\* ... and the content goes only after that.
RemoveFinalizedState(p) ==
    /\ pc[p] = "removeState"
    /\ part' = [part EXCEPT ![dir[p]] = {}]
    /\ resume' = [resume EXCEPT ![dir[p]] = {}]
    /\ tomb' = [tomb EXCEPT ![dir[p]] = @ \ {"pending"}]
    /\ files' = [files EXCEPT ![dir[p]] = @ \ {"content"}]
    /\ Goto(p, "syncState")
    /\ UNCHANGED <<at, durAt, durTomb, lockFile, holder, destVars, locals,
                   envVars>>

FinalizeEnd(p) ==
    /\ pc[p] = "syncState"
    /\ Linked(dir[p])
    /\ durTomb' = [durTomb EXCEPT ![dir[p]] = tomb[dir[p]]]
    /\ delivered' = TRUE
    /\ Goto(p, "finalized")
    /\ UNCHANGED <<at, durAt, files, part, resume, tomb, lockFile, holder, destVars, locals, expired, crashes,
                   setting>>

\* Every error return of Finalize leaves the receiver open.  The partial this
\* call created is removed by name unless it was linked.
FinalizeFails(p) ==
    /\ \/ /\ \/ pc[p] = "destination" /\ dest \in {"foreign", "partial"}
             \/ pc[p] = "destination" /\ dest = "absent" /\ part[dir[p]] # Chunks
             \/ pc[p] = "relink" /\ dest # "good" /\ (tmp = "absent" \/ dest # "absent")
             \/ pc[p] = "dropPartial" /\ tmp = "absent"
             \/ pc[p] = "create" /\ tmp # "absent"
             \/ pc[p] = "syncLink" /\ (dest # "good" \/ "syncfail" \in setting.faults)
             \/ pc[p] = "removePartial" /\ tmp = "absent"
             \/ pc[p] = "commit" /\ (~Linked(dir[p]) \/ tomb[dir[p]] = {})
             \/ pc[p] \in {"syncCleanup", "syncCommit", "syncState"} /\ "syncfail" \in setting.faults
             \/ pc[p] = "syncState" /\ ~Linked(dir[p])
          /\ UNCHANGED <<tmp, tmpBy>>
       \/ /\ \/ pc[p] = "dropPartial" /\ "syncfail" \in setting.faults
             \/ pc[p] = "copy" /\ part[dir[p]] # Chunks
             \/ pc[p] = "link" /\ (tmp = "absent" \/ dest # "absent")
          /\ tmp' = "absent" /\ tmpBy' = NoProc
    /\ Goto(p, "open")
    /\ UNCHANGED <<fsVars, dest, durDest, durTmp, locals, envVars>>

\* Mutant: the handle on the directory survives.
Close_KeepsHandle(p) ==
    /\ pc[p] \in {"open", "finalized"}
    /\ Unlease(p)
    /\ Goto(p, "idle")
    /\ UNCHANGED <<at, durAt, files, part, resume, tomb, durTomb, lockFile, destVars, locals,
                   envVars>>

\* Close gives up the lease and every handle; what is on disk can be resumed.
Close(p) ==
    /\ pc[p] \in {"open", "finalized"}
    /\ Unlease(p)
    /\ Goto(p, "idle")
    /\ Forget(p)
    /\ UNCHANGED <<at, durAt, files, part, resume, tomb, durTomb, lockFile, destVars, envVars>>

-----------------------------------------------------------------------------
(* Cancel, collectOne and collectResidual: quarantine, empty, remove. *)

\* The canonical name is renamed, whatever directory it names by then.
Quarantine(p) ==
    /\ at' = [at EXCEPT ![Live] = "quarantine"]
    /\ quar' = [quar EXCEPT ![p] = Live]

Cancel(p) ==
    /\ \/ pc[p] = "open" /\ "cancel" \in setting.ops
       \/ pc[p] = "finalized" /\ "cancelFinalized" \in setting.ops
    /\ Live # NoDir
    /\ Quarantine(p)
    /\ Goto(p, "cancelSync")
    /\ UNCHANGED <<durAt, files, part, resume, tomb, durTomb, lockFile, holder, destVars, dir,
                   won, stg, bits, envVars>>

\* collectOne: open the directory at the id and lease it; expired only then.
CollectBegin(p) ==
    /\ "gc" \in setting.ops
    /\ pc[p] = "idle" /\ p \in setting.procs
    /\ Live # NoDir
    /\ dir' = [dir EXCEPT ![p] = Live]
    /\ Goto(p, "collectLease")
    /\ UNCHANGED <<fsVars, destVars, won, stg, quar, bits, envVars>>

CollectLease(p) ==
    /\ pc[p] = "collectLease"
    /\ CanLease(dir[p])
    /\ Lease(p, dir[p])
    /\ Goto(p, "collectCheck")
    /\ UNCHANGED <<at, durAt, files, part, resume, tomb, durTomb, destVars, locals, envVars>>

CollectQuarantine(p) ==
    /\ pc[p] = "collectCheck"
    /\ "expiry" \in files[dir[p]] /\ expired
    /\ Live # NoDir
    /\ Quarantine(p)
    /\ Goto(p, "collectSync")
    /\ UNCHANGED <<durAt, files, part, resume, tomb, durTomb, lockFile, holder, destVars, dir,
                   won, stg, bits, envVars>>

\* collectResidual: a quarantined directory, or a staging one old enough.
\* Without clock skew no directory of a running opener is that old.
CollectResidual(p) ==
    /\ "gc" \in setting.ops
    /\ pc[p] = "idle" /\ p \in setting.procs
    /\ \E d \in Dirs :
          /\ \/ at[d] = "quarantine"
             \/ /\ at[d] = "staging"
                /\ "skew" \in setting.faults \/ \A q \in Procs : stg[q] # d
          /\ dir' = [dir EXCEPT ![p] = d]
          /\ quar' = [quar EXCEPT ![p] = d]
          /\ Goto(p, IF at[d] = "staging" THEN "stagingLease" ELSE "residualLease")
    /\ UNCHANGED <<fsVars, destVars, won, stg, bits, envVars>>

\* validateResidualContent: what has content was no mere staging directory.
Unpublished(d) == "content" \notin files[d] /\ tomb[d] = {}

ResidualLease(p) ==
    /\ \/ pc[p] = "residualLease"
       \/ pc[p] = "stagingLease" /\ Unpublished(dir[p])
    /\ CanLease(dir[p])
    /\ Lease(p, dir[p])
    /\ Goto(p, "empty")
    /\ UNCHANGED <<at, durAt, files, part, resume, tomb, durTomb, destVars, locals, envVars>>

\* Mutant: the content is destroyed while the rename may still be undone.
SyncQuarantine_Skipped(p) ==
    /\ pc[p] \in {"cancelSync", "collectSync"}
    /\ Goto(p, "empty")
    /\ UNCHANGED <<fsVars, destVars, locals, envVars>>

\* The quarantine rename must be durable before anything is destroyed.
SyncQuarantine(p) ==
    /\ pc[p] \in {"cancelSync", "collectSync"}
    /\ durAt' = at
    /\ Goto(p, "empty")
    /\ UNCHANGED <<at, files, part, resume, tomb, durTomb, lockFile, holder, destVars, locals,
                   envVars>>

\* If the sync fails, Cancel keeps the content and only releases, collectOne
\* stops.
SyncQuarantineFails(p) ==
    /\ "syncfail" \in setting.faults
    /\ \/ /\ pc[p] = "cancelSync"
          /\ Goto(p, "release")
          /\ UNCHANGED <<holder, locals>>
       \/ /\ pc[p] = "collectSync"
          /\ Unlease(p)
          /\ Goto(p, "idle")
          /\ Forget(p)
    /\ UNCHANGED <<at, durAt, files, part, resume, tomb, durTomb, lockFile, destVars, envVars>>

\* removeStateContent keeps transfer.lock only.
EmptyDirectory(p) ==
    /\ pc[p] = "empty"
    /\ files' = [files EXCEPT ![dir[p]] = {}]
    /\ part' = [part EXCEPT ![dir[p]] = {}]
    /\ resume' = [resume EXCEPT ![dir[p]] = {}]
    /\ tomb' = [tomb EXCEPT ![dir[p]] = {}]
    /\ durTomb' = [durTomb EXCEPT ![dir[p]] = {}]
    /\ Goto(p, "release")
    /\ UNCHANGED <<at, durAt, lockFile, holder, destVars, locals, envVars>>

ReleaseLease(p) ==
    /\ pc[p] = "release"
    /\ Unlease(p)
    /\ Goto(p, "unlink")
    /\ UNCHANGED <<at, durAt, files, part, resume, tomb, durTomb, lockFile, destVars, locals, envVars>>

\* transferRoot.Remove("transfer.lock"): a flock another process has on the
\* unlinked file no longer excludes anyone.
UnlinkLock(p) ==
    /\ pc[p] = "unlink"
    /\ lockFile' = [lockFile EXCEPT ![dir[p]] = FALSE]
    /\ holder' = [holder EXCEPT ![dir[p]] = NoProc]
    /\ Goto(p, "rmdir")
    /\ UNCHANGED <<at, durAt, files, part, resume, tomb, durTomb, destVars, locals, envVars>>

Empty(d) == ~lockFile[d] /\ files[d] = {} /\ tomb[d] = {}

\* rmdir fails on a directory that is not empty: it stays in quarantine, and
\* only Cancel syncs the root after that.
RemoveDirectory(p) ==
    /\ pc[p] = "rmdir"
    /\ IF Empty(quar[p])
       THEN at' = [at EXCEPT ![quar[p]] = "gone"] /\ durAt' = at'
       ELSE UNCHANGED at /\ durAt' \in {at, durAt}
    /\ Goto(p, "idle")
    /\ Forget(p)
    /\ UNCHANGED <<files, part, resume, tomb, durTomb, lockFile, holder, destVars, envVars>>

\* Every early return of the collector.
CollectFails(p) ==
    /\ \/ pc[p] \in {"collectLease", "residualLease", "stagingLease"} /\ ~CanLease(dir[p])
       \/ pc[p] = "stagingLease" /\ ~Unpublished(dir[p])
       \/ pc[p] = "collectCheck" /\ ("expiry" \notin files[dir[p]] \/ ~expired \/ Live = NoDir)
    /\ Unlease(p)
    /\ Goto(p, "idle")
    /\ Forget(p)
    /\ UNCHANGED <<at, durAt, files, part, resume, tomb, durTomb, lockFile, destVars, envVars>>

-----------------------------------------------------------------------------
(* The environment. *)

Expire ==
    /\ "gc" \in setting.ops
    /\ ~expired
    /\ expired' = TRUE
    /\ UNCHANGED <<fsVars, destVars, procVars, delivered, crashes, setting>>

\* Bytes of content.part change on disk.
Rot ==
    /\ "rot" \in setting.faults
    /\ \E d \in Dirs, c \in Chunks :
          /\ c \in part[d]
          /\ part' = [part EXCEPT ![d] = @ \ {c}]
    /\ UNCHANGED <<at, durAt, files, resume, tomb, durTomb, lockFile, holder, destVars,
                   procVars, envVars>>

\* The user puts a file of the same name into the destination.
ForeignFile ==
    /\ "foreign" \in setting.faults
    /\ dest = "absent"
    /\ dest' = "foreign" /\ durDest' = "foreign"
    /\ UNCHANGED <<fsVars, tmp, durTmp, tmpBy, procVars, envVars>>

\* A process dies: its flocks go, what it wrote stays visible.
Kill(p) ==
    /\ "kill" \in setting.faults
    /\ crashes < setting.crashes
    /\ crashes' = crashes + 1
    /\ pc[p] # "idle"
    /\ Unlease(p)
    /\ tmpBy' = IF tmpBy = p THEN NoProc ELSE tmpBy
    /\ Goto(p, "idle")
    /\ Forget(p)
    /\ UNCHANGED <<at, durAt, files, part, resume, tomb, durTomb, lockFile, dest, durDest, tmp,
                   durTmp, expired, delivered, setting>>

\* The machine dies: each name that was not synced is the old or the new one.
PowerLoss ==
    /\ "power" \in setting.faults
    /\ crashes < setting.crashes
    /\ crashes' = crashes + 1
    /\ \E undone \in SUBSET {d \in Dirs : at[d] # durAt[d]} :
          LET names == [d \in Dirs |-> IF d \in undone THEN durAt[d] ELSE at[d]] IN
          /\ Cardinality({d \in Dirs : names[d] = "live"}) <= 1
          /\ at' = names /\ durAt' = names
          /\ files' = [d \in Dirs |-> IF names[d] = "none" THEN {} ELSE files[d]]
          /\ lockFile' = [d \in Dirs |-> names[d] # "none" /\ lockFile[d]]
    /\ \E undone \in SUBSET {d \in Dirs : tomb[d] # durTomb[d]} :
          /\ tomb' = [d \in Dirs |-> IF d \in undone THEN durTomb[d] ELSE tomb[d]]
          /\ durTomb' = tomb'
    /\ dest' \in {dest, durDest} /\ durDest' = dest'
    /\ tmp' \in {tmp, durTmp} /\ durTmp' = tmp'
    /\ tmpBy' = NoProc
    /\ holder' = [d \in Dirs |-> NoProc]
    /\ pc' = [p \in Procs |-> "idle"]
    /\ dir' = [p \in Procs |-> NoDir] /\ stg' = dir' /\ quar' = dir'
    /\ won' = [p \in Procs |-> FALSE]
    /\ bits' = [p \in Procs |-> {}]
    /\ UNCHANGED <<part, resume, expired, delivered, setting>>

-----------------------------------------------------------------------------

Open(p) ==
    \/ OpenBegin(p) \/ MakeStaging(p) \/ LeaseStaging(p) \/ PublishStaging(p) \/ SyncRoot(p)
    \/ OpenChild(p) \/ ReadReservation(p) \/ LeaseTransfer(p) \/ CheckTombstone(p)
    \/ LoadState(p) \/ PersistExpiry(p) \/ OpenFails(p)

Finalize(p) ==
    \/ FinalizeBegin(p) \/ DestinationExists(p) \/ DestinationAbsent(p) \/ DropPartial(p)
    \/ CreatePartial(p) \/ CopyPartial(p) \/ LinkDestination(p) \/ SyncLink(p)
    \/ RemovePartial(p) \/ SyncCleanup(p) \/ CommitTombstone(p) \/ SyncCommit(p)
    \/ RemoveFinalizedState(p) \/ FinalizeEnd(p) \/ FinalizeFails(p)

Destroy(p) ==
    \/ Cancel(p) \/ CollectBegin(p) \/ CollectLease(p) \/ CollectQuarantine(p)
    \/ CollectResidual(p) \/ ResidualLease(p) \/ SyncQuarantine(p) \/ SyncQuarantineFails(p)
    \/ EmptyDirectory(p) \/ ReleaseLease(p) \/ UnlinkLock(p) \/ RemoveDirectory(p)
    \/ CollectFails(p)

Next ==
    \/ \E p \in Procs :
          Open(p) \/ ReceiveChunk(p) \/ Finalize(p) \/ Close(p) \/ Destroy(p) \/ Kill(p)
    \/ Expire \/ Rot \/ ForeignFile \/ PowerLoss

Spec == Init /\ [][Next]_vars

\* A call that has begun goes on until it returns.  The caller opens an
\* undelivered offer again, and however often it closes the receiver, it keeps
\* offering the missing chunks and then finalizes.  Faults are never obliged.
FairSpec ==
    /\ Spec
    /\ \A p \in Procs :
          /\ WF_vars(Open(p))
          /\ WF_vars(pc[p] # "open" /\ Finalize(p))
          /\ SF_vars(ReceiveChunk(p))
          /\ SF_vars(FinalizeBegin(p))

-----------------------------------------------------------------------------
(* Correctness. *)

\* Types; and a process outside any call holds no handle of a finished one
\* (Close and every error return drop them all).
TypeOK ==
    /\ at \in [Dirs -> Places] /\ durAt \in [Dirs -> Places]
    /\ files \in [Dirs -> SUBSET {"reservation", "expiry", "content"}]
    /\ part \in [Dirs -> SUBSET Chunks] /\ resume \in [Dirs -> SUBSET Chunks]
    /\ tomb \in [Dirs -> SUBSET {"pending", "consumed"}]
    /\ durTomb \in [Dirs -> SUBSET {"pending", "consumed"}]
    /\ lockFile \in [Dirs -> BOOLEAN]
    /\ holder \in [Dirs -> Procs \cup {NoProc}]
    /\ {dest, durDest} \subseteq {"absent", "foreign", "partial", "good"}
    /\ {tmp, durTmp} \subseteq {"absent", "partial", "good"}
    /\ tmpBy \in Procs \cup {NoProc}
    /\ dir \in [Procs -> Dirs \cup {NoDir}] /\ stg \in [Procs -> Dirs \cup {NoDir}]
    /\ quar \in [Procs -> Dirs \cup {NoDir}]
    /\ won \in [Procs -> BOOLEAN]
    /\ bits \in [Procs -> SUBSET Chunks]
    /\ expired \in BOOLEAN /\ delivered \in BOOLEAN
    /\ crashes <= setting.crashes
    /\ \A p \in Procs : pc[p] = "idle" =>
          dir[p] = NoDir /\ stg[p] = NoDir /\ quar[p] = NoDir /\ bits[p] = {} /\ ~won[p]

\* A tombstone that may be on disk has the delivered file on disk behind it: no
\* crash leaves an offer refused as completed whose file is lost (Finalize
\* crosses the destination's directory barrier before commitConsumed).
TombstoneBacked ==
    \A d \in Dirs : "consumed" \in tomb[d] \cup durTomb[d] => durDest = "good"

\* Whatever of the two names survives a power loss, a directory the transfer
\* would be resumed from still has its reservation and its expiry (Cancel and
\* collectOne quarantine durably before they destroy).
CanonicalIsWhole ==
    \A d \in Dirs : "live" \in {at[d], durAt[d]} => {"reservation", "expiry"} \subseteq files[d]

\* Nothing but the verified content is ever visible under the destination name,
\* whatever rots on disk between ReceiveChunk and Finalize.
PublishedIsVerified == dest # "partial" /\ durDest # "partial"

\* A file the user has under that name is never replaced (Finalize links).
NoOverwrite == [][dest = "foreign" => dest' = "foreign"]_vars

\* The processes inside OpenReceiver's result.
Receiving == {"open", "destination", "dropPartial", "create", "copy", "link", "relink",
              "syncLink", "removePartial", "syncCleanup", "commit", "syncCommit",
              "removeState", "syncState", "finalized"}

\* A receiver has the one lease on the directory it works in, so that no other
\* process can lease it and write there too (acquireTransferLease).
LeaseHolds == \A p \in Procs : pc[p] \in Receiving => holder[dir[p]] = p

\* After a successful Finalize no receiver for the same offer opens again, in
\* any process, after any crash (the consumed tombstone).
\* Cancelling a finalized receiver is the one way to forget a tombstone.
NoReplay ==
    [][\A p \in Procs : delivered /\ pc[p] = "load" /\ "cancelFinalized" \notin setting.ops
          => pc'[p] # "open"]_vars

\* Delivery speaks of an offer nobody withdraws.
Kept == setting.ops = {}
D == INSTANCE Delivery WITH
        published <- Kept /\ durDest = "good",
        consumed <- Kept /\ \E d \in Dirs : durAt[d] = "live" /\ "consumed" \in durTomb[d]

\* Finalize, for all the crashes that may cut it short, publishes once and
\* consumes after that.
DeliverySpec == D!Spec

\* ... and every transfer is delivered in the end, from whatever state a crash
\* left behind.
DeliveryLive == D!FairSpec

-----------------------------------------------------------------------------
\* The state is well formed, and every receiver has the lease on its directory
\* (acquireTransferLease, through staging, publishing, quarantine and collection).
Leased == TypeOK /\ LeaseHolds

\* Whatever of two names a crash keeps, the offer is neither lost nor open for
\* resumption without what a resumption needs (Finalize, Cancel, collectOne).
CrashSafe == TombstoneBacked /\ CanonicalIsWhole

\* The destination is written once, and only where there was nothing (Finalize).
DestinationKept == NoReplay /\ NoOverwrite
=============================================================================
