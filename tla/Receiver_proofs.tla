---------------------------- MODULE Receiver_proofs ----------------------------
(***************************************************************************)
(* Proofs about the receiver of an offer that nobody withdraws, for any     *)
(* number of processes, chunks and directories, and any crashes, failing    *)
(* syncs, rotten bytes and files of the user.                               *)
(*                                                                          *)
(* Everything rests on there being one canonical directory at a time, which *)
(* stays canonical once its name is durable, and on its lease: of all the   *)
(* processes that have come as far as the lease one works there, so that    *)
(* what it found out about the partial, the destination and the tombstone   *)
(* in one step is still so in the next.                                     *)
(***************************************************************************)
EXTENDS Receiver, TLAPS

\* Where a process may be that neither cancels nor collects.
AtWork == {"expiry", "tombstone", "load"} \cup Receiving
Opened == {"readMeta", "lease"} \cup AtWork
Found == {"syncRoot", "openChild"} \cup Opened
Staging == {"stageLease", "publish", "syncRoot", "openChild", "readMeta", "lease", "expiry",
            "tombstone", "load"}
Committed == {"syncCommit", "removeState", "syncState", "finalized"}
Stages == {"idle", "mkdir", "stageLease", "publish"} \cup Found

Typed ==
    /\ TypeOK
    /\ setting \in Settings /\ setting.ops = {} /\ crashes \in Nat
    /\ pc \in [Procs -> Stages]

\* There is one canonical directory, which stays it when that is durable, and
\* only such a one has a tombstone.
Named ==
    /\ \A d \in Dirs : {at[d], durAt[d]} \subseteq {"none", "staging", "live"}
    /\ \A d, e \in Dirs : at[d] = "live" /\ at[e] = "live" => d = e
    /\ \A d \in Dirs :
          /\ durAt[d] = "live" => at[d] = "live"
          /\ at[d] = "live" => {"reservation", "expiry"} \subseteq files[d]
          /\ tomb[d] \cup durTomb[d] # {} => durAt[d] = "live"
          /\ "consumed" \in durTomb[d] => "consumed" \in tomb[d]

\* A staging directory is its maker's own until it is published.
Staged ==
    /\ \A p \in Procs :
          /\ pc[p] \in {"stageLease", "publish"} => stg[p] # NoDir
          /\ stg[p] # NoDir => pc[p] \in Staging /\ at[stg[p]] = "staging"
          /\ pc[p] = "publish" => /\ {"reservation", "expiry"} \subseteq files[stg[p]]
                                  /\ holder[stg[p]] = p
    /\ \A p, q \in Procs : stg[p] = stg[q] /\ stg[p] # NoDir => p = q

\* Who has found the canonical directory finds it again, and works in it alone.
Opening ==
    \A p \in Procs :
        /\ pc[p] \in Found => \E d \in Dirs : at[d] = "live"
        /\ pc[p] = "openChild" => \E d \in Dirs : durAt[d] = "live"
        /\ pc[p] \in Opened => dir[p] \in Dirs /\ durAt[dir[p]] = "live"
        /\ pc[p] \in AtWork => holder[dir[p]] = p
        /\ won[p] => pc[p] \in Found /\ \A d \in Dirs : at[d] = "live" => holder[d] = p

\* What the one at work has made sure of.
Publishing ==
    /\ {dest, durDest} \subseteq {"absent", "foreign", "good"}
    /\ durDest = "good" => dest = "good"
    /\ dest = "foreign" => durDest = "foreign"
    /\ \A p \in Procs :
          /\ pc[p] = "copy" => tmpBy = p
          /\ pc[p] \in {"link", "relink"} => tmp = "good"
          /\ pc[p] \in {"syncLink", "removePartial", "syncCleanup"} => dest = "good"

\* The tombstone comes after the destination, and stays.
Consuming ==
    /\ \A p \in Procs :
          /\ pc[p] \in {"commit"} \cup Committed => durDest = "good"
          /\ pc[p] \in Committed => "consumed" \in tomb[dir[p]]
          /\ pc[p] = "load" => "consumed" \notin tomb[dir[p]]
    /\ \A d \in Dirs : "consumed" \in tomb[d] => durDest = "good"
    /\ delivered => \E d \in Dirs : durAt[d] = "live" /\ "consumed" \in durTomb[d]

ReceiverInv == Typed /\ Named /\ Staged /\ Opening /\ Publishing /\ Consuming

\* Places are told apart by the sets they are in.
USE DEF AtWork, Opened, Found, Staging, Committed, Stages, Receiving

LEMMA LiveIs ==
    /\ \A d \in Dirs : at[d] = "live" => Live \in Dirs /\ at[Live] = "live"
    /\ Live # NoDir => Live \in Dirs /\ at[Live] = "live"
    /\ Live = NoDir => \A d \in Dirs : at[d] # "live"
<1>1. NoDir \notin Dirs
  BY BoundsAssumption DEF NoDir, Dirs
<1>. QED
  BY <1>1 DEF Live

LEMMA SettingShape ==
    ASSUME Typed
    PROVE  /\ setting.procs \subseteq Procs /\ setting.crashes \in Nat
           /\ 1 .. setting.dirs \subseteq Dirs
BY BoundsAssumption DEF Typed, Setting, Dirs

\* One process at a time is at work: the lease of the canonical directory is its.
LEMMA OneAtWork ==
    ASSUME Named, Opening, NEW p \in Procs, NEW q \in Procs, pc[p] \in AtWork, pc[q] \in AtWork
    PROVE  p = q
BY DEF Named, Opening

-----------------------------------------------------------------------------
(* The directory is opened. *)

LEMMA OpenBeginStep ==
    ASSUME ReceiverInv, NEW p \in Procs, OpenBegin(p)
    PROVE  ReceiverInv'
<1>. USE DEF Typed, TypeOK, OpenBegin, Goto, fsVars, destVars, locals, envVars
<1>0. Typed /\ Named /\ Staged /\ Opening /\ Publishing /\ Consuming
  BY DEF ReceiverInv
<1>1. Typed'
  BY <1>0, LiveIs DEF Opening
<1>2. Named'
  BY <1>0, LiveIs DEF Named, Opening
<1>3. Staged'
  BY <1>0, LiveIs DEF Staged, Named, Opening
<1>4. Opening'
  BY <1>0, LiveIs DEF Opening, Named
<1>5. Publishing'
  BY <1>0, LiveIs DEF Publishing
<1>6. Consuming'
  BY <1>0, LiveIs DEF Consuming, Named, Opening, Publishing
<1>. QED
  BY <1>1, <1>2, <1>3, <1>4, <1>5, <1>6 DEF ReceiverInv

LEMMA MakeStagingStep ==
    ASSUME ReceiverInv, NEW p \in Procs, MakeStaging(p)
    PROVE  ReceiverInv'
<1>. USE DEF Goto, destVars, envVars
<1>0. Typed /\ Named /\ Staged /\ Opening /\ Publishing /\ Consuming
  BY DEF ReceiverInv
<1>1. PICK d \in Dirs : /\ at[d] = "none" /\ d # NoDir
                        /\ at' = [at EXCEPT ![d] = "staging"]
                        /\ stg' = [stg EXCEPT ![p] = d]
  <2>1. \A d \in Dirs : d # NoDir
    BY BoundsAssumption DEF Dirs, NoDir
  <2>. QED
    BY <1>0, <2>1, SettingShape DEF MakeStaging
<1>2. /\ pc[p] = "mkdir" /\ Goto(p, "stageLease")
      /\ UNCHANGED <<durAt, files, part, resume, tomb, durTomb, lockFile, holder, destVars,
                     dir, won, quar, bits, envVars>>
  BY DEF MakeStaging
<1>3. Typed'
  BY <1>0, <1>1, <1>2 DEF Typed, TypeOK, Places
<1>4. Named'
  BY <1>0, <1>1, <1>2 DEF Named, Typed, TypeOK
<1>5. Staged'
  BY <1>0, <1>1, <1>2 DEF Staged, Typed, TypeOK
<1>6. Opening'
  BY <1>0, <1>1, <1>2 DEF Named, Opening, Typed, TypeOK
<1>7. Publishing' /\ Consuming'
  BY <1>0, <1>1, <1>2 DEF Publishing, Consuming, Typed, TypeOK
<1>. QED
  BY <1>3, <1>4, <1>5, <1>6, <1>7 DEF ReceiverInv

LEMMA LeaseStagingStep ==
    ASSUME ReceiverInv, NEW p \in Procs, LeaseStaging(p)
    PROVE  ReceiverInv'
<1>. USE DEF Goto, fsVars, destVars, locals, envVars
<1>0. Typed /\ Named /\ Staged /\ Opening /\ Publishing /\ Consuming
  BY DEF ReceiverInv
<1>. PICK d \in Dirs : d = stg[p] /\ d # NoDir
  BY <1>0 DEF LeaseStaging, Staged, Typed, TypeOK
<1>1. /\ pc[p] = "stageLease" /\ at[d] = "staging" /\ holder[d] = NoProc
      /\ lockFile' = [lockFile EXCEPT ![d] = TRUE] /\ holder' = [holder EXCEPT ![d] = p]
      /\ files' = [files EXCEPT ![d] = @ \cup {"reservation", "expiry"}]
      /\ Goto(p, "publish")
      /\ UNCHANGED <<at, durAt, part, resume, tomb, durTomb, destVars, locals, envVars>>
  BY <1>0 DEF LeaseStaging, CanLease, Lease, Staged
<1>2. Typed'
  BY <1>0, <1>1 DEF Typed, TypeOK
<1>3. Named'
  BY <1>0, <1>1 DEF Named, Typed, TypeOK
<1>4. Staged'
  BY <1>0, <1>1 DEF Staged, Typed, TypeOK
<1>5. Opening'
  BY <1>0, <1>1 DEF Named, Opening, Typed, TypeOK
<1>6. Publishing' /\ Consuming'
  BY <1>0, <1>1 DEF Publishing, Consuming, Typed, TypeOK
<1>. QED
  BY <1>2, <1>3, <1>4, <1>5, <1>6 DEF ReceiverInv

LEMMA PublishStagingStep ==
    ASSUME ReceiverInv, NEW p \in Procs, PublishStaging(p)
    PROVE  ReceiverInv'
<1>. USE DEF Goto, destVars, envVars
<1>0. Typed /\ Named /\ Staged /\ Opening /\ Publishing /\ Consuming
  BY DEF ReceiverInv
<1>. PICK d \in Dirs : d = stg[p] /\ d # NoDir
  BY <1>0 DEF PublishStaging, Staged, Typed, TypeOK
<1>1. /\ pc[p] = "publish" /\ at[d] = "staging" /\ Goto(p, "syncRoot")
      /\ UNCHANGED <<durAt, files, part, resume, tomb, durTomb, lockFile, destVars, dir, quar,
                     bits, envVars>>
      /\ {"reservation", "expiry"} \subseteq files[d] /\ holder[d] = p
  BY <1>0 DEF PublishStaging, Staged
<1>2. CASE /\ \A e \in Dirs : at[e] # "live"
           /\ at' = [at EXCEPT ![d] = "live"]
           /\ stg' = [stg EXCEPT ![p] = NoDir]
           /\ won' = [won EXCEPT ![p] = TRUE]
           /\ UNCHANGED holder
  <2>1. Typed'
    BY <1>0, <1>1, <1>2 DEF Typed, TypeOK, Places
  <2>2. Named'
    BY <1>0, <1>1, <1>2 DEF Named, Typed, TypeOK
  <2>3. Staged'
    BY <1>0, <1>1, <1>2 DEF Staged, Typed, TypeOK
  <2>4. Opening'
    BY <1>0, <1>1, <1>2 DEF Opening, Typed, TypeOK
  <2>5. Publishing' /\ Consuming'
    BY <1>0, <1>1, <1>2 DEF Publishing, Consuming, Typed, TypeOK
  <2>. QED
    BY <2>1, <2>2, <2>3, <2>4, <2>5 DEF ReceiverInv
<1>3. CASE /\ \E e \in Dirs : at[e] = "live"
           /\ Unlease(p)
           /\ UNCHANGED <<at, stg, won>>
  <2>1. Typed'
    BY <1>0, <1>1, <1>3 DEF Typed, TypeOK, Unlease
  <2>2. Named' /\ Staged'
    BY <1>0, <1>1, <1>3 DEF Named, Staged, Typed, TypeOK, Unlease
  <2>3. Opening'
    BY <1>0, <1>1, <1>3 DEF Opening, Typed, TypeOK, Unlease
  <2>4. Publishing' /\ Consuming'
    BY <1>0, <1>1, <1>3 DEF Publishing, Consuming, Typed, TypeOK
  <2>. QED
    BY <2>1, <2>2, <2>3, <2>4 DEF ReceiverInv
<1>. QED
  BY <1>2, <1>3, LiveIs DEF PublishStaging

LEMMA SyncRootStep ==
    ASSUME ReceiverInv, NEW p \in Procs, SyncRoot(p)
    PROVE  ReceiverInv'
<1>. USE DEF Typed, TypeOK, SyncRoot, Goto, destVars, locals, envVars
<1>0. Typed /\ Named /\ Staged /\ Opening /\ Publishing /\ Consuming
  BY DEF ReceiverInv
<1>1. Typed'
  BY <1>0, LiveIs DEF Opening
<1>2. Named'
  BY <1>0, LiveIs DEF Named, Opening
<1>3. Staged'
  BY <1>0, LiveIs DEF Staged, Named, Opening
<1>4. Opening'
  BY <1>0, LiveIs DEF Opening, Named
<1>5. Publishing'
  BY <1>0, LiveIs DEF Publishing
<1>6. Consuming'
  BY <1>0, LiveIs DEF Consuming, Named, Opening, Publishing
<1>. QED
  BY <1>1, <1>2, <1>3, <1>4, <1>5, <1>6 DEF ReceiverInv

LEMMA OpenChildStep ==
    ASSUME ReceiverInv, NEW p \in Procs, OpenChild(p)
    PROVE  ReceiverInv'
<1>. USE DEF Typed, TypeOK, OpenChild, Goto, fsVars, destVars, envVars
<1>0. Typed /\ Named /\ Staged /\ Opening /\ Publishing /\ Consuming
  BY DEF ReceiverInv
<1>1. Typed'
  BY <1>0, LiveIs DEF Opening
<1>2. Named'
  BY <1>0, LiveIs DEF Named, Opening
<1>3. Staged'
  BY <1>0, LiveIs DEF Staged, Named, Opening
<1>4. Opening'
  BY <1>0, LiveIs DEF Opening, Named
<1>5. Publishing'
  BY <1>0, LiveIs DEF Publishing
<1>6. Consuming'
  BY <1>0, LiveIs DEF Consuming, Named, Opening, Publishing
<1>. QED
  BY <1>1, <1>2, <1>3, <1>4, <1>5, <1>6 DEF ReceiverInv

LEMMA ReadReservationStep ==
    ASSUME ReceiverInv, NEW p \in Procs, ReadReservation(p)
    PROVE  ReceiverInv'
<1>. USE DEF Typed, TypeOK, ReadReservation, Goto, fsVars, destVars, locals, envVars
<1>0. Typed /\ Named /\ Staged /\ Opening /\ Publishing /\ Consuming
  BY DEF ReceiverInv
<1>1. Typed'
  BY <1>0 DEF Opening
<1>2. Named'
  BY <1>0 DEF Named, Opening
<1>3. Staged'
  BY <1>0 DEF Staged, Named, Opening
<1>4. Opening'
  BY <1>0 DEF Opening, Named
<1>5. Publishing'
  BY <1>0 DEF Publishing
<1>6. Consuming'
  BY <1>0 DEF Consuming, Named, Opening, Publishing
<1>. QED
  BY <1>1, <1>2, <1>3, <1>4, <1>5, <1>6 DEF ReceiverInv

LEMMA LeaseTransferStep ==
    ASSUME ReceiverInv, NEW p \in Procs, LeaseTransfer(p)
    PROVE  ReceiverInv'
<1>. USE DEF Goto, destVars, locals, envVars
<1>0. Typed /\ Named /\ Staged /\ Opening /\ Publishing /\ Consuming
  BY DEF ReceiverInv
<1>. PICK d \in Dirs : d = dir[p]
  BY <1>0 DEF LeaseTransfer, Opening
<1>1. /\ pc[p] = "lease" /\ Goto(p, "expiry") /\ durAt[d] = "live" /\ at[d] = "live"
      /\ durTomb' = [durTomb EXCEPT ![d] = tomb[d]]
      /\ UNCHANGED <<at, durAt, files, part, resume, tomb, destVars, locals, envVars>>
  BY <1>0 DEF LeaseTransfer, Opening, Named
\* The winner has the lease already, for it won the only canonical directory.
<1>2. /\ holder[d] \in {NoProc, p}
      /\ holder' = [holder EXCEPT ![d] = p]
      /\ lockFile' \in [Dirs -> BOOLEAN]
  <2>1. CASE won[p] /\ UNCHANGED <<lockFile, holder>>
    <3>1. holder[d] = p
      BY <1>0, <1>1, <2>1 DEF Opening
    <3>2. holder = [holder EXCEPT ![d] = p]
      BY <1>0, <3>1 DEF Typed, TypeOK
    <3>. QED
      BY <1>0, <2>1, <3>1, <3>2 DEF Typed, TypeOK
  <2>2. CASE CanLease(d) /\ Lease(p, d)
    BY <1>0, <2>2 DEF CanLease, Lease, Typed, TypeOK
  <2>. QED
    BY <2>1, <2>2 DEF LeaseTransfer
<1>3. Typed'
  BY <1>0, <1>1, <1>2 DEF Typed, TypeOK, Places
<1>4. Named'
  BY <1>0, <1>1, <1>2 DEF Named, Typed, TypeOK
<1>5. Staged'
  BY <1>0, <1>1, <1>2 DEF Named, Staged, Typed, TypeOK
<1>6. Opening'
  <2>1. \A q \in Procs : won[q] => pc'[q] \in Found /\ \A e \in Dirs : at[e] = "live" => holder'[e] = q
    BY <1>0, <1>1, <1>2, ProcsAssumption DEF Named, Opening, Typed, TypeOK
  <2>2. \A q \in Procs : pc'[q] \in AtWork => holder'[dir[q]] = q
    BY <1>0, <1>1, <1>2, ProcsAssumption DEF Named, Opening, Typed, TypeOK
  <2>. QED
    BY <1>0, <1>1, <2>1, <2>2 DEF Opening, Typed, TypeOK
<1>7. Publishing'
  BY <1>0, <1>1, <1>2 DEF Publishing, Typed, TypeOK
<1>8. Consuming'
  BY <1>0, <1>1, <1>2 DEF Named, Consuming, Typed, TypeOK
<1>. QED
  BY <1>3, <1>4, <1>5, <1>6, <1>7, <1>8 DEF ReceiverInv

LEMMA PersistExpiryStep ==
    ASSUME ReceiverInv, NEW p \in Procs, PersistExpiry(p)
    PROVE  ReceiverInv'
<1>. USE DEF Typed, TypeOK, PersistExpiry, Goto, destVars, locals, envVars
<1>0. Typed /\ Named /\ Staged /\ Opening /\ Publishing /\ Consuming
  BY DEF ReceiverInv
<1>1. Typed'
  BY <1>0 DEF Opening
<1>2. Named'
  BY <1>0 DEF Named, Opening
<1>3. Staged'
  BY <1>0 DEF Staged, Named, Opening
<1>4. Opening'
  BY <1>0 DEF Opening, Named
<1>5. Publishing'
  BY <1>0 DEF Publishing
<1>6. Consuming'
  BY <1>0 DEF Consuming, Named, Opening, Publishing
<1>. QED
  BY <1>1, <1>2, <1>3, <1>4, <1>5, <1>6 DEF ReceiverInv

LEMMA CheckTombstoneStep ==
    ASSUME ReceiverInv, NEW p \in Procs, CheckTombstone(p)
    PROVE  ReceiverInv'
<1>. USE DEF Typed, TypeOK, CheckTombstone, Goto, fsVars, destVars, locals, envVars
<1>0. Typed /\ Named /\ Staged /\ Opening /\ Publishing /\ Consuming
  BY DEF ReceiverInv
<1>1. Typed'
  BY <1>0 DEF Opening
<1>2. Named'
  BY <1>0 DEF Named, Opening
<1>3. Staged'
  BY <1>0 DEF Staged, Named, Opening
<1>4. Opening'
  BY <1>0 DEF Opening, Named
<1>5. Publishing'
  BY <1>0, OneAtWork DEF Publishing
<1>6. Consuming'
  BY <1>0, OneAtWork DEF Consuming, Named, Opening, Publishing
<1>. QED
  BY <1>1, <1>2, <1>3, <1>4, <1>5, <1>6 DEF ReceiverInv

LEMMA LoadStateStep ==
    ASSUME ReceiverInv, NEW p \in Procs, LoadState(p)
    PROVE  ReceiverInv'
<1>. USE DEF Typed, TypeOK, LoadState, Goto, destVars, envVars
<1>0. Typed /\ Named /\ Staged /\ Opening /\ Publishing /\ Consuming
  BY DEF ReceiverInv
<1>1. Typed'
  BY <1>0 DEF Opening
<1>2. Named'
  BY <1>0 DEF Named, Opening
<1>3. Staged'
  BY <1>0 DEF Staged, Named, Opening
<1>4. Opening'
  BY <1>0 DEF Opening, Named
<1>5. Publishing'
  BY <1>0, OneAtWork DEF Publishing
<1>6. Consuming'
  BY <1>0, OneAtWork DEF Consuming, Named, Opening, Publishing
<1>. QED
  BY <1>1, <1>2, <1>3, <1>4, <1>5, <1>6 DEF ReceiverInv

LEMMA OpenFailsStep ==
    ASSUME ReceiverInv, NEW p \in Procs, OpenFails(p)
    PROVE  ReceiverInv'
<1>. USE DEF Goto, destVars, envVars
<1>0. Typed /\ Named /\ Staged /\ Opening /\ Publishing /\ Consuming
  BY DEF ReceiverInv
<1>1. /\ Unlease(p) /\ Forget(p) /\ Goto(p, "idle")
      /\ pc[p] \notin Receiving
      /\ files' = [d \in Dirs |-> IF d = stg[p] THEN {} ELSE files[d]]
      /\ UNCHANGED <<at, durAt, part, resume, tomb, durTomb, lockFile, destVars, envVars>>
  BY DEF OpenFails, FailOpen
<1>2. Typed'
  BY <1>0, <1>1 DEF Typed, TypeOK, Unlease, Forget
<1>3. Named'
  <2>1. \A d \in Dirs : at[d] = "live" => files'[d] = files[d]
    BY <1>0, <1>1, BoundsAssumption DEF Staged, NoDir, Dirs
  <2>. QED
    BY <1>0, <1>1, <2>1 DEF Named
<1>4. Staged'
  BY <1>0, <1>1 DEF Staged, Typed, TypeOK, Unlease, Forget
<1>5. Opening'
  BY <1>0, <1>1 DEF Opening, Typed, TypeOK, Unlease, Forget
<1>6. Publishing' /\ Consuming'
  BY <1>0, <1>1 DEF Publishing, Consuming, Typed, TypeOK, Forget
<1>. QED
  BY <1>2, <1>3, <1>4, <1>5, <1>6 DEF ReceiverInv

-----------------------------------------------------------------------------
(* The file is received and published. *)

LEMMA ReceiveChunkStep ==
    ASSUME ReceiverInv, NEW p \in Procs, ReceiveChunk(p)
    PROVE  ReceiverInv'
<1>. USE DEF Typed, TypeOK, ReceiveChunk, destVars, envVars
<1>0. Typed /\ Named /\ Staged /\ Opening /\ Publishing /\ Consuming
  BY DEF ReceiverInv
<1>1. Typed'
  BY <1>0 DEF Opening
<1>2. Named'
  BY <1>0 DEF Named, Opening
<1>3. Staged'
  BY <1>0 DEF Staged, Named, Opening
<1>4. Opening'
  BY <1>0 DEF Opening, Named
<1>5. Publishing'
  BY <1>0 DEF Publishing
<1>6. Consuming'
  BY <1>0 DEF Consuming, Named, Opening, Publishing
<1>. QED
  BY <1>1, <1>2, <1>3, <1>4, <1>5, <1>6 DEF ReceiverInv

LEMMA FinalizeBeginStep ==
    ASSUME ReceiverInv, NEW p \in Procs, FinalizeBegin(p)
    PROVE  ReceiverInv'
<1>. USE DEF Typed, TypeOK, FinalizeBegin, Goto, destVars, locals, envVars
<1>0. Typed /\ Named /\ Staged /\ Opening /\ Publishing /\ Consuming
  BY DEF ReceiverInv
<1>1. Typed'
  BY <1>0 DEF Opening
<1>2. Named'
  BY <1>0 DEF Named, Opening
<1>3. Staged'
  BY <1>0 DEF Staged, Named, Opening
<1>4. Opening'
  BY <1>0 DEF Opening, Named
<1>5. Publishing'
  BY <1>0, OneAtWork DEF Publishing
<1>6. Consuming'
  BY <1>0, OneAtWork DEF Consuming, Named, Opening, Publishing
<1>. QED
  BY <1>1, <1>2, <1>3, <1>4, <1>5, <1>6 DEF ReceiverInv

LEMMA DestinationExistsStep ==
    ASSUME ReceiverInv, NEW p \in Procs, DestinationExists(p)
    PROVE  ReceiverInv'
<1>. USE DEF Typed, TypeOK, DestinationExists, Goto, fsVars, locals, envVars
<1>0. Typed /\ Named /\ Staged /\ Opening /\ Publishing /\ Consuming
  BY DEF ReceiverInv
<1>1. Typed'
  BY <1>0 DEF Opening
<1>2. Named'
  BY <1>0 DEF Named, Opening
<1>3. Staged'
  BY <1>0 DEF Staged, Named, Opening
<1>4. Opening'
  BY <1>0 DEF Opening, Named
<1>5. Publishing'
  BY <1>0, OneAtWork DEF Publishing
<1>6. Consuming'
  BY <1>0, OneAtWork DEF Consuming, Named, Opening, Publishing
<1>. QED
  BY <1>1, <1>2, <1>3, <1>4, <1>5, <1>6 DEF ReceiverInv

LEMMA DestinationAbsentStep ==
    ASSUME ReceiverInv, NEW p \in Procs, DestinationAbsent(p)
    PROVE  ReceiverInv'
<1>. USE DEF Typed, TypeOK, DestinationAbsent, Goto, fsVars, destVars, locals, envVars
<1>0. Typed /\ Named /\ Staged /\ Opening /\ Publishing /\ Consuming
  BY DEF ReceiverInv
<1>1. Typed'
  BY <1>0 DEF Opening
<1>2. Named'
  BY <1>0 DEF Named, Opening
<1>3. Staged'
  BY <1>0 DEF Staged, Named, Opening
<1>4. Opening'
  BY <1>0 DEF Opening, Named
<1>5. Publishing'
  BY <1>0, OneAtWork DEF Publishing
<1>6. Consuming'
  BY <1>0, OneAtWork DEF Consuming, Named, Opening, Publishing
<1>. QED
  BY <1>1, <1>2, <1>3, <1>4, <1>5, <1>6 DEF ReceiverInv

LEMMA DropPartialStep ==
    ASSUME ReceiverInv, NEW p \in Procs, DropPartial(p)
    PROVE  ReceiverInv'
<1>. USE DEF Typed, TypeOK, DropPartial, Goto, fsVars, locals, envVars
<1>0. Typed /\ Named /\ Staged /\ Opening /\ Publishing /\ Consuming
  BY DEF ReceiverInv
<1>1. Typed'
  BY <1>0 DEF Opening
<1>2. Named'
  BY <1>0 DEF Named, Opening
<1>3. Staged'
  BY <1>0 DEF Staged, Named, Opening
<1>4. Opening'
  BY <1>0 DEF Opening, Named
<1>5. Publishing'
  BY <1>0, OneAtWork DEF Publishing
<1>6. Consuming'
  BY <1>0, OneAtWork DEF Consuming, Named, Opening, Publishing
<1>. QED
  BY <1>1, <1>2, <1>3, <1>4, <1>5, <1>6 DEF ReceiverInv

LEMMA CreatePartialStep ==
    ASSUME ReceiverInv, NEW p \in Procs, CreatePartial(p)
    PROVE  ReceiverInv'
<1>. USE DEF Typed, TypeOK, CreatePartial, Goto, fsVars, locals, envVars
<1>0. Typed /\ Named /\ Staged /\ Opening /\ Publishing /\ Consuming
  BY DEF ReceiverInv
<1>1. Typed'
  BY <1>0 DEF Opening
<1>2. Named'
  BY <1>0 DEF Named, Opening
<1>3. Staged'
  BY <1>0 DEF Staged, Named, Opening
<1>4. Opening'
  BY <1>0 DEF Opening, Named
<1>5. Publishing'
  BY <1>0, OneAtWork DEF Publishing
<1>6. Consuming'
  BY <1>0, OneAtWork DEF Consuming, Named, Opening, Publishing
<1>. QED
  BY <1>1, <1>2, <1>3, <1>4, <1>5, <1>6 DEF ReceiverInv

LEMMA CopyPartialStep ==
    ASSUME ReceiverInv, NEW p \in Procs, CopyPartial(p)
    PROVE  ReceiverInv'
<1>. USE DEF Typed, TypeOK, CopyPartial, Goto, fsVars, locals, envVars
<1>0. Typed /\ Named /\ Staged /\ Opening /\ Publishing /\ Consuming
  BY DEF ReceiverInv
<1>1. Typed'
  BY <1>0 DEF Opening
<1>2. Named'
  BY <1>0 DEF Named, Opening
<1>3. Staged'
  BY <1>0 DEF Staged, Named, Opening
<1>4. Opening'
  BY <1>0 DEF Opening, Named
<1>5. Publishing'
  BY <1>0, OneAtWork DEF Publishing
<1>6. Consuming'
  BY <1>0, OneAtWork DEF Consuming, Named, Opening, Publishing
<1>. QED
  BY <1>1, <1>2, <1>3, <1>4, <1>5, <1>6 DEF ReceiverInv

LEMMA LinkDestinationStep ==
    ASSUME ReceiverInv, NEW p \in Procs, LinkDestination(p)
    PROVE  ReceiverInv'
<1>. USE DEF Typed, TypeOK, LinkDestination, Goto, fsVars, locals, envVars
<1>0. Typed /\ Named /\ Staged /\ Opening /\ Publishing /\ Consuming
  BY DEF ReceiverInv
<1>1. Typed'
  BY <1>0 DEF Opening
<1>2. Named'
  BY <1>0 DEF Named, Opening
<1>3. Staged'
  BY <1>0 DEF Staged, Named, Opening
<1>4. Opening'
  BY <1>0 DEF Opening, Named
<1>5. Publishing'
  BY <1>0, OneAtWork DEF Publishing
<1>6. Consuming'
  BY <1>0, OneAtWork DEF Consuming, Named, Opening, Publishing
<1>. QED
  BY <1>1, <1>2, <1>3, <1>4, <1>5, <1>6 DEF ReceiverInv

LEMMA SyncLinkStep ==
    ASSUME ReceiverInv, NEW p \in Procs, SyncLink(p)
    PROVE  ReceiverInv'
<1>. USE DEF Typed, TypeOK, SyncLink, Goto, fsVars, locals, envVars
<1>0. Typed /\ Named /\ Staged /\ Opening /\ Publishing /\ Consuming
  BY DEF ReceiverInv
<1>1. Typed'
  BY <1>0 DEF Opening
<1>2. Named'
  BY <1>0 DEF Named, Opening
<1>3. Staged'
  BY <1>0 DEF Staged, Named, Opening
<1>4. Opening'
  BY <1>0 DEF Opening, Named
<1>5. Publishing'
  BY <1>0, OneAtWork DEF Publishing
<1>6. Consuming'
  BY <1>0, OneAtWork DEF Consuming, Named, Opening, Publishing
<1>. QED
  BY <1>1, <1>2, <1>3, <1>4, <1>5, <1>6 DEF ReceiverInv

LEMMA RemovePartialStep ==
    ASSUME ReceiverInv, NEW p \in Procs, RemovePartial(p)
    PROVE  ReceiverInv'
<1>. USE DEF Typed, TypeOK, RemovePartial, Goto, fsVars, locals, envVars
<1>0. Typed /\ Named /\ Staged /\ Opening /\ Publishing /\ Consuming
  BY DEF ReceiverInv
<1>1. Typed'
  BY <1>0 DEF Opening
<1>2. Named'
  BY <1>0 DEF Named, Opening
<1>3. Staged'
  BY <1>0 DEF Staged, Named, Opening
<1>4. Opening'
  BY <1>0 DEF Opening, Named
<1>5. Publishing'
  BY <1>0, OneAtWork DEF Publishing
<1>6. Consuming'
  BY <1>0, OneAtWork DEF Consuming, Named, Opening, Publishing
<1>. QED
  BY <1>1, <1>2, <1>3, <1>4, <1>5, <1>6 DEF ReceiverInv

LEMMA SyncCleanupStep ==
    ASSUME ReceiverInv, NEW p \in Procs, SyncCleanup(p)
    PROVE  ReceiverInv'
<1>. USE DEF Typed, TypeOK, SyncCleanup, Goto, fsVars, locals, envVars
<1>0. Typed /\ Named /\ Staged /\ Opening /\ Publishing /\ Consuming
  BY DEF ReceiverInv
<1>1. Typed'
  BY <1>0 DEF Opening
<1>2. Named'
  BY <1>0 DEF Named, Opening
<1>3. Staged'
  BY <1>0 DEF Staged, Named, Opening
<1>4. Opening'
  BY <1>0 DEF Opening, Named
<1>5. Publishing'
  BY <1>0, OneAtWork DEF Publishing
<1>6. Consuming'
  BY <1>0, OneAtWork DEF Consuming, Named, Opening, Publishing
<1>. QED
  BY <1>1, <1>2, <1>3, <1>4, <1>5, <1>6 DEF ReceiverInv

LEMMA FinalizeFailsStep ==
    ASSUME ReceiverInv, NEW p \in Procs, FinalizeFails(p)
    PROVE  ReceiverInv'
<1>. USE DEF Typed, TypeOK, FinalizeFails, Goto, fsVars, locals, envVars
<1>0. Typed /\ Named /\ Staged /\ Opening /\ Publishing /\ Consuming
  BY DEF ReceiverInv
<1>1. Typed'
  BY <1>0 DEF Opening
<1>2. Named'
  BY <1>0 DEF Named, Opening
<1>3. Staged'
  BY <1>0 DEF Staged, Named, Opening
<1>4. Opening'
  BY <1>0 DEF Opening, Named
<1>5. Publishing'
  BY <1>0, OneAtWork DEF Publishing
<1>6. Consuming'
  BY <1>0, OneAtWork DEF Consuming, Named, Opening, Publishing
<1>. QED
  BY <1>1, <1>2, <1>3, <1>4, <1>5, <1>6 DEF ReceiverInv

-----------------------------------------------------------------------------
(* The offer is consumed. *)

LEMMA CommitTombstoneStep ==
    ASSUME ReceiverInv, NEW p \in Procs, CommitTombstone(p)
    PROVE  ReceiverInv'
<1>. USE DEF Typed, TypeOK, CommitTombstone, Goto, destVars, locals, envVars
<1>0. Typed /\ Named /\ Staged /\ Opening /\ Publishing /\ Consuming
  BY DEF ReceiverInv
<1>1. Typed'
  BY <1>0 DEF Opening
<1>2. Named'
  BY <1>0 DEF Named, Opening
<1>3. Staged'
  BY <1>0, SMTT(60) DEF Staged, Named, Opening
<1>4. Opening'
  BY <1>0 DEF Opening, Named
<1>5. Publishing'
  BY <1>0, OneAtWork DEF Publishing
<1>6. Consuming'
  BY <1>0, OneAtWork DEF Consuming, Named, Opening, Publishing
<1>. QED
  BY <1>1, <1>2, <1>3, <1>4, <1>5, <1>6 DEF ReceiverInv

LEMMA SyncCommitStep ==
    ASSUME ReceiverInv, NEW p \in Procs, SyncCommit(p)
    PROVE  ReceiverInv'
<1>. USE DEF Typed, TypeOK, SyncCommit, Goto, destVars, locals, envVars
<1>0. Typed /\ Named /\ Staged /\ Opening /\ Publishing /\ Consuming
  BY DEF ReceiverInv
<1>1. Typed'
  BY <1>0 DEF Opening
<1>2. Named'
  BY <1>0 DEF Named, Opening
<1>3. Staged'
  BY <1>0 DEF Staged, Named, Opening
<1>4. Opening'
  BY <1>0 DEF Opening, Named
<1>5. Publishing'
  BY <1>0, OneAtWork DEF Publishing
<1>6. Consuming'
  BY <1>0, OneAtWork DEF Consuming, Named, Opening, Publishing
<1>. QED
  BY <1>1, <1>2, <1>3, <1>4, <1>5, <1>6 DEF ReceiverInv

LEMMA RemoveFinalizedStateStep ==
    ASSUME ReceiverInv, NEW p \in Procs, RemoveFinalizedState(p)
    PROVE  ReceiverInv'
<1>. USE DEF Typed, TypeOK, RemoveFinalizedState, Goto, destVars, locals, envVars
<1>0. Typed /\ Named /\ Staged /\ Opening /\ Publishing /\ Consuming
  BY DEF ReceiverInv
<1>1. Typed'
  BY <1>0 DEF Opening
<1>2. Named'
  BY <1>0 DEF Named, Opening
<1>3. Staged'
  BY <1>0 DEF Staged, Named, Opening
<1>4. Opening'
  BY <1>0 DEF Opening, Named
<1>5. Publishing'
  BY <1>0, OneAtWork DEF Publishing
<1>6. Consuming'
  BY <1>0, OneAtWork DEF Consuming, Named, Opening, Publishing
<1>. QED
  BY <1>1, <1>2, <1>3, <1>4, <1>5, <1>6 DEF ReceiverInv

LEMMA FinalizeEndStep ==
    ASSUME ReceiverInv, NEW p \in Procs, FinalizeEnd(p)
    PROVE  ReceiverInv'
<1>. USE DEF Typed, TypeOK, FinalizeEnd, Goto, destVars, locals
<1>0. Typed /\ Named /\ Staged /\ Opening /\ Publishing /\ Consuming
  BY DEF ReceiverInv
<1>1. Typed'
  BY <1>0 DEF Opening
<1>2. Named'
  BY <1>0 DEF Named, Opening
<1>3. Staged'
  BY <1>0 DEF Staged, Named, Opening
<1>4. Opening'
  BY <1>0 DEF Opening, Named
<1>5. Publishing'
  BY <1>0, OneAtWork DEF Publishing
<1>6. Consuming'
  BY <1>0, OneAtWork DEF Consuming, Named, Opening, Publishing
<1>. QED
  BY <1>1, <1>2, <1>3, <1>4, <1>5, <1>6 DEF ReceiverInv

LEMMA CloseStep ==
    ASSUME ReceiverInv, NEW p \in Procs, Close(p)
    PROVE  ReceiverInv'
<1>. USE DEF Typed, TypeOK, Close, Goto, Unlease, Forget, destVars, envVars
<1>0. Typed /\ Named /\ Staged /\ Opening /\ Publishing /\ Consuming
  BY DEF ReceiverInv
<1>1. Typed'
  BY <1>0 DEF Opening
<1>2. Named'
  BY <1>0 DEF Named, Opening
<1>3. Staged'
  BY <1>0 DEF Staged, Named, Opening
<1>4. Opening'
  BY <1>0 DEF Opening, Named
<1>5. Publishing'
  BY <1>0 DEF Publishing
<1>6. Consuming'
  BY <1>0 DEF Consuming, Named, Opening, Publishing
<1>. QED
  BY <1>1, <1>2, <1>3, <1>4, <1>5, <1>6 DEF ReceiverInv

LEMMA KillStep ==
    ASSUME ReceiverInv, NEW p \in Procs, Kill(p)
    PROVE  ReceiverInv'
<1>. USE DEF Typed, TypeOK, Kill, Goto, Unlease, Forget
<1>0. Typed /\ Named /\ Staged /\ Opening /\ Publishing /\ Consuming
  BY DEF ReceiverInv
<1>1. Typed'
  BY <1>0, SettingShape DEF Opening
<1>2. Named'
  BY <1>0 DEF Named, Opening
<1>3. Staged'
  BY <1>0 DEF Staged, Named, Opening
<1>4. Opening'
  BY <1>0 DEF Opening, Named
<1>5. Publishing'
  BY <1>0 DEF Publishing
<1>6. Consuming'
  BY <1>0 DEF Consuming, Named, Opening, Publishing
<1>. QED
  BY <1>1, <1>2, <1>3, <1>4, <1>5, <1>6 DEF ReceiverInv

-----------------------------------------------------------------------------
(* The environment, and the invariant. *)

LEMMA RotStep ==
    ASSUME ReceiverInv, Rot
    PROVE  ReceiverInv'
<1>. USE DEF Typed, TypeOK, Rot, fsVars, destVars, procVars, locals, envVars
<1>0. Typed /\ Named /\ Staged /\ Opening /\ Publishing /\ Consuming
  BY DEF ReceiverInv
<1>1. Typed'
  BY <1>0
<1>2. Named' /\ Staged' /\ Opening'
  BY <1>0 DEF Named, Staged, Opening
<1>3. Publishing' /\ Consuming'
  BY <1>0 DEF Publishing, Consuming
<1>. QED
  BY <1>1, <1>2, <1>3 DEF ReceiverInv

LEMMA ForeignFileStep ==
    ASSUME ReceiverInv, ForeignFile
    PROVE  ReceiverInv'
<1>. USE DEF Typed, TypeOK, ForeignFile, fsVars, destVars, procVars, locals, envVars
<1>0. Typed /\ Named /\ Staged /\ Opening /\ Publishing /\ Consuming
  BY DEF ReceiverInv
<1>1. Typed'
  BY <1>0
<1>2. Named' /\ Staged' /\ Opening'
  BY <1>0 DEF Named, Staged, Opening
<1>3. Publishing' /\ Consuming'
  BY <1>0 DEF Publishing, Consuming
<1>. QED
  BY <1>1, <1>2, <1>3 DEF ReceiverInv

\* Nobody is at work after the power comes back; what was durable is as it was.
LEMMA PowerLossStep ==
    ASSUME ReceiverInv, PowerLoss
    PROVE  ReceiverInv'
<1>0. Typed /\ Named /\ Staged /\ Opening /\ Publishing /\ Consuming
  BY DEF ReceiverInv
<1>1. /\ \A d \in Dirs : /\ at'[d] = durAt'[d] /\ at'[d] \in {at[d], durAt[d]}
                         /\ at'[d] # "none" => files'[d] = files[d]
      /\ \A d \in Dirs : tomb'[d] \in {tomb[d], durTomb[d]} /\ durTomb'[d] = tomb'[d]
      /\ at' \in [Dirs -> Places] /\ durAt' \in [Dirs -> Places]
      /\ files' \in [Dirs -> SUBSET {"reservation", "expiry", "content"}]
      /\ lockFile' \in [Dirs -> BOOLEAN]
      /\ tomb' \in [Dirs -> SUBSET {"pending", "consumed"}]
      /\ durTomb' \in [Dirs -> SUBSET {"pending", "consumed"}]
  <2>1. PICK undone \in SUBSET {d \in Dirs : at[d] # durAt[d]} :
          LET names == [d \in Dirs |-> IF d \in undone THEN durAt[d] ELSE at[d]] IN
          /\ at' = names /\ durAt' = names
          /\ files' = [d \in Dirs |-> IF names[d] = "none" THEN {} ELSE files[d]]
          /\ lockFile' = [d \in Dirs |-> names[d] # "none" /\ lockFile[d]]
    BY DEF PowerLoss
  <2>2. PICK lost \in SUBSET {d \in Dirs : tomb[d] # durTomb[d]} :
          /\ tomb' = [d \in Dirs |-> IF d \in lost THEN durTomb[d] ELSE tomb[d]]
          /\ durTomb' = tomb'
    BY DEF PowerLoss
  <2>. QED
    BY <1>0, <2>1, <2>2 DEF Typed, TypeOK
<1>2. /\ dest' \in {dest, durDest} /\ durDest' = dest'
      /\ tmp' \in {tmp, durTmp} /\ durTmp' = tmp' /\ tmpBy' = NoProc
      /\ holder' = [d \in Dirs |-> NoProc]
      /\ pc' = [p \in Procs |-> "idle"]
      /\ dir' = [p \in Procs |-> NoDir] /\ stg' = dir' /\ quar' = dir'
      /\ won' = [p \in Procs |-> FALSE] /\ bits' = [p \in Procs |-> {}]
      /\ crashes < setting.crashes /\ crashes' = crashes + 1
      /\ UNCHANGED <<part, resume, expired, delivered, setting>>
  BY DEF PowerLoss
<1>3. Typed'
  BY <1>0, <1>1, <1>2, SettingShape DEF Typed, TypeOK
<1>4. Named'
  BY <1>0, <1>1 DEF Named
<1>5. Staged' /\ Opening'
  BY <1>2 DEF Staged, Opening
<1>6. Publishing'
  BY <1>0, <1>2 DEF Publishing
<1>7. Consuming'
  BY <1>0, <1>1, <1>2 DEF Named, Publishing, Consuming
<1>. QED
  BY <1>3, <1>4, <1>5, <1>6, <1>7 DEF ReceiverInv

\* Nobody withdraws the offer.
LEMMA NothingDestroyed ==
    ASSUME Typed, NEW p \in Procs
    PROVE  ~Destroy(p)
BY DEF Typed, Destroy, Cancel, CollectBegin, CollectLease, CollectQuarantine,
       CollectResidual, ResidualLease, SyncQuarantine, SyncQuarantineFails, EmptyDirectory,
       ReleaseLease, UnlinkLock, RemoveDirectory, CollectFails

LEMMA InitInv == Init /\ Kept => ReceiverInv
<1>. SUFFICES ASSUME Init, Kept
              PROVE  ReceiverInv
  OBVIOUS
<1>. USE DEF Init, Kept
<1>0. setting \in Setting /\ setting.crashes \in Nat
  BY BoundsAssumption DEF Setting
<1>1. Typed
  <2>1. /\ at \in [Dirs -> Places] /\ durAt \in [Dirs -> Places]
        /\ tomb \in [Dirs -> SUBSET {"pending", "consumed"}]
        /\ durTomb \in [Dirs -> SUBSET {"pending", "consumed"}]
        /\ dest = "absent" /\ durDest = "absent" /\ tmp = "absent" /\ durTmp = "absent"
    BY DEF Places
  <2>2. pc \in [Procs -> Stages] /\ \A p \in Procs : pc[p] = "idle"
    OBVIOUS
  <2>3. crashes <= setting.crashes
    BY <1>0
  <2>4. lockFile \in [Dirs -> BOOLEAN] /\ won \in [Procs -> BOOLEAN]
        /\ expired \in BOOLEAN /\ delivered \in BOOLEAN
    OBVIOUS
  <2>5. \A p \in Procs : dir[p] = NoDir /\ stg[p] = NoDir /\ quar[p] = NoDir /\ bits[p] = {} /\ ~won[p]
    OBVIOUS
  <2>6. /\ holder \in [Dirs -> Procs \cup {NoProc}]
        /\ files \in [Dirs -> SUBSET {"reservation", "expiry", "content"}]
        /\ part \in [Dirs -> SUBSET Chunks] /\ resume \in [Dirs -> SUBSET Chunks]
        /\ dir \in [Procs -> Dirs \cup {NoDir}] /\ stg \in [Procs -> Dirs \cup {NoDir}]
        /\ quar \in [Procs -> Dirs \cup {NoDir}] /\ bits \in [Procs -> SUBSET Chunks]
        /\ tmpBy \in Procs \cup {NoProc}
    OBVIOUS
  <2>7. TypeOK
    BY <2>1, <2>3, <2>4, <2>5, <2>6 DEF TypeOK
  <2>. QED
    BY <1>0, <2>2, <2>7 DEF Typed
<1>2. Named /\ Staged /\ Opening
  BY DEF Named, Staged, Opening
<1>3. Publishing /\ Consuming
  BY DEF Publishing, Consuming
<1>. QED
  BY <1>1, <1>2, <1>3 DEF ReceiverInv

LEMMA NextInv == ReceiverInv /\ [Next]_vars => ReceiverInv'
<1>. SUFFICES ASSUME ReceiverInv, [Next]_vars
              PROVE  ReceiverInv'
  OBVIOUS
<1>1. ASSUME NEW p \in Procs, Open(p) PROVE ReceiverInv'
  BY <1>1, OpenBeginStep, MakeStagingStep, LeaseStagingStep, PublishStagingStep, SyncRootStep,
     OpenChildStep, ReadReservationStep, LeaseTransferStep, PersistExpiryStep, CheckTombstoneStep,
     LoadStateStep, OpenFailsStep DEF Open
<1>2. ASSUME NEW p \in Procs, Finalize(p) PROVE ReceiverInv'
  BY <1>2, FinalizeBeginStep, DestinationExistsStep, DestinationAbsentStep, DropPartialStep,
     CreatePartialStep, CopyPartialStep, LinkDestinationStep, SyncLinkStep, RemovePartialStep,
     SyncCleanupStep, CommitTombstoneStep, SyncCommitStep, RemoveFinalizedStateStep,
     FinalizeEndStep, FinalizeFailsStep DEF Finalize
<1>3. ASSUME NEW p \in Procs, ReceiveChunk(p) \/ Close(p) \/ Kill(p) PROVE ReceiverInv'
  BY <1>3, ReceiveChunkStep, CloseStep, KillStep
<1>4. CASE Rot \/ ForeignFile \/ PowerLoss
  BY <1>4, RotStep, ForeignFileStep, PowerLossStep
<1>5. CASE UNCHANGED vars
  BY <1>5 DEF ReceiverInv, Typed, TypeOK, Named, Staged, Opening, Publishing, Consuming,
              vars, fsVars, destVars, procVars, locals, envVars
<1>6. \A p \in Procs : ~Destroy(p)
  BY NothingDestroyed DEF ReceiverInv
<1>7. ~Expire
  BY DEF ReceiverInv, Typed, Expire
<1>. QED
  BY <1>1, <1>2, <1>3, <1>4, <1>5, <1>6, <1>7 DEF Next

\* No step changes what may happen.
LEMMA SettingKept == [Next]_vars => setting' = setting
<1>. SUFFICES ASSUME [Next]_vars
              PROVE  setting' = setting
  OBVIOUS
<1>. USE DEF envVars, FailOpen
<1>1. ASSUME NEW p \in Procs, Open(p) PROVE setting' = setting
  BY <1>1 DEF Open, OpenBegin, MakeStaging, LeaseStaging, PublishStaging, SyncRoot, OpenChild,
              ReadReservation, LeaseTransfer, CheckTombstone, LoadState, PersistExpiry, OpenFails
<1>2. ASSUME NEW p \in Procs, Finalize(p) PROVE setting' = setting
  BY <1>2 DEF Finalize, FinalizeBegin, DestinationExists, DestinationAbsent, DropPartial,
              CreatePartial, CopyPartial, LinkDestination, SyncLink, RemovePartial, SyncCleanup,
              CommitTombstone, SyncCommit, RemoveFinalizedState, FinalizeEnd, FinalizeFails
<1>3. ASSUME NEW p \in Procs, Destroy(p) PROVE setting' = setting
  BY <1>3 DEF Destroy, Cancel, CollectBegin, CollectLease, CollectQuarantine, CollectResidual,
              ResidualLease, SyncQuarantine, SyncQuarantineFails, EmptyDirectory, ReleaseLease,
              UnlinkLock, RemoveDirectory, CollectFails
<1>4. ASSUME NEW p \in Procs, ReceiveChunk(p) \/ Close(p) \/ Kill(p) PROVE setting' = setting
  BY <1>4 DEF ReceiveChunk, Close, Kill
<1>5. CASE Expire \/ Rot \/ ForeignFile \/ PowerLoss \/ UNCHANGED vars
  BY <1>5 DEF Expire, Rot, ForeignFile, PowerLoss, vars
<1>. QED
  BY <1>1, <1>2, <1>3, <1>4, <1>5 DEF Next

LEMMA Invariance == Spec => [](Kept => ReceiverInv)
<1>1. Init => (Kept => ReceiverInv)
  BY InitInv
<1>2. (Kept => ReceiverInv) /\ [Next]_vars => (Kept => ReceiverInv)'
  <2>. SUFFICES ASSUME Kept => ReceiverInv, [Next]_vars, Kept'
                PROVE  ReceiverInv'
    OBVIOUS
  <2>1. Kept
    BY SettingKept DEF Kept
  <2>. QED
    BY <2>1, NextInv
<1>. QED
  BY <1>1, <1>2, PTL DEF Spec

\* What is durable is kept, a tombstone becomes durable only when it was there, and
\* a file of the user's is not replaced.
LEMMA Advances ==
    ASSUME ReceiverInv, [Next]_vars
    PROVE  /\ durDest = "good" => durDest' = "good"
           /\ dest = "foreign" => dest' = "foreign"
           /\ \A d \in Dirs : /\ durAt[d] = "live" => durAt'[d] = "live"
                              /\ "consumed" \in durTomb[d] => "consumed" \in durTomb'[d]
                              /\ "consumed" \in durTomb'[d] => "consumed" \in tomb[d]
<1>. USE DEF ReceiverInv, fsVars, destVars
<1>. DEFINE Onward == /\ durDest = "good" => durDest' = "good"
                      /\ dest = "foreign" => dest' = "foreign"
                      /\ \A d \in Dirs : /\ durAt[d] = "live" => durAt'[d] = "live"
                                         /\ "consumed" \in durTomb[d] => "consumed" \in durTomb'[d]
                                         /\ "consumed" \in durTomb'[d] => "consumed" \in tomb[d]
<1>1. ASSUME NEW p \in Procs, Open(p) PROVE Onward
  BY <1>1 DEF Named, Typed, TypeOK, Open, OpenBegin, MakeStaging, LeaseStaging, PublishStaging,
              SyncRoot, OpenChild, ReadReservation, LeaseTransfer, CheckTombstone, LoadState,
              PersistExpiry, OpenFails, FailOpen
<1>2. ASSUME NEW p \in Procs, Finalize(p) PROVE Onward
  <2>1. CASE DropPartial(p) \/ LinkDestination(p) \/ SyncLink(p) \/ SyncCleanup(p)
    BY <2>1 DEF Named, Publishing, DropPartial, LinkDestination, SyncLink, SyncCleanup
  <2>2. CASE FinalizeBegin(p) \/ SyncCommit(p) \/ FinalizeEnd(p)
    BY <2>2 DEF Named, Typed, TypeOK, FinalizeBegin, SyncCommit, FinalizeEnd
  <2>3. CASE \/ DestinationExists(p) \/ DestinationAbsent(p) \/ CreatePartial(p) \/ CopyPartial(p)
             \/ RemovePartial(p) \/ CommitTombstone(p) \/ RemoveFinalizedState(p) \/ FinalizeFails(p)
    BY <2>3 DEF Named, DestinationExists, DestinationAbsent, CreatePartial, CopyPartial,
                RemovePartial, CommitTombstone, RemoveFinalizedState, FinalizeFails
  <2>. QED
    BY <1>2, <2>1, <2>2, <2>3 DEF Finalize
<1>3. ASSUME NEW p \in Procs, ReceiveChunk(p) \/ Close(p) \/ Kill(p) PROVE Onward
  BY <1>3 DEF Named, ReceiveChunk, Close, Kill
<1>4. CASE Rot \/ ForeignFile \/ UNCHANGED vars
  BY <1>4 DEF Named, Publishing, Rot, ForeignFile, vars
<1>5. CASE PowerLoss
  BY <1>5 DEF Named, Publishing, Typed, TypeOK, PowerLoss
<1>6. (\A p \in Procs : ~Destroy(p)) /\ ~Expire
  BY NothingDestroyed DEF Typed, Expire
<1>. QED
  BY <1>1, <1>2, <1>3, <1>4, <1>5, <1>6 DEF Next

-----------------------------------------------------------------------------
(* Theorems. *)

\* The settings in which no operation withdraws the offer.
Unwithdrawn == \A s \in Settings : s.ops = {}

LEMMA AlwaysSound == ASSUME Unwithdrawn PROVE Spec => []ReceiverInv
<1>1. Init => Kept
  BY DEF Init, Kept, Unwithdrawn
<1>2. Kept /\ [Next]_vars => Kept'
  BY SettingKept DEF Kept
<1>. QED
  BY <1>1, <1>2, Invariance, PTL DEF Spec

\* A receiver that is open has the lease on the directory it works in, through any
\* number of rivals, kills and power losses (acquireTransferLease and
\* OpenReceiver's publication of a directory it leased while it was staged).
THEOREM LeaseIsKept == ASSUME Unwithdrawn PROVE Spec => []Leased
<1>1. ReceiverInv => Leased
  BY DEF ReceiverInv, Typed, Opening, Leased, LeaseHolds
<1>. QED
  BY <1>1, AlwaysSound, PTL

\* Whatever rots, whoever else works in the destination, and wherever a crash cuts
\* the copy short, the destination name shows verified content or none of ours
\* (Finalize's hash while copying, then link).
THEOREM OnlyVerifiedIsPublished == ASSUME Unwithdrawn PROVE Spec => []PublishedIsVerified
<1>1. ReceiverInv => PublishedIsVerified
  BY DEF ReceiverInv, Publishing, PublishedIsVerified
<1>. QED
  BY <1>1, AlwaysSound, PTL

\* No crash leaves an offer refused as completed whose file is lost, or a directory
\* to resume from without what a resumption needs (the order of Finalize's barriers
\* and of OpenReceiver's).
THEOREM CrashesAreSurvived == ASSUME Unwithdrawn PROVE Spec => []CrashSafe
<1>1. ReceiverInv => CrashSafe
  BY DEF ReceiverInv, Named, Consuming, CrashSafe, TombstoneBacked, CanonicalIsWhole
<1>. QED
  BY <1>1, AlwaysSound, PTL

\* A file the user has under the destination name is never replaced, and once a
\* Finalize has succeeded no receiver for the offer opens again (link, which does
\* not overwrite, and the consumed tombstone).
THEOREM DestinationIsKept == ASSUME Unwithdrawn PROVE Spec => DestinationKept
<1>1. ASSUME ReceiverInv, NEW p \in Procs, pc[p] = "load"
      PROVE  ~delivered
  BY <1>1 DEF ReceiverInv, Named, Opening, Consuming
<1>2. ReceiverInv /\ [Next]_vars =>
        [\A p \in Procs : delivered /\ pc[p] = "load" /\ "cancelFinalized" \notin setting.ops
               => pc'[p] # "open"]_vars
  BY <1>1
<1>3. ReceiverInv /\ [Next]_vars => [dest = "foreign" => dest' = "foreign"]_vars
  BY Advances
<1>. QED
  BY <1>2, <1>3, AlwaysSound, PTL DEF Spec, DestinationKept, NoReplay, NoOverwrite

\* Delivery's state, of an offer that nobody withdraws.
Published == durDest = "good"
Consumed == \E d \in Dirs : durAt[d] = "live" /\ "consumed" \in durTomb[d]

\* A tombstone that becomes durable was written after the destination was.
LEMMA Delivers ==
    ASSUME ReceiverInv, [Next]_vars
    PROVE  /\ Published => Published'
           /\ Consumed => Consumed'
           /\ Consumed \/ Consumed' => Published
<1>1. Published => Published'
  BY Advances DEF Published
<1>2. Consumed => Consumed'
  BY Advances DEF Consumed
<1>3. Consumed \/ Consumed' => Published
  BY Advances DEF Published, Consumed, ReceiverInv, Named, Consuming
<1>. QED
  BY <1>1, <1>2, <1>3

\* The receiver implements Delivery: through every crash, retry and rival the file
\* is published once and stays, and only then is the offer consumed, for good.
THEOREM ReceiverDelivers == Spec => DeliverySpec
<1>1. Init => D!Init
  BY DEF Init, D!Init
<1>2. (Kept => ReceiverInv) /\ [Next]_vars => [D!Next]_(D!vars)
  <2>. SUFFICES ASSUME Kept => ReceiverInv, [Next]_vars
                PROVE  [D!Next]_(D!vars)
    OBVIOUS
  <2>1. CASE ~Kept
    BY <2>1, SettingKept DEF Kept, D!vars
  <2>2. CASE Kept
    <3>1. Kept'
      BY <2>2, SettingKept DEF Kept
    <3>2. \/ Published /\ Published' /\ ~Consumed /\ Consumed'
          \/ ~Published /\ Published' /\ ~Consumed /\ ~Consumed'
          \/ (Published <=> Published') /\ (Consumed <=> Consumed')
      BY <2>2, Delivers
    <3>. QED
      BY <2>2, <3>1, <3>2 DEF Published, Consumed, D!Next, D!Publish, D!Consume, D!vars
  <2>. QED
    BY <2>1, <2>2
<1>. QED
  BY <1>1, <1>2, Invariance, PTL DEF Spec, DeliverySpec, D!Spec
=============================================================================
