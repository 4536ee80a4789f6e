-------------------------- MODULE TrustedTime_proofs --------------------------
(***************************************************************************)
(* Proofs about TrustedTime, for any number of openers, any clock range    *)
(* and any number of key versions.                                         *)
(*                                                                         *)
(* The order on stamps that the file climbs is lexicographic: a newer key  *)
(* version beats any floor.  The inductive invariant says that the lock    *)
(* serialises the read-decide-publish sequence, that the file only climbs, *)
(* and that every refusal already made, or still possible by an opener     *)
(* holding a trusted time, is covered by the file.                         *)
(***************************************************************************)
EXTENDS TrustedTime, TLAPS

\* a is not after b.
Le(a, b) ==
    \/ a.version < b.version
    \/ a.version = b.version /\ a.floor <= b.floor

Locked == {"decide", "publish", "sync"}

LockInv == \A o \in Openers : pc[o] \in Locked => lock = o

\* The file climbs: the disk is behind what is visible, and that is behind
\* what the lock holder is about to publish.
ClimbInv ==
    /\ Le(durable, visible)
    /\ \A o \in Openers : pc[o] = "publish" => Le(visible, stamp[o])
    /\ \A o \in Openers : pc[o] = "sync" => visible = stamp[o]

OrderInv == TypeOK /\ LockInv /\ ClimbInv

\* Everything refused or served so far is covered by the pair in file.
Covers(file) ==
    /\ served <= file.version
    /\ \A v \in Version : v = file.version => refused[v] <= file.floor
    /\ \A v \in Version : v > file.version => refused[v] = 0
    /\ \A o \in Openers : pc[o] = "authenticate" => Le(stamp[o], file)

CoverInv ==
    /\ Covers(visible)
    /\ "power" \in faults =>
          /\ Covers(durable)
          /\ (\A o \in Openers : pc[o] # "sync") => durable = visible

\* A disk that may lose power is not also one whose syncs are cut short:
\* without this the file a reader sees can be ahead of the disk after the
\* writer is gone, and NoRevival fails (the TrustedTimeKillPower run).
HonestDisk ==
    \A F \in Settings : "power" \in F => "kill" \notin F /\ "syncfail" \notin F

-----------------------------------------------------------------------------

\* The pair the code computes is a stamp, carries the caller's version, and is
\* not before the pair it was computed from.
LEMMA NextStampClimbs ==
    ASSUME NEW file \in Stamp, NEW now \in Time, NEW version \in Version,
           file.version <= version
    PROVE  /\ NextStamp(file, now, version) \in Stamp
           /\ NextStamp(file, now, version).version = version
           /\ Le(file, NextStamp(file, now, version))
<1>1. CASE file.version # 0 /\ file.version < version
  BY <1>1, BoundsAssumption DEF NextStamp, Stamp, Time, Version, Le
<1>2. CASE ~(file.version # 0 /\ file.version < version)
  <2>1. file.version = 0 \/ file.version = version
    BY <1>2, BoundsAssumption DEF Stamp, Version
  <2> QED
    BY <1>2, <2>1, BoundsAssumption DEF NextStamp, Stamp, Time, Version, Le
<1> QED BY <1>1, <1>2

\* The initial states satisfy the ordering part of the invariant.
LEMMA InitOrder == Init => OrderInv
<1> SUFFICES ASSUME Init PROVE OrderInv
  OBVIOUS
<1>1. TypeOK
  BY BoundsAssumption DEF Init, TypeOK, Stamp, Time, Version, NoStamp
<1>2. LockInv /\ ClimbInv
  BY BoundsAssumption DEF Init, LockInv, ClimbInv, Locked, Le, Time
<1> QED BY <1>1, <1>2 DEF OrderInv

\* Every step preserves it.
LEMMA NextOrder == OrderInv /\ [Next]_vars => OrderInv'
<1> SUFFICES ASSUME OrderInv, [Next]_vars PROVE OrderInv'
  OBVIOUS
<1> USE OpenersAssumption, BoundsAssumption
<1> faults' = faults
  BY DEF Next, vars
<1>1. ASSUME NEW o \in Openers, Acquire(o) PROVE OrderInv'
  <2>1. TypeOK'
    BY <1>1 DEF OrderInv, TypeOK, Acquire, Stamp, Time, Version
  <2>2. LockInv' /\ ClimbInv'
    BY <1>1 DEF OrderInv, TypeOK, LockInv, ClimbInv, Acquire, Locked, Le
  <2> QED BY <2>1, <2>2 DEF OrderInv
<1>2. ASSUME NEW o \in Openers, Decide(o) PROVE OrderInv'
  <2> DEFINE new == NextStamp(visible, stamp[o].floor, stamp[o].version)
  <2>1. /\ new \in Stamp
        /\ new.version = stamp[o].version
        /\ Le(visible, new)
        /\ stamp[o].version \in Version
    <3>1. stamp[o].floor \in Time /\ stamp[o].version \in Version
      BY <1>2 DEF OrderInv, TypeOK, Decide, Stamp
    <3>2. visible \in Stamp /\ visible.version <= stamp[o].version
      BY <1>2 DEF OrderInv, TypeOK, Decide
    <3> QED BY <3>1, <3>2, NextStampClimbs
  <2>2. /\ stamp' = [stamp EXCEPT ![o] = new]
        /\ UNCHANGED <<visible, durable, refused>>
        /\ \/ /\ pc' = [pc EXCEPT ![o] = "authenticate"]
              /\ lock' = NoOpener
              /\ served' = IF new.version > served THEN new.version ELSE served
           \/ /\ pc' = [pc EXCEPT ![o] = "publish"]
              /\ UNCHANGED <<lock, served>>
    BY <1>2 DEF Decide, Return
  <2> HIDE DEF new
  <2>3. TypeOK'
    BY <2>1, <2>2 DEF OrderInv, TypeOK, Version
  <2>4. pc[o] = "decide" /\ lock = o
    BY <1>2 DEF Decide, OrderInv, LockInv, Locked
  <2>5. LockInv'
    BY <2>2, <2>4 DEF OrderInv, TypeOK, LockInv, Locked
  <2>6. ClimbInv'
    BY <2>1, <2>2, <2>4 DEF OrderInv, TypeOK, LockInv, ClimbInv, Locked
  <2> QED BY <2>3, <2>5, <2>6 DEF OrderInv
<1>3. ASSUME NEW o \in Openers, RefuseRollback(o) PROVE OrderInv'
  <2>1. TypeOK'
    BY <1>3 DEF OrderInv, TypeOK, RefuseRollback, Stop, NoStamp, Stamp, Time
  <2>2. LockInv' /\ ClimbInv'
    BY <1>3 DEF OrderInv, TypeOK, LockInv, ClimbInv, RefuseRollback, Stop, Locked
  <2> QED BY <2>1, <2>2 DEF OrderInv
<1>4. ASSUME NEW o \in Openers, Publish(o) PROVE OrderInv'
  <2>1. TypeOK'
    BY <1>4 DEF OrderInv, TypeOK, Publish
  <2>2. LockInv'
    BY <1>4 DEF OrderInv, TypeOK, LockInv, Publish, Locked
  <2>3. lock = o /\ pc[o] = "publish" /\ visible' = stamp[o] /\ durable' = durable
    BY <1>4 DEF OrderInv, LockInv, Publish, Locked
  <2>4. Le(durable, stamp[o])
    BY <2>3 DEF OrderInv, TypeOK, ClimbInv, Le, Stamp, Time
  <2>5. ClimbInv'
    BY <1>4, <2>3, <2>4 DEF OrderInv, TypeOK, LockInv, ClimbInv, Publish, Locked
  <2> QED BY <2>1, <2>2, <2>5 DEF OrderInv
<1>5. ASSUME NEW o \in Openers, SyncDirectory(o) PROVE OrderInv'
  <2>1. TypeOK'
    <3>1. stamp[o].version \in Version
      BY <1>5 DEF OrderInv, TypeOK, SyncDirectory
    <3> QED BY <1>5, <3>1 DEF OrderInv, TypeOK, SyncDirectory, Return, Version
  <2>2. LockInv'
    BY <1>5 DEF OrderInv, TypeOK, LockInv, SyncDirectory, Return, Locked
  <2>3. Le(visible, visible)
    BY DEF OrderInv, TypeOK, Le, Stamp, Time
  <2>4. ClimbInv'
    BY <1>5, <2>3 DEF OrderInv, TypeOK, LockInv, ClimbInv, SyncDirectory, Return, Locked
  <2> QED BY <2>1, <2>2, <2>4 DEF OrderInv
<1>6. ASSUME NEW o \in Openers, SyncFails(o) \/ Kill(o) PROVE OrderInv'
  <2>1. TypeOK'
    <3>1. NoStamp \in Stamp
      BY DEF NoStamp, Stamp, Time
    <3>2. CASE SyncFails(o)
      BY <3>1, <3>2 DEF OrderInv, TypeOK, SyncFails, Stop
    <3>3. CASE Kill(o)
      BY <3>1, <3>3 DEF OrderInv, TypeOK, Kill, Stop
    <3> QED BY <1>6, <3>2, <3>3
  <2>2. LockInv' /\ ClimbInv'
    BY <1>6 DEF OrderInv, TypeOK, LockInv, ClimbInv, SyncFails, Kill, Stop, Locked
  <2> QED BY <2>1, <2>2 DEF OrderInv
<1>7. ASSUME NEW o \in Openers, Authenticate(o) PROVE OrderInv'
  <2>1. TypeOK'
    BY <1>7 DEF OrderInv, TypeOK, Authenticate, Stop, NoStamp, Stamp, Time
  <2>2. LockInv' /\ ClimbInv'
    BY <1>7 DEF OrderInv, TypeOK, LockInv, ClimbInv, Authenticate, Stop, Locked
  <2> QED BY <2>1, <2>2 DEF OrderInv
<1>8. CASE PowerLoss
  <2>1. TypeOK'
    BY <1>8 DEF OrderInv, TypeOK, PowerLoss, NoStamp, Stamp, Time
  <2>2. LockInv'
    BY <1>8 DEF LockInv, PowerLoss, Locked
  <2>3. visible' = durable'
    BY <1>8 DEF PowerLoss
  <2>4. Le(durable', visible')
    BY <2>1, <2>3 DEF TypeOK, Le, Stamp, Time
  <2>5. ClimbInv'
    BY <1>8, <2>4 DEF ClimbInv, PowerLoss, Le
  <2> QED BY <2>1, <2>2, <2>5 DEF OrderInv
<1>9. CASE UNCHANGED vars
  BY <1>9 DEF vars, OrderInv, TypeOK, LockInv, ClimbInv, Le
<1> QED
  BY <1>1, <1>2, <1>3, <1>4, <1>5, <1>6, <1>7, <1>8, <1>9 DEF Next

\* The state file, the lock and every opener's locals keep their types, for any
\* faults (trustedTransferTime, atomicWriteState).
THEOREM TypeCorrect == Spec => []TypeOK
<1>1. Init => OrderInv
  BY InitOrder
<1>2. OrderInv /\ [Next]_vars => OrderInv'
  BY NextOrder
<1>3. OrderInv => TypeOK
  BY DEF OrderInv
<1> QED BY <1>1, <1>2, <1>3, PTL DEF Spec

\* The floor on disk falls only together with a newer key version, whatever
\* faults happen (the recovery boundary of trustedTransferTime).
THEOREM FloorRecoversOnlyOnRotation == Spec => FloorFallsOnlyOnRotation
<1>1. Init => OrderInv
  BY InitOrder
<1>2. OrderInv /\ [Next]_vars => OrderInv'
  BY NextOrder
<1>3. OrderInv /\ [Next]_vars =>
        [durable'.floor < durable.floor => durable'.version > durable.version]_vars
  <2> SUFFICES ASSUME OrderInv, Next, durable'.floor < durable.floor
               PROVE  durable'.version > durable.version
    OBVIOUS
  <2>1. durable' \in {visible, durable}
    BY DEF Next, Acquire, Decide, RefuseRollback, Publish, SyncDirectory, SyncFails,
           Authenticate, Kill, PowerLoss
  <2>2. Le(durable, visible) /\ durable \in Stamp /\ visible \in Stamp
    BY DEF OrderInv, ClimbInv, TypeOK
  <2> QED BY <2>1, <2>2, BoundsAssumption DEF Le, Stamp, Time
<1> QED BY <1>1, <1>2, <1>3, PTL DEF Spec, FloorFallsOnlyOnRotation

-----------------------------------------------------------------------------

Inv == OrderInv /\ CoverInv

\* The initial states cover everything: nothing was refused or served yet.
LEMMA InitCover == Init => Inv
<1>1. Init => OrderInv
  BY InitOrder
<1>2. Init => CoverInv
  BY BoundsAssumption DEF Init, CoverInv, Covers, Version, Stamp, Time
<1> QED BY <1>1, <1>2 DEF Inv

\* Le is transitive on stamps.
LEMMA LeTransitive ==
    ASSUME NEW a \in Stamp, NEW b \in Stamp, NEW c \in Stamp, Le(a, b), Le(b, c)
    PROVE  Le(a, c)
BY BoundsAssumption DEF Le, Stamp, Time

\* A file that covers everything still does when it climbs.
LEMMA CoversClimbs ==
    ASSUME OrderInv, NEW a \in Stamp, NEW b \in Stamp, Covers(a), Le(a, b)
    PROVE  Covers(b)
<1>1. served <= b.version
  BY BoundsAssumption DEF OrderInv, TypeOK, Covers, Le, Stamp
<1>2. \A v \in Version : v = b.version => refused[v] <= b.floor
  BY BoundsAssumption DEF OrderInv, TypeOK, Covers, Le, Stamp, Version, Time
<1>3. \A v \in Version : v > b.version => refused[v] = 0
  BY BoundsAssumption DEF OrderInv, TypeOK, Covers, Le, Stamp, Version
<1>4. \A o \in Openers : pc[o] = "authenticate" => Le(stamp[o], b)
  <2> SUFFICES ASSUME NEW o \in Openers, pc[o] = "authenticate" PROVE Le(stamp[o], b)
    OBVIOUS
  <2>1. stamp[o] \in Stamp /\ Le(stamp[o], a)
    BY DEF Covers, OrderInv, TypeOK
  <2> QED BY <2>1, LeTransitive
<1> QED BY <1>1, <1>2, <1>3, <1>4 DEF Covers

\* Every step on an honest disk preserves the covering.
LEMMA NextCover ==
    ASSUME HonestDisk, Inv, [Next]_vars
    PROVE  Inv'
<1> USE OpenersAssumption, BoundsAssumption
<1> faults' = faults
  BY DEF Next, vars
<1>0. OrderInv /\ OrderInv' /\ CoverInv
  BY NextOrder DEF Inv
<1> SUFFICES CoverInv'
  BY <1>0 DEF Inv
<1>1. ASSUME NEW o \in Openers, Acquire(o) PROVE CoverInv'
  BY <1>0, <1>1 DEF OrderInv, TypeOK, CoverInv, Covers, Acquire
<1>2. ASSUME NEW o \in Openers, Decide(o) PROVE CoverInv'
  <2> DEFINE new == NextStamp(visible, stamp[o].floor, stamp[o].version)
  <2>1. /\ new \in Stamp
        /\ new.version = stamp[o].version
        /\ Le(visible, new)
        /\ new.version \in Version
    <3>1. stamp[o].floor \in Time /\ stamp[o].version \in Version
      BY <1>0, <1>2 DEF OrderInv, TypeOK, Decide, Stamp
    <3>2. visible \in Stamp /\ visible.version <= stamp[o].version
      BY <1>0, <1>2 DEF OrderInv, TypeOK, Decide
    <3> QED BY <3>1, <3>2, NextStampClimbs
  <2>2. /\ stamp' = [stamp EXCEPT ![o] = new]
        /\ UNCHANGED <<visible, durable, refused>>
        /\ \/ /\ pc' = [pc EXCEPT ![o] = "authenticate"]
              /\ new = visible
              /\ served' = IF new.version > served THEN new.version ELSE served
           \/ /\ pc' = [pc EXCEPT ![o] = "publish"]
              /\ UNCHANGED served
    BY <1>2 DEF Decide, Return
  <2>3. pc[o] = "decide" /\ lock = o
    BY <1>0, <1>2 DEF Decide, OrderInv, LockInv, Locked
  <2>4. \A p \in Openers : pc[p] # "sync"
    BY <1>0, <2>3 DEF OrderInv, LockInv, Locked
  <2>5. "power" \in faults => durable = visible
    BY <1>0, <2>4 DEF CoverInv
  <2> HIDE DEF new
  <2>6. Le(visible, visible)
    BY <1>0 DEF OrderInv, TypeOK, Le, Stamp, Time
  <2>7. Covers(visible)'
    BY <1>0, <2>1, <2>2, <2>3, <2>6 DEF OrderInv, TypeOK, CoverInv, Covers, Stamp
  <2> QED BY <2>2, <2>5, <2>7 DEF CoverInv, Covers
<1>3. ASSUME NEW o \in Openers, RefuseRollback(o) PROVE CoverInv'
  BY <1>0, <1>3 DEF OrderInv, TypeOK, CoverInv, Covers, RefuseRollback, Stop
<1>4. ASSUME NEW o \in Openers, Publish(o) PROVE CoverInv'
  <2>1. /\ Le(visible, stamp[o]) /\ visible' = stamp[o]
        /\ visible \in Stamp /\ stamp[o] \in Stamp /\ Covers(visible)
    BY <1>0, <1>4 DEF OrderInv, TypeOK, ClimbInv, CoverInv, Publish
  <2>2. Covers(stamp[o])
    BY <1>0, <2>1, CoversClimbs
  <2>3. pc' = [pc EXCEPT ![o] = "sync"] /\ UNCHANGED <<durable, stamp, refused, served>>
    BY <1>4 DEF Publish
  <2>4. \A p \in Openers : pc'[p] = "authenticate" => pc[p] = "authenticate"
    BY <1>0, <2>3 DEF OrderInv, TypeOK
  <2>5. Covers(visible)'
    BY <2>1, <2>2, <2>3, <2>4 DEF Covers
  <2>6. "power" \in faults => Covers(durable)'
    BY <1>0, <2>3, <2>4 DEF CoverInv, Covers
  <2>7. pc'[o] = "sync"
    BY <1>0, <2>3 DEF OrderInv, TypeOK
  <2> QED BY <2>5, <2>6, <2>7 DEF CoverInv
<1>5. ASSUME NEW o \in Openers, SyncDirectory(o) PROVE CoverInv'
  <2>1. /\ visible = stamp[o] /\ stamp[o] \in Stamp /\ stamp[o].version \in Version
        /\ Covers(visible)
    BY <1>0, <1>5 DEF OrderInv, TypeOK, ClimbInv, CoverInv, SyncDirectory
  <2>2. /\ pc' = [pc EXCEPT ![o] = "authenticate"]
        /\ served' = IF stamp[o].version > served THEN stamp[o].version ELSE served
        /\ durable' = visible
        /\ UNCHANGED <<visible, stamp, refused>>
    BY <1>5 DEF SyncDirectory, Return
  <2>3. Le(stamp[o], visible)
    BY <2>1 DEF Le, Stamp, Time
  <2>4. Covers(visible)'
    BY <1>0, <2>1, <2>2, <2>3 DEF OrderInv, TypeOK, Covers, Stamp
  <2> QED BY <2>2, <2>4 DEF CoverInv, Covers
<1>6. ASSUME NEW o \in Openers, SyncFails(o) \/ Kill(o) PROVE CoverInv'
  <2>1. "power" \notin faults
    BY <1>0, <1>6 DEF HonestDisk, OrderInv, TypeOK, SyncFails, Kill
  <2> QED
    BY <1>0, <1>6, <2>1 DEF OrderInv, TypeOK, CoverInv, Covers, SyncFails, Kill, Stop
<1>7. ASSUME NEW o \in Openers, Authenticate(o) PROVE CoverInv'
  <2> DEFINE s == stamp[o]
  <2>1. /\ s \in Stamp /\ s.version \in Version /\ s.floor \in Time
        /\ Le(s, visible)
        /\ "power" \in faults => Le(s, durable)
    BY <1>0, <1>7 DEF OrderInv, TypeOK, CoverInv, Covers, Authenticate, Stamp
  <2>2. PICK expires \in Time :
          refused' = IF s.floor >= expires /\ expires > refused[s.version]
                     THEN [refused EXCEPT ![s.version] = expires]
                     ELSE refused
    BY <1>7 DEF Authenticate
  <2>3. /\ pc' = [pc EXCEPT ![o] = "idle"]
        /\ stamp' = [stamp EXCEPT ![o] = NoStamp]
        /\ UNCHANGED <<visible, durable, served>>
    BY <1>7 DEF Authenticate, Stop
  <2>4. \A p \in Openers : pc'[p] = "authenticate" =>
              pc[p] = "authenticate" /\ stamp'[p] = stamp[p]
    BY <1>0, <2>3 DEF OrderInv, TypeOK
  <2>5. \A p \in Openers : pc'[p] = "sync" <=> pc[p] = "sync"
    BY <1>0, <1>7, <2>3 DEF OrderInv, TypeOK, Authenticate
  <2>6. ASSUME NEW file \in Stamp, Covers(file), Le(s, file)
        PROVE  /\ \A v \in Version : v = file.version => refused'[v] <= file.floor
               /\ \A v \in Version : v > file.version => refused'[v] = 0
    <3>1. CASE refused' = refused
      BY <2>6, <3>1 DEF Covers
    <3>2. CASE refused' = [refused EXCEPT ![s.version] = expires] /\ s.floor >= expires
      <4> HIDE DEF s
      <4>1. s.version <= file.version
        BY <2>1, <2>6 DEF Le, Stamp, Version
      <4>2. s.version = file.version => expires <= file.floor
        BY <2>1, <2>2, <2>6, <3>2 DEF Le, Stamp, Time
      <4>3. \A v \in Version :
               refused'[v] = IF v = s.version THEN expires ELSE refused[v]
        BY <1>0, <3>2 DEF OrderInv, TypeOK
      <4> QED BY <2>1, <2>6, <4>1, <4>2, <4>3 DEF Covers, Version, Stamp
    <3> QED BY <2>2, <3>1, <3>2
  <2>7. visible \in Stamp /\ durable \in Stamp /\ Covers(visible)
    BY <1>0 DEF OrderInv, TypeOK, CoverInv
  <2>8. Covers(visible)'
    BY <2>1, <2>3, <2>4, <2>6, <2>7 DEF Covers
  <2>9. "power" \in faults => Covers(durable)'
    BY <1>0, <2>1, <2>3, <2>4, <2>6, <2>7 DEF CoverInv, Covers
  <2>10. "power" \in faults /\ (\A p \in Openers : pc'[p] # "sync") => durable' = visible'
    BY <1>0, <2>3, <2>5 DEF CoverInv
  <2> QED BY <2>8, <2>9, <2>10 DEF CoverInv
<1>8. CASE PowerLoss
  <2>1. "power" \in faults /\ Covers(visible) /\ Covers(durable)
    BY <1>0, <1>8 DEF PowerLoss, CoverInv
  <2>2. /\ visible' = durable'
        /\ visible' \in {visible, durable}
        /\ pc' = [p \in Openers |-> "idle"]
        /\ UNCHANGED <<refused, served>>
    BY <1>8 DEF PowerLoss
  <2>3. Covers(visible)'
    BY <2>1, <2>2 DEF Covers
  <2> QED BY <2>2, <2>3 DEF CoverInv, Covers
<1>9. CASE UNCHANGED vars
  BY <1>0, <1>9 DEF vars, CoverInv, Covers, Le
<1> QED
  BY <1>1, <1>2, <1>3, <1>4, <1>5, <1>6, <1>7, <1>8, <1>9 DEF Next

\* A step that serves an opener serves it a time no refusal reaches and a key
\* version no earlier service exceeds.
LEMMA ServedIsCovered ==
    ASSUME Inv, Next, NEW o \in Openers, Served(o)
    PROVE  /\ refused[stamp'[o].version] <= stamp'[o].floor
           /\ served <= stamp'[o].version
<1>0. TypeOK /\ LockInv /\ ClimbInv /\ Covers(visible)
  BY DEF Inv, OrderInv, CoverInv
<1>1. pc'[o] = "authenticate" /\ pc[o] # "authenticate"
  BY DEF Served
<1>2. Decide(o) \/ SyncDirectory(o)
  BY <1>0, <1>1 DEF Next, TypeOK, Acquire, Decide, RefuseRollback, Publish, SyncDirectory,
     SyncFails, Authenticate, Kill, PowerLoss, Stop, Return
<1>3. stamp'[o] = visible /\ visible.version \in Version
  <2>1. CASE Decide(o)
    <3> DEFINE new == NextStamp(visible, stamp[o].floor, stamp[o].version)
    <3>1. stamp[o].floor \in Time /\ stamp[o].version \in Version
      BY <1>0, <2>1 DEF TypeOK, Decide, Stamp
    <3>2. new.version = stamp[o].version
      BY <1>0, <2>1, <3>1, NextStampClimbs DEF TypeOK, Decide
    <3>3. new = visible /\ stamp'[o] = new
      BY <1>0, <1>1, <2>1 DEF TypeOK, Decide
    <3> QED BY <3>1, <3>2, <3>3
  <2>2. CASE SyncDirectory(o)
    BY <1>0, <2>2 DEF TypeOK, ClimbInv, SyncDirectory
  <2> QED BY <1>2, <2>1, <2>2
<1> QED BY <1>0, <1>3 DEF Covers

\* An offer refused as expired stays refused under the same key version, on any
\* honest disk (trustedTransferTime, openOffer's expiry check).
THEOREM ExpiredStaysExpired ==
    ASSUME HonestDisk
    PROVE  Spec => NoRevival
<1>1. Init => Inv
  BY InitCover
<1>2. Inv /\ [Next]_vars => Inv'
  BY NextCover
<1>3. Inv /\ [Next]_vars =>
        [\A o \in Openers :
            Served(o) => refused[stamp'[o].version] <= stamp'[o].floor]_vars
  BY ServedIsCovered
<1> QED BY <1>1, <1>2, <1>3, PTL DEF Spec, NoRevival

\* Once a key version was served, no older one is, on any honest disk ("device
\* key version rollback").
THEOREM KeyNeverRollsBack ==
    ASSUME HonestDisk
    PROVE  Spec => NoKeyRollback
<1>1. Init => Inv
  BY InitCover
<1>2. Inv /\ [Next]_vars => Inv'
  BY NextCover
<1>3. Inv /\ [Next]_vars =>
        [\A o \in Openers : Served(o) => served <= stamp'[o].version]_vars
  BY ServedIsCovered
<1> QED BY <1>1, <1>2, <1>3, PTL DEF Spec, NoKeyRollback
=============================================================================
