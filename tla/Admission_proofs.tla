--------------------------- MODULE Admission_proofs ---------------------------
(***************************************************************************)
(* The counters of the admission manager are exact for any set of calls,   *)
(* offers, scopes and quotas: no path through OpenReceiver, Finalize,      *)
(* Close, Cancel, the collector or a restart counts an admission twice or  *)
(* forgets to give it back.                                                *)
(*                                                                         *)
(* closeActive decrements without looking, so exactness rests on where the *)
(* calls are: one that is idle or about to return has been closed, one     *)
(* that has not claimed its key yet is active and holds no reference       *)
(* (Phases).  The count of a set that gains or loses one call is then what *)
(* the code adds or subtracts.                                             *)
(***************************************************************************)
EXTENDS Admission, FiniteSetTheorems, TLAPS

Users(k) == {p \in Procs : Counted(p) /\ adm[p].key = k}
InScope(s) == {p \in Procs : adm[p].active /\ s \in ScopesOf[adm[p].dev]}

Fields == {"key", "dev", "bytes", "active", "keyed", "completed", "owner", "persistent", "handle", "released"}

\* The offers are claims; the updates are of arguments the functions have.
Shape ==
    /\ setting.offers \subseteq Claims
    /\ DOMAIN adm = Procs /\ DOMAIN pc = Procs /\ DOMAIN refs = Keys
    /\ \A p \in Procs : DOMAIN adm[p] = Fields

\* Between the claim and the end of a call.
Claimed == {"publish", "open", "mark", "lease", "tombstone", "receiving", "committed"}

\* What holds of a call where it is.
Phases ==
    \A p \in Procs :
        /\ pc[p] \in {"idle", "aborting", "unlease", "collected"} => ~adm[p].active
        /\ pc[p] \in {"load", "loading", "claim"} => adm[p].active /\ ~adm[p].keyed
        /\ adm[p].active => adm[p].key \in Keys /\ adm[p].dev \in Devices
        /\ adm[p].keyed => adm[p].key \in Keys
        /\ pc[p] \notin {"idle", "unlease"} => adm[p].key \in Keys
        /\ mu = p <=> pc[p] = "loading"
        /\ pc[p] \in Claimed => adm[p].active /\ adm[p].keyed

Counts ==
    /\ \A s \in Scopes : active[s] = Cardinality(InScope(s))
    /\ \A k \in Keys : refs[k] = Cardinality(Users(k))

Inv == Shape /\ Phases /\ Counts

-----------------------------------------------------------------------------
(* Counting. *)

\* Subsets of the calls are finite.
LEMMA CallsFinite == \A S \in SUBSET Procs : IsFiniteSet(S)
BY FiniteAssumption, FS_Subset

\* One call more, one call less.
LEMMA OneMore ==
    ASSUME NEW S \in SUBSET Procs, NEW T \in SUBSET Procs, NEW p \in Procs,
           p \notin S, T = S \cup {p}
    PROVE  Cardinality(T) = Cardinality(S) + 1
BY CallsFinite, FS_AddElement

LEMMA OneLess ==
    ASSUME NEW S \in SUBSET Procs, NEW T \in SUBSET Procs, NEW p \in Procs,
           p \in S, T = S \ {p}
    PROVE  Cardinality(T) = Cardinality(S) - 1
BY CallsFinite, FS_RemoveElement

LEMMA CountIsNat == \A S \in SUBSET Procs : Cardinality(S) \in Nat
BY CallsFinite, FS_CardinalityType

\* A step that leaves every admission's activity, key and device alone, and the
\* two counters, keeps the counts.
LEMMA Quiet ==
    ASSUME Counts, active' = active, refs' = refs,
           \A q \in Procs :
              /\ adm'[q].active <=> adm[q].active
              /\ adm[q].active =>
                    /\ adm'[q].keyed <=> adm[q].keyed
                    /\ adm'[q].key = adm[q].key
                    /\ adm'[q].dev = adm[q].dev
    PROVE  Counts'
<1>1. \A s \in Scopes : InScope(s)' = InScope(s)
  BY DEF InScope
<1>2. \A k \in Keys : Users(k)' = Users(k)
  BY DEF Users, Counted
<1> QED
  BY <1>1, <1>2 DEF Counts

-----------------------------------------------------------------------------
(* Sums. *)

\* The sum of the bytes of the keys in S; the recursion of the library's sum; and
\* what it adds up, unit by unit.
Total(r, S) == MapThenSumSet(LAMBDA k : r[k].bytes, S)

First(s) == CHOOSE x \in s : TRUE
Sums(r, S, g) ==
    g = [s \in SUBSET S |-> IF s = {} THEN 0 ELSE r[First(s)].bytes + g[s \ {First(s)}]]

Units(r, S) == {z \in S \X Nat : z[2] < r[z[1]].bytes}
Weight(r, S) == Cardinality(Units(r, S))
Weighed(r, S) == IsFiniteSet(S) /\ \A k \in S : r[k].bytes \in Nat

\* The library's sum is the function its recursion chooses.
LEMMA TotalChoice == ASSUME NEW r, NEW S PROVE Total(r, S) = (CHOOSE g : Sums(r, S, g))[S]
BY DEF Total, MapThenSumSet, MapThenFoldSet, Sums, First

\* Induction on a finite set: a family of its subsets has a smallest member.
LEMMA MinimalSubset ==
    ASSUME NEW S, IsFiniteSet(S), NEW F \in SUBSET SUBSET S, F # {}
    PROVE  \E m \in F : \A u \in F : u \subseteq m => u = m
<1>1. IsWellFoundedOn(StrictSubsetOrdering(S), SUBSET S)
  BY FS_StrictSubsetOrderingWellFounded, FS_FiniteSubsetsOfFinite
<1>2. \E m \in F : \A u \in F : <<u, m>> \notin StrictSubsetOrdering(S)
  BY <1>1, WFMin
<1> QED
  BY <1>2 DEF StrictSubsetOrdering

\* The units of one key, of disjoint sets of keys, of finitely many keys.
LEMMA UnitsOfOne ==
    ASSUME NEW r, NEW k, r[k].bytes \in Nat
    PROVE  IsFiniteSet(Units(r, {k})) /\ Weight(r, {k}) = r[k].bytes
<1> DEFINE n == r[k].bytes
           f == [i \in 0 .. n - 1 |-> <<k, i>>]
<1>1. Units(r, {k}) = {<<k, i>> : i \in 0 .. n - 1}
  <2>1. ASSUME NEW z \in Units(r, {k}) PROVE z \in {<<k, i>> : i \in 0 .. n - 1}
    BY <2>1 DEF Units
  <2>2. ASSUME NEW i \in 0 .. n - 1 PROVE <<k, i>> \in Units(r, {k})
    BY <2>2 DEF Units
  <2> QED
    BY <2>1, <2>2
<1>2. f \in Bijection(0 .. n - 1, Units(r, {k}))
  BY <1>1 DEF Bijection, Injection, IsInjective, Surjection
<1>3. IsFiniteSet(0 .. n - 1) /\ Cardinality(0 .. n - 1) = n
  <2>1. \A b \in Int : /\ IsFiniteSet(0 .. b)
                        /\ Cardinality(0 .. b) = IF 0 > b THEN 0 ELSE b - 0 + 1
    BY FS_Interval
  <2>2. \A j \in Nat : IsFiniteSet(0 .. j - 1) /\ Cardinality(0 .. j - 1) = j
    BY <2>1
  <2> QED
    BY <2>2
<1>4. ExistsBijection(0 .. n - 1, Units(r, {k}))
  BY <1>2 DEF ExistsBijection
<1> QED
  BY <1>3, <1>4, FS_Bijection DEF Weight

LEMMA UnitsJoin ==
    ASSUME NEW r, NEW S, NEW T, S \cap T = {},
           IsFiniteSet(Units(r, S)), IsFiniteSet(Units(r, T))
    PROVE  /\ IsFiniteSet(Units(r, S \cup T))
           /\ Weight(r, S \cup T) = Weight(r, S) + Weight(r, T)
<1>1. Units(r, S \cup T) = Units(r, S) \cup Units(r, T) /\ Units(r, S) \cap Units(r, T) = {}
  BY DEF Units
<1>2. Cardinality(Units(r, S)) \in Nat /\ Cardinality(Units(r, T)) \in Nat
  BY FS_CardinalityType
<1>3. /\ IsFiniteSet(Units(r, S) \cup Units(r, T))
      /\ Cardinality(Units(r, S) \cup Units(r, T))
            = Cardinality(Units(r, S)) + Cardinality(Units(r, T)) - Cardinality({})
  BY <1>1, FS_Union
<1>4. Cardinality({}) = 0
  BY FS_EmptySet
<1>5. /\ IsFiniteSet(Units(r, S \cup T))
      /\ Weight(r, S \cup T) = Cardinality(Units(r, S) \cup Units(r, T))
  BY <1>1, <1>3, Zenon DEF Weight
<1> QED
  BY <1>2, <1>3, <1>4, <1>5 DEF Weight

LEMMA UnitsFinite ==
    ASSUME NEW r, NEW S, Weighed(r, S)
    PROVE  IsFiniteSet(Units(r, S)) /\ Weight(r, S) \in Nat
<1> DEFINE F == {s \in SUBSET S : ~IsFiniteSet(Units(r, s))}
<1>1. ASSUME F # {} PROVE FALSE
  <2>1. PICK m \in F : \A u \in F : u \subseteq m => u = m
    <3>1. F \in SUBSET SUBSET S /\ IsFiniteSet(S)
      BY DEF Weighed
    <3> HIDE DEF F
    <3> QED
      BY <1>1, <3>1, MinimalSubset
  <2>2. m # {}
    BY FS_EmptySet DEF Units
  <2>3. PICK k \in m : TRUE
    BY <2>2
  <2>4. IsFiniteSet(Units(r, m \ {k})) /\ IsFiniteSet(Units(r, {k}))
    BY <2>1, UnitsOfOne DEF Weighed
  <2>5. m = (m \ {k}) \cup {k}
    OBVIOUS
  <2> QED
    BY <2>4, <2>5, UnitsJoin
<1>2. S \notin F
  BY <1>1
<1> QED
  BY <1>2, FS_CardinalityType DEF Weight

\* A sum is the number of the units it adds up: that count satisfies the recursion,
\* and nothing else does.
LEMMA TotalIsWeight ==
    ASSUME NEW r, NEW S, Weighed(r, S)
    PROVE  Total(r, S) = Weight(r, S)
<1>1. ASSUME NEW s \in SUBSET S, NEW k \in s
      PROVE  Weight(r, s) = r[k].bytes + Weight(r, s \ {k})
  <2>1. s = (s \ {k}) \cup {k}
    OBVIOUS
  <2>2. Weighed(r, s \ {k}) /\ r[k].bytes \in Nat
    BY FS_Subset DEF Weighed
  <2>3. Weight(r, s \ {k}) \in Nat /\ IsFiniteSet(Units(r, s \ {k})) /\ IsFiniteSet(Units(r, {k}))
    BY <2>2, UnitsFinite, UnitsOfOne
  <2>4. Weight(r, (s \ {k}) \cup {k}) = Weight(r, s \ {k}) + Weight(r, {k})
    <3>1. (s \ {k}) \cap {k} = {}
      OBVIOUS
    <3> QED
      BY <2>3, <3>1, UnitsJoin
  <2>5. Weight(r, {k}) = r[k].bytes
    BY <2>2, UnitsOfOne
  <2>6. Weight(r, s) = Weight(r, (s \ {k}) \cup {k})
    BY <2>1, Zenon
  <2> QED
    BY <2>2, <2>3, <2>4, <2>5, <2>6
<1>2. Weight(r, {}) = 0
  BY FS_EmptySet DEF Weight, Units
<1>3. \A s \in SUBSET S : s # {} => First(s) \in s
  BY DEF First
<1>4. Sums(r, S, [s \in SUBSET S |-> Weight(r, s)])
  BY <1>1, <1>2, <1>3 DEF Sums
<1>5. PICK g : g = (CHOOSE h : Sums(r, S, h)) /\ Sums(r, S, g)
  BY <1>4
<1> DEFINE F == {s \in SUBSET S : g[s] # Weight(r, s)}
<1>6. ASSUME F # {} PROVE FALSE
  <2>1. PICK m \in F : \A u \in F : u \subseteq m => u = m
    <3>1. F \in SUBSET SUBSET S /\ IsFiniteSet(S)
      BY DEF Weighed
    <3> HIDE DEF F
    <3> QED
      BY <1>6, <3>1, MinimalSubset
  <2>2. g[m] = IF m = {} THEN 0 ELSE r[First(m)].bytes + g[m \ {First(m)}]
    BY <1>5 DEF Sums
  <2>3. m # {}
    BY <1>2, <2>2
  <2>4. g[m \ {First(m)}] = Weight(r, m \ {First(m)})
    BY <1>3, <2>1, <2>3
  <2> QED
    BY <1>1, <1>3, <2>2, <2>3, <2>4
<1> QED
  BY <1>5, <1>6, TotalChoice
-----------------------------------------------------------------------------
(* Where the calls are. *)

\* The setting is chosen once.
LEMMA FixedStep == [Next]_vars => setting' = setting
<1> SUFFICES ASSUME [Next]_vars PROVE setting' = setting
  OBVIOUS
<1>1. ASSUME NEW p \in Procs, Open(p) PROVE setting' = setting
  BY <1>1 DEF Open, Begin, LoadBegin, LoadCompleted, LoadReserved, LoadReplaces, LoadEnd, LoadFails,
              ClaimShared, ClaimNew, Publish, OpenState, MarkPersistent, LeaseTransfer,
              AlreadyCompleted, Opened, Fail, FailClose, Abort, Return, world
<1>2. ASSUME NEW p \in Procs, Use(p) PROVE setting' = setting
  BY <1>2 DEF Use, Commit, Complete, EndFinalize, Close, Cancel, ReleaseReservation, Collect,
              DropCollected, world
<1> QED
  BY <1>1, <1>2 DEF Next, Restart, vars, world

LEMMA ShapeStep == Inv /\ [Next]_vars => Shape'
<1> SUFFICES ASSUME Shape, Phases, [Next]_vars PROVE Shape'
  BY DEF Inv
<1> USE FixedStep DEF Shape, Fields
<1>1. ASSUME NEW p \in Procs, Open(p) PROVE Shape'
  <2>1. CASE Begin(p)
    BY <2>1 DEF Begin, Add, NewAdm, Goto
  <2>2. CASE LoadBegin(p)
    BY <2>2 DEF LoadBegin, Drop, Goto
  <2>3. CASE LoadCompleted(p)
    BY <2>3 DEF LoadCompleted, Drop
  <2>4. CASE LoadReserved(p)
    BY <2>4 DEF LoadReserved, Reserve
  <2>5. CASE LoadReplaces(p)
    BY <2>5 DEF LoadReplaces, Drop
  <2>6. CASE LoadEnd(p) \/ LoadFails(p)
    BY <2>6 DEF LoadEnd, LoadFails, Goto, memory, usage
  <2>7. CASE ClaimShared(p)
    BY <2>7 DEF ClaimShared, Goto, Phases
  <2>8. CASE ClaimNew(p)
    BY <2>8 DEF ClaimNew, Reserve, Goto, Phases
  <2>9. CASE Publish(p) \/ OpenState(p)
    BY <2>9 DEF Publish, OpenState, Goto, memory, usage
  <2>10. CASE MarkPersistent(p)
    BY <2>10 DEF MarkPersistent, Goto, usage
  <2>11. CASE LeaseTransfer(p) \/ Opened(p) \/ Fail(p)
    BY <2>11 DEF LeaseTransfer, Opened, Fail, Goto, memory, usage
  <2>12. CASE AlreadyCompleted(p)
    BY <2>12 DEF AlreadyCompleted, MarkCompleted, Drop, Goto
  <2>13. CASE FailClose(p)
    BY <2>13 DEF FailClose, CloseActive, Add, Goto
  <2>14. CASE Abort(p)
    BY <2>14 DEF Abort, Drop, Goto
  <2>15. CASE Return(p)
    BY <2>15 DEF Return, NoAdm, NewAdm, Goto, memory, usage
  <2> QED
    BY <1>1, <2>1, <2>2, <2>3, <2>4, <2>5, <2>6, <2>7, <2>8, <2>9, <2>10, <2>11, <2>12,
       <2>13, <2>14, <2>15 DEF Open
<1>2. ASSUME NEW p \in Procs, Use(p) PROVE Shape'
  <2>1. CASE Commit(p)
    BY <2>1 DEF Commit, Goto, memory, usage
  <2>2. CASE Complete(p)
    BY <2>2 DEF Complete, MarkCompleted, Drop, Goto
  <2>3. CASE EndFinalize(p) \/ Close(p)
    BY <2>3 DEF EndFinalize, Close, CloseActive, Add, Goto
  <2>4. CASE Cancel(p)
    BY <2>4 DEF Cancel, Detach, Goto, memory, usage
  <2>5. CASE ReleaseReservation(p)
    BY <2>5 DEF ReleaseReservation, Drop, Goto
  <2>6. CASE Collect(p)
    BY <2>6 DEF Collect, Detach, Goto, memory, usage
  <2>7. CASE DropCollected(p)
    BY <2>7 DEF DropCollected, Drop, NoAdm, NewAdm, Goto
  <2> QED
    BY <1>2, <2>1, <2>2, <2>3, <2>4, <2>5, <2>6, <2>7 DEF Use
<1>3. CASE Restart
  BY <1>3 DEF Restart, Zero, NoAdm, NewAdm
<1>4. CASE UNCHANGED vars
  BY <1>4 DEF vars, memory, usage
<1> QED
  BY <1>1, <1>2, <1>3, <1>4 DEF Next

LEMMA PhasesStep == Inv /\ [Next]_vars => Phases'
<1> SUFFICES ASSUME Shape, Phases, [Next]_vars PROVE Phases'
  BY DEF Inv
<1> USE NamesAssumption DEF Shape, Fields, Phases, Claimed
<1>1. ASSUME NEW p \in Procs, Open(p) PROVE Phases'
  <2>1. CASE Begin(p)
    BY <2>1, ClaimsAssumption DEF Begin, NewAdm, Goto, loading
  <2>2. CASE LoadBegin(p)
    BY <2>2 DEF LoadBegin, Goto
  <2>3. CASE LoadCompleted(p) \/ LoadReserved(p) \/ LoadReplaces(p)
    BY <2>3 DEF LoadCompleted, LoadReserved, LoadReplaces, loading
  <2>4. CASE LoadEnd(p) \/ LoadFails(p)
    BY <2>4 DEF LoadEnd, LoadFails, Goto
  <2>5. CASE ClaimShared(p) \/ ClaimNew(p)
    BY <2>5 DEF ClaimShared, ClaimNew, Goto, loading
  <2>6. CASE Publish(p) \/ OpenState(p)
    BY <2>6 DEF Publish, OpenState, Goto, loading
  <2>7. CASE MarkPersistent(p)
    BY <2>7 DEF MarkPersistent, Goto, loading
  <2>8. CASE LeaseTransfer(p) \/ AlreadyCompleted(p) \/ Opened(p) \/ Abort(p)
    BY <2>8 DEF LeaseTransfer, AlreadyCompleted, Opened, Abort, Goto, loading
  <2>9. CASE Fail(p)
    BY <2>9 DEF Fail, Goto, loading
  <2>10. CASE FailClose(p)
    BY <2>10 DEF FailClose, CloseActive, Goto, loading
  <2>11. CASE Return(p)
    BY <2>11 DEF Return, NoAdm, NewAdm, Goto, loading
  <2> QED
    BY <1>1, <2>1, <2>2, <2>3, <2>4, <2>5, <2>6, <2>7, <2>8, <2>9, <2>10, <2>11 DEF Open
<1>2. ASSUME NEW p \in Procs, Use(p) PROVE Phases'
  <2>1. CASE Commit(p) \/ Complete(p) \/ ReleaseReservation(p)
    BY <2>1 DEF Commit, Complete, ReleaseReservation, Goto, loading
  <2>2. CASE EndFinalize(p) \/ Close(p)
    BY <2>2 DEF EndFinalize, Close, CloseActive, Goto, loading
  <2>3. CASE Cancel(p)
    BY <2>3 DEF Cancel, Detach, Goto, loading
  <2>4. CASE Collect(p)
    BY <2>4, ClaimsAssumption DEF Collect, Detach, Goto, loading
  <2>5. CASE DropCollected(p)
    BY <2>5 DEF DropCollected, NoAdm, NewAdm, Goto, loading
  <2> QED
    BY <1>2, <2>1, <2>2, <2>3, <2>4, <2>5 DEF Use
<1>3. CASE Restart
  BY <1>3 DEF Restart, NoAdm, NewAdm
<1>4. CASE UNCHANGED vars
  BY <1>4 DEF vars, loading
<1> QED
  BY <1>1, <1>2, <1>3, <1>4 DEF Next

-----------------------------------------------------------------------------
(* The counts. *)

\* begin: one more active call in the scopes of its device; it has no key yet.
LEMMA BeginCounts ==
    ASSUME Inv, NEW p \in Procs, Begin(p)
    PROVE  Counts'
<1> USE DEF Inv, Shape, Fields
<1>1. PICK c \in Claims : /\ active' = Add(active, c.dev, 1)
                          /\ adm' = [adm EXCEPT ![p] = NewAdm(c, TRUE)]
  BY DEF Begin
<1>2. ~adm[p].active /\ refs' = refs
  BY DEF Begin, Phases
<1>3. ASSUME NEW s \in Scopes PROVE active'[s] = Cardinality(InScope(s)')
  <2>1. p \notin InScope(s)
    BY <1>2 DEF InScope
  <2>2. CASE s \in ScopesOf[c.dev]
    <3>1. InScope(s)' = InScope(s) \cup {p}
      BY <1>1, <2>2 DEF InScope, NewAdm
    <3>2. InScope(s) \in SUBSET Procs /\ InScope(s)' \in SUBSET Procs
      BY <3>1 DEF InScope
    <3>3. Cardinality(InScope(s)') = Cardinality(InScope(s)) + 1
      BY <2>1, <3>1, <3>2, OneMore
    <3> QED
      BY <1>1, <2>2, <3>3 DEF Counts, Add
  <2>3. CASE s \notin ScopesOf[c.dev]
    <3>1. InScope(s)' = InScope(s)
      BY <1>1, <2>1, <2>3 DEF InScope, NewAdm
    <3>2. InScope(s) \in SUBSET Procs
      BY DEF InScope
    <3> QED
      BY <1>1, <2>3, <3>1, <3>2, CountIsNat DEF Counts, Add
  <2> QED
    BY <2>2, <2>3
<1>4. ASSUME NEW k \in Keys PROVE refs'[k] = Cardinality(Users(k)')
  <2>1. Users(k)' = Users(k)
    BY <1>1, <1>2 DEF Users, Counted, NewAdm
  <2> QED
    BY <1>2, <2>1 DEF Counts
<1> QED
  BY <1>3, <1>4 DEF Counts

\* claimReservation: one more call that uses the key.
LEMMA ClaimCounts ==
    ASSUME Inv, NEW p \in Procs, ClaimShared(p) \/ ClaimNew(p)
    PROVE  Counts'
<1> USE DEF Inv, Shape, Fields
<1> DEFINE key == adm[p].key
<1>1. adm[p].active /\ ~adm[p].keyed /\ key \in Keys
  BY DEF Phases, ClaimShared, ClaimNew
<1>2. /\ active' = active
      /\ refs' = [refs EXCEPT ![key] = @ + 1]
      /\ \A q \in Procs :
            /\ adm'[q].active <=> adm[q].active
            /\ adm'[q].key = adm[q].key /\ adm'[q].dev = adm[q].dev
            /\ adm'[q].keyed <=> adm[q].keyed \/ q = p
  BY DEF ClaimShared, ClaimNew
<1>3. ASSUME NEW s \in Scopes PROVE active'[s] = Cardinality(InScope(s)')
  <2>1. InScope(s)' = InScope(s)
    BY <1>2 DEF InScope
  <2> QED
    BY <1>2, <2>1 DEF Counts
<1>4. ASSUME NEW k \in Keys PROVE refs'[k] = Cardinality(Users(k)')
  <2>1. CASE k = key
    <3>1. p \notin Users(k) /\ Users(k)' = Users(k) \cup {p}
      BY <1>1, <1>2, <2>1 DEF Users, Counted
    <3>2. Users(k) \in SUBSET Procs /\ Users(k)' \in SUBSET Procs
      BY <3>1 DEF Users
    <3>3. Cardinality(Users(k)') = Cardinality(Users(k)) + 1
      BY <3>1, <3>2, OneMore
    <3> QED
      BY <1>2, <2>1, <3>3 DEF Counts
  <2>2. CASE k # key
    <3>1. Users(k)' = Users(k)
      BY <1>2, <2>2 DEF Users, Counted
    <3> QED
      BY <1>2, <2>2, <3>1 DEF Counts
  <2> QED
    BY <2>1, <2>2
<1> QED
  BY <1>3, <1>4 DEF Counts

\* closeActive: one less active call in its scopes and, if it has claimed its key,
\* one less that uses it.  The code's test that the references are positive
\* never fails.
LEMMA CloseCounts ==
    ASSUME Inv, NEW p \in Procs, CloseActive(p)
    PROVE  Counts'
<1> USE DEF Inv, Shape, Fields
<1>1. CASE ~adm[p].active
  BY <1>1, Quiet DEF CloseActive
<1>2. CASE adm[p].active
  <2> DEFINE key == adm[p].key
  <2>1. key \in Keys
    BY <1>2 DEF Phases
  <2>2. /\ active' = Add(active, adm[p].dev, -1)
        /\ refs' = [refs EXCEPT ![key] = @ - (IF adm[p].keyed /\ @ > 0 THEN 1 ELSE 0)]
        /\ adm' = [adm EXCEPT ![p].active = FALSE]
    BY <1>2 DEF CloseActive
  <2>3. ASSUME NEW s \in Scopes PROVE active'[s] = Cardinality(InScope(s)')
    <3>1. InScope(s) \in SUBSET Procs
      BY DEF InScope
    <3>2. CASE s \in ScopesOf[adm[p].dev]
      <4>1. p \in InScope(s) /\ InScope(s)' = InScope(s) \ {p}
        BY <1>2, <2>2, <3>2 DEF InScope
      <4>2. Cardinality(InScope(s)') = Cardinality(InScope(s)) - 1 /\ Cardinality(InScope(s)) \in Nat
        BY <3>1, <4>1, OneLess, CountIsNat
      <4> QED
        BY <2>2, <3>2, <4>2 DEF Counts, Add
    <3>3. CASE s \notin ScopesOf[adm[p].dev]
      <4>1. InScope(s)' = InScope(s)
        BY <2>2, <3>3 DEF InScope
      <4> QED
        BY <2>2, <3>1, <3>3, <4>1, CountIsNat DEF Counts, Add
    <3> QED
      BY <3>2, <3>3
  <2>4. ASSUME NEW k \in Keys PROVE refs'[k] = Cardinality(Users(k)')
    <3>1. Users(k) \in SUBSET Procs /\ refs[k] = Cardinality(Users(k)) /\ refs[k] \in Nat
      BY CountIsNat DEF Users, Counts
    <3>2. CASE k = key /\ adm[p].keyed
      <4>1. p \in Users(k) /\ Users(k)' = Users(k) \ {p}
        BY <1>2, <2>2, <3>2 DEF Users, Counted
      <4>2. Cardinality(Users(k)') = refs[k] - 1 /\ Cardinality(Users(k)') \in Nat
        BY <3>1, <4>1, OneLess, CountIsNat
      <4> QED
        BY <2>1, <2>2, <3>1, <3>2, <4>2
    <3>3. CASE ~(k = key /\ adm[p].keyed)
      <4>1. Users(k)' = Users(k)
        BY <2>2, <3>3 DEF Users, Counted
      <4> QED
        BY <2>1, <2>2, <3>1, <3>3, <4>1
    <3> QED
      BY <3>2, <3>3
  <2> QED
    BY <2>3, <2>4 DEF Counts
<1> QED
  BY <1>1, <1>2

\* Every other step is quiet.
LEMMA CountsStep == Inv /\ [Next]_vars => Counts'
<1> SUFFICES ASSUME Inv, [Next]_vars PROVE Counts'
  OBVIOUS
<1> USE DEF Inv, Shape, Fields
<1>1. ASSUME NEW p \in Procs, Open(p) PROVE Counts'
  <2>1. CASE Begin(p)
    BY <2>1, BeginCounts
  <2>2. CASE ClaimShared(p) \/ ClaimNew(p)
    BY <2>2, ClaimCounts
  <2>3. CASE FailClose(p)
    BY <2>3, CloseCounts DEF FailClose
  <2>4. CASE LoadBegin(p) \/ LoadCompleted(p) \/ LoadReserved(p) \/ LoadReplaces(p)
    BY <2>4, Quiet DEF LoadBegin, LoadCompleted, LoadReserved, LoadReplaces, Reserve
  <2>5. CASE LoadEnd(p) \/ LoadFails(p)
    BY <2>5, Quiet DEF LoadEnd, LoadFails, memory, usage
  <2>6. CASE Publish(p) \/ OpenState(p)
    BY <2>6, Quiet DEF Publish, OpenState, memory, usage
  <2>7. CASE MarkPersistent(p)
    BY <2>7, Quiet DEF MarkPersistent, usage
  <2>8. CASE LeaseTransfer(p) \/ Opened(p) \/ Fail(p)
    BY <2>8, Quiet DEF LeaseTransfer, Opened, Fail, memory, usage
  <2>9. CASE AlreadyCompleted(p) \/ Abort(p)
    BY <2>9, Quiet DEF AlreadyCompleted, Abort, MarkCompleted
  <2>10. CASE Return(p)
    <3>1. ~adm[p].active
      BY <2>10 DEF Return, Phases
    <3> QED
      BY <2>10, <3>1, Quiet DEF Return, NoAdm, NewAdm, memory, usage
  <2> QED
    BY <1>1, <2>1, <2>2, <2>3, <2>4, <2>5, <2>6, <2>7, <2>8, <2>9, <2>10 DEF Open
<1>2. ASSUME NEW p \in Procs, Use(p) PROVE Counts'
  <2>1. CASE EndFinalize(p) \/ Close(p)
    BY <2>1, CloseCounts DEF EndFinalize, Close
  <2>2. CASE Commit(p) \/ Complete(p) \/ ReleaseReservation(p)
    BY <2>2, Quiet DEF Commit, Complete, MarkCompleted, ReleaseReservation, memory, usage
  <2>3. CASE Cancel(p)
    BY <2>3, Quiet DEF Cancel, Detach, memory, usage
  <2>4. CASE Collect(p)
    <3>1. ~adm[p].active
      BY <2>4 DEF Collect, Phases
    <3> QED
      BY <2>4, <3>1, Quiet DEF Collect, Detach, memory, usage
  <2>5. CASE DropCollected(p)
    <3>1. ~adm[p].active
      BY <2>5 DEF DropCollected, Phases
    <3> QED
      BY <2>5, <3>1, Quiet DEF DropCollected, NoAdm, NewAdm
  <2> QED
    BY <1>2, <2>1, <2>2, <2>3, <2>4, <2>5 DEF Use
<1>3. CASE Restart
  <2>1. \A p \in Procs : ~adm'[p].active
    BY <1>3 DEF Restart, NoAdm, NewAdm
  <2>2. /\ \A s \in Scopes : InScope(s)' = {}
        /\ \A k \in Keys : Users(k)' = {}
    BY <2>1 DEF InScope, Users, Counted
  <2> QED
    BY <1>3, <2>2, FS_EmptySet DEF Restart, Zero, Counts
<1>4. CASE UNCHANGED vars
  BY <1>4, Quiet DEF vars, memory, usage
<1> QED
  BY <1>1, <1>2, <1>3, <1>4 DEF Next

LEMMA InitInv == Init => Inv
<1> SUFFICES ASSUME Init PROVE Inv
  OBVIOUS
<1>1. Shape /\ Phases
  BY NamesAssumption, SettingsAssumption DEF Init, Shape, Fields, Phases, Claimed, NoAdm, NewAdm
<1>2. /\ \A s \in Scopes : InScope(s) = {}
      /\ \A k \in Keys : Users(k) = {}
  BY DEF Init, InScope, Users, Counted, NoAdm, NewAdm
<1>3. Counts
  BY <1>2, FS_EmptySet DEF Init, Zero, Counts
<1> QED
  BY <1>1, <1>3 DEF Inv

\* However the calls interleave, fail, retry or die, begin, claimReservation and
\* closeActive keep both counters equal to what is in progress.
THEOREM Exactness == Spec => []CountersExact
<1>1. Inv => CountersExact
  BY DEF Inv, Counts, CountersExact, InScope, Users
<1>2. Inv /\ [Next]_vars => Inv'
  BY ShapeStep, PhasesStep, CountsStep DEF Inv
<1> QED
  BY InitInv, <1>1, <1>2, PTL DEF Spec
-----------------------------------------------------------------------------
(* What is charged. *)

\* The reservations of the keys in ks that count in a scope.
Held(s, ks) == {k \in ks : reservations[k] # NoRec /\ s \in ScopesOf[reservations[k].dev]}
Kept(s) == {k \in Keys : completed[k] # NoDevice /\ s \in ScopesOf[completed[k]]}

Types ==
    /\ setting \in Settings
    /\ active = [s \in Scopes |-> active[s]] /\ bytes = [s \in Scopes |-> bytes[s]]
    /\ reservations \in [Keys -> Rec \cup {NoRec}]
    /\ completed \in [Keys -> Devices \cup {NoDevice}]
    /\ refs = [k \in Keys |-> refs[k]] /\ owners \in [Keys -> Nat] /\ nextOwner \in 0 .. MaxOwners
    /\ mu \in Procs \cup {NoProc}
    /\ seen \in [Keys -> Rec \cup {NoRec}] /\ stones \subseteq Keys /\ todo \subseteq Keys
    /\ \A k \in todo : seen[k] # NoRec
    /\ disk \in [Keys -> Rec \cup {NoRec}] /\ consumed \subseteq Keys
    /\ lease \in [Keys -> Procs \cup {NoProc}]
    /\ adm \in [Procs -> Adm]

Charges ==
    /\ \A s \in Scopes : bytes[s] = Weight(reservations, Held(s, Keys)) /\ bytes[s] <= MaxBytes[s]
    /\ \A s \in Scopes : active[s] <= MaxActive[s]

\* The updates of an admission.
LEMMA AdmUpdate ==
    ASSUME NEW a \in Adm
    PROVE  /\ \A b \in BOOLEAN :
                /\ [a EXCEPT !.active = b] \in Adm /\ [a EXCEPT !.persistent = b] \in Adm
                /\ [a EXCEPT !.handle = b] \in Adm /\ [a EXCEPT !.released = b] \in Adm
           /\ \A n \in Nat :
                /\ [a EXCEPT !.owner = n] \in Adm
                /\ [a EXCEPT !.keyed = TRUE, !.owner = n] \in Adm
                /\ \A b \in BOOLEAN :
                      [a EXCEPT !.keyed = TRUE, !.completed = b, !.owner = n] \in Adm
           /\ \A k \in Keys : [a EXCEPT !.key = k] \in Adm
           /\ [a EXCEPT !.persistent = TRUE, !.handle = TRUE] \in Adm
BY DEF Adm

\* What an active admission reserves.
LEMMA RecTyped ==
    ASSUME Types, Phases, NEW p \in Procs
    PROVE  /\ adm[p].dev \in Devices \cup {NoDevice}
           /\ adm[p].active => RecOf(p) \in Rec /\ adm[p].dev \in Devices
BY DEF Types, Phases, RecOf, Rec, Adm

LEMMA AdmTyped == Inv /\ Types /\ [Next]_vars => adm' \in [Procs -> Adm]
<1> SUFFICES ASSUME Shape, Phases, Types, [Next]_vars PROVE adm' \in [Procs -> Adm]
  BY DEF Inv
<1>0. setting.offers \subseteq Claims /\ NoAdm \in Adm
  BY DEF Shape, NoAdm, NewAdm, Adm
<1>1. ASSUME NEW p \in Procs, Open(p) PROVE adm' \in [Procs -> Adm]
  <2>0. adm \in [Procs -> Adm] /\ adm[p] \in Adm
    BY DEF Types
  <2>1. CASE Begin(p)
    <3>1. \A c \in Claims : NewAdm(c, TRUE) \in Adm
      BY ClaimsAssumption DEF NewAdm, Adm
    <3> QED
      BY <1>0, <2>0, <2>1, <3>1 DEF Begin
  <2>2. CASE ClaimShared(p)
    <3> DEFINE k == adm[p].key
               c == [adm[p] EXCEPT !.keyed = TRUE, !.completed = completed[k] # NoDevice,
                                   !.owner = IF completed[k] # NoDevice THEN 0 ELSE owners[k]]
    <3>1. adm' = [adm EXCEPT ![p] = c]
      BY <2>2 DEF ClaimShared
    <3>2. k \in Keys /\ (IF completed[k] # NoDevice THEN 0 ELSE owners[k]) \in Nat
      BY <2>2 DEF ClaimShared, Phases, Types
    <3>3. c \in Adm
      BY <2>0, <3>2, AdmUpdate
    <3> QED
      BY <2>0, <3>1, <3>3
  <2>3. CASE ClaimNew(p)
    <3> DEFINE c == [adm[p] EXCEPT !.keyed = TRUE, !.owner = nextOwner']
    <3>1. adm' = [adm EXCEPT ![p] = c]
      BY <2>3 DEF ClaimNew
    <3>2. nextOwner' = nextOwner + 1 /\ nextOwner \in Nat
      BY <2>3, BoundAssumption DEF ClaimNew, Types
    <3>3. nextOwner' \in Nat
      BY <3>2
    <3>4. c \in Adm
      BY <2>0, <3>3, AdmUpdate
    <3> QED
      BY <2>0, <3>1, <3>4
  <2>4. CASE Publish(p)
    <3> DEFINE c == [adm[p] EXCEPT !.persistent = TRUE]
    <3>1. adm' = adm \/ adm' = [adm EXCEPT ![p] = c]
      BY <2>4 DEF Publish
    <3>2. c \in Adm
      BY <2>0, AdmUpdate
    <3> QED
      BY <2>0, <3>1, <3>2
  <2>5. CASE OpenState(p)
    <3> DEFINE c == [adm[p] EXCEPT !.persistent = TRUE, !.handle = TRUE]
    <3>1. adm' = [adm EXCEPT ![p] = c]
      BY <2>5 DEF OpenState
    <3>2. c \in Adm
      BY <2>0, AdmUpdate
    <3> QED
      BY <2>0, <3>1, <3>2
  <2>6. CASE MarkPersistent(p)
    <3> DEFINE c == [adm[p] EXCEPT !.owner = 0]
    <3>1. adm' = [adm EXCEPT ![p] = c]
      BY <2>6 DEF MarkPersistent
    <3>2. c \in Adm
      BY <2>0, AdmUpdate
    <3> QED
      BY <2>0, <3>1, <3>2
  <2>7. CASE FailClose(p)
    <3> DEFINE c == [adm[p] EXCEPT !.active = FALSE]
    <3>1. adm' = adm \/ adm' = [adm EXCEPT ![p] = c]
      BY <2>7 DEF FailClose, CloseActive
    <3>2. c \in Adm
      BY <2>0, AdmUpdate
    <3> QED
      BY <2>0, <3>1, <3>2
  <2>8. CASE Return(p)
    BY <1>0, <2>0, <2>8 DEF Return
  <2>9. CASE \/ LoadBegin(p) \/ LoadCompleted(p) \/ LoadReserved(p) \/ LoadReplaces(p)
             \/ LoadEnd(p) \/ LoadFails(p)
    BY <2>0, <2>9 DEF LoadBegin, LoadCompleted, LoadReserved, LoadReplaces, LoadEnd, LoadFails
  <2>10. CASE \/ LeaseTransfer(p) \/ AlreadyCompleted(p) \/ Opened(p) \/ Fail(p) \/ Abort(p)
    BY <2>0, <2>10 DEF LeaseTransfer, AlreadyCompleted, Opened, Fail, Abort
  <2> QED
    BY <1>1, <2>1, <2>2, <2>3, <2>4, <2>5, <2>6, <2>7, <2>8, <2>9, <2>10 DEF Open
<1>2. ASSUME NEW p \in Procs, Use(p) PROVE adm' \in [Procs -> Adm]
  <2>0. adm \in [Procs -> Adm] /\ adm[p] \in Adm
    BY DEF Types
  <2>1. CASE Commit(p) \/ Complete(p)
    BY <2>0, <2>1 DEF Commit, Complete
  <2>2. CASE EndFinalize(p) \/ Close(p)
    <3> DEFINE c == [adm[p] EXCEPT !.active = FALSE]
    <3>1. adm' = adm \/ adm' = [adm EXCEPT ![p] = c]
      BY <2>2 DEF EndFinalize, Close, CloseActive
    <3>2. c \in Adm
      BY <2>0, AdmUpdate
    <3> QED
      BY <2>0, <3>1, <3>2
  <2>3. ASSUME NEW k PROVE Detach(adm, k) \in [Procs -> Adm]
    <3>1. \A q \in Procs : [adm[q] EXCEPT !.handle = @ /\ adm[q].key # k] \in Adm
      <4>1. \A q \in Procs : (adm[q].handle /\ adm[q].key # k) \in BOOLEAN
        OBVIOUS
      <4> QED
        BY <2>0, <4>1, AdmUpdate
    <3> QED
      BY <3>1 DEF Detach
  <2>4. CASE Cancel(p)
    BY <2>3, <2>4 DEF Cancel
  <2>5. CASE ReleaseReservation(p)
    <3>1. \A q \in Procs :
            [adm[q] EXCEPT !.released = @ \/ (Counted(q) /\ adm[q].key = adm[p].key)] \in Adm
      <4>1. \A q \in Procs :
               (adm[q].released \/ (Counted(q) /\ adm[q].key = adm[p].key)) \in BOOLEAN
        OBVIOUS
      <4> QED
        BY <2>0, <4>1, AdmUpdate
    <3> QED
      BY <2>5, <3>1 DEF ReleaseReservation
  <2>6. CASE Collect(p)
    <3>1. PICK k \in Keys : adm' = [Detach(adm, k) EXCEPT ![p].key = k]
      BY <2>6 DEF Collect
    <3> DEFINE d == Detach(adm, k)
               c == [d[p] EXCEPT !.key = k]
    <3>2. d \in [Procs -> Adm]
      BY <2>3
    <3>3. adm' = [d EXCEPT ![p] = c]
      BY <3>1
    <3> HIDE DEF d
    <3>4. c \in Adm
      BY <3>2, AdmUpdate
    <3> QED
      BY <3>2, <3>3, <3>4
  <2>7. CASE DropCollected(p)
    BY <1>0, <2>0, <2>7 DEF DropCollected
  <2> QED
    BY <1>2, <2>1, <2>2, <2>4, <2>5, <2>6, <2>7 DEF Use
<1>3. CASE Restart
  BY <1>0, <1>3 DEF Restart
<1>4. CASE UNCHANGED vars
  BY <1>4 DEF vars, Types
<1> QED
  BY <1>1, <1>2, <1>3, <1>4 DEF Next

LEMMA TypesStep == Inv /\ Types /\ [Next]_vars => Types'
<1> SUFFICES ASSUME Inv, Types, [Next]_vars PROVE Types'
  OBVIOUS
<1>0. setting' = setting /\ setting.offers \subseteq Claims
  BY FixedStep DEF Inv, Shape
<1> USE AdmTyped, NamesAssumption, BoundAssumption DEF Inv, Types
<1>1. ASSUME NEW p \in Procs, Open(p) PROVE Types'
  <2>1. CASE Begin(p)
    BY <1>0, <2>1, ClaimsAssumption DEF Begin, NewAdm, Add, loading, world
  <2>2. CASE LoadBegin(p)
    BY <1>0, <2>2 DEF LoadBegin, Drop, world
  <2>3. CASE LoadCompleted(p)
    BY <1>0, <2>3 DEF LoadCompleted, Drop, world, Rec, NoRec
  <2>4. CASE LoadReserved(p)
    BY <1>0, <2>4 DEF LoadReserved, Reserve, Add, world
  <2>5. CASE LoadReplaces(p)
    BY <1>0, <2>5 DEF LoadReplaces, Drop, loading, world
  <2>6. CASE LoadEnd(p) \/ LoadFails(p)
    BY <1>0, <2>6 DEF LoadEnd, LoadFails, memory, usage, world
  <2>7. CASE ClaimShared(p)
    BY <1>0, <2>7 DEF ClaimShared, loading, world
  <2>8. CASE ClaimNew(p)
    BY <1>0, <2>8 DEF ClaimNew, Reserve, RecOf, Rec, Adm, Add, Phases, loading, world
  <2>9. CASE Publish(p)
    <3>1. RecOf(p) \in Rec
      BY <2>9, RecTyped DEF Publish, Phases, Claimed
    <3> QED
      BY <1>0, <2>9, <3>1 DEF Publish, Phases, Claimed, memory, usage, loading, world
  <2>10. CASE OpenState(p)
    BY <1>0, <2>10 DEF OpenState, memory, usage, loading, world
  <2>11. CASE MarkPersistent(p)
    BY <1>0, <2>11 DEF MarkPersistent, usage, loading, world
  <2>12. CASE LeaseTransfer(p) \/ Opened(p) \/ Fail(p)
    BY <1>0, <2>12 DEF LeaseTransfer, Opened, Fail, memory, usage, loading, world
  <2>13. CASE AlreadyCompleted(p)
    BY <1>0, <2>13, RecTyped DEF AlreadyCompleted, MarkCompleted, Drop, loading, world
  <2>14. CASE FailClose(p)
    BY <1>0, <2>14 DEF FailClose, CloseActive, Add, loading, world
  <2>15. CASE Abort(p)
    BY <1>0, <2>15 DEF Abort, Drop, loading, world
  <2>16. CASE Return(p)
    BY <1>0, <2>16 DEF Return, Unlease, NoAdm, NewAdm, memory, usage, loading
  <2> QED
    BY <1>1, <2>1, <2>2, <2>3, <2>4, <2>5, <2>6, <2>7, <2>8, <2>9, <2>10, <2>11, <2>12,
       <2>13, <2>14, <2>15, <2>16 DEF Open
<1>2. ASSUME NEW p \in Procs, Use(p) PROVE Types'
  <2>1. CASE Commit(p)
    BY <1>0, <2>1 DEF Commit, Phases, memory, usage, loading
  <2>2. CASE Complete(p)
    BY <1>0, <2>2, RecTyped DEF Complete, MarkCompleted, Drop, loading, world
  <2>3. CASE EndFinalize(p) \/ Close(p)
    BY <1>0, <2>3 DEF EndFinalize, Close, CloseActive, Add, loading, world
  <2>4. CASE Cancel(p)
    BY <1>0, <2>4 DEF Cancel, RemoveDirectory, Detach, memory, usage, loading
  <2>5. CASE ReleaseReservation(p)
    BY <1>0, <2>5 DEF ReleaseReservation, Drop, Counted, loading, world
  <2>6. CASE Collect(p)
    BY <1>0, <2>6 DEF Collect, RemoveDirectory, Detach, memory, usage, loading
  <2>7. CASE DropCollected(p)
    BY <1>0, <2>7 DEF DropCollected, Drop, NoAdm, NewAdm, loading, world
  <2> QED
    BY <1>2, <2>1, <2>2, <2>3, <2>4, <2>5, <2>6, <2>7 DEF Use
<1>3. CASE Restart
  BY <1>0, <1>3 DEF Restart, Zero
<1>4. CASE UNCHANGED vars
  BY <1>4 DEF vars, memory, usage, loading, world
<1> QED
  BY <1>1, <1>2, <1>3, <1>4 DEF Next

\* What a step can do to the reservations and the consumed transfers.
Forgets(ks) == Drop(ks) /\ \A k \in Keys : completed'[k] \in {completed[k], NoDevice}
Admits(k, rec) ==
    /\ rec = seen[k] \/ \E p \in Procs : adm[p].active /\ adm[p].key = k /\ rec = RecOf(p)
    /\ reservations[k] = NoRec /\ completed[k] = NoDevice
    /\ CanRetain(rec.dev) /\ CanReserve(rec)
    /\ Reserve(k, rec)
    /\ completed' = completed
Learns(k, dev) ==
    /\ completed[k] = NoDevice
    /\ CanRetain(dev)
    /\ Drop(IF refs[k] = 0 THEN {k} ELSE {})
    /\ completed' = [completed EXCEPT ![k] = dev]
Completes(p) == pc[p] \in {"tombstone", "committed"} /\ MarkCompleted(p)

\* The steps of the calls are of these kinds.
LEMMA BooksFrame ==
    ASSUME Inv, Types, [Next]_vars
    PROVE  \/ UNCHANGED <<bytes, reservations, completed>>
           \/ \E ks \in SUBSET Keys : Forgets(ks)
           \/ \E k \in Keys, rec \in Rec : Admits(k, rec)
           \/ \E k \in todo : Learns(k, seen[k].dev)
           \/ \E p \in Procs : Completes(p)
           \/ Restart
<1> DEFINE Books == \/ UNCHANGED <<bytes, reservations, completed>>
                    \/ \E ks \in SUBSET Keys : Forgets(ks)
                    \/ \E k \in Keys, rec \in Rec : Admits(k, rec)
                    \/ \E k \in todo : Learns(k, seen[k].dev)
                    \/ \E p \in Procs : Completes(p)
                    \/ Restart
<1>1. ASSUME NEW p \in Procs, Open(p) PROVE Books
  <2>1. CASE LoadBegin(p)
    <3> DEFINE lost == {k \in Keys : disk[k] = NoRec /\ refs[k] = 0}
    <3>1. lost \in SUBSET Keys /\ Forgets(lost)
      BY <2>1 DEF LoadBegin, Forgets, Types
    <3> QED
      BY <3>1
  <2>2. CASE LoadCompleted(p)
    BY <2>2 DEF LoadCompleted, Learns
  <2>3. CASE LoadReserved(p)
    <3>1. PICK k \in todo :
             IF LoadKeeps(k)
             THEN UNCHANGED <<reservations, bytes, completed>>
             ELSE /\ reservations[k] = NoRec /\ completed[k] = NoDevice
                  /\ CanRetain(seen[k].dev) /\ CanReserve(seen[k])
                  /\ Reserve(k, seen[k])
                  /\ UNCHANGED <<owners, completed>>
      BY <2>3 DEF LoadReserved
    <3>2. k \in Keys /\ seen[k] \in Rec
      BY DEF Types
    <3> QED
      BY <3>1, <3>2 DEF Admits
  <2>4. CASE LoadReplaces(p)
    <3>1. PICK k \in todo : Drop({k}) /\ completed' = [completed EXCEPT ![k] = NoDevice]
      BY <2>4 DEF LoadReplaces
    <3>2. {k} \in SUBSET Keys /\ Forgets({k})
      BY <3>1 DEF Forgets, Types
    <3> QED
      BY <3>2
  <2>5. CASE ClaimNew(p)
    <3>1. /\ RecOf(p) \in Rec /\ adm[p].key \in Keys /\ RecOf(p).dev = adm[p].dev
          /\ adm[p].active
      BY <2>5, RecTyped DEF ClaimNew, Inv, Phases, RecOf
    <3> QED
      BY <2>5, <3>1 DEF ClaimNew, Admits
  <2>6. CASE AlreadyCompleted(p)
    BY <1>1, <2>6 DEF AlreadyCompleted, Completes
  <2>7. CASE Abort(p)
    <3>1. adm[p].key \in Keys
      BY <2>7 DEF Abort, Inv, Phases
    <3>2. UNCHANGED <<bytes, reservations>> \/ Drop({adm[p].key})
      BY <2>7 DEF Abort
    <3>3. completed' = completed
      BY <2>7 DEF Abort
    <3> QED
      BY <3>1, <3>2, <3>3 DEF Forgets
  <2>8. CASE \/ Begin(p) \/ LoadEnd(p) \/ LoadFails(p) \/ ClaimShared(p) \/ Publish(p)
             \/ OpenState(p) \/ MarkPersistent(p)
    BY <2>8 DEF Begin, LoadEnd, LoadFails, ClaimShared, Publish, OpenState, MarkPersistent,
                memory, usage
  <2>9. CASE LeaseTransfer(p) \/ Opened(p) \/ Fail(p) \/ FailClose(p) \/ Return(p)
    BY <2>9 DEF LeaseTransfer, Opened, Fail, FailClose, Return, memory, usage
  <2> QED
    BY <1>1, <2>1, <2>2, <2>3, <2>4, <2>5, <2>6, <2>7, <2>8, <2>9 DEF Open
<1>2. ASSUME NEW p \in Procs, Use(p) PROVE Books
  <2>1. CASE Complete(p)
    BY <1>2, <2>1 DEF Complete, Completes
  <2>2. CASE ReleaseReservation(p)
    <3>1. {adm[p].key} \in SUBSET Keys /\ Forgets({adm[p].key})
      BY <2>2 DEF ReleaseReservation, Forgets, Inv, Phases
    <3> QED
      BY <3>1
  <2>3. CASE DropCollected(p)
    <3>1. CASE refs[adm[p].key] = 0
      <4> DEFINE ks == {adm[p].key} \cap Keys
      <4>1. \A k \in Keys : k \in {adm[p].key} <=> k \in ks
        OBVIOUS
      <4>2. Drop({adm[p].key}) /\ completed' = [completed EXCEPT ![adm[p].key] = NoDevice]
        BY <2>3, <3>1 DEF DropCollected
      <4>3. adm[p].key \in Keys
        BY <2>3 DEF DropCollected, Inv, Phases
      <4>4. Forgets({adm[p].key})
        BY <4>2, <4>3 DEF Forgets, Types
      <4> QED
        BY <4>3, <4>4
    <3>2. CASE refs[adm[p].key] # 0
      BY <2>3, <3>2 DEF DropCollected
    <3> QED
      BY <3>1, <3>2
  <2>4. CASE Commit(p) \/ EndFinalize(p) \/ Close(p) \/ Cancel(p) \/ Collect(p)
    BY <2>4 DEF Commit, EndFinalize, Close, Cancel, Collect, memory, usage
  <2> QED
    BY <1>2, <2>1, <2>2, <2>3, <2>4 DEF Use
<1>3. CASE UNCHANGED vars
  BY <1>3 DEF vars, memory, usage
<1> QED
  BY <1>1, <1>2, <1>3 DEF Next

\* What is dropped, by number of units.
LEMMA KeysFinite == \A S \in SUBSET Keys : IsFiniteSet(S) /\ Cardinality(S) \in Nat
BY FiniteAssumption, FS_Subset, FS_CardinalityType

LEMMA HeldWeighed ==
    ASSUME Types, NEW s, NEW ks \in SUBSET Keys
    PROVE  Weighed(reservations, Held(s, ks)) /\ Held(s, ks) \in SUBSET Keys
<1>1. Held(s, ks) \in SUBSET Keys
  BY DEF Held
<1>2. \A k \in Held(s, ks) : reservations[k] \in Rec
  BY DEF Held, Types
<1> QED
  BY <1>1, <1>2, KeysFinite DEF Weighed, Rec

LEMMA DroppedIsWeight ==
    ASSUME Types, NEW s, NEW ks \in SUBSET Keys
    PROVE  /\ Dropped(s, ks) = Weight(reservations, Held(s, ks))
           /\ Weight(reservations, Held(s, ks)) \in Nat
<1>1. Dropped(s, ks) = Total(reservations, Held(s, ks))
  BY Zenon DEF Dropped, Total, Held
<1> QED
  BY <1>1, HeldWeighed, TotalIsWeight, UnitsFinite

\* Equal reservations weigh the same.
LEMMA SameWeight ==
    ASSUME NEW r, NEW q, NEW S, \A k \in S : r[k] = q[k]
    PROVE  Weight(r, S) = Weight(q, S)
<1>1. Units(r, S) = Units(q, S)
  BY DEF Units
<1> QED
  BY <1>1 DEF Weight

\* dropReservationLocked takes off what it drops.
LEMMA DropCharges ==
    ASSUME Types, Charges, NEW ks \in SUBSET Keys, Drop(ks), NEW s \in Scopes
    PROVE  bytes'[s] = Weight(reservations', Held(s, Keys)') /\ bytes'[s] <= MaxBytes[s]
<1> DEFINE rest == Held(s, Keys) \ Held(s, ks)
<1>1. Held(s, Keys)' = rest
  BY DEF Held, Drop, Types
<1>2. Held(s, Keys) = rest \cup Held(s, ks) /\ rest \cap Held(s, ks) = {}
  BY DEF Held
<1>3. \A k \in rest : reservations'[k] = reservations[k]
  BY DEF Held, Drop
<1>4. Weight(reservations', Held(s, Keys)') = Weight(reservations, rest)
  BY <1>1, <1>3, SameWeight
<1>5. Weighed(reservations, rest)
  BY HeldWeighed, KeysFinite DEF Weighed
<1>6. Weight(reservations, rest \cup Held(s, ks))
        = Weight(reservations, rest) + Weight(reservations, Held(s, ks))
  BY <1>2, <1>5, HeldWeighed, UnitsFinite, UnitsJoin
<1>7. Weight(reservations, Held(s, Keys)) = Weight(reservations, rest \cup Held(s, ks))
  BY <1>2, Zenon
<1>8. Weight(reservations, rest) \in Nat /\ Weight(reservations, Held(s, ks)) \in Nat
  BY <1>5, UnitsFinite, DroppedIsWeight
<1>9. bytes'[s] = bytes[s] - Weight(reservations, Held(s, ks))
  BY DroppedIsWeight DEF Drop
<1>10. bytes[s] = Weight(reservations, Held(s, Keys)) /\ bytes[s] <= MaxBytes[s] /\ MaxBytes[s] \in Nat
  BY QuotaAssumption DEF Charges
<1> HIDE DEF rest
<1> QED
  BY <1>4, <1>6, <1>7, <1>8, <1>9, <1>10

\* addReservedLocked puts on what it reserves, and asks before.
LEMMA ReserveCharges ==
    ASSUME Types, Charges, NEW k \in Keys, NEW rec \in Rec, Admits(k, rec), NEW s \in Scopes
    PROVE  bytes'[s] = Weight(reservations', Held(s, Keys)') /\ bytes'[s] <= MaxBytes[s]
<1> DEFINE H == Held(s, Keys)
<1>1. /\ reservations' = [reservations EXCEPT ![k] = rec]
      /\ bytes'[s] = bytes[s] + (IF s \in ScopesOf[rec.dev] THEN rec.bytes ELSE 0)
  BY DEF Admits, Reserve, Add
<1>2. k \notin H /\ rec # NoRec /\ rec.bytes \in Nat /\ H \in SUBSET Keys
  BY NamesAssumption DEF Admits, Held, Rec, NoRec
<1>3. \A x \in H : reservations'[x] = reservations[x]
  BY <1>1, <1>2 DEF Types
<1>4. Weight(reservations', H) = Weight(reservations, H) /\ Weight(reservations, H) \in Nat
  BY <1>3, SameWeight, DroppedIsWeight
<1>5. bytes[s] = Weight(reservations, H) /\ bytes[s] <= MaxBytes[s] /\ MaxBytes[s] \in Nat
  BY QuotaAssumption DEF Charges
<1>6. CASE s \in ScopesOf[rec.dev]
  <2>1. Held(s, Keys)' = H \cup {k} /\ H \cap {k} = {}
    BY <1>1, <1>2, <1>6 DEF Held, Types
  <2>2. reservations'[k].bytes = rec.bytes
    BY <1>1 DEF Types
  <2>3. Weighed(reservations, H)
    BY HeldWeighed
  <2>4. Weighed(reservations', H)
    BY <1>3, <2>3 DEF Weighed
  <2>5. /\ IsFiniteSet(Units(reservations', H))
        /\ IsFiniteSet(Units(reservations', {k})) /\ Weight(reservations', {k}) = rec.bytes
    BY <1>2, <2>2, <2>4, UnitsFinite, UnitsOfOne
  <2>6. Weight(reservations', H \cup {k}) = Weight(reservations', H) + rec.bytes
    BY <2>1, <2>5, UnitsJoin
  <2>7. Weight(reservations', Held(s, Keys)') = Weight(reservations', H \cup {k})
    BY <2>1, Zenon
  <2>8. rec.bytes <= MaxBytes[s] - bytes[s]
    BY <1>6 DEF Admits, CanReserve
  <2> HIDE DEF H
  <2> QED
    BY <1>1, <1>2, <1>4, <1>5, <1>6, <2>6, <2>7, <2>8
<1>7. CASE s \notin ScopesOf[rec.dev]
  <2>1. Held(s, Keys)' = H
    BY <1>1, <1>2, <1>7 DEF Held, Types
  <2>2. Weight(reservations', Held(s, Keys)') = Weight(reservations', H)
    BY <2>1, Zenon
  <2> HIDE DEF H
  <2> QED
    BY <1>1, <1>4, <1>5, <1>7, <2>2
<1> QED
  BY <1>6, <1>7

LEMMA ChargesStep == Inv /\ Types /\ Charges /\ [Next]_vars => Charges'
<1> SUFFICES ASSUME Inv, Types, Charges, [Next]_vars PROVE Charges'
  OBVIOUS
<1>1. ASSUME NEW s \in Scopes
      PROVE  bytes'[s] = Weight(reservations', Held(s, Keys)') /\ bytes'[s] <= MaxBytes[s]
  <2>1. CASE UNCHANGED <<bytes, reservations, completed>>
    <3>1. Held(s, Keys)' = Held(s, Keys)
      BY <2>1 DEF Held
    <3> QED
      BY <2>1, <3>1, Zenon DEF Charges
  <2>2. CASE \E ks \in SUBSET Keys : Forgets(ks)
    BY <2>2, DropCharges DEF Forgets
  <2>3. CASE \E k \in Keys, rec \in Rec : Admits(k, rec)
    BY <2>3, ReserveCharges
  <2>4. CASE \E k \in todo : Learns(k, seen[k].dev)
    <3>1. PICK ks \in SUBSET Keys : Drop(ks)
      BY <2>4 DEF Learns, Types
    <3> QED
      BY <3>1, DropCharges
  <2>5. CASE \E p \in Procs : Completes(p)
    <3>1. PICK ks \in SUBSET Keys : Drop(ks)
      BY <2>5 DEF Completes, MarkCompleted, Inv, Phases
    <3> QED
      BY <3>1, DropCharges
  <2>6. CASE Restart
    <3>1. \A k \in Keys : reservations'[k] = NoRec
      BY <2>6 DEF Restart
    <3>2. Held(s, Keys)' = {}
      BY <3>1 DEF Held
    <3>3. Weight(reservations', {}) = 0
      BY FS_EmptySet DEF Weight, Units
    <3>4. bytes'[s] = 0 /\ MaxBytes[s] \in Nat
      BY <2>6, QuotaAssumption DEF Restart, Zero
    <3> QED
      BY <3>2, <3>3, <3>4
  <2> QED
    BY <2>1, <2>2, <2>3, <2>4, <2>5, <2>6, BooksFrame
<1>2. ASSUME NEW s \in Scopes PROVE active'[s] <= MaxActive[s]
  <2>1. active[s] \in Nat /\ active[s] <= MaxActive[s] /\ MaxActive[s] \in Nat
    BY CountIsNat, QuotaAssumption DEF Inv, Counts, Charges, InScope
  <2>2. CASE \E p \in Procs : Begin(p)
    BY <2>1, <2>2 DEF Begin, Add
  <2>3. CASE \E p \in Procs : CloseActive(p)
    BY <2>1, <2>3 DEF CloseActive, Add
  <2>4. CASE Restart
    BY <2>1, <2>4 DEF Restart, Zero
  <2>5. CASE UNCHANGED active
    BY <2>1, <2>5
  <2>6. ASSUME NEW p \in Procs, Open(p), ~Begin(p), ~CloseActive(p) PROVE UNCHANGED active
    BY <2>6 DEF Open, LoadBegin, LoadCompleted, LoadReserved, LoadReplaces, LoadEnd, LoadFails,
                ClaimShared, ClaimNew, Publish, OpenState, MarkPersistent, LeaseTransfer,
                AlreadyCompleted, MarkCompleted, Opened, Fail, FailClose, Abort, Return,
                memory, usage
  <2>7. ASSUME NEW p \in Procs, Use(p), ~CloseActive(p) PROVE UNCHANGED active
    BY <2>7 DEF Use, Commit, Complete, MarkCompleted, EndFinalize, Close, Cancel,
                ReleaseReservation, Collect, DropCollected, memory, usage
  <2> QED
    BY <2>2, <2>3, <2>4, <2>5, <2>6, <2>7 DEF Next, vars, memory, usage
<1> QED
  BY <1>1, <1>2 DEF Charges

-----------------------------------------------------------------------------
(* What is claimed. *)

\* The reservation or the consumed transfer of a key in use outlasts a step.
Lasts(k) ==
    refs[k] # 0 =>
       /\ reservations[k] # NoRec => reservations'[k] = reservations[k] \/ completed'[k] # NoDevice
       /\ completed[k] # NoDevice => completed'[k] # NoDevice

\* A key that no reference counts is nobody's.
LEMMA Unused ==
    ASSUME Inv, NEW q \in Procs, Counted(q)
    PROVE  adm[q].key \in Keys /\ refs[adm[q].key] # 0
<1>1. adm[q].key \in Keys /\ q \in Users(adm[q].key)
  BY DEF Inv, Phases, Users, Counted
<1>2. IsFiniteSet(Users(adm[q].key))
  BY CallsFinite DEF Users
<1> QED
  BY <1>1, <1>2, FS_EmptySet DEF Inv, Counts

LEMMA ClaimsLast ==
    ASSUME Inv, Types, ClaimsHold, \A k \in Keys : Lasts(k),
           \A q \in Procs : adm'[q].active /\ adm'[q].keyed /\ ~adm'[q].released =>
              /\ adm[q].active /\ adm[q].keyed /\ ~adm[q].released
              /\ adm'[q].key = adm[q].key /\ adm'[q].dev = adm[q].dev /\ adm'[q].bytes = adm[q].bytes
    PROVE  ClaimsHold'
<1> SUFFICES ASSUME NEW q \in Procs, Counted(q)', ~adm'[q].released
             PROVE  reservations'[adm'[q].key] = RecOf(q)' \/ completed'[adm'[q].key] # NoDevice
  BY DEF ClaimsHold
<1> DEFINE k == adm[q].key
<1>1. /\ Counted(q) /\ ~adm[q].released
      /\ adm'[q].key = k /\ RecOf(q)' = RecOf(q)
  BY DEF Counted, RecOf
<1>2. k \in Keys /\ Lasts(k) /\ refs[k] # 0
  BY <1>1, Unused
<1>3. RecOf(q) # NoRec
  BY <1>1, RecTyped, NamesAssumption DEF Inv, Counted, Rec, NoRec
<1>4. reservations[k] = RecOf(q) \/ completed[k] # NoDevice
  BY <1>1 DEF ClaimsHold
<1> QED
  BY <1>1, <1>2, <1>3, <1>4 DEF Lasts

LEMMA ClaimsStep == Inv /\ Types /\ ClaimsHold /\ [Next]_vars => ClaimsHold'
<1> SUFFICES ASSUME Inv, Types, ClaimsHold, [Next]_vars PROVE ClaimsHold'
  OBVIOUS
<1> USE DEF Inv, Shape, Fields
<1>1. ASSUME UNCHANGED <<reservations, completed>> PROVE \A k \in Keys : Lasts(k)
  BY <1>1 DEF Lasts
<1>2. ASSUME NEW ks \in SUBSET Keys, Drop(ks), \A k \in ks : refs[k] = 0,
             \A k \in Keys : completed'[k] = completed[k] \/ refs[k] = 0
      PROVE  \A k \in Keys : Lasts(k)
  BY <1>2 DEF Lasts, Drop
<1>3. ASSUME NEW p \in Procs, MarkCompleted(p), adm[p].active
      PROVE  \A k \in Keys : Lasts(k)
  <2>1. adm[p].dev \in Devices /\ adm[p].key \in Keys
    BY <1>3, RecTyped DEF Phases
  <2> QED
    BY <1>3, <2>1, NamesAssumption DEF MarkCompleted, Drop, Lasts, Types
<1>4. ASSUME NEW p \in Procs, Open(p) PROVE ClaimsHold'
  <2>1. CASE Begin(p)
    BY <1>1, <2>1, ClaimsLast DEF Begin, NewAdm
  <2>2. CASE LoadBegin(p)
    <3>1. \A k \in Keys : Lasts(k)
      <4> DEFINE lost == {k \in Keys : disk[k] = NoRec /\ refs[k] = 0}
      <4>1. Drop(lost) /\ completed' = [k \in Keys |-> IF k \in lost THEN NoDevice ELSE completed[k]]
        BY <2>2 DEF LoadBegin
      <4> QED
        BY <1>2, <4>1
    <3> QED
      BY <2>2, <3>1, ClaimsLast DEF LoadBegin
  <2>3. CASE LoadCompleted(p)
    <3>1. \A k \in Keys : Lasts(k)
      <4>1. PICK k \in todo :
               \/ UNCHANGED <<reservations, completed>>
               \/ /\ completed[k] = NoDevice
                  /\ Drop(IF refs[k] = 0 THEN {k} ELSE {})
                  /\ completed' = [completed EXCEPT ![k] = seen[k].dev]
        BY <2>3 DEF LoadCompleted
      <4>2. k \in Keys /\ seen[k].dev \in Devices
        BY DEF Types, Rec
      <4> QED
        BY <4>1, <4>2, NamesAssumption DEF Lasts, Drop, Types
    <3> QED
      BY <2>3, <3>1, ClaimsLast DEF LoadCompleted
  <2>4. CASE LoadReserved(p)
    <3>1. \A k \in Keys : Lasts(k)
      BY <2>4 DEF LoadReserved, Reserve, Lasts, Types
    <3> QED
      BY <2>4, <3>1, ClaimsLast DEF LoadReserved
  <2>5. CASE LoadReplaces(p)
    <3>1. \A k \in Keys : Lasts(k)
      <4>1. PICK k \in todo : /\ ~LoadKeeps(k) /\ (reservations[k] # NoRec \/ completed[k] # NoDevice)
                              /\ Drop({k}) /\ completed' = [completed EXCEPT ![k] = NoDevice]
        BY <2>5 DEF LoadReplaces
      <4>2. k \in Keys /\ refs[k] \in Nat
        <5>1. k \in Keys
          BY DEF Types
        <5> QED
          BY <5>1, CountIsNat DEF Counts, Users
      <4>3. refs[k] = 0
        BY <4>1, <4>2 DEF LoadKeeps
      <4> QED
        BY <1>2, <4>1, <4>2, <4>3 DEF Types
    <3> QED
      BY <2>5, <3>1, ClaimsLast DEF LoadReplaces
  <2>6. CASE ClaimShared(p) \/ ClaimNew(p)
    <3> DEFINE key == adm[p].key
    <3>1. /\ key \in Keys
          /\ \A q \in Procs : /\ adm'[q].key = adm[q].key /\ RecOf(q)' = RecOf(q)
                              /\ adm'[q].active = adm[q].active /\ adm'[q].released = adm[q].released
                              /\ q # p => adm'[q].keyed = adm[q].keyed
      BY <2>6 DEF ClaimShared, ClaimNew, RecOf, Phases
    <3>2. completed' = completed
      BY <2>6 DEF ClaimShared, ClaimNew
    <3>3. /\ \/ reservations' = reservations
             \/ reservations[key] = NoRec /\ completed[key] = NoDevice
          /\ \A k \in Keys : k # key => reservations'[k] = reservations[k]
      <4>1. CASE ClaimShared(p)
        BY <4>1 DEF ClaimShared
      <4>2. CASE ClaimNew(p)
        <5>1. /\ reservations' = [reservations EXCEPT ![key] = RecOf(p)]
              /\ reservations[key] = NoRec /\ completed[key] = NoDevice
          BY <4>2 DEF ClaimNew, Reserve
        <5> QED
          BY <5>1 DEF Types
      <4> QED
        BY <2>6, <4>1, <4>2
    <3>4. reservations'[key] = RecOf(p) \/ completed'[key] # NoDevice
      BY <2>6, <3>1 DEF ClaimShared, ClaimNew, Reserve, Types
    <3>5. ASSUME NEW q \in Procs, Counted(q)', ~adm'[q].released, q # p
          PROVE  reservations'[adm'[q].key] = RecOf(q)' \/ completed'[adm'[q].key] # NoDevice
      <4>1. Counted(q) /\ ~adm[q].released
        BY <3>1, <3>5 DEF Counted
      <4>2. reservations[adm[q].key] = RecOf(q) \/ completed[adm[q].key] # NoDevice
        BY <4>1 DEF ClaimsHold
      <4>3. RecOf(q) # NoRec /\ adm[q].key \in Keys
        BY <4>1, RecTyped, Unused, NamesAssumption DEF Counted, Rec, NoRec
      <4> QED
        BY <3>1, <3>2, <3>3, <4>2, <4>3
    <3> QED
      BY <3>1, <3>4, <3>5 DEF ClaimsHold
  <2>7. CASE Publish(p) \/ OpenState(p) \/ MarkPersistent(p)
    BY <1>1, <2>7, ClaimsLast DEF Publish, OpenState, MarkPersistent, memory, usage
  <2>8. CASE AlreadyCompleted(p)
    <3>1. \A k \in Keys : Lasts(k)
      BY <1>3, <2>8 DEF AlreadyCompleted, Phases, Claimed
    <3> QED
      BY <2>8, <3>1, ClaimsLast DEF AlreadyCompleted
  <2>9. CASE LoadEnd(p) \/ LoadFails(p) \/ LeaseTransfer(p) \/ Opened(p) \/ Fail(p)
    BY <1>1, <2>9, ClaimsLast DEF LoadEnd, LoadFails, LeaseTransfer, Opened, Fail, memory, usage
  <2>10. CASE FailClose(p)
    BY <1>1, <2>10, ClaimsLast DEF FailClose, CloseActive
  <2>11. CASE Abort(p)
    <3>1. \A k \in Keys : Lasts(k)
      <4>1. CASE UNCHANGED <<reservations>>
        BY <1>1, <2>11, <4>1 DEF Abort
      <4>2. CASE refs[adm[p].key] = 0 /\ Drop({adm[p].key})
        BY <1>2, <2>11, <4>2 DEF Abort, Phases
      <4> QED
        BY <2>11, <4>1, <4>2 DEF Abort
    <3> QED
      BY <2>11, <3>1, ClaimsLast DEF Abort
  <2>12. CASE Return(p)
    BY <1>1, <2>12, ClaimsLast DEF Return, NoAdm, NewAdm, memory, usage
  <2> QED
    BY <1>4, <2>1, <2>2, <2>3, <2>4, <2>5, <2>6, <2>7, <2>8, <2>9, <2>10, <2>11, <2>12 DEF Open
<1>5. ASSUME NEW p \in Procs, Use(p) PROVE ClaimsHold'
  <2>1. CASE Commit(p)
    BY <1>1, <2>1, ClaimsLast DEF Commit, memory, usage
  <2>2. CASE Complete(p)
    <3>1. \A k \in Keys : Lasts(k)
      BY <1>3, <2>2 DEF Complete, Phases, Claimed
    <3> QED
      BY <2>2, <3>1, ClaimsLast DEF Complete
  <2>3. CASE EndFinalize(p) \/ Close(p)
    BY <1>1, <2>3, ClaimsLast DEF EndFinalize, Close, CloseActive
  <2>4. CASE Cancel(p)
    BY <1>1, <2>4, ClaimsLast DEF Cancel, Detach, memory, usage
  <2>5. CASE ReleaseReservation(p)
    <3> DEFINE key == adm[p].key
    <3>1. \A q \in Procs : /\ adm'[q].key = adm[q].key /\ RecOf(q)' = RecOf(q)
                           /\ adm'[q].active = adm[q].active /\ adm'[q].keyed = adm[q].keyed
                           /\ adm'[q].released <=> adm[q].released \/ (Counted(q) /\ adm[q].key = key)
      BY <2>5 DEF ReleaseReservation, RecOf
    <3>2. \A k \in Keys : k # key => reservations'[k] = reservations[k]
      BY <2>5 DEF ReleaseReservation, Drop
    <3>3. completed' = completed
      BY <2>5 DEF ReleaseReservation
    <3>4. \A q \in Procs : Counted(q) => adm[q].key \in Keys
      BY Unused
    <3> QED
      BY <3>1, <3>2, <3>3, <3>4 DEF ClaimsHold, Counted
  <2>6. CASE Collect(p)
    <3>1. ~adm[p].active
      BY <2>6 DEF Collect, Phases
    <3> QED
      BY <1>1, <2>6, <3>1, ClaimsLast DEF Collect, Detach, memory, usage
  <2>7. CASE DropCollected(p)
    <3> DEFINE key == adm[p].key
    <3>1. \A k \in Keys : Lasts(k)
      <4>1. CASE refs[key] = 0
        <5>1. Drop({key}) /\ completed' = [completed EXCEPT ![key] = NoDevice] /\ key \in Keys
          BY <2>7, <4>1 DEF DropCollected, Phases
        <5> QED
          BY <1>2, <4>1, <5>1 DEF Types
      <4>2. CASE refs[key] # 0
        BY <1>1, <2>7, <4>2 DEF DropCollected
      <4> QED
        BY <4>1, <4>2
    <3> QED
      BY <2>7, <3>1, ClaimsLast DEF DropCollected, NoAdm, NewAdm
  <2> QED
    BY <1>5, <2>1, <2>2, <2>3, <2>4, <2>5, <2>6, <2>7 DEF Use
<1>6. CASE Restart
  BY <1>6 DEF Restart, NoAdm, NewAdm, ClaimsHold, Counted
<1>7. CASE UNCHANGED vars
  BY <1>7 DEF vars, memory, usage, ClaimsHold, Counted, RecOf
<1> QED
  BY <1>4, <1>5, <1>6, <1>7 DEF Next

-----------------------------------------------------------------------------
(* What is kept. *)

\* Whoever is written down for a key is somebody it was offered to.
Offered(k, dev) == \E c \in setting.offers : c.key = k /\ c.dev = dev
Known ==
    /\ \A k \in Keys : /\ reservations[k] # NoRec => Offered(k, reservations[k].dev)
                       /\ completed[k] # NoDevice => Offered(k, completed[k])
                       /\ disk[k] # NoRec => Offered(k, disk[k].dev)
                       /\ seen[k] # NoRec => Offered(k, seen[k].dev)
    /\ \A p \in Procs : adm[p].active => Offered(adm[p].key, adm[p].dev)

\* Without Cancel nothing is released that is claimed.
Unreleased ==
    "cancel" \notin setting.ops => \A p \in Procs : ~adm[p].released /\ pc[p] # "cancelled"

LEMMA KnownBooks ==
    ASSUME Inv, Types, Known, [Next]_vars, NEW k \in Keys
    PROVE  /\ reservations'[k] # NoRec => Offered(k, reservations'[k].dev)
           /\ completed'[k] # NoDevice => Offered(k, completed'[k])
<1>1. CASE UNCHANGED <<bytes, reservations, completed>>
  BY <1>1 DEF Known
<1>2. CASE \E ks \in SUBSET Keys : Forgets(ks)
  BY <1>2 DEF Known, Forgets, Drop
<1>3. CASE \E x \in Keys, rec \in Rec : Admits(x, rec)
  <2>1. PICK x \in Keys, rec \in Rec : Admits(x, rec)
    BY <1>3
  <2>2. Offered(x, rec.dev)
    <3>1. CASE rec = seen[x]
      BY <2>1, <3>1, NamesAssumption DEF Known, Rec, NoRec
    <3>2. CASE \E p \in Procs : adm[p].active /\ adm[p].key = x /\ rec = RecOf(p)
      BY <3>2 DEF Known, RecOf
    <3> QED
      BY <2>1, <3>1, <3>2 DEF Admits
  <2>3. reservations' = [reservations EXCEPT ![x] = rec] /\ completed' = completed
    BY <2>1 DEF Admits, Reserve
  <2> QED
    BY <2>2, <2>3 DEF Known, Types
<1>4. CASE \E x \in todo : Learns(x, seen[x].dev)
  <2>1. PICK x \in todo : Learns(x, seen[x].dev)
    BY <1>4
  <2>2. x \in Keys /\ Offered(x, seen[x].dev)
    BY DEF Known, Types
  <2>3. reservations'[k] \in {reservations[k], NoRec}
    BY <2>1 DEF Learns, Drop
  <2>4. completed' = [completed EXCEPT ![x] = seen[x].dev]
    BY <2>1 DEF Learns
  <2> QED
    BY <2>2, <2>3, <2>4 DEF Known, Types
<1>5. CASE \E p \in Procs : Completes(p)
  <2>1. PICK p \in Procs : Completes(p)
    BY <1>5
  <2>2. adm[p].key \in Keys /\ Offered(adm[p].key, adm[p].dev)
    BY <2>1 DEF Completes, Known, Inv, Phases, Claimed
  <2>3. /\ reservations'[k] \in {reservations[k], NoRec}
        /\ completed' = [completed EXCEPT ![adm[p].key] = adm[p].dev]
    BY <2>1 DEF Completes, MarkCompleted, Drop
  <2> QED
    BY <2>2, <2>3 DEF Known, Types
<1>6. CASE Restart
  BY <1>6 DEF Restart
<1> QED
  BY <1>1, <1>2, <1>3, <1>4, <1>5, <1>6, BooksFrame

\* An admission keeps its offer while it is active.
LEMMA SameOffer ==
    ASSUME Inv, [Next]_vars, NEW q \in Procs, adm'[q].active
    PROVE  \/ adm[q].active /\ adm'[q].key = adm[q].key /\ adm'[q].dev = adm[q].dev
           \/ \E c \in setting.offers : adm'[q].key = c.key /\ adm'[q].dev = c.dev
<1> USE DEF Inv, Shape, Fields
<1>1. ASSUME NEW p \in Procs, Begin(p) PROVE \E c \in setting.offers : adm' = [adm EXCEPT ![p] = NewAdm(c, TRUE)]
  BY <1>1 DEF Begin
<1>2. ASSUME NEW p \in Procs, Open(p), ~Begin(p)
      PROVE  adm[q].active /\ adm'[q].key = adm[q].key /\ adm'[q].dev = adm[q].dev
  <2>1. CASE \/ LoadBegin(p) \/ LoadCompleted(p) \/ LoadReserved(p) \/ LoadReplaces(p)
             \/ LoadEnd(p) \/ LoadFails(p)
    BY <2>1 DEF LoadBegin, LoadCompleted, LoadReserved, LoadReplaces, LoadEnd, LoadFails
  <2>2. CASE ClaimShared(p) \/ ClaimNew(p) \/ Publish(p) \/ OpenState(p) \/ MarkPersistent(p)
    BY <2>2 DEF ClaimShared, ClaimNew, Publish, OpenState, MarkPersistent
  <2>3. CASE LeaseTransfer(p) \/ AlreadyCompleted(p) \/ Opened(p) \/ Fail(p) \/ Abort(p)
    BY <2>3 DEF LeaseTransfer, AlreadyCompleted, Opened, Fail, Abort
  <2>4. CASE FailClose(p) \/ Return(p)
    BY <2>4 DEF FailClose, CloseActive, Return, NoAdm, NewAdm
  <2> QED
    BY <1>2, <2>1, <2>2, <2>3, <2>4 DEF Open
<1>3. ASSUME NEW p \in Procs, Use(p)
      PROVE  adm[q].active /\ adm'[q].key = adm[q].key /\ adm'[q].dev = adm[q].dev
  <2>1. CASE Commit(p) \/ Complete(p) \/ ReleaseReservation(p)
    BY <2>1 DEF Commit, Complete, ReleaseReservation
  <2>2. CASE EndFinalize(p) \/ Close(p)
    BY <2>2 DEF EndFinalize, Close, CloseActive
  <2>3. CASE Cancel(p)
    BY <2>3 DEF Cancel, Detach
  <2>4. CASE Collect(p)
    BY <2>4 DEF Collect, Detach, Phases
  <2>5. CASE DropCollected(p)
    BY <2>5 DEF DropCollected, NoAdm, NewAdm
  <2> QED
    BY <1>3, <2>1, <2>2, <2>3, <2>4, <2>5 DEF Use
<1>4. CASE Restart
  BY <1>4 DEF Restart, NoAdm, NewAdm
<1>5. CASE UNCHANGED vars
  BY <1>5 DEF vars
<1>6. ASSUME NEW p \in Procs, Begin(p)
      PROVE  \/ adm[q].active /\ adm'[q].key = adm[q].key /\ adm'[q].dev = adm[q].dev
             \/ \E c \in setting.offers : adm'[q].key = c.key /\ adm'[q].dev = c.dev
  BY <1>1, <1>6 DEF NewAdm
<1> QED
  BY <1>2, <1>3, <1>4, <1>5, <1>6 DEF Next

\* Only Publish writes a reservation, and only loadPersistent reads them.
LEMMA DiskFrame ==
    ASSUME Inv, Types, [Next]_vars, NEW k \in Keys
    PROVE  /\ \/ disk'[k] \in {disk[k], NoRec}
              \/ \E p \in Procs : adm[p].active /\ adm[p].key = k /\ disk'[k] = RecOf(p)
           /\ seen'[k] \in {seen[k], disk[k], NoRec}
<1> DEFINE G == /\ \/ disk'[k] \in {disk[k], NoRec}
                   \/ \E p \in Procs : adm[p].active /\ adm[p].key = k /\ disk'[k] = RecOf(p)
                /\ seen'[k] \in {seen[k], disk[k], NoRec}
<1>1. ASSUME NEW p \in Procs, Open(p) PROVE G
  <2>1. CASE Publish(p)
    <3>1. adm[p].active /\ adm[p].key \in Keys
      BY <2>1 DEF Publish, Inv, Phases, Claimed
    <3> QED
      BY <2>1, <3>1 DEF Publish, loading, Types
  <2>2. CASE LoadBegin(p) \/ LoadEnd(p) \/ LoadFails(p)
    BY <2>2 DEF LoadBegin, LoadEnd, LoadFails, world
  <2>3. ASSUME ~Publish(p), ~LoadBegin(p), ~LoadEnd(p), ~LoadFails(p)
        PROVE  disk' = disk /\ seen' = seen
    BY <1>1, <2>3 DEF Open, Begin, LoadCompleted, LoadReserved, LoadReplaces, ClaimShared, ClaimNew,
                      OpenState, MarkPersistent, LeaseTransfer, AlreadyCompleted, Opened, Fail,
                      FailClose, Abort, Return, loading, world
  <2> QED
    BY <2>1, <2>2, <2>3
<1>2. ASSUME NEW p \in Procs, Use(p) PROVE disk'[k] \in {disk[k], NoRec} /\ seen' = seen
  BY <1>2 DEF Use, Commit, Complete, EndFinalize, Close, Cancel, ReleaseReservation, Collect,
              DropCollected, RemoveDirectory, loading, world, Types
<1>3. CASE Restart
  BY <1>3 DEF Restart
<1>4. CASE UNCHANGED vars
  BY <1>4 DEF vars, loading, world
<1> QED
  BY <1>1, <1>2, <1>3, <1>4 DEF Next

LEMMA KnownStep == Inv /\ Types /\ Known /\ [Next]_vars => Known'
<1> SUFFICES ASSUME Inv, Types, Known, [Next]_vars PROVE Known'
  OBVIOUS
<1>1. \A k, dev : Offered(k, dev)' <=> Offered(k, dev)
  BY FixedStep DEF Offered
<1>2. ASSUME NEW k \in Keys
      PROVE  /\ disk'[k] # NoRec => Offered(k, disk'[k].dev)
             /\ seen'[k] # NoRec => Offered(k, seen'[k].dev)
  <2>1. \A p \in Procs : adm[p].active /\ adm[p].key = k => Offered(k, RecOf(p).dev)
    BY DEF Known, RecOf
  <2> QED
    BY <2>1, DiskFrame DEF Known
<1>3. ASSUME NEW p \in Procs, adm'[p].active PROVE Offered(adm'[p].key, adm'[p].dev)
  BY <1>3, SameOffer DEF Known, Offered
<1> QED
  BY <1>1, <1>2, <1>3, KnownBooks DEF Known

LEMMA UnreleasedStep == Inv /\ Unreleased /\ [Next]_vars => Unreleased'
<1> SUFFICES ASSUME Inv, Unreleased, [Next]_vars, "cancel" \notin setting.ops, NEW q \in Procs
             PROVE  ~adm'[q].released /\ pc'[q] # "cancelled"
  BY FixedStep DEF Unreleased
<1> USE DEF Inv, Shape, Fields, Unreleased
<1>1. ASSUME NEW p \in Procs, Open(p) PROVE ~adm'[q].released /\ pc'[q] # "cancelled"
  <2>1. CASE Begin(p) \/ LoadBegin(p) \/ LoadEnd(p) \/ LoadFails(p)
    BY <2>1 DEF Begin, NewAdm, LoadBegin, LoadEnd, LoadFails, Goto
  <2>2. CASE LoadCompleted(p) \/ LoadReserved(p) \/ LoadReplaces(p)
    BY <2>2 DEF LoadCompleted, LoadReserved, LoadReplaces
  <2>3. CASE ClaimShared(p) \/ ClaimNew(p) \/ Publish(p) \/ OpenState(p) \/ MarkPersistent(p)
    BY <2>3 DEF ClaimShared, ClaimNew, Publish, OpenState, MarkPersistent, Goto
  <2>4. CASE LeaseTransfer(p) \/ AlreadyCompleted(p) \/ Opened(p) \/ Fail(p) \/ Abort(p)
    BY <2>4 DEF LeaseTransfer, AlreadyCompleted, Opened, Fail, Abort, Goto
  <2>5. CASE FailClose(p) \/ Return(p)
    BY <2>5 DEF FailClose, CloseActive, Return, NoAdm, NewAdm, Goto
  <2> QED
    BY <1>1, <2>1, <2>2, <2>3, <2>4, <2>5 DEF Open
<1>2. ASSUME NEW p \in Procs, Use(p) PROVE ~adm'[q].released /\ pc'[q] # "cancelled"
  <2>1. CASE Commit(p) \/ Complete(p)
    BY <2>1 DEF Commit, Complete, Goto
  <2>2. CASE EndFinalize(p) \/ Close(p)
    BY <2>2 DEF EndFinalize, Close, CloseActive, Goto
  <2>3. CASE Cancel(p) \/ ReleaseReservation(p)
    BY <2>3 DEF Cancel, ReleaseReservation
  <2>4. CASE Collect(p)
    BY <2>4 DEF Collect, Detach, Goto
  <2>5. CASE DropCollected(p)
    BY <2>5 DEF DropCollected, NoAdm, NewAdm, Goto
  <2> QED
    BY <1>2, <2>1, <2>2, <2>3, <2>4, <2>5 DEF Use
<1>3. CASE Restart
  BY <1>3 DEF Restart, NoAdm, NewAdm
<1>4. CASE UNCHANGED vars
  BY <1>4 DEF vars
<1> QED
  BY <1>1, <1>2, <1>3, <1>4 DEF Next

LEMMA RetainedIs ==
    /\ \A s : Retained(s) = Cardinality(Held(s, Keys)) + Cardinality(Kept(s))
    /\ \A s : Cardinality(Held(s, Keys)) \in Nat /\ Cardinality(Kept(s)) \in Nat
BY KeysFinite DEF Retained, Held, Kept

\* One key more, in either map, and none of the others.
LEMMA OneKeyMore ==
    ASSUME NEW S \in SUBSET Keys, NEW T \in SUBSET Keys, NEW k \in Keys, T \subseteq S \cup {k}
    PROVE  Cardinality(T) <= Cardinality(S) + 1
<1>1. IsFiniteSet(S \cup {k}) /\ Cardinality(S \cup {k}) \in Nat /\ S \cup {k} \in SUBSET Keys
  BY KeysFinite
<1>2. Cardinality(T) <= Cardinality(S \cup {k})
  BY <1>1, FS_Subset
<1>3. Cardinality(S \cup {k}) = IF k \in S THEN Cardinality(S) ELSE Cardinality(S) + 1
  BY KeysFinite, FS_AddElement
<1>4. Cardinality(T) \in Nat /\ Cardinality(S) \in Nat
  BY KeysFinite
<1> QED
  BY <1>1, <1>2, <1>3, <1>4

LEMMA NoKeyMore ==
    ASSUME NEW S \in SUBSET Keys, NEW T \in SUBSET S
    PROVE  Cardinality(T) <= Cardinality(S)
BY KeysFinite, FS_Subset

\* A key leaves one map and enters the other.
LEMMA OneKeyMoves ==
    ASSUME NEW S \in SUBSET Keys, NEW T \in SUBSET Keys, NEW k \in S, k \notin T
    PROVE  Cardinality(S \ {k}) + Cardinality(T \cup {k}) = Cardinality(S) + Cardinality(T)
<1>1. Cardinality(S \ {k}) = Cardinality(S) - 1
  BY KeysFinite, FS_RemoveElement
<1>2. Cardinality(T \cup {k}) = Cardinality(T) + 1
  BY KeysFinite, FS_AddElement
<1> QED
  BY <1>1, <1>2, KeysFinite

\* markCompleted keeps a transfer that is counted already, as its own device's.
LEMMA CompletesKeeps ==
    ASSUME Inv, Types, Known, Unreleased, ClaimsHold, Private,
           NEW p \in Procs, Completes(p), NEW s \in Scopes
    PROVE  Cardinality(Held(s, Keys)') + Cardinality(Kept(s)')
              <= Cardinality(Held(s, Keys)) + Cardinality(Kept(s))
<1> DEFINE k == adm[p].key
           H == Held(s, Keys)
           C == Kept(s)
<1>1. /\ adm[p].active /\ Counted(p) /\ k \in Keys /\ adm[p].dev \in Devices
      /\ ~adm[p].released
  BY DEF Completes, Inv, Phases, Claimed, Counted, Unreleased, Private
<1>2. /\ reservations' = [x \in Keys |-> IF x = k THEN NoRec ELSE reservations[x]]
      /\ completed' = [completed EXCEPT ![k] = adm[p].dev]
  BY DEF Completes, MarkCompleted, Drop
<1>3. reservations[k] = RecOf(p) \/ completed[k] # NoDevice
  BY <1>1 DEF ClaimsHold
<1>4. completed[k] # NoDevice => completed[k] = adm[p].dev
  <2>1. Offered(k, adm[p].dev) /\ (completed[k] # NoDevice => Offered(k, completed[k]))
    BY <1>1 DEF Known
  <2> QED
    BY <2>1 DEF Offered, Private
<1>5. H \in SUBSET Keys /\ C \in SUBSET Keys
  BY DEF Held, Kept
<1>6. Held(s, Keys)' = H \ {k}
  BY <1>2 DEF Held
<1>7. \A S \in SUBSET Keys : Cardinality(S) \in Nat
  BY KeysFinite
<1>8. CASE s \notin ScopesOf[adm[p].dev] \/ completed[k] # NoDevice
  <2>1. Kept(s)' \in SUBSET C
    BY <1>2, <1>4, <1>8 DEF Kept, Types
  <2>2. H \ {k} \in SUBSET H
    OBVIOUS
  <2>3. Cardinality(Kept(s)') <= Cardinality(C) /\ Cardinality(H \ {k}) <= Cardinality(H)
    BY <1>5, <2>1, <2>2, NoKeyMore
  <2>4. Kept(s)' \in SUBSET Keys /\ H \ {k} \in SUBSET Keys
    BY <1>5, <2>1
  <2>5. Cardinality(Held(s, Keys)') = Cardinality(H \ {k})
    BY <1>6
  <2>6. /\ Cardinality(Kept(s)') \in Nat /\ Cardinality(C) \in Nat
        /\ Cardinality(H \ {k}) \in Nat /\ Cardinality(H) \in Nat
    BY <1>5, <1>7, <2>4
  <2> QED
    BY <2>3, <2>5, <2>6
<1>9. CASE s \in ScopesOf[adm[p].dev] /\ completed[k] = NoDevice
  <2>1. Kept(s)' = C \cup {k} /\ k \notin C
    BY <1>1, <1>2, <1>9, NamesAssumption DEF Kept, Types
  <2>2. k \in H
    BY <1>1, <1>3, <1>9, NamesAssumption DEF Held, RecOf, NoRec
  <2>3. Cardinality(H \ {k}) + Cardinality(C \cup {k}) = Cardinality(H) + Cardinality(C)
    BY <1>5, <2>1, <2>2, OneKeyMoves
  <2>4. /\ Cardinality(Held(s, Keys)') = Cardinality(H \ {k})
        /\ Cardinality(Kept(s)') = Cardinality(C \cup {k})
    BY <1>6, <2>1
  <2>5. Cardinality(H) \in Nat /\ Cardinality(C) \in Nat
    BY <1>5, <1>7
  <2> QED
    BY <2>3, <2>4, <2>5
<1> QED
  BY <1>8, <1>9

\* Whatever is kept has been counted when it came: by claimReservation, or by
\* loadPersistent.
LEMMA RetainedStep ==
    Inv /\ Types /\ Known /\ Unreleased /\ ClaimsHold /\ RetainedWithin /\ [Next]_vars
       => RetainedWithin'
<1> SUFFICES ASSUME Inv, Types, Known, Unreleased, ClaimsHold, Private, KeptWithinQuota,
                    [Next]_vars, NEW s \in Scopes
             PROVE  Retained(s)' <= MaxRetained[s]
  BY FixedStep DEF RetainedWithin, Private, KeptWithinQuota
<1> DEFINE h == Cardinality(Held(s, Keys))
           c == Cardinality(Kept(s))
<1>1. h + c <= MaxRetained[s] /\ h \in Nat /\ c \in Nat /\ MaxRetained[s] \in Nat
  BY RetainedIs, QuotaAssumption DEF KeptWithinQuota
<1>2. Held(s, Keys) \in SUBSET Keys /\ Kept(s) \in SUBSET Keys
  BY DEF Held, Kept
<1>3. Held(s, Keys)' \in SUBSET Keys /\ Kept(s)' \in SUBSET Keys
  BY DEF Held, Kept
<1>4. /\ Retained(s)' = Cardinality(Held(s, Keys)') + Cardinality(Kept(s)')
      /\ Cardinality(Held(s, Keys)') \in Nat /\ Cardinality(Kept(s)') \in Nat
  BY <1>3, KeysFinite DEF Retained, Held, Kept
<1>5. CASE UNCHANGED <<bytes, reservations, completed>>
  <2>1. Held(s, Keys)' = Held(s, Keys) /\ Kept(s)' = Kept(s)
    BY <1>5 DEF Held, Kept
  <2> QED
    BY <1>1, <1>4, <2>1
<1>6. ASSUME NEW ks \in SUBSET Keys, Drop(ks) PROVE Cardinality(Held(s, Keys)') <= h
  <2>1. Held(s, Keys)' \in SUBSET Held(s, Keys)
    BY <1>6 DEF Held, Drop
  <2> QED
    BY <1>2, <2>1, NoKeyMore
<1>7. CASE \E ks \in SUBSET Keys : Forgets(ks)
  <2>1. PICK ks \in SUBSET Keys : Forgets(ks)
    BY <1>7
  <2>2. Kept(s)' \in SUBSET Kept(s)
    BY <2>1 DEF Forgets, Kept
  <2>3. Cardinality(Kept(s)') <= c /\ Cardinality(Held(s, Keys)') <= h
    BY <1>2, <1>6, <2>1, <2>2, NoKeyMore DEF Forgets
  <2> QED
    BY <1>1, <1>4, <2>3
<1>8. CASE \E k \in Keys, rec \in Rec : Admits(k, rec)
  <2>1. PICK k \in Keys, rec \in Rec : Admits(k, rec)
    BY <1>8
  <2>2. reservations' = [reservations EXCEPT ![k] = rec] /\ Kept(s)' = Kept(s)
    BY <2>1 DEF Admits, Reserve, Kept
  <2>3. CASE s \in ScopesOf[rec.dev]
    <3>1. h + c < MaxRetained[s]
      BY <2>1, <2>3, RetainedIs DEF Admits, CanRetain
    <3>2. Held(s, Keys)' \subseteq Held(s, Keys) \cup {k}
      BY <2>2 DEF Held, Types
    <3>3. Cardinality(Held(s, Keys)') <= h + 1
      BY <1>2, <1>3, <3>2, OneKeyMore
    <3> QED
      BY <1>1, <1>4, <2>2, <3>1, <3>3
  <2>4. CASE s \notin ScopesOf[rec.dev]
    <3>1. Held(s, Keys)' \in SUBSET Held(s, Keys)
      BY <2>2, <2>4 DEF Held, Types
    <3>2. Cardinality(Held(s, Keys)') <= h
      BY <1>2, <3>1, NoKeyMore
    <3> QED
      BY <1>1, <1>4, <2>2, <3>2
  <2> QED
    BY <2>3, <2>4
<1>9. CASE \E k \in todo : Learns(k, seen[k].dev)
  <2>1. PICK k \in todo : Learns(k, seen[k].dev)
    BY <1>9
  <2>2. k \in Keys /\ completed' = [completed EXCEPT ![k] = seen[k].dev]
    BY <2>1 DEF Learns, Types
  <2>3. Cardinality(Held(s, Keys)') <= h
    <3>1. (IF refs[k] = 0 THEN {k} ELSE {}) \in SUBSET Keys
      BY <2>2
    <3> QED
      BY <1>6, <2>1, <3>1 DEF Learns
  <2>4. CASE s \in ScopesOf[seen[k].dev]
    <3>1. h + c < MaxRetained[s]
      BY <2>1, <2>4, RetainedIs DEF Learns, CanRetain
    <3>2. Kept(s)' \subseteq Kept(s) \cup {k}
      BY <2>2 DEF Kept, Types
    <3>3. Cardinality(Kept(s)') <= c + 1
      BY <1>2, <1>3, <2>2, <3>2, OneKeyMore
    <3> QED
      BY <1>1, <1>4, <2>3, <3>1, <3>3
  <2>5. CASE s \notin ScopesOf[seen[k].dev]
    <3>1. Kept(s)' \in SUBSET Kept(s)
      BY <2>2, <2>5 DEF Kept, Types
    <3>2. Cardinality(Kept(s)') <= c
      BY <1>2, <3>1, NoKeyMore
    <3> QED
      BY <1>1, <1>4, <2>3, <3>2
  <2> QED
    BY <2>4, <2>5
<1>10. CASE \E p \in Procs : Completes(p)
  <2>1. PICK p \in Procs : Completes(p)
    BY <1>10
  <2>2. Cardinality(Held(s, Keys)') + Cardinality(Kept(s)') <= h + c
    BY <2>1, CompletesKeeps
  <2> QED
    BY <1>1, <1>4, <2>2
<1>11. CASE Restart
  <2>1. Held(s, Keys)' = {} /\ Kept(s)' = {}
    BY <1>11 DEF Restart, Held, Kept
  <2> QED
    BY <1>1, <1>4, <2>1, FS_EmptySet
<1> HIDE DEF h, c
<1> QED
  BY <1>5, <1>7, <1>8, <1>9, <1>10, <1>11, BooksFrame

\* The empty manager.
LEMMA InitBooks == Init => Types /\ Charges /\ ClaimsHold /\ Known /\ Unreleased /\ RetainedWithin
<1> SUFFICES ASSUME Init PROVE Types /\ Charges /\ ClaimsHold /\ Known /\ Unreleased /\ RetainedWithin
  OBVIOUS
<1>1. Types
  <2>1. NoAdm \in Adm
    BY DEF NoAdm, NewAdm, Adm
  <2> QED
    BY <2>1, BoundAssumption DEF Init, Types, Zero
<1>2. \A s : Held(s, Keys) = {} /\ Kept(s) = {}
  BY DEF Init, Held, Kept
<1>3. Weight(reservations, {}) = 0
  BY FS_EmptySet DEF Weight, Units
<1>4. Charges
  <2>1. \A s \in Scopes : Weight(reservations, Held(s, Keys)) = 0
    BY <1>2, <1>3, Zenon
  <2>2. \A s \in Scopes : active[s] = 0 /\ bytes[s] = 0 /\ MaxBytes[s] \in Nat /\ MaxActive[s] \in Nat
    BY QuotaAssumption DEF Init, Zero
  <2> QED
    BY <2>1, <2>2 DEF Charges
<1>5. RetainedWithin
  BY <1>2, RetainedIs, FS_EmptySet, QuotaAssumption DEF RetainedWithin, KeptWithinQuota
<1>6. ClaimsHold /\ Known /\ Unreleased
  BY DEF Init, NoAdm, NewAdm, ClaimsHold, Counted, Known, Unreleased
<1> QED
  BY <1>1, <1>4, <1>5, <1>6

\* The books of the manager are in order at every moment, for any offers, devices
\* and quotas: nothing but what is reserved is charged, within the quotas, and
\* claimReservation's reservation stays until its call has ended, whatever
\* loadPersistent, abortNewReservation and the collector drop.
THEOREM BooksInOrder == Spec => []ClaimsCharged
<1> DEFINE I == /\ Inv /\ Types /\ Charges /\ ClaimsHold
                /\ Known /\ Unreleased /\ RetainedWithin
<1>1. Init => I
  BY InitInv, InitBooks
<1>2. I /\ [Next]_vars => I'
  <2>1. Inv /\ [Next]_vars => Inv'
    BY ShapeStep, PhasesStep, CountsStep DEF Inv
  <2> QED
    BY <2>1, TypesStep, ChargesStep, ClaimsStep, KnownStep, UnreleasedStep, RetainedStep
<1>3. I => ClaimsCharged
  <2> SUFFICES ASSUME I PROVE ClaimsCharged
    OBVIOUS
  <2>1. /\ \A s \in Scopes : active[s] \in Nat
        /\ \A k \in Keys : refs[k] \in Nat
    BY CountIsNat DEF Inv, Counts, InScope, Users
  <2>2. \A s \in Scopes : bytes[s] = Dropped(s, Keys) /\ bytes[s] \in Nat
    BY DroppedIsWeight DEF Charges
  <2>3. active \in [Scopes -> Nat] /\ bytes \in [Scopes -> Nat] /\ refs \in [Keys -> Nat]
    <3>1. /\ active = [s \in Scopes |-> active[s]] /\ bytes = [s \in Scopes |-> bytes[s]]
          /\ refs = [k \in Keys |-> refs[k]]
      BY DEF Types
    <3> QED
      BY <2>1, <2>2, <3>1
  <2>4. TypeOK
    BY <2>3 DEF TypeOK, Types, Inv, Phases
  <2>5. ChargedExactly
    BY <2>2 DEF ChargedExactly, Charges
  <2> QED
    BY <2>4, <2>5 DEF ClaimsCharged
<1> QED
  BY <1>1, <1>2, <1>3, PTL DEF Spec
=============================================================================
