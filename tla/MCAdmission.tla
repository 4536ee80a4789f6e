---------------------------- MODULE MCAdmission ----------------------------
(* Instances of Admission: two devices, and offers of two transfers. *)
EXTENDS Admission, TLC

CONSTANTS k1, k2, d1, d2

MCScopesOf == d1 :> {"all", "one"} @@ d2 :> {"all", "two"}
Symmetry == Permutations(Procs)
MCScopes == {"all", "one", "two"}

Offer(k, d, n) == [key |-> k, dev |-> d, bytes |-> n]
MCClaims == {Offer(k1, d1, 1), Offer(k2, d2, 2), Offer(k2, d1, 1)}
MCMaxActive == "all" :> 2 @@ "one" :> 2 @@ "two" :> 1
MCMaxBytes == "all" :> 2 @@ "one" :> 2 @@ "two" :> 2
MCMaxRetained == "all" :> 2 @@ "one" :> 1 @@ "two" :> 1

\* Two devices meet at a transfer, which may be cancelled; one device fills its
\* quota with two transfers.
Meeting == [offers |-> MCClaims, ops |-> {"cancel", "gc", "restart"}]
Filling == [offers |-> {Offer(k1, d1, 1), Offer(k2, d1, 1)}, ops |-> {"gc", "restart"}]
SafeSettings == {Meeting, Filling}

\* Where the quotas fail: a call uses what another's Cancel released
\* (KeptWithinQuota); three calls fail (DiskWithinQuota).
Cancelled == {[Filling EXCEPT !.ops = {"cancel"}]}
Aborted == {[Filling EXCEPT !.ops = {}], [Meeting EXCEPT !.ops = {}]}
=============================================================================
