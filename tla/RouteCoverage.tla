--------------------------- MODULE RouteCoverage ---------------------------
(***************************************************************************)
(* What a routing table does to a family's whole address space, as the    *)
(* Network Doctor judges it (internal/diagnose/probes_common.go and the    *)
(* routes probe of probes_link.go).                                        *)
(*                                                                         *)
(* A prefix is the sequence of its leading bits: <<>> is /0, <<0>> and     *)
(* <<1>> are the two /1 halves that an exit installs.  Addresses have W    *)
(* bits.  A table is a set of routes [fam, dst, kind]; the kinds are the   *)
(* values effectiveKind can return.                                        *)
(*                                                                         *)
(* The code walks the binary trie and joins the halves; EachAddress is the *)
(* independent definition by longest-prefix match on every address.        *)
(***************************************************************************)
EXTENDS Integers, Sequences, FiniteSets

CONSTANT W          \* bits of an address: 32 or 128 in the code
ASSUME WAssumption == W \in Nat

Families == {"v4", "v6"}
Verdicts == {"contained", "unknown", "escape"}

Prefixes == UNION {[1..n -> {0, 1}] : n \in 0..W}
Addresses == [1..W -> {0, 1}]

\* What a producer writes: an explicit kind, none (the legacy Tunnel flag then
\* decides), or one the model does not know.
ProducerKinds == {"physical", "tunnel", "blackhole", "legacyTunnel", "legacyPhysical", "garbage"}

EffectiveKind(kind) ==
  CASE kind \in {"physical", "tunnel", "blackhole"} -> kind
    [] kind = "legacyTunnel"   -> "tunnel"
    [] kind = "legacyPhysical" -> "physical"
    [] OTHER                   -> "unknown"

\* netip.Prefix.Contains, and the routes of a table inside a scope.
Covers(p, q) == Len(p) <= Len(q) /\ SubSeq(q, 1, Len(p)) = p
Within(table, scope) == {r \in table : Covers(scope, r.dst)}
Deeper(table, scope) == {r \in Within(table, scope) : Len(r.dst) > Len(scope)}

KindsAt(table, p) == {EffectiveKind(r.kind) : r \in {q \in table : q.dst = p}}

\* Mutant: a safe route beside a physical one at the same prefix wins.
CoverageAt_SafeWins(table, p) ==
  LET kinds == KindsAt(table, p) IN
  CASE kinds \intersect {"tunnel", "blackhole"} # {} -> "contained"
    [] "physical" \in kinds -> "escape"
    [] "unknown" \in kinds  -> "unknown"
    [] OTHER                -> "silent"

\* The decisive observation at one exact prefix; "silent" when no route is there.
CoverageAt(table, p) ==
  LET kinds == KindsAt(table, p)
      safe  == kinds \intersect {"tunnel", "blackhole"} # {} IN
  CASE safe /\ "physical" \in kinds -> "unknown"
    [] "physical" \in kinds -> "escape"
    [] "unknown" \in kinds  -> "unknown"
    [] safe                 -> "contained"
    [] OTHER                -> "silent"

\* The join of contained < unknown < escape.
Combine(a, b) ==
  CASE "escape" \in {a, b}  -> "escape"
    [] "unknown" \in {a, b} -> "unknown"
    [] OTHER                -> "contained"

RECURSIVE ClassifySpace(_, _, _)

ClassifySpace(scope, table, inherited) ==
  LET here == CoverageAt(table, scope)
      eff  == IF here = "silent" THEN inherited ELSE here
  IN  IF Deeper(table, scope) = {} \/ Len(scope) = W
      THEN eff
      ELSE Combine(ClassifySpace(Append(scope, 0), Deeper(table, scope), eff),
                   ClassifySpace(Append(scope, 1), Deeper(table, scope), eff))

OfFamily(table, fam) == {r \in table : r.fam = fam}

DefaultCoverage(table, fam) == ClassifySpace(<<>>, OfFamily(table, fam), "unknown")

RECURSIVE SpaceCovered(_, _)

SpaceCovered(scope, table) ==
  \/ \E r \in table : r.dst = scope
  \/ /\ Deeper(table, scope) # {} /\ Len(scope) < W
     /\ SpaceCovered(Append(scope, 0), Deeper(table, scope))
     /\ SpaceCovered(Append(scope, 1), Deeper(table, scope))

HasCompleteDefault(table, fam) == SpaceCovered(<<>>, OfFamily(table, fam))

\* The families the node uses: those it has an address in, or, with no usable
\* address, those that appear in the table.
RelevantFamilies(addresses, table) ==
  IF addresses # {} THEN addresses ELSE {r.fam : r \in table}

AllFamiliesHaveDefault(table, fams) ==
  fams # {} /\ \A fam \in fams : HasCompleteDefault(table, fam)

-----------------------------------------------------------------------------
(* The codes the routes probe and the ipv6 probe report. *)

RoutesCodes(table, addresses, exitActive) ==
  LET missing == IF AllFamiliesHaveDefault(table, RelevantFamilies(addresses, table))
                 THEN {} ELSE {"routes.default_missing"}
      v4 == DefaultCoverage(table, "v4")
      exit == IF ~exitActive \/ v4 = "contained" THEN {}
              ELSE {"routes.exit_default_absent"} \union
                   (IF v4 = "escape" THEN {"routes.physical_fallback"} ELSE {})
      problems == missing \union exit
  IN  IF problems = {} THEN {"routes.ok"} ELSE problems

ContainmentCodes(table, addresses, exitActive) ==
  IF ~exitActive \/ "v6" \notin addresses THEN {}
  ELSE CASE DefaultCoverage(table, "v6") = "escape"  -> {"ipv6.leak_risk"}
         [] DefaultCoverage(table, "v6") = "unknown" -> {"ipv6.containment_unknown"}
         [] OTHER                                    -> {}

-----------------------------------------------------------------------------
(* The reference: longest-prefix match, address by address. *)

Matching(table, fam, a) == {r \in OfFamily(table, fam) : Covers(r.dst, a)}

Forwards(table, fam, a) ==
  LET m    == Matching(table, fam, a)
      best == {EffectiveKind(r.kind) : r \in {q \in m : \A s \in m : Len(s.dst) <= Len(q.dst)}}
  IN  CASE best = {"physical"} \/ best = {"physical", "unknown"} -> "escape"
        [] best # {} /\ best \subseteq {"tunnel", "blackhole"}    -> "contained"
        [] OTHER                                                  -> "unknown"

EachAddress(table, fam) ==
  LET seen == {Forwards(table, fam, a) : a \in Addresses}
  IN  CASE "escape" \in seen  -> "escape"
        [] "unknown" \in seen -> "unknown"
        [] OTHER              -> "contained"

Reached(table, fam) == \A a \in Addresses : Matching(table, fam, a) # {}
=============================================================================
