----------------------------- MODULE Host_proofs -----------------------------
(***************************************************************************)
(* What the daemon does to its host: proofs about the resolver it takes     *)
(* over and about the routes it installs, for any servers, endpoints,       *)
(* networks and configurations and any number of starts, failures, changes  *)
(* of the network and crashes.                                              *)
(*                                                                          *)
(* ResolverInv is what each step of the supervisor may rely on: where the    *)
(* host's servers are while the file is being rewritten, what the manager   *)
(* remembers on macOS, and what a netmap or the supervisor is about to give  *)
(* the MagicDNS server.  LedgerInv and PlanInv are what each step of the     *)
(* engine may rely on about the routes.                                     *)
(***************************************************************************)
EXTENDS SystemResolver, WindowsRoutes, FiniteSetTheorems, WellFoundedInduction, TLAPS

Upstream == Servers \cup {Dhcp, Other, Unset}

\* What the MagicDNS server should forward to.
Due == IF tunnelMode THEN Through ELSE system

\* Types, as far as the arguments below need them.
ResolverTyped ==
    /\ platform \in {"linux", "darwin", "windows"}
    /\ life \in {"off", "up", "stopping", "killed"}
    /\ step \in {"look", "wait", "keep", "save", "empty", "point", "publish", "hand", "hold",
                 "restore", "rewrite", "unsave", "release", "done"}
    /\ found \in Upstream /\ system \in Upstream
    /\ pick \in Upstream \cup {Through} /\ server \in Upstream \cup {Through}
    /\ update \in Upstream \cup {Through, "idle"}
    /\ starts \in Nat /\ failures \in Nat

Flags ==
    /\ online \in BOOLEAN /\ others \in BOOLEAN /\ recovered \in BOOLEAN
    /\ taken \in BOOLEAN /\ tunnelMode \in BOOLEAN /\ crossed \in BOOLEAN

\* The supervisor gives the resolver back only while the daemon stops, and a
\* process that runs has a supervisor.
Phased ==
    /\ step = "done" => life # "up"
    /\ step \in {"restore", "rewrite", "unsave", "release"} => life = "stopping"
    /\ life \in {"off", "killed"} => step = "done"

\* On Linux: the original is in the file until the backup holds it, and in the
\* backup until the file holds it again; what the process remembers is one.
Original ==
    platform = "linux" =>
        /\ setting \in Servers \cup {Self, Torn}
        /\ setting \in Servers \/ saved \in Servers
        /\ step \in {"keep"} => setting # Torn
        /\ step = "save" => setting \in Servers
        /\ step \in {"empty", "point", "publish", "hand", "hold", "restore", "rewrite"}
                => saved \in Servers
        /\ step \in {"save", "empty", "point", "publish", "hand", "hold", "restore", "rewrite",
                "unsave"}
              => backup \in Servers
        /\ step = "unsave" => setting \in Servers
        /\ step \in {"publish", "hand", "hold", "restore"} => taken

\* On macOS: the loopback address is there only after a takeover, which needs the
\* network, and is never kept for the original when nobody else brings servers.
Remembered ==
    platform = "darwin" =>
        /\ setting \in Servers \cup {Dhcp, Self}
        /\ backup \in Servers \cup {Dhcp, Self, Unset}
        /\ setting = Self => online
        /\ step \in {"point", "publish", "hand", "hold", "restore"} => online
        /\ step \in {"publish", "hand", "hold", "restore"} => taken
        /\ ~others => backup # Self
        /\ ~others /\ step = "keep" /\ setting = Self => recovered
        /\ step \notin {"save", "empty", "rewrite", "unsave"}

\* On Windows the tunnel service sets the resolver and takes it away.
Untouched ==
    platform = "windows" =>
        /\ setting \in Servers \cup {Dhcp}
        /\ step \notin {"save", "empty", "point", "rewrite", "unsave"}
        /\ ~taken

\* Where a supervisor that met no failure may have stopped: an emptied file is
\* there only if it never had a resolver to take over.
Restored ==
    failures = 0 /\ ~others /\ starts > 0
        /\ (step \in {"wait", "rewrite", "unsave", "release"} \/ (step = "done"
                /\ life \in {"stopping", "off"}))
        => /\ setting # Self
           /\ found # Unset /\ step # "rewrite" => setting # Torn

\* What is about to reach the server, while netmap and takeover do not overlap.
InFlight ==
    life = "up" /\ ~crossed =>
        /\ step = "hand" => update = "idle" /\ pick = Due
        /\ step # "hand" /\ update # "idle" => update = Due
        /\ step # "hand" /\ update = "idle" => server = Due

ResolverInv ==
    /\ ResolverTyped /\ Flags /\ Phased
    /\ Original /\ Remembered /\ Untouched /\ Restored /\ InFlight
-----------------------------------------------------------------------------
\* Nothing that an attempt finds is MagicDNS or an emptied file (CurrentUpstreams).
LEMMA Findings ==
    ASSUME ResolverInv
    PROVE  /\ Upstreams \in Upstream
           /\ Recovers1 \in BOOLEAN
<1>1. CASE platform = "linux"
  BY <1>1 DEF ResolverInv, Original, Upstreams, LinuxUpstreams, Upstream, Recovers1
<1>2. CASE platform = "windows"
  BY <1>2 DEF ResolverInv, Untouched, Upstreams, Upstream, Recovers1
<1>3. CASE platform = "darwin"
  BY <1>3, ResolverAssumption DEF ResolverInv, Remembered, Upstreams, Upstream, Recovers1, Self
<1>. QED
  BY <1>1, <1>2, <1>3 DEF ResolverInv, ResolverTyped

LEMMA Step ==
    ASSUME ResolverInv, ResolverNext
    PROVE  ResolverInv'
<1>. USE ResolverAssumption DEF ResolverInv, hostDNS, manager, forwarding, trials, Fails1,
         Works, Self, Torn, Absent, Dhcp, Other, Through, Upstream, Due
<1>1. CASE Look
  <2>1. ResolverTyped'
    BY <1>1, Findings DEF ResolverTyped, Look, Discovers
  <2>2. Flags'
    BY <1>1, Findings DEF Flags, Look, Discovers
  <2>3. Phased'
    BY <1>1, Findings DEF ResolverTyped, Phased, Look, Upstreams, LinuxUpstreams, Discovers,
       Recovers1
  <2>4. Original'
    BY <1>1, Findings DEF ResolverTyped, Phased, Original, Remembered, Untouched, Restored, Look,
       Upstreams, LinuxUpstreams, Discovers, Recovers1
  <2>5. Remembered'
    BY <1>1, Findings DEF ResolverTyped, Phased, Original, Remembered, Untouched, Restored, Look,
       Upstreams, LinuxUpstreams, Discovers, Recovers1
  <2>6. Untouched'
    BY <1>1, Findings DEF ResolverTyped, Untouched, Look, Upstreams, LinuxUpstreams, Discovers,
       Recovers1
  <2>7. Restored'
    BY <1>1, Findings DEF ResolverTyped, Phased, Original, Remembered, Untouched, Restored, Look,
       Upstreams, LinuxUpstreams, Discovers, Recovers1
  <2>8. InFlight'
    BY <1>1, Findings DEF ResolverTyped, Phased, InFlight, Look, Upstreams, LinuxUpstreams,
       Discovers, Recovers1
  <2>. QED
    BY <2>1, <2>2, <2>3, <2>4, <2>5, <2>6, <2>7, <2>8
<1>2. CASE Keep
  <2>1. ResolverTyped'
    BY <1>2 DEF ResolverTyped, Keep
  <2>2. Flags'
    BY <1>2 DEF Flags, Keep
  <2>3. Phased'
    BY <1>2 DEF ResolverTyped, Phased, Keep
  <2>4. Original'
    BY <1>2 DEF ResolverTyped, Phased, Original, Remembered, Untouched, Restored, Keep
  <2>5. Remembered'
    BY <1>2 DEF ResolverTyped, Phased, Original, Remembered, Untouched, Restored, Keep
  <2>6. Untouched'
    BY <1>2 DEF ResolverTyped, Untouched, Keep
  <2>7. Restored'
    BY <1>2 DEF ResolverTyped, Phased, Original, Remembered, Untouched, Restored, Keep
  <2>8. InFlight'
    BY <1>2 DEF ResolverTyped, Phased, InFlight, Keep
  <2>. QED
    BY <2>1, <2>2, <2>3, <2>4, <2>5, <2>6, <2>7, <2>8
<1>3. CASE Save
  BY <1>3 DEF ResolverTyped, Flags, Phased, Original, Remembered, Untouched, Restored, InFlight,
     Save
<1>4. CASE EmptyFile
  BY <1>4 DEF ResolverTyped, Flags, Phased, Original, Remembered, Untouched, Restored, InFlight,
     EmptyFile
<1>5. CASE Point
  <2>1. ResolverTyped'
    BY <1>5 DEF ResolverTyped, Point
  <2>2. Flags'
    BY <1>5 DEF Flags, Point
  <2>3. Phased'
    BY <1>5 DEF ResolverTyped, Phased, Point
  <2>4. Original'
    BY <1>5 DEF ResolverTyped, Phased, Original, Remembered, Untouched, Restored, Point
  <2>5. Remembered'
    BY <1>5 DEF ResolverTyped, Phased, Original, Remembered, Untouched, Restored, Point
  <2>6. Untouched'
    BY <1>5 DEF ResolverTyped, Untouched, Point
  <2>7. Restored'
    BY <1>5 DEF ResolverTyped, Phased, Original, Remembered, Untouched, Restored, Point
  <2>8. InFlight'
    BY <1>5 DEF ResolverTyped, Phased, InFlight, Point
  <2>. QED
    BY <2>1, <2>2, <2>3, <2>4, <2>5, <2>6, <2>7, <2>8
<1>6. CASE Publish
  <2>1. ResolverTyped'
    BY <1>6 DEF ResolverTyped, Publish
  <2>2. Flags'
    BY <1>6 DEF Flags, Publish
  <2>3. Phased'
    BY <1>6 DEF ResolverTyped, Phased, Publish
  <2>4. Original'
    BY <1>6 DEF ResolverTyped, Phased, Original, Remembered, Untouched, Restored, Publish
  <2>5. Remembered'
    BY <1>6 DEF ResolverTyped, Phased, Original, Remembered, Untouched, Restored, Publish
  <2>6. Untouched'
    BY <1>6 DEF ResolverTyped, Untouched, Publish
  <2>7. Restored'
    BY <1>6 DEF ResolverTyped, Phased, Original, Remembered, Untouched, Restored, Publish
  <2>8. InFlight'
    BY <1>6 DEF ResolverTyped, Phased, InFlight, Publish
  <2>. QED
    BY <2>1, <2>2, <2>3, <2>4, <2>5, <2>6, <2>7, <2>8
<1>7. CASE Hand
  BY <1>7 DEF ResolverTyped, Flags, Phased, Original, Remembered, Untouched, Restored, InFlight,
     Hand
<1>8. CASE Hold
  BY <1>8 DEF ResolverTyped, Flags, Phased, Original, Remembered, Untouched, Restored, InFlight,
     Hold
<1>9. CASE Restore
  <2>1. ResolverTyped'
    BY <1>9 DEF ResolverTyped, Restore
  <2>2. Flags'
    BY <1>9 DEF Flags, Restore
  <2>3. Phased'
    BY <1>9 DEF ResolverTyped, Phased, Restore
  <2>4. Original'
    BY <1>9 DEF ResolverTyped, Phased, Original, Remembered, Untouched, Restored, Restore
  <2>5. Remembered'
    BY <1>9 DEF ResolverTyped, Phased, Original, Remembered, Untouched, Restored, Restore
  <2>6. Untouched'
    BY <1>9 DEF ResolverTyped, Untouched, Restore
  <2>7. Restored'
    BY <1>9 DEF ResolverTyped, Phased, Original, Remembered, Untouched, Restored, Restore
  <2>8. InFlight'
    BY <1>9 DEF ResolverTyped, Phased, InFlight, Restore
  <2>. QED
    BY <2>1, <2>2, <2>3, <2>4, <2>5, <2>6, <2>7, <2>8
<1>10. CASE Rewrite
  BY <1>10 DEF ResolverTyped, Flags, Phased, Original, Remembered, Untouched, Restored, InFlight,
     Rewrite
<1>11. CASE Unsave
  BY <1>11 DEF ResolverTyped, Flags, Phased, Original, Remembered, Untouched, Restored, InFlight,
     Unsave
<1>12. CASE Release
  BY <1>12 DEF ResolverTyped, Flags, Phased, Original, Remembered, Untouched, Restored, InFlight,
     Release
<1>13. CASE Retry
  BY <1>13 DEF ResolverTyped, Flags, Phased, Original, Remembered, Untouched, Restored, InFlight,
     Retry
<1>14. CASE GiveUp
  BY <1>14 DEF ResolverTyped, Flags, Phased, Original, Remembered, Untouched, Restored, InFlight,
     GiveUp
<1>15. CASE Decide
  <2>1. ResolverTyped'
    BY <1>15 DEF ResolverTyped, Decide
  <2>2. Flags'
    BY <1>15 DEF Flags, Decide
  <2>3. Phased'
    BY <1>15 DEF ResolverTyped, Phased, Decide
  <2>4. Original'
    BY <1>15 DEF ResolverTyped, Phased, Original, Remembered, Untouched, Restored, Decide
  <2>5. Remembered'
    BY <1>15 DEF ResolverTyped, Phased, Original, Remembered, Untouched, Restored, Decide
  <2>6. Untouched'
    BY <1>15 DEF ResolverTyped, Untouched, Decide
  <2>7. Restored'
    BY <1>15 DEF ResolverTyped, Phased, Original, Remembered, Untouched, Restored, Decide
  <2>8. InFlight'
    <3>1. PICK exitActive \in BOOLEAN :
            /\ tunnelMode' = exitActive
            /\ update' = IF exitActive THEN Through ELSE system
      BY <1>15 DEF Decide
    <3>2. update' = Due'
      BY <1>15, <3>1 DEF Decide
    <3>3. update' # "idle"
      BY <3>1 DEF ResolverTyped
    <3>4. ~crossed' => step' # "hand"
      BY <1>15 DEF Decide
    <3>. QED
      BY <3>2, <3>3, <3>4 DEF InFlight
  <2>. QED
    BY <2>1, <2>2, <2>3, <2>4, <2>5, <2>6, <2>7, <2>8
<1>16. CASE Send
  BY <1>16 DEF ResolverTyped, Flags, Phased, Original, Remembered, Untouched, Restored, InFlight,
     Send
<1>17. CASE Boot
  <2>1. ResolverTyped'
    BY <1>17, Findings DEF ResolverTyped, Boot
  <2>2. Flags'
    BY <1>17, Findings DEF Flags, Boot
  <2>3. Phased'
    BY <1>17, Findings DEF ResolverTyped, Phased, Boot, Recovers1
  <2>4. Original'
    BY <1>17, Findings DEF ResolverTyped, Phased, Original, Remembered, Untouched, Restored, Boot,
       Recovers1
  <2>5. Remembered'
    BY <1>17, Findings DEF ResolverTyped, Phased, Original, Remembered, Untouched, Restored, Boot,
       Recovers1
  <2>6. Untouched'
    BY <1>17, Findings DEF ResolverTyped, Untouched, Boot, Recovers1
  <2>7. Restored'
    BY <1>17, Findings DEF ResolverTyped, Phased, Original, Remembered, Untouched, Restored, Boot,
       Recovers1
  <2>8. InFlight'
    BY <1>17, Findings DEF ResolverTyped, Phased, InFlight, Boot, Recovers1
  <2>. QED
    BY <2>1, <2>2, <2>3, <2>4, <2>5, <2>6, <2>7, <2>8
<1>18. CASE Stop
  BY <1>18 DEF ResolverTyped, Flags, Phased, Original, Remembered, Untouched, Restored, InFlight,
     Stop
<1>19. CASE Off
  BY <1>19 DEF ResolverTyped, Flags, Phased, Original, Remembered, Untouched, Restored, InFlight,
     Off
<1>20. CASE Kill
  BY <1>20 DEF ResolverTyped, Flags, Phased, Original, Remembered, Untouched, Restored, InFlight,
     Kill
<1>21. CASE Connect
  BY <1>21 DEF ResolverTyped, Flags, Phased, Original, Remembered, Untouched, Restored, InFlight,
     Connect
<1>22. CASE Edit
  BY <1>22 DEF ResolverTyped, Flags, Phased, Original, Remembered, Untouched, Restored, InFlight,
     Edit
<1>. QED
  BY <1>1, <1>2, <1>3, <1>4, <1>5, <1>6, <1>7, <1>8, <1>9, <1>10, <1>11, <1>12, <1>13, <1>14,
     <1>15, <1>16, <1>17, <1>18, <1>19, <1>20, <1>21, <1>22 DEF ResolverNext, Supervise

LEMMA Begin == InitResolver => ResolverInv
<1>. SUFFICES ASSUME InitResolver
              PROVE  ResolverInv
  OBVIOUS
<1>. USE ResolverAssumption DEF InitResolver, Upstream, Self, Torn, Dhcp, Through
<1>1. ResolverTyped /\ Phased
  BY DEF ResolverTyped, Phased
<1>2. Flags
  BY DEF Flags
<1>3. Original /\ Remembered /\ Untouched
  BY DEF Original, Remembered, Untouched
<1>4. Restored /\ InFlight
  BY DEF Restored, InFlight
<1>. QED
  BY <1>1, <1>2, <1>3, <1>4 DEF ResolverInv

LEMMA Stutter ==
    ASSUME ResolverInv, UNCHANGED resolverVars
    PROVE  ResolverInv'
  BY DEF resolverVars, hostDNS, manager, forwarding, trials, ResolverInv, ResolverTyped, Flags,
     Phased, Original, Remembered, Untouched, Restored, InFlight, Due

\* What the invariant says of the state a run looks at.
LEMMA Enough == ResolverInv => ResolverKept
<1>. SUFFICES ASSUME ResolverInv
              PROVE  ResolverKept
  OBVIOUS
<1>. USE ResolverAssumption DEF ResolverInv, Upstream, Self, Torn, Absent, Dhcp, Other, Through
<1>1. NeverSelf
  BY DEF NeverSelf, ResolverTyped
<1>2. ServersKept
  BY DEF ServersKept, Original
<1>3. StopRestores
  BY DEF StopRestores, ResolverTyped, Phased, Original, Remembered, Untouched, Restored
<1>4. ForwardsAlone
  BY DEF ForwardsAlone, InFlight, Due
<1>. QED
  BY <1>1, <1>2, <1>3, <1>4 DEF ResolverKept

\* Whatever is killed, fails or is edited meanwhile, MagicDNS does not forward to
\* itself and, on Linux, the host's resolver is in the file or in the backup.
\* Where nothing failed and nobody else brings a resolver, the daemon that took
\* it over puts it back; where netmap and takeover do not overlap, the server
\* forwards to what they say (superviseSystemResolver, resolvFile, resolvDarwin).
THEOREM ResolverIsKept == ResolverSpec => []ResolverKept
<1>1. ResolverInv /\ [ResolverNext]_resolverVars => ResolverInv'
  BY Step, Stutter
<1>2. QED
  BY Begin, <1>1, Enough, PTL DEF ResolverSpec

-----------------------------------------------------------------------------
(***************************************************************************)
(* The host's routes: what every step of the engine may rely on.            *)
(*                                                                          *)
(* LedgerInv is about three books that must agree: the kernel's table, the   *)
(* owners (in memory and in the file) and the lists the engine clears by.    *)
(* It holds at every place, with any command or write failing.               *)
(* PlanInv is about what the engine concludes from them: what "applied" and  *)
(* "pinned" promise on Unix, what has been staged on a live adapter, and on   *)
(* Windows, while nothing fails, that a plan is owned as far as it is carried *)
(* out (AdapterOwns) and there when it is applied.                            *)
(* StillThere is for Windows, whose routes go with their gateway.            *)
(***************************************************************************)
\* The routes of one configuration do not collide: a peer's prefix is not also
\* kept direct or blocked, nor is it an endpoint or a half of the default route.
\* Where they do, the refusal of the second route deletes the owner of the first
\* (README, finding 14).
NoOverlap ==
    \A c \in Configs :
        /\ Endpoints \cap (c.net \cup c.direct \cup c.block) = {}
        /\ c.net \cap (c.direct \cup c.block) = {} /\ c.direct \cap c.block = {}
        /\ c.default =>
              (V4 \cup IF c.v6 THEN V6 ELSE {}) \cap (c.net \cup c.direct \cup c.block) = {}

\* A host that changes its network does not come back to a gateway whose route
\* it has lost meanwhile while the engine goes on listing it.
NoReturn ==
    network' # network => \A o \in owners : o.via \in Gateways(network') => Present(o)
-----------------------------------------------------------------------------
UnixPlaces == {"stage", "unstage", "device", "residual", "install", "undo6", "relink"}
WindowsPlaces == {"wstage", "wsync", "wdrop", "wremove", "wpins", "wservice", "wroutes", "wdone",
                  "wuninstall"}
CommonPlaces == {"down", "clean", "bringUp", "idle", "add", "sweep", "unlink"}

Entries == [to : Destinations, via : Ways, own : BOOLEAN]

RoutesTyped ==
    /\ os \in Systems /\ network \in Networks
    /\ kernel \subseteq Entries
    /\ link \in BOOLEAN /\ dev \in Configs \cup {Nil, Empty}
    /\ disk \subseteq Routes /\ owners \subseteq Routes
    /\ routed \subseteq Destinations \ Endpoints /\ residual \subseteq Destinations \ Endpoints
    /\ pinned \subseteq Endpoints
    /\ applied \in BOOLEAN /\ scrubbed \in BOOLEAN
    /\ cfg \in Configs \cup {Empty} /\ call \in Configs \cup {Empty}
    /\ err \in BOOLEAN /\ moved \in BOOLEAN
    /\ outcome \in {"none", "ok", "error", "killed", "stopped", "noStart"}

\* Where the engine may be on which system, and where a loop returns to.
Places ==
    /\ at \in CommonPlaces \cup IF os = "windows" THEN WindowsPlaces ELSE UnixPlaces
    /\ at # "add" => ret = "none"
    /\ at = "add" => ret \in IF os = "windows" THEN {"wstage", "wpins", "wroutes"} ELSE {"stage",
            "install"}
    /\ at = "sweep" => after \in IF os = "windows" THEN {"remove", "failed", "failedLive", "stop"}
                                 ELSE {"install", "failed", "refreshed", "stop", "rebuild"}
    /\ at = "sweep" /\ after \in {"stop", "rebuild", "remove"} => tries \in 1 .. 3

\* An engine that is not up yet lists nothing, and a start that has cleaned has
\* removed every route of a predecessor (cleanStaleRoutes).
Gone ==
    /\ at \in {"down", "clean", "bringUp"} =>
        /\ owners = {} /\ routed = {} /\ residual = {} /\ pinned = {}
    /\ at = "clean" => todo \subseteq disk /\ \A k \in Own : Route(k.to, k.via) \in todo
    /\ at = "bringUp" => Own = {}

\* What is in the table is owned, and what is owned is in the file.
Owned ==
    /\ owners \subseteq disk /\ LedgerCovers
    /\ at \notin {"down", "clean"} => \A k \in Own : Route(k.to, k.via) \in owners
    /\ os # "windows" => \A o, p \in owners : o.to = p.to => o = p

Lists == routed \cup residual \cup pinned

\* On Unix, what is owned is in a list, so that some loop clears it; but for the
\* route whose intent has just been written.
Listed ==
    /\ routed \cap residual = {}
    /\ os # "windows" =>
        /\ \A o \in owners : o.to \in Lists \/ (at = "add" /\ o = cur)
        /\ at = "add" => cur.to \notin Lists

\* The intent precedes the route.
Intended == at = "add" => cur \in Routes /\ cur \in owners /\ \A k \in Own : ~Matches(k, cur)

\* A route of somebody else has no owner but an intent that is about to be refused.
ForeignApart ==
    \A k \in kernel : ~k.own =>
        /\ k.via # Tunnel
        /\ \A o \in owners : o.to = k.to => at = "add" /\ o = cur

Installing == at \in {"install", "undo6"} \/ (at = "add" /\ ret = "install")

\* What is still to be installed is not there yet.
Fresh ==
    /\ os # "windows" /\ Installing =>
        /\ todo \subseteq Plan(call) /\ added \subseteq V6
        /\ \A i \in todo : i.to \notin routed \cup residual
    /\ at = "undo6" => \A i \in todo : i.to \notin V6
    /\ os # "windows" /\ at = "add" /\ ret = "install" => \E i \in todo : Matches(i, cur)
    /\ os # "windows" /\ at = "add" /\ ret = "stage" => cur.to \in Endpoints
    /\ os # "windows" /\ at = "sweep" /\ after = "install" /\ ~err
            => routed \cup residual \subseteq todo

\* A sweep that has met no error leaves nothing but what it has still to do.
Cleared ==
    /\ os # "windows" /\ at = "sweep" /\ after \in {"stop", "rebuild"} /\ ~err
            => Lists \subseteq todo
    /\ os = "windows" /\ at = "sweep" => todo \subseteq owners /\ (~err => owners \subseteq todo)
    /\ at = "unlink" /\ ~err => owners = {}
    /\ at = "down" /\ outcome = "stopped" => Own = {}

\* What is owned while the adapter is rebuilt.
Adapter ==
    /\ at = "wdrop" => todo \subseteq owners
    /\ at = "wremove" => owners = {}
    /\ at \in {"wpins", "wservice"} \/ (at = "add" /\ ret = "wpins") =>
          \A o \in owners : o.to \in Endpoints
    /\ at = "wpins" \/ (at = "add" /\ ret = "wpins") =>
          /\ todo \subseteq PinRoutes(call)
          /\ \A r \in todo : r \in owners => at = "add" /\ r = cur
    /\ at = "wroutes" \/ (at = "add" /\ ret = "wroutes") =>
          /\ todo \subseteq Extra(call)
          /\ \A i \in todo : Route(i.to, i.via) \in owners => at = "add" /\ Route(i.to, i.via) = cur

LedgerInv ==
    /\ RoutesTyped /\ Places /\ Gone /\ Owned /\ Listed /\ Intended
    /\ ForeignApart /\ Fresh /\ Cleared /\ Adapter
-----------------------------------------------------------------------------
Staging == at \in {"stage", "unstage", "device"} \/ (at = "add" /\ ret = "stage")
Refreshed == at = "sweep" /\ after = "refreshed"
Applying == at = "residual" \/ Installing \/ (at = "sweep" /\ after = "install") \/ Refreshed

\* When the engine must not take its plan for applied: from the first route it
\* takes away until the last it puts back.
Unapplied ==
    /\ mode = "recover" => ~applied
    /\ Installing \/ at \in {"relink", "unlink", "down", "clean", "bringUp"} => ~applied
    /\ at = "sweep" /\ after # "refreshed" => ~applied
    /\ applied \/ Applying => scrubbed

\* A call that has not failed and whose routes are those in place stays on the
\* path that only exchanges pins.
Modes ==
    /\ at \in {"down", "clean", "bringUp", "idle"} => mode = "none"
    /\ at \in {"clean", "bringUp"} => outcome # "ok"
    /\ at = "idle" /\ outcome = "ok" => applied
    /\ mode = "configure" /\ outcome = "ok" /\ SameRoutes(cfg, call) =>
          applied /\ (Staging \/ at = "residual" \/ Refreshed)
    /\ Refreshed => SameRoutes(cfg, call) /\ applied

\* Pins are staged before the device gets the endpoints they are for, and no
\* sweep takes one the device uses.
Pinning ==
    /\ at \in {"down", "clean", "bringUp", "idle", "relink"} => added = {}
    /\ at = "sweep" /\ after = "rebuild" => added = {}
    /\ Staging => added \subseteq Endpoints
    /\ at = "device" \/ Applying => DesiredPins(call) \subseteq pinned
    /\ Applying => dev = call
    /\ at = "sweep" /\ after \in {"install", "refreshed"} => todo \cap DesiredPins(call) = {}
    /\ at = "residual" => todo \subseteq residual
    /\ Refreshed => todo \subseteq pinned
    /\ applied /\ dev # Nil => DesiredPins(dev) \subseteq pinned
    /\ applied /\ dev # Nil /\ Staging => added \cap DesiredPins(dev) = {}
    /\ at = "add" /\ ret = "stage" => cur.via # Tunnel
    /\ at = "add" /\ ret = "install" => cur.to \notin Endpoints

\* A listed pin with an owner is in the table, unless the network has changed.
PinsThere == ~moved => \A o \in owners : o.to \in pinned => o.via # Tunnel /\ Present(o)

Done(i) == i.rank = 4 \/ (Present(Route(i.to, i.via)) /\ i.to \notin residual)

\* What is applied is there, and so is what an installation has done so far.
PlanThere ==
    /\ applied /\ ~moved => \A i \in Plan(cfg) : Done(i)
    /\ Installing => \A i \in Plan(call) \ todo : Done(i)
    /\ at = "undo6" => call.kill /\ call.v6 /\ call.default

UnixPlan == Unapplied /\ Modes /\ Pinning /\ PinsThere /\ PlanThere

\* The pins of a new adapter are there before its service starts, and those of
\* a live one are owned before it is told of the endpoints.
LiveAdapter ==
    /\ \A k \in kernel : k.via # Tunnel
    /\ at = "add" => cur.via # Tunnel
    /\ at = "wpins" \/ (at = "add" /\ ret = "wpins") =>
          \A r \in PinRoutes(call) \ todo : Present(r)
    /\ at = "wservice" => \A r \in PinRoutes(call) : Present(r)
    /\ at = "wsync" => PinRoutes(call) \subseteq owners

Counted == crashes \in Nat /\ faults \in Nat

\* On Windows a route that is owned is in the table as long as its gateway is
\* one of the network's.
StillThere ==
    os = "windows" => \A o \in owners :
        (at = "add" /\ o = cur) \/ Present(o) \/ o.via \notin Gateways(network) \cup {Null}

Refreshing == at \in {"wstage", "wsync", "wdrop"} \/ (at = "add" /\ ret = "wstage")
Reinstalling ==
    \/ at \in {"wpins", "wservice", "wroutes", "wdone", "wuninstall"}
    \/ at = "add" /\ ret \in {"wpins", "wroutes"}
    \/ at = "sweep" /\ after \in {"failed", "failedLive"}

Has(r) == Route(r.to, r.via) \in owners
WaysKnown == \A o \in owners : o.via \in Gateways(network) \cup {Null}

\* What "applied" does not say: an adapter is applied while it is refreshed and
\* not while it is rebuilt, and a clearance fails only with a command or a write.
AdapterStates ==
    /\ at \in {"down", "clean", "bringUp"} \/ Reinstalling => ~applied
    /\ Refreshing => applied /\ WithoutTransport(call) = WithoutTransport(cfg)
    /\ at = "sweep" /\ err => faults # 0

\* What an adapter that is rebuilt or refreshed owns so far, and what a refresh
\* gives up.
AdapterOwns ==
    /\ at = "wpins" \/ (at = "add" /\ ret = "wpins") => \A r \in PinRoutes(call) \ todo : Has(r)
    /\ at \in {"wservice", "wroutes", "wdone", "wdrop"} \/ (at = "add" /\ ret = "wroutes") =>
          \A r \in PinRoutes(call) : Has(r)
    /\ at = "wroutes" \/ (at = "add" /\ ret = "wroutes") => \A i \in Extra(call) \ todo : Has(i)
    /\ at = "wdone" => \A i \in Extra(call) : Has(i)
    /\ at = "wdrop" => \A r \in todo : r.to \in Endpoints /\ r \notin PinRoutes(call)

\* What is applied is owned, until a command or a write fails.
AppliedIsOwned ==
    applied /\ ~moved /\ faults = 0 =>
        /\ at = "idle" => \A r \in PinRoutes(cfg) : Has(r)
        /\ at = "idle" \/ Refreshing => \A i \in Extra(cfg) : Has(i)

AdapterBooks == AdapterStates /\ AdapterOwns /\ AppliedIsOwned

AdapterPlan == AdapterBooks /\ (~moved => StillThere /\ WaysKnown)

PlanInv ==
    /\ os # "windows" => UnixPlan
    /\ os = "windows" => LiveAdapter /\ AdapterPlan
    /\ Counted

-----------------------------------------------------------------------------
\* Paths and plans.

\* The order the physical path is chosen by has a first among the routes.
LEMMA PathExists ==
    ASSUME network \in Networks, NEW S \in SUBSET DOMAIN network, S # {}
    PROVE  \E i \in S : \A j \in S \ {i} :
              \/ network[i].metric < network[j].metric
              \/ network[i].metric = network[j].metric /\ i < j
<1>. DEFINE less(i, j) == \/ network[i].metric < network[j].metric
                          \/ network[i].metric = network[j].metric /\ i < j
            Upto(i) == {j \in S : j = i \/ less(j, i)}
            T == {Upto(i) : i \in S}
<1>1. S \subseteq Int /\ \A i \in S : network[i].metric \in Int
  BY RoutesAssumption
<1>2. IsFiniteSet(S)
  <2>1. DOMAIN network = 1 .. Len(network) /\ Len(network) \in Nat
    BY RoutesAssumption
  <2>2. IsFiniteSet(1 .. Len(network))
    BY <2>1, FS_Interval
  <2>. QED
    BY <2>1, <2>2, FS_Subset
<1>3. \A i, j, k \in S : less(i, j) /\ less(j, k) => less(i, k)
  BY <1>1
<1>4. \A i \in S : ~less(i, i)
  BY <1>1
<1>5. \A i, j \in S : less(i, j) \/ less(j, i) \/ i = j
  BY <1>1
<1>. HIDE DEF less
<1>6. T \subseteq SUBSET S /\ T # {}
  OBVIOUS
<1>7. T \subseteq FiniteSubsetsOf(S)
  BY <1>2, <1>6, FS_FiniteSubsetsOfFinite
<1>8. \E x \in T : \A y \in T : ~ (<<y, x>> \in StrictSubsetOrdering(S))
  BY <1>6, <1>7, FS_StrictSubsetOrderingWellFounded, WFMin, Zenon
<1>9. PICK i \in S : \A j \in S : <<Upto(j), Upto(i)>> \notin StrictSubsetOrdering(S)
  BY <1>8
<1>10. ASSUME NEW j \in S, less(j, i) PROVE FALSE
  <2>1. Upto(j) \subseteq Upto(i)
    BY <1>3, <1>10
  <2>2. i \in Upto(i) /\ i \notin Upto(j)
    BY <1>3, <1>4, <1>10
  <2>3. <<Upto(j), Upto(i)>> \in StrictSubsetOrdering(S)
    <3>1. <<Upto(j), Upto(i)>> \in (SUBSET S) \X (SUBSET S)
      BY <1>6
    <3>. QED
      BY <2>1, <2>2, <3>1 DEF StrictSubsetOrdering
  <2>. QED
    BY <1>9, <2>3
<1>11. \A j \in S \ {i} : less(i, j)
  BY <1>5, <1>10
<1>. QED
  BY <1>11 DEF less

\* The physical path leaves by a gateway of the network.
LEMMA PathIsGateway ==
    ASSUME network \in Networks, PhysicalPath # Nil
    PROVE  /\ PhysicalPath \in Gateways(network) /\ PhysicalPath \in Ways
           /\ PhysicalPath \notin {Tunnel, Null}
<1>. DEFINE usable == {i \in DOMAIN network : os = "darwin" \/ ~network[i].tunnel}
            best == CHOOSE i \in usable : \A j \in usable \ {i} :
                        \/ network[i].metric < network[j].metric
                        \/ network[i].metric = network[j].metric /\ i < j
<1>1. usable # {}
  BY DEF PhysicalPath
<1>2. PhysicalPath = network[best].via
  BY <1>1 DEF PhysicalPath
<1>3. best \in usable
  BY <1>1, PathExists
<1>4. PhysicalPath \in Gateways(network)
  BY <1>2, <1>3 DEF Gateways
<1>5. PhysicalPath \notin {Tunnel, Null}
  BY <1>2, <1>3, RoutesAssumption DEF Tunnel, Null
<1>. QED
  BY <1>4, <1>5 DEF Ways

Asked == Configs \cup {Empty}

\* What the assumptions give of a configuration the engine may be asked for.
LEMMA Settings ==
    ASSUME NEW c \in Asked
    PROVE  /\ c.default \in BOOLEAN /\ c.v6 \in BOOLEAN /\ c.kill \in BOOLEAN
           /\ DesiredPins(c) \subseteq Endpoints
<1>1. CASE c = Empty
  BY <1>1 DEF Empty, DesiredPins
<1>2. CASE c \in Configs
  BY <1>2, RoutesAssumption DEF DesiredPins
<1>. QED
  BY <1>1, <1>2 DEF Asked

\* What a plan is made of.
LEMMA PlanFacts ==
    ASSUME network \in Networks, NoOverlap, NEW c \in Asked, NEW i \in Plan(c)
    PROVE  /\ i = Item(i.rank, i.to, i.via) /\ i.rank \in 1 .. 6
           /\ i.to \in Destinations \ Endpoints /\ i.via \in Ways
           /\ i.rank = 4 => c.kill /\ c.v6 /\ c.default
           /\ c.kill /\ c.v6 /\ c.default /\ i.to \in V6 => i.rank = 4
<1>1. CASE c = Empty
  BY <1>1 DEF Plan, Empty
<1>2. CASE c \in Configs
  <2>. DEFINE halves6 == IF c.v6 THEN V6 ELSE {}
              straight == IF PhysicalPath = Nil THEN {} ELSE c.direct
  <2>1. \/ \E p \in c.net : i = Item(1, p, Tunnel)
        \/ c.default /\ \E p \in V4 : i = Item(3, p, Tunnel)
        \/ c.default /\ \E p \in halves6 : i = Item(IF c.kill THEN 4 ELSE 2, p, Tunnel)
        \/ c.default /\ PhysicalPath # Nil /\ \E p \in c.direct : i = Item(5, p, PhysicalPath)
        \/ c.default /\ \E p \in c.block : i = Item(6, p, Null)
    BY Zenon DEF Plan
  <2>2. Tunnel \in Ways /\ Null \in Ways /\ (PhysicalPath # Nil => PhysicalPath \in Ways)
    BY PathIsGateway DEF Ways
  <2>3. c.net \cup c.direct \cup c.block \cup V4 \cup V6 \subseteq Destinations
    BY <1>2 DEF Destinations
  <2>. QED
    BY <1>2, <2>1, <2>2, <2>3, RoutesAssumption DEF Item, NoOverlap
<1>. QED
  BY <1>1, <1>2 DEF Asked

\* Where the routes of a configuration do not overlap, a plan has one route to a destination.
LEMMA PlanUnique ==
    ASSUME network \in Networks, NoOverlap, NEW c \in Asked, NEW i \in Plan(c), NEW j \in Plan(c),
            i.to = j.to
    PROVE  i = j
<1>1. CASE c = Empty
  BY <1>1 DEF Plan, Empty
<1>2. CASE c \in Configs
  <2>. DEFINE halves6 == IF c.v6 THEN V6 ELSE {}
              Of(k) == \/ \E p \in c.net : k = Item(1, p, Tunnel)
                       \/ c.default /\ \E p \in V4 : k = Item(3, p, Tunnel)
                       \/ c.default /\ \E p \in halves6 : k = Item(IF c.kill THEN 4 ELSE 2, p,
                               Tunnel)
                       \/ c.default /\ PhysicalPath # Nil
                               /\ \E p \in c.direct : k = Item(5, p, PhysicalPath)
                       \/ c.default /\ \E p \in c.block : k = Item(6, p, Null)
  <2>1. Of(i) /\ Of(j)
    BY Zenon DEF Plan
  <2>2. c.kill \in BOOLEAN
    BY Settings DEF Asked
  <2>. QED
    BY <1>2, <2>1, <2>2, RoutesAssumption DEF Item, NoOverlap
<1>. QED
  BY <1>1, <1>2 DEF Asked

\* Something comes first in what is left of a plan.
LEMMA SomeFirst ==
    ASSUME NEW S, S # {}, \A i \in S : i.rank \in 1 .. 6
    PROVE  \E i \in S : i \in Next1(S)
<1>. DEFINE None(n) == \A i \in S : i.rank # n
<1>1. ~(None(1) /\ None(2) /\ None(3) /\ None(4) /\ None(5) /\ None(6))
  OBVIOUS
<1>. SUFFICES ASSUME \A i \in S : \E j \in S : ~(i.rank <= j.rank) PROVE FALSE
  BY DEF Next1
<1>2. None(1)
  OBVIOUS
<1>3. None(2)
  BY <1>2
<1>4. None(3)
  BY <1>2, <1>3
<1>5. None(4)
  BY <1>2, <1>3, <1>4
<1>6. None(5)
  BY <1>2, <1>3, <1>4, <1>5
<1>7. None(6)
  BY <1>2, <1>3, <1>4, <1>5, <1>6
<1>. QED
  BY <1>1, <1>2, <1>3, <1>4, <1>5, <1>6, <1>7

\* A route is its destination and its way.
LEMMA RouteEq ==
    ASSUME NEW o \in Routes
    PROVE  o = Route(o.to, o.via) /\ o.to \in Destinations /\ o.via \in Ways
BY DEF Routes, Route

-----------------------------------------------------------------------------
\* What the steps do to the table and the books, whether or not their commands succeed.

\* What deleting a route does on Unix, whether or not it succeeds.
Deletes(to, ok) ==
    /\ owners' \subseteq owners /\ disk' \subseteq disk /\ owners' \subseteq disk'
    /\ kernel' \subseteq kernel
    /\ \A k \in kernel : ~k.own => k \in kernel'
    /\ \A k \in kernel : k.to # to => k \in kernel'
    /\ \A o \in owners : o.to # to => o \in owners'
    /\ ok => \A o \in owners' : o.to # to
    /\ \A k \in kernel' : k.own => Route(k.to, k.via) \in owners'
    /\ kernel' # kernel => \A o \in owners' : o.to # to
    /\ UNCHANGED <<os, network, link, dev>>

\* delRoute, seen from the books.
LEMMA Dropped ==
    ASSUME RoutesTyped, Owned, os # "windows", at \notin {"down", "clean"}, ForeignApart,
            at # "add",
           NEW to, NEW ok \in BOOLEAN, Drop(to, ok)
    PROVE  Deletes(to, ok)
<1>. USE DEF Drop, OwnerOf, Disowned, Matches, Persist, NoFault, Fault
<1>1. owners' \subseteq owners /\ disk' \subseteq disk /\ owners' \subseteq disk'
        /\ kernel' \subseteq kernel
  BY DEF Owned
<1>2. \A k \in kernel : ~k.own => k \in kernel'
  BY DEF ForeignApart
<1>3. \A k \in kernel : k.to # to => k \in kernel'
  OBVIOUS
<1>4. \A o \in owners : o.to # to => o \in owners'
  OBVIOUS
<1>5. ok => \A o \in owners' : o.to # to
  OBVIOUS
<1>6. kernel' # kernel => \A o \in owners' : o.to # to
  OBVIOUS
<1>7. ASSUME NEW k \in kernel', k.own PROVE Route(k.to, k.via) \in owners'
  <2>1. Route(k.to, k.via) \in owners
    BY <1>1, <1>7 DEF Owned, Own
  <2>. QED
    BY <2>1, <1>7 DEF Route
<1>. QED
  BY <1>1, <1>2, <1>3, <1>4, <1>5, <1>6, <1>7 DEF Deletes

\* The intent to add a route whose destination has none is one owner more.
Records(r, back) ==
    /\ at' = "add" /\ cur' = r /\ ret' = back
    /\ owners' = owners \cup {r} /\ disk' = owners'

\* On Unix a destination that is in no list has no owner.
LEMMA Unowned ==
    ASSUME Listed, os # "windows", at # "add", NEW to, to \notin Lists
    PROVE  OwnerOf(to) = {} /\ Disowned(to) = owners
<1>1. OwnerOf(to) = {}
  BY DEF Listed, OwnerOf
<1>. QED
  BY <1>1 DEF Disowned

\* One step of the loop that stages pins (stageEndpoints).
LEMMA StageEffect ==
    ASSUME NoOverlap, LedgerInv, Stage
    PROVE  /\ os # "windows" /\ at = "stage"
           /\ UNCHANGED <<os, network, kernel, link, dev, routed, residual, pinned, engine, mode,
                   call, todo, added, after, err, tries, outcome, budget, calls, crashes, roams,
                           moved>>
           /\ \/ /\ at' \in {"device", "unstage"} /\ UNCHANGED <<disk, owners, cur, ret>>
                 /\ at' = "device" => DesiredPins(call) \subseteq pinned
              \/ \E r \in Routes :
                    /\ Records(r, "stage") /\ r.to \notin Lists /\ r.to \in DesiredPins(call)
                    /\ r.via = PhysicalPath /\ r.via \notin {Tunnel, Null}
<1>1. os # "windows" /\ at = "stage"
  BY DEF Stage, LedgerInv, Places, CommonPlaces, WindowsPlaces
<1>2. ASSUME NEW to \in DesiredPins(call) \ pinned, PhysicalPath # Nil
      PROVE  /\ to \notin Lists /\ Route(to, PhysicalPath) \in Routes
             /\ PhysicalPath \notin {Tunnel, Null}
             /\ Disowned(to) = owners
  <2>1. to \in Endpoints /\ to \notin Lists
    BY <1>2, Settings DEF LedgerInv, RoutesTyped, Asked, Lists
  <2>2. PhysicalPath \in Ways /\ PhysicalPath \notin {Tunnel, Null}
    BY <1>2, PathIsGateway DEF LedgerInv, RoutesTyped
  <2>3. Endpoints \subseteq Destinations
    BY DEF Destinations
  <2>. QED
    BY <1>1, <2>1, <2>2, <2>3, Unowned DEF LedgerInv, Routes, Route
<1>3. CASE at' \in {"device", "unstage"} /\ UNCHANGED <<disk, owners, cur, ret>>
        /\ (at' = "device" => DesiredPins(call) \subseteq pinned)
  BY <1>1, <1>3 DEF Stage
<1>4. CASE ~(at' \in {"device", "unstage"} /\ UNCHANGED <<disk, owners, cur, ret>>
        /\ (at' = "device" => DesiredPins(call) \subseteq pinned))
  <2>1. PICK to \in DesiredPins(call) \ pinned, ok \in BOOLEAN :
            /\ PhysicalPath # Nil
            /\ Intent(Route(to, PhysicalPath), "stage", ok)
            /\ ~ok => at' = "unstage" /\ UNCHANGED <<cur, ret>>
    BY <1>4 DEF Stage
  <2>2. Route(to, PhysicalPath).to = to /\ Route(to, PhysicalPath).via = PhysicalPath
    BY DEF Route
  <2>3. ok
    BY <1>2, <1>4, <2>1, <2>2 DEF Intent
  <2>4. Records(Route(to, PhysicalPath), "stage")
    BY <1>2, <2>1, <2>2, <2>3 DEF Intent, Records, Persist
  <2>. QED
    BY <1>1, <1>2, <2>1, <2>2, <2>4 DEF Stage
<1>. QED
  BY <1>3, <1>4

\* One step of the loop that installs a plan (reconfigureTunnelRoutesLocked).
LEMMA InstallEffect ==
    ASSUME NoOverlap, LedgerInv, Install
    PROVE  /\ os # "windows" /\ at = "install" /\ todo # {}
           /\ UNCHANGED <<os, network, kernel, link, dev, routed, residual, pinned, scrubbed, cfg,
                   mode, call, added, outcome, budget, calls, crashes, roams, moved>>
           /\ \/ \E r \in Routes, i \in todo :
                    /\ Records(r, "install") /\ r.to \notin Lists /\ r.to \notin Endpoints
                    /\ Matches(i, r) /\ i \in Next1(todo)
                    /\ UNCHANGED <<todo, after, err, tries, applied>>
              \/ Recovers("install") /\ UNCHANGED <<cur, ret, owners, disk>>
<1>1. os # "windows" /\ at = "install" /\ todo # {}
  BY DEF Install, LedgerInv, Places, CommonPlaces, WindowsPlaces
<1>2. ASSUME NEW i \in todo
      PROVE  /\ i.to \notin Lists /\ Route(i.to, i.via) \in Routes /\ i.to \notin Endpoints
             /\ Disowned(i.to) = owners
  <2>1. i \in Plan(call) /\ i.to \notin routed \cup residual
    BY <1>1 DEF LedgerInv, Fresh, Installing
  <2>2. i.to \in Destinations \ Endpoints /\ i.via \in Ways
    BY <2>1, PlanFacts DEF LedgerInv, RoutesTyped, Asked
  <2>3. i.to \notin Lists
    BY <2>1, <2>2 DEF LedgerInv, RoutesTyped, Lists
  <2>. QED
    BY <1>1, <2>2, <2>3, Unowned DEF LedgerInv, Routes, Route
<1>3. PICK i \in Next1(todo), ok \in BOOLEAN :
        /\ Intent(Route(i.to, i.via), "install", ok)
        /\ IF ok THEN UNCHANGED <<todo, after, err, tries, applied>>
                 ELSE Recovers("install") /\ UNCHANGED <<cur, ret>>
  BY DEF Install
<1>4. i \in todo
  BY DEF Next1
<1>5. Route(i.to, i.via).to = i.to /\ Route(i.to, i.via).via = i.via
  BY DEF Route
<1>6. CASE ok
  <2>1. Records(Route(i.to, i.via), "install")
    BY <1>2, <1>3, <1>4, <1>5, <1>6 DEF Intent, Records, Persist
  <2>2. Matches(i, Route(i.to, i.via))
    BY <1>5 DEF Matches
  <2>. QED
    BY <1>1, <1>2, <1>3, <1>4, <1>5, <1>6, <2>1, <2>2 DEF Install
<1>7. CASE ~ok
  <2>1. owners' = owners /\ disk' = disk
    BY <1>2, <1>3, <1>4, <1>5, <1>7 DEF Intent
  <2>. QED
    BY <1>1, <1>3, <1>7, <2>1 DEF Install
<1>. QED
  BY <1>6, <1>7

\* A route that the kernel refuses is taken back, and nothing else.
LEMMA Withdrawn ==
    ASSUME RoutesTyped, Owned, Intended, os # "windows", at = "add"
    PROVE  /\ Disowned(cur.to) = owners \ {cur}
           /\ \A k \in Own : Route(k.to, k.via) # cur
           /\ \A k \in Own : k.to # cur.to
<1>1. Disowned(cur.to) = owners \ {cur}
  BY DEF Disowned, OwnerOf, Owned, Intended
<1>2. ASSUME NEW k \in Own PROVE k.to # cur.to
  <2>1. Route(k.to, k.via) \in owners
    BY DEF Owned
  <2>2. Route(k.to, k.via) # cur
    BY DEF Intended, Matches, Route
  <2>. QED
    BY <2>1, <2>2 DEF Owned, Intended, Route
<1>. QED
  BY <1>1, <1>2 DEF Route

\* The kernel's table with the route that is being added.
LEMMA Extended ==
    ASSUME RoutesTyped, Intended, at = "add", NEW k,
           k = [to |-> cur.to, via |-> cur.via, own |-> TRUE]
    PROVE  /\ k \in Entries /\ k.own /\ k.to = cur.to /\ k.via = cur.via
           /\ Route(k.to, k.via) = cur /\ cur \in owners
BY RouteEq DEF Intended, Entries

\* What the command for a route does when it succeeds.
LEMMA AddEffect ==
    ASSUME LedgerInv, Add
    PROVE  /\ os # "windows" /\ at = "add" /\ ~Taken(cur.to)
           /\ \E k \in Entries :
                /\ kernel' = kernel \cup {k} /\ k.own /\ k.to = cur.to /\ k.via = cur.via
                /\ Route(k.to, k.via) = cur
           /\ cur \in owners /\ cur \in Routes /\ cur.to \notin Lists
           /\ at' = ret /\ cur' = Nil /\ ret' = "none"
           /\ IF ret = "stage"
              THEN pinned' = pinned \cup {cur.to} /\ UNCHANGED <<routed, todo>>
              ELSE /\ routed' = routed \cup {cur.to} /\ UNCHANGED pinned
                   /\ todo' = {i \in todo : ~Matches(i, cur)}
           /\ added' = added \cup IF ret = "stage" \/ cur.to \in V6 THEN {cur.to} ELSE {}
           /\ UNCHANGED <<os, network, link, dev, disk, owners, residual, engine, mode, call,
                   after, err, tries, outcome, budget, calls, faults, crashes, roams, moved>>
<1>1. os # "windows" /\ at = "add" /\ ~Taken(cur.to)
  BY DEF Add
<1>. DEFINE k == [to |-> cur.to, via |-> cur.via, own |-> TRUE]
<1>2. k \in Entries /\ k.own /\ k.to = cur.to /\ k.via = cur.via /\ Route(k.to, k.via) = cur
        /\ cur \in owners
  BY <1>1, Extended DEF LedgerInv
<1>3. kernel' = kernel \cup {k}
  BY DEF Add, Programs
<1>4. cur.to \notin Lists /\ cur \in Routes
  BY <1>1 DEF LedgerInv, Listed, Intended
<1>. HIDE DEF k
<1>. QED
  BY <1>1, <1>2, <1>3, <1>4 DEF Add, Programs

\* What is left when the command for a route fails.
LEMMA AddFailsEffect ==
    ASSUME LedgerInv, AddFails
    PROVE  /\ os # "windows" /\ at = "add"
           /\ owners' = owners \ {cur} /\ owners' \subseteq disk' /\ disk' \subseteq disk
           /\ \A k \in Own : Route(k.to, k.via) \in owners'
           /\ \A k \in Own : k.to # cur.to
           /\ cur \in owners
           /\ Recovers(ret) /\ cur' = Nil /\ ret' = "none"
           /\ UNCHANGED <<os, network, kernel, link, dev, routed, residual, pinned, scrubbed, cfg,
                   mode, call, added, outcome, budget, calls, crashes, roams, moved>>
<1>1. os # "windows" /\ at = "add"
  BY DEF AddFails
<1>2. owners' = owners \ {cur}
  BY <1>1, Withdrawn DEF AddFails, LedgerInv
<1>3. disk' = owners' \/ disk' = disk
  BY DEF AddFails, Persist
<1>4. \A k \in Own : Route(k.to, k.via) \in owners'
  BY <1>1, <1>2, Withdrawn DEF LedgerInv, Owned
<1>5. \A k \in Own : k.to # cur.to
  BY <1>1, Withdrawn DEF LedgerInv
<1>. QED
  BY <1>1, <1>2, <1>3, <1>4, <1>5 DEF AddFails, LedgerInv, Owned, Intended

\* The routes a loop may install on Windows are valid and not yet owned.
Offers(routes) ==
    \A r \in routes : r.via # Nil => Route(r.to, r.via) \in Routes \ owners

\* One step of a loop that adds routes on Windows.
LEMMA WEachEffect ==
    ASSUME NEW loop, NEW routes, NEW then, WEach(loop, routes, then), Offers(routes)
    PROVE  /\ at = loop
           /\ UNCHANGED <<os, network, kernel, link, dev, routed, residual, pinned, engine, mode,
                   call, added, outcome, budget, calls, crashes, roams, moved>>
           /\ \/ routes = {} /\ at' = then /\ UNCHANGED <<disk, owners, cur, ret, Loop>>
              \/ \E q \in Routes \ owners, r \in routes :
                    /\ q = Route(r.to, r.via)
                    /\ Records(q, loop) /\ UNCHANGED Loop
              \/ UNCHANGED <<disk, owners, cur, ret>> /\ Abandon(loop)
<1>1. at = loop
  BY DEF WEach
<1>2. CASE routes = {} /\ at' = then /\ UNCHANGED <<disk, owners, cur, ret, Loop>>
  BY <1>1, <1>2 DEF WEach
<1>3. CASE \E r \in routes :
            IF r.via = Nil
            THEN NoFault /\ UNCHANGED <<disk, owners, cur, ret>> /\ Abandon(loop)
            ELSE WIntent(Route(r.to, r.via), loop)
  <2>1. PICK r \in routes :
            IF r.via = Nil
            THEN NoFault /\ UNCHANGED <<disk, owners, cur, ret>> /\ Abandon(loop)
            ELSE WIntent(Route(r.to, r.via), loop)
    BY <1>3
  <2>2. CASE UNCHANGED <<disk, owners, cur, ret>> /\ Abandon(loop)
    BY <1>1, <2>2 DEF WEach
  <2>3. CASE ~(UNCHANGED <<disk, owners, cur, ret>> /\ Abandon(loop))
    <3>1. WIntent(Route(r.to, r.via), loop) /\ Route(r.to, r.via) \in Routes \ owners
      BY <2>1, <2>3 DEF Offers
    <3>2. Records(Route(r.to, r.via), loop) /\ UNCHANGED Loop
      BY <2>3, <3>1 DEF WIntent, Records, Persist
    <3>. QED
      BY <1>1, <3>1, <3>2 DEF WEach
  <2>. QED
    BY <2>2, <2>3
<1>. QED
  BY <1>2, <1>3 DEF WEach

\* One step of the loop that stages the pins of a live adapter.
LEMMA WStageEffect ==
    ASSUME LedgerInv, WStage
    PROVE  Offers(PinRoutes(call) \ owners) /\ os = "windows"
<1>1. os = "windows"
  BY DEF WStage, WEach, LedgerInv, Places, CommonPlaces, UnixPlaces
<1>2. ASSUME NEW r \in PinRoutes(call) \ owners, r.via # Nil
      PROVE  Route(r.to, r.via) \in Routes \ owners
  <2>1. PICK to \in DesiredPins(call) : r = Route(to, PhysicalPath)
    BY DEF PinRoutes
  <2>2. to \in Destinations /\ r.to = to /\ r.via = PhysicalPath
    BY <2>1, Settings DEF LedgerInv, RoutesTyped, Asked, Destinations, Route
  <2>3. PhysicalPath \in Ways
    BY <1>2, <2>2, PathIsGateway DEF LedgerInv, RoutesTyped
  <2>. QED
    BY <2>1, <2>2, <2>3 DEF Routes, Route
<1>. QED
  BY <1>1, <1>2 DEF Offers

ExtraFacts(c) == \A i \in Extra(c) : /\ i.to \in Destinations \ Endpoints
                                     /\ i.via # Nil => i.via \in Ways \ {Tunnel}

\* What the adapter carries besides its pins is apart from the endpoints.
LEMMA ExtraTyped ==
    ASSUME NoOverlap, network \in Networks, NEW c \in Asked
    PROVE  ExtraFacts(c)
<1>1. CASE c = Empty
  BY <1>1 DEF Extra, Empty, ExtraFacts
<1>2. CASE c \in Configs
  <2>1. PhysicalPath = Nil \/ PhysicalPath \in Ways \ {Tunnel}
    BY PathIsGateway
  <2>2. Null \in Ways \ {Tunnel}
    BY DEF Ways, Null, Tunnel
  <2>3. c.direct \cup c.block \subseteq Destinations \ Endpoints
    BY <1>2 DEF Destinations, NoOverlap
  <2>. QED
    BY <2>1, <2>2, <2>3 DEF Extra, Item, ExtraFacts
<1>. QED
  BY <1>1, <1>2 DEF Asked

\* A plan is made of the configuration, the system and the network.
LEMMA SamePlan ==
    ASSUME UNCHANGED <<os, network, call>>
    PROVE  Plan(call)' = Plan(call) /\ PinRoutes(call)' = PinRoutes(call)
            /\ Extra(call)' = Extra(call)
BY DEF Plan, PinRoutes, Extra, PhysicalPath

\* A pin leads to an endpoint by a gateway.
LEMMA PinFacts ==
    ASSUME network \in Networks, NEW c \in Asked, NEW r \in PinRoutes(c)
    PROVE  /\ r.to \in Endpoints /\ r = Route(r.to, r.via) /\ r.via = PhysicalPath
           /\ r.via # Nil => r \in Routes /\ r.via \in Gateways(network)
                   /\ r.via \notin {Tunnel, Null}
<1>1. PICK to \in DesiredPins(c) : r = Route(to, PhysicalPath)
  BY DEF PinRoutes
<1>2. to \in Endpoints /\ to \in Destinations /\ r.to = to /\ r.via = PhysicalPath
        /\ r = Route(r.to, r.via)
  BY <1>1, Settings DEF Destinations, Route
<1>3. r.via # Nil => r.via \in Ways /\ r.via \in Gateways(network) /\ r.via \notin {Tunnel, Null}
  BY <1>2, PathIsGateway
<1>. QED
  BY <1>2, <1>3 DEF Routes, Route

\* What may be said of the routes a Windows loop is given: its pins,
LEMMA PinsOffered ==
    ASSUME LedgerInv, at = "wpins"
    PROVE  Offers(todo) /\ \A r \in todo : r.to \in Endpoints
<1>1. todo \subseteq PinRoutes(call) /\ \A r \in todo : r \notin owners
  BY DEF LedgerInv, Adapter
<1>2. network \in Networks /\ call \in Asked
  BY DEF LedgerInv, RoutesTyped, Asked
<1>3. \A r \in todo : r.to \in Endpoints /\ r = Route(r.to, r.via) /\ (r.via # Nil => r \in Routes)
  BY <1>1, <1>2, PinFacts
<1>. QED
  BY <1>1, <1>3 DEF Offers

\* and what the adapter carries besides them.
LEMMA ExtraOffered ==
    ASSUME NoOverlap, LedgerInv, at = "wroutes"
    PROVE  Offers(Next1(todo))
<1>1. todo \subseteq Extra(call) /\ \A i \in todo : Route(i.to, i.via) \notin owners
  BY DEF LedgerInv, Adapter
<1>2. network \in Networks /\ call \in Asked
  BY DEF LedgerInv, RoutesTyped, Asked
<1>3. \A i \in todo : i.via # Nil => Route(i.to, i.via) \in Routes
  BY <1>1, <1>2, ExtraTyped DEF ExtraFacts, Routes, Route
<1>. QED
  BY <1>1, <1>3 DEF Offers, Next1

\* A new adapter whose pins are installed owns none of the routes that follow.
LEMMA ExtraApart ==
    ASSUME NoOverlap, LedgerInv, at = "wservice"
    PROVE  \A i \in Extra(call) : Route(i.to, i.via) \notin owners
<1>1. \A o \in owners : o.to \in Endpoints
  BY DEF LedgerInv, Adapter
<1>2. network \in Networks /\ call \in Asked
  BY DEF LedgerInv, RoutesTyped, Asked
<1>. QED
  BY <1>1, <1>2, ExtraTyped DEF ExtraFacts, Route

-----------------------------------------------------------------------------
\* The books agree after each step: first on Unix, with what several steps share,

Working == at \notin {"down", "clean", "bringUp"}

\* One route more in the books.
LEMMA Recorded ==
    ASSUME LedgerInv, Working, at # "add", NEW r \in Routes \ owners, NEW back, Records(r, back),
           UNCHANGED <<os, kernel, outcome>>, os # "windows" => \A o \in owners : o.to # r.to
    PROVE  /\ owners' \subseteq Routes /\ disk' \subseteq Routes
           /\ Gone' /\ Owned' /\ Intended' /\ ForeignApart' /\ Working'
<1>. USE DEF Records, LedgerInv, Working
<1>1. owners' \subseteq Routes /\ disk' \subseteq Routes
  BY DEF RoutesTyped
<1>2. Gone' /\ Working'
  BY DEF Gone
<1>3. Own' = Own
  BY DEF Own
<1>4. \A k \in Own : Route(k.to, k.via) \in owners /\ Route(k.to, k.via) # r
  BY DEF Owned
<1>5. Owned'
  BY <1>3, <1>4 DEF Owned, LedgerCovers
<1>6. Intended'
  BY <1>3, <1>4, RouteEq DEF Intended, Matches
<1>7. ForeignApart'
  BY DEF ForeignApart
<1>. QED
  BY <1>1, <1>2, <1>5, <1>6, <1>7

\* The types after a step that adds nothing to the table or the books.
LEMMA TypesKept ==
    ASSUME RoutesTyped, UNCHANGED <<os, network>>,
           kernel' \subseteq kernel, disk' \subseteq disk, owners' \subseteq owners,
           routed' \subseteq routed, residual' \subseteq residual, pinned' \subseteq pinned,
           link' \in BOOLEAN, applied' \in BOOLEAN, scrubbed' \in BOOLEAN,
           err' \in BOOLEAN, moved' \in BOOLEAN,
           dev' \in {dev, call, Nil}, cfg' \in {cfg, Empty}, call' \in Configs \cup {Empty},
           outcome' \in {outcome, "ok", "error", "noStart"}
    PROVE  RoutesTyped'
BY DEF RoutesTyped

\* A step that does nothing to the table and its books.
LEMMA Unrecorded ==
    ASSUME LedgerInv, Working, at # "add", at' \notin {"down", "clean", "bringUp", "add"},
           UNCHANGED <<os, kernel, owners, disk>>
    PROVE  Gone' /\ Owned' /\ Intended' /\ ForeignApart'
BY DEF LedgerInv, Working, Gone, Owned, Own, LedgerCovers, Intended, ForeignApart

\* A route more in the table.
LEMMA Extends1 ==
    ASSUME LedgerInv, at = "add", NEW k \in Entries, k.own, Route(k.to, k.via) = cur,
            ~Taken(cur.to),
           k.to = cur.to,
           kernel' = kernel \cup {k}, UNCHANGED <<os, owners, disk>>, at' \notin {"down", "clean",
                   "bringUp", "add"}
    PROVE  /\ kernel' \subseteq Entries
           /\ Gone' /\ Owned' /\ Intended' /\ ForeignApart'
<1>. USE DEF LedgerInv
<1>1. kernel' \subseteq Entries
  BY DEF RoutesTyped
<1>2. Own' \subseteq Own \cup {k}
  BY DEF Own
<1>3. cur \in owners
  BY DEF Intended
<1>4. Owned'
  BY <1>2, <1>3 DEF Owned, LedgerCovers
<1>5. Gone' /\ Intended'
  BY DEF Gone, Intended
<1>6. ForeignApart'
  BY DEF ForeignApart, Taken
<1>. QED
  BY <1>1, <1>4, <1>5, <1>6

\* The intent taken back.
LEMMA Retracts ==
    ASSUME LedgerInv, at = "add", owners' = owners \ {cur}, owners' \subseteq disk',
            disk' \subseteq disk,
           UNCHANGED <<os, kernel>>, at' \notin {"down", "clean", "bringUp", "add"}
    PROVE  /\ owners' \subseteq Routes /\ disk' \subseteq Routes
           /\ Gone' /\ Owned' /\ Intended' /\ ForeignApart'
<1>. USE DEF LedgerInv
<1>1. owners' \subseteq Routes /\ disk' \subseteq Routes
  BY DEF RoutesTyped
<1>2. Own' = Own
  BY DEF Own
<1>3. ASSUME NEW k \in Own PROVE Route(k.to, k.via) \in owners /\ Route(k.to, k.via) # cur
  <2>1. Route(k.to, k.via).to = k.to /\ Route(k.to, k.via).via = k.via
    BY DEF Route
  <2>. QED
    BY <2>1 DEF Owned, Intended, Matches
<1>4. Owned'
  BY <1>2, <1>3 DEF Owned, LedgerCovers
<1>5. Gone' /\ Intended'
  BY DEF Gone, Intended
<1>6. ForeignApart'
  BY DEF ForeignApart
<1>. QED
  BY <1>1, <1>4, <1>5, <1>6

\* A route deleted, or not.
LEMMA Deleted ==
    ASSUME LedgerInv, Working, at # "add", at' \notin {"down", "clean", "bringUp", "add"},
           NEW to, NEW ok \in BOOLEAN, Deletes(to, ok)
    PROVE  /\ kernel' \subseteq Entries /\ owners' \subseteq Routes /\ disk' \subseteq Routes
           /\ Gone' /\ Owned' /\ Intended' /\ ForeignApart'
<1>. USE DEF LedgerInv, Working, Deletes
<1>1. kernel' \subseteq Entries /\ owners' \subseteq Routes /\ disk' \subseteq Routes
  BY DEF RoutesTyped
<1>2. Owned'
  BY DEF Owned, LedgerCovers, Own
<1>3. Gone' /\ Intended'
  BY DEF Gone, Intended
<1>4. ForeignApart'
  BY DEF ForeignApart
<1>. QED
  BY <1>1, <1>2, <1>3, <1>4
-----------------------------------------------------------------------------
LEMMA StageKeeps ==
    ASSUME NoOverlap, LedgerInv, Stage
    PROVE  LedgerInv'
<1>. USE StageEffect DEF LedgerInv, engine
<1>1. Working
  BY DEF Working
<1>2. CASE UNCHANGED <<disk, owners, cur, ret>> /\ at' \in {"device", "unstage"}
  <2>1. Gone' /\ Owned' /\ Intended' /\ ForeignApart'
    BY <1>1, <1>2, Unrecorded
  <2>2. RoutesTyped' /\ Places' /\ Listed'
    BY <1>2 DEF RoutesTyped, Places, CommonPlaces, UnixPlaces, Listed, Lists
  <2>3. Fresh' /\ Cleared' /\ Adapter'
    BY <1>2 DEF Fresh, Installing, Cleared, Adapter
  <2>. QED
    BY <2>1, <2>2, <2>3
<1>3. CASE ~(UNCHANGED <<disk, owners, cur, ret>> /\ at' \in {"device", "unstage"})
  <2>1. PICK r \in Routes : Records(r, "stage") /\ r.to \notin Lists /\ r.to \in DesiredPins(call)
    BY <1>3
  <2>2. \A o \in owners : o.to # r.to
    BY <2>1 DEF Listed
  <2>3. /\ owners' \subseteq Routes /\ disk' \subseteq Routes
        /\ Gone' /\ Owned' /\ Intended' /\ ForeignApart'
    BY <1>1, <2>1, <2>2, Recorded
  <2>4. RoutesTyped' /\ Places'
    BY <2>1, <2>3 DEF Records, RoutesTyped, Places, CommonPlaces, UnixPlaces
  <2>5. Listed'
    BY <2>1 DEF Records, Listed, Lists
  <2>6. DesiredPins(call) \subseteq Endpoints
    BY Settings DEF RoutesTyped, Asked
  <2>7. Fresh' /\ Cleared' /\ Adapter'
    BY <2>1, <2>6 DEF Records, Fresh, Installing, Cleared, Adapter
  <2>. QED
    BY <2>3, <2>4, <2>5, <2>7
<1>. QED
  BY <1>2, <1>3

\* What a loop does about a route it could not install leaves the books alone.
LEMMA RecoversKeeps ==
    ASSUME NoOverlap, LedgerInv, Working, os # "windows", NEW back \in {"stage", "install"},
           Recovers(back),
           at = (IF at = "add" THEN "add" ELSE back), at = "add" => ret = back,
           back = "install" => todo # {},
           ret' = "none",
           UNCHANGED <<os, network, link, dev, kernel, routed, residual, pinned, scrubbed, cfg,
                   mode, call, added,
                       outcome, moved>>,
           owners' \subseteq Routes, disk' \subseteq Routes, owners' \subseteq owners,
           \A o \in owners' : o.to \in Lists
    PROVE  /\ at' \in {"unstage", "undo6", "sweep"}
           /\ RoutesTyped' /\ Places' /\ Listed' /\ Fresh' /\ Cleared' /\ Adapter'
<1>. USE DEF LedgerInv
<1>1. CASE back = "stage"
  <2>1. at' = "unstage" /\ UNCHANGED <<todo, after, err, tries, applied>>
    BY <1>1 DEF Recovers
  <2>2. RoutesTyped' /\ Places' /\ Listed'
    BY <2>1 DEF RoutesTyped, Places, CommonPlaces, UnixPlaces, Listed, Lists
  <2>3. Fresh' /\ Cleared' /\ Adapter'
    BY <2>1 DEF Fresh, Installing, Cleared, Adapter
  <2>. QED
    BY <2>1, <2>2, <2>3
<1>2. CASE back = "install" /\ (\A i \in Next1(todo) : i.rank = 4)
  <2>1. /\ at' = "undo6" /\ todo' = {i \in todo : i.rank > 4}
        /\ UNCHANGED <<after, err, tries, applied>>
    BY <1>2 DEF Recovers
  <2>2. RoutesTyped' /\ Places' /\ Listed'
    BY <2>1 DEF RoutesTyped, Places, CommonPlaces, UnixPlaces, Listed, Lists
  <2>3. Installing /\ todo \subseteq Plan(call) /\ call \in Asked
    BY <1>2 DEF Installing, Fresh, RoutesTyped, Asked
  <2>4. \A i \in todo : i.rank \in 1 .. 6
    BY <2>3, PlanFacts DEF RoutesTyped
  <2>5. PICK i \in todo : i.rank = 4
    BY <1>2, <2>4, SomeFirst
  <2>6. call.kill /\ call.v6 /\ call.default
    BY <2>3, <2>5, PlanFacts DEF RoutesTyped
  <2>7. \A j \in todo' : j.to \notin V6
    <3>1. \A j \in todo : j.to \in V6 => j.rank = 4
      BY <2>3, <2>6, PlanFacts DEF RoutesTyped
    <3>. QED
      BY <2>1, <3>1, <2>4
  <2>8. Fresh'
    BY <2>1, <2>3, <2>7, SamePlan DEF Fresh, Installing
  <2>9. Cleared' /\ Adapter'
    BY <2>1 DEF Cleared, Adapter
  <2>. QED
    BY <2>1, <2>2, <2>8, <2>9
<1>3. CASE back = "install" /\ ~(\A i \in Next1(todo) : i.rank = 4)
  <2>1. at' = "sweep" /\ after' = "failed" /\ tries' = 1 /\ err' = FALSE /\ applied' = FALSE
    BY <1>3 DEF Recovers, Sweep
  <2>2. RoutesTyped'
    BY <2>1, TypesKept DEF RoutesTyped
  <2>3. Places' /\ Listed'
    BY <2>1 DEF Places, CommonPlaces, UnixPlaces, Listed, Lists
  <2>4. Fresh' /\ Cleared' /\ Adapter'
    BY <2>1 DEF Fresh, Installing, Cleared, Adapter
  <2>. QED
    BY <2>1, <2>2, <2>3, <2>4
<1>. QED
  BY <1>1, <1>2, <1>3

LEMMA InstallKeeps ==
    ASSUME NoOverlap, LedgerInv, Install
    PROVE  LedgerInv'
<1>. USE InstallEffect DEF LedgerInv
<1>1. Working
  BY DEF Working
<1>2. CASE Recovers("install") /\ UNCHANGED <<cur, ret, owners, disk>>
  <2>1. ret' = "none" /\ \A o \in owners' : o.to \in Lists
    BY <1>2 DEF Places, Listed
  <2>2. /\ at' \in {"unstage", "undo6", "sweep"}
        /\ RoutesTyped' /\ Places' /\ Listed' /\ Fresh' /\ Cleared' /\ Adapter'
    BY <1>1, <1>2, <2>1, RecoversKeeps DEF RoutesTyped
  <2>3. Gone' /\ Owned' /\ Intended' /\ ForeignApart'
    BY <1>1, <1>2, <2>2, Unrecorded
  <2>. QED
    BY <2>2, <2>3
<1>3. CASE ~(Recovers("install") /\ UNCHANGED <<cur, ret, owners, disk>>)
  <2>1. PICK r \in Routes, i \in todo :
                    /\ Records(r, "install") /\ r.to \notin Lists /\ r.to \notin Endpoints
                    /\ Matches(i, r) /\ i \in Next1(todo)
                    /\ UNCHANGED <<todo, after, err, tries, applied>>
    BY <1>3
  <2>2. \A o \in owners : o.to # r.to
    BY <2>1 DEF Listed
  <2>3. /\ owners' \subseteq Routes /\ disk' \subseteq Routes
        /\ Gone' /\ Owned' /\ Intended' /\ ForeignApart'
    BY <1>1, <2>1, <2>2, Recorded
  <2>4. RoutesTyped' /\ Places'
    BY <2>1, <2>3 DEF Records, RoutesTyped, Places, CommonPlaces, UnixPlaces
  <2>5. Listed'
    BY <2>1 DEF Records, Listed, Lists
  <2>6. todo \subseteq Plan(call) /\ added \subseteq V6
          /\ \A j \in todo : j.to \notin routed \cup residual
    BY DEF Fresh, Installing
  <2>7. Fresh'
    <3>1. Plan(call)' = Plan(call)
      BY <2>1 DEF Plan, PhysicalPath
    <3>2. at' = "add" /\ ret' = "install" /\ cur' = r
            /\ UNCHANGED <<os, todo, added, routed, residual>>
      BY <2>1 DEF Records
    <3>3. \E j \in todo' : Matches(j, cur')
      BY <2>1, <3>2
    <3>. QED
      BY <2>6, <3>1, <3>2, <3>3 DEF Fresh, Installing, Matches
  <2>8. Cleared' /\ Adapter'
    BY <2>1 DEF Records, Cleared, Adapter
  <2>. QED
    BY <2>3, <2>4, <2>5, <2>7, <2>8
<1>. QED
  BY <1>2, <1>3

LEMMA AddKeeps ==
    ASSUME NoOverlap, LedgerInv, Add
    PROVE  LedgerInv'
<1>. USE AddEffect DEF LedgerInv
<1>1. PICK k \in Entries :
                /\ kernel' = kernel \cup {k} /\ k.own /\ k.to = cur.to /\ k.via = cur.via
                /\ Route(k.to, k.via) = cur
  OBVIOUS
<1>2. ret \in {"stage", "install"}
  BY DEF Places
<1>3. /\ kernel' \subseteq Entries
      /\ Gone' /\ Owned' /\ Intended' /\ ForeignApart'
  BY <1>1, <1>2, Extends1
<1>4. CASE ret = "stage"
  <2>1. cur.to \in Endpoints
    BY <1>4 DEF Fresh
  <2>2. RoutesTyped' /\ Places' /\ Listed'
    BY <1>3, <1>4, <2>1 DEF RoutesTyped, Places, CommonPlaces, UnixPlaces, Listed, Lists, engine
  <2>3. Fresh' /\ Cleared' /\ Adapter'
    BY <1>4 DEF Fresh, Installing, Cleared, Adapter
  <2>. QED
    BY <1>3, <2>2, <2>3
<1>5. CASE ret = "install"
  <2>1. todo \subseteq Plan(call) /\ added \subseteq V6
          /\ \A j \in todo : j.to \notin routed \cup residual
    BY <1>5 DEF Fresh, Installing
  <2>2. PICK i \in todo : Matches(i, cur)
    BY <1>5 DEF Fresh
  <2>3. cur.to \in Destinations \ Endpoints
    BY <2>1, <2>2, PlanFacts DEF RoutesTyped, Asked, Matches
  <2>4. \A j \in todo' : j \in todo /\ j.to # cur.to
    BY <1>5, <2>1, <2>2, PlanUnique DEF RoutesTyped, Asked, Matches
  <2>5. RoutesTyped' /\ Places' /\ Listed'
    BY <1>3, <1>5, <2>3 DEF RoutesTyped, Places, CommonPlaces, UnixPlaces, Listed, Lists, engine
  <2>6. added' \subseteq V6 /\ \A j \in todo' : j.to \notin routed' \cup residual'
    BY <1>5, <2>1, <2>4
  <2>7. Fresh'
    <3>1. todo' \subseteq Plan(call)'
      BY <1>5, <2>1, <2>4, SamePlan
    <3>2. at' = "install"
      BY <1>5
    <3>. QED
      BY <2>6, <3>1, <3>2 DEF Fresh, Installing
  <2>8. Cleared' /\ Adapter'
    BY <1>5 DEF Cleared, Adapter
  <2>. QED
    BY <1>3, <2>5, <2>7, <2>8
<1>. QED
  BY <1>2, <1>4, <1>5

LEMMA AddFailsKeeps ==
    ASSUME NoOverlap, LedgerInv, AddFails
    PROVE  LedgerInv'
<1>. USE AddFailsEffect DEF LedgerInv
<1>1. Working /\ ret \in {"stage", "install"} /\ (ret = "install" => todo # {})
  BY DEF Working, Places, Fresh
<1>2. owners' \subseteq Routes /\ disk' \subseteq Routes /\ \A o \in owners' : o.to \in Lists
  BY DEF RoutesTyped, Listed
<1>3. /\ at' \in {"unstage", "undo6", "sweep"}
      /\ RoutesTyped' /\ Places' /\ Listed' /\ Fresh' /\ Cleared' /\ Adapter'
  BY <1>1, <1>2, RecoversKeeps
<1>4. Gone' /\ Owned' /\ Intended' /\ ForeignApart'
  BY <1>3, Retracts
<1>. QED
  BY <1>3, <1>4

LEMMA UnstageKeeps ==
    ASSUME NoOverlap, LedgerInv, Unstage
    PROVE  LedgerInv'
<1>. USE DEF LedgerInv
<1>1. Working /\ at = "unstage" /\ os # "windows"
  BY DEF Unstage, Working, Places, CommonPlaces, WindowsPlaces
<1>2. CASE added = {}
  <2>1. Fails /\ UNCHANGED <<os, network, disk, lists, engine, moved>>
    BY <1>2 DEF Unstage
  <2>2. at' = "idle" /\ kernel' \subseteq kernel /\ \A k \in kernel : ~k.own => k \in kernel'
    BY <2>1 DEF Fails, Finish, OffTunnel, ForeignApart
  <2>3. RoutesTyped' /\ Places'
    BY <2>1, <2>2 DEF Fails, Finish, RoutesTyped, Places, CommonPlaces, lists, engine
  <2>4. Gone' /\ Owned' /\ Intended' /\ ForeignApart'
    BY <1>1, <2>1, <2>2 DEF Gone, Owned, LedgerCovers, Own, Intended, ForeignApart, lists
  <2>5. Listed' /\ Fresh' /\ Cleared' /\ Adapter'
    BY <1>1, <2>1, <2>2 DEF Fails, Finish, Listed, Lists, Fresh, Installing, Cleared, Adapter, lists
  <2>. QED
    BY <2>3, <2>4, <2>5
<1>3. CASE added # {}
  <2>1. PICK to \in added, ok \in BOOLEAN :
              /\ Deletes(to, ok) /\ Unlist(to, ok) /\ added' = added \ {to}
              /\ UNCHANGED <<engine, at, mode, call, todo, cur, ret, after, err, tries, outcome,
                      moved>>
    BY <1>1, <1>3, Dropped DEF Unstage
  <2>2. /\ kernel' \subseteq Entries /\ owners' \subseteq Routes /\ disk' \subseteq Routes
        /\ Gone' /\ Owned' /\ Intended' /\ ForeignApart'
    BY <1>1, <2>1, Deleted
  <2>3. RoutesTyped' /\ Places'
    BY <1>1, <2>1, <2>2 DEF Deletes, Unlist, RoutesTyped, Places, CommonPlaces, engine
  <2>4. Listed'
    BY <1>1, <2>1 DEF Deletes, Unlist, Listed, Lists
  <2>5. Fresh' /\ Cleared' /\ Adapter'
    BY <1>1, <2>1 DEF Deletes, Fresh, Installing, Cleared, Adapter
  <2>. QED
    BY <2>2, <2>3, <2>4, <2>5
<1>. QED
  BY <1>2, <1>3

LEMMA DeviceKeeps ==
    ASSUME NoOverlap, LedgerInv, Device
    PROVE  LedgerInv'
<1>. USE DEF LedgerInv
<1>1. Working /\ at = "device" /\ os # "windows" /\ at' \in {"unstage", "idle", "residual"}
  BY DEF Device, Working, Places, CommonPlaces, WindowsPlaces, Finish, Fails
<1>2. /\ kernel' \subseteq kernel /\ (\A k \in kernel : ~k.own => k \in kernel')
      /\ UNCHANGED <<os, network, disk, lists, moved, applied, cfg>>
  BY DEF Device, Fails, Finish, OffTunnel, ForeignApart, host
<1>3. RoutesTyped'
  <2>1. /\ dev' \in {dev, call, Nil} /\ link' \in BOOLEAN /\ err' \in BOOLEAN
        /\ scrubbed' \in BOOLEAN /\ call' \in {call, Empty} /\ outcome' \in {outcome, "error"}
    BY DEF Device, Fails, Finish, RoutesTyped, host
  <2>. QED
    BY <1>2, <2>1, TypesKept DEF RoutesTyped, lists
<1>4. Places'
  BY <1>1, <1>2 DEF Device, Fails, Finish, Places, CommonPlaces, UnixPlaces
<1>5. Gone' /\ Owned' /\ Intended' /\ ForeignApart'
  BY <1>1, <1>2 DEF Gone, Owned, LedgerCovers, Own, Intended, ForeignApart, lists
<1>6. Listed' /\ Fresh' /\ Cleared' /\ Adapter'
  BY <1>1, <1>2 DEF Listed, Lists, Fresh, Installing, Cleared, Adapter, lists
<1>. QED
  BY <1>3, <1>4, <1>5, <1>6

LEMMA ResidualKeeps ==
    ASSUME NoOverlap, LedgerInv, Residual
    PROVE  LedgerInv'
<1>. USE DEF LedgerInv
<1>1. Working /\ at = "residual" /\ os # "windows"
  BY DEF Residual, Working, Places, CommonPlaces, WindowsPlaces
<1>2. PICK to \in todo, ok \in BOOLEAN : Deletes(to, ok) /\ Unlist(to, ok) /\ err' = (err \/ ~ok)
  BY <1>1, Dropped DEF Residual
<1>3. UNCHANGED <<engine, at, mode, call, cur, ret, added, after, tries, outcome, moved>>
  BY DEF Residual
<1>4. /\ kernel' \subseteq Entries /\ owners' \subseteq Routes /\ disk' \subseteq Routes
      /\ Gone' /\ Owned' /\ Intended' /\ ForeignApart'
  BY <1>1, <1>2, <1>3, Deleted
<1>5. RoutesTyped' /\ Places'
  BY <1>1, <1>2, <1>3, <1>4 DEF Deletes, Unlist, RoutesTyped, Places, CommonPlaces, engine
<1>6. Listed'
  BY <1>1, <1>2, <1>3 DEF Deletes, Unlist, Listed, Lists
<1>7. Fresh' /\ Cleared' /\ Adapter'
  BY <1>1, <1>2, <1>3 DEF Deletes, Fresh, Installing, Cleared, Adapter
<1>. QED
  BY <1>4, <1>5, <1>6, <1>7

LEMMA ReplanKeeps ==
    ASSUME NoOverlap, LedgerInv, Replan
    PROVE  LedgerInv'
<1>. USE DEF LedgerInv
<1>1. /\ Working /\ at = "residual" /\ os # "windows" /\ at' \in {"idle", "sweep"}
      /\ UNCHANGED <<os, network, disk, lists, scrubbed, cfg, moved>>
  BY DEF Replan, Working, Places, CommonPlaces, WindowsPlaces, Fails, Finish, Sweep, counters
<1>2. /\ kernel' \subseteq kernel /\ \A k \in kernel : ~k.own => k \in kernel'
  BY DEF Replan, Fails, Finish, OffTunnel, ForeignApart
<1>3. RoutesTyped' /\ Places'
  <2>1. /\ dev' \in {dev, Nil} /\ link' \in BOOLEAN /\ err' \in BOOLEAN
        /\ applied' \in BOOLEAN /\ call' \in {call, Empty} /\ outcome' \in {outcome, "error"}
    BY <1>1 DEF Replan, Fails, Finish, Sweep, RoutesTyped
  <2>2. RoutesTyped'
    BY <1>1, <1>2, <2>1, TypesKept DEF RoutesTyped, lists
  <2>3. Places'
    BY <1>1 DEF Replan, Fails, Finish, Sweep, Places, CommonPlaces
  <2>. QED
    BY <2>2, <2>3
<1>4. Gone' /\ Owned' /\ Intended' /\ ForeignApart'
  BY <1>1, <1>2 DEF Gone, Owned, LedgerCovers, Own, Intended, ForeignApart, lists
<1>5. Listed' /\ Adapter'
  BY <1>1, <1>2 DEF Listed, Lists, Adapter, lists
<1>6. Fresh'
  <2>1. at' = "sweep" /\ after' = "install"
          => todo' = (routed \cup residual \cup pinned) \ DesiredPins(call)
    BY <1>1 DEF Replan, Fails, Finish, Sweep
  <2>2. DesiredPins(call) \subseteq Endpoints
    BY Settings DEF RoutesTyped, Asked
  <2>. QED
    BY <1>1, <2>1, <2>2 DEF Fresh, Installing, lists, RoutesTyped
<1>7. Cleared'
  BY <1>1 DEF Replan, Fails, Finish, Sweep, Cleared
<1>. QED
  BY <1>3, <1>4, <1>5, <1>6, <1>7

LEMMA Undo6Keeps ==
    ASSUME NoOverlap, LedgerInv, Undo6
    PROVE  LedgerInv'
<1>. USE DEF LedgerInv
<1>1. /\ Working /\ at = "undo6" /\ os # "windows"
      /\ UNCHANGED <<engine, mode, call, todo, cur, ret, after, err, tries, outcome, moved>>
  BY DEF Undo6, Working, Places, CommonPlaces, WindowsPlaces
<1>2. todo \subseteq Plan(call) /\ added \subseteq V6
        /\ \A j \in todo : j.to \notin routed \cup residual
  BY <1>1 DEF Fresh, Installing
<1>3. CASE added = {}
  <2>1. at' = "install" /\ UNCHANGED <<host, lists, added>>
    BY <1>3 DEF Undo6
  <2>2. Gone' /\ Owned' /\ Intended' /\ ForeignApart'
    BY <1>1, <2>1, Unrecorded DEF host, lists
  <2>3. RoutesTyped' /\ Places' /\ Listed'
    BY <1>1, <2>1 DEF RoutesTyped, Places, CommonPlaces, UnixPlaces, Listed, Lists, engine, host,
       lists
  <2>4. Fresh'
    BY <1>1, <1>2, <2>1, SamePlan DEF Fresh, Installing, host, lists
  <2>5. Cleared' /\ Adapter'
    BY <1>1, <2>1 DEF Cleared, Adapter
  <2>. QED
    BY <2>2, <2>3, <2>4, <2>5
<1>4. CASE added # {}
  <2>1. PICK to \in added, ok \in BOOLEAN :
              /\ Deletes(to, ok) /\ added' = added \ {to} /\ UNCHANGED <<at, pinned>>
              /\ routed' = routed \ {to}
              /\ residual' = IF ok THEN residual ELSE residual \cup {to}
    BY <1>1, <1>4, Dropped DEF Undo6
  <2>2. /\ kernel' \subseteq Entries /\ owners' \subseteq Routes /\ disk' \subseteq Routes
        /\ Gone' /\ Owned' /\ Intended' /\ ForeignApart'
    BY <1>1, <2>1, Deleted
  <2>3. to \in V6 /\ to \in Destinations \ Endpoints
    BY <1>2, <2>1, RoutesAssumption DEF Destinations
  <2>4. RoutesTyped' /\ Places'
    BY <1>1, <2>1, <2>2, <2>3 DEF Deletes, RoutesTyped, Places, CommonPlaces, engine
  <2>5. Listed'
    BY <1>1, <2>1 DEF Deletes, Listed, Lists
  <2>6. UNCHANGED <<os, network, call, todo>> /\ added' \subseteq V6 /\ \A j \in todo : j.to \notin V6
    BY <1>1, <1>2, <2>1 DEF Deletes, Fresh
  <2>7. Plan(call)' = Plan(call)
    BY <2>6 DEF Plan, PhysicalPath
  <2>8. \A j \in todo' : j.to \notin routed' \cup residual'
    BY <1>2, <2>1, <2>3, <2>6
  <2>9. Fresh'
    BY <1>1, <1>2, <2>1, <2>6, <2>7, <2>8 DEF Fresh, Installing
  <2>10. Cleared' /\ Adapter'
    BY <1>1, <2>1 DEF Cleared, Adapter
  <2>. QED
    BY <2>2, <2>4, <2>5, <2>9, <2>10
<1>. QED
  BY <1>3, <1>4

LEMMA SweepOneKeeps ==
    ASSUME NoOverlap, LedgerInv, SweepOne
    PROVE  LedgerInv'
<1>. USE DEF LedgerInv
<1>1. Working /\ at = "sweep" /\ os # "windows"
  BY DEF SweepOne, Working
<1>2. PICK to \in todo, ok \in BOOLEAN :
        Deletes(to, ok) /\ Unlist(to, ok) /\ todo' = todo \ {to} /\ err' = (err \/ ~ok)
  BY <1>1, Dropped DEF SweepOne, Earliest
<1>3. UNCHANGED <<engine, at, mode, call, cur, ret, added, after, tries, outcome, moved>>
  BY DEF SweepOne
<1>4. /\ kernel' \subseteq Entries /\ owners' \subseteq Routes /\ disk' \subseteq Routes
      /\ Gone' /\ Owned' /\ Intended' /\ ForeignApart'
  BY <1>1, <1>2, <1>3, Deleted
<1>5. RoutesTyped' /\ Places'
  BY <1>1, <1>2, <1>3, <1>4 DEF Deletes, Unlist, RoutesTyped, Places, CommonPlaces, engine
<1>6. Listed'
  BY <1>1, <1>2, <1>3 DEF Deletes, Unlist, Listed, Lists
<1>7. Fresh'
  BY <1>1, <1>2, <1>3 DEF Deletes, Unlist, Fresh, Installing, RoutesTyped
<1>8. Cleared'
  BY <1>1, <1>2, <1>3 DEF Deletes, Unlist, Cleared, Lists, RoutesTyped
<1>9. Adapter'
  BY <1>1, <1>2, <1>3 DEF Deletes, Adapter
<1>. QED
  BY <1>4, <1>5, <1>6, <1>7, <1>8, <1>9

LEMMA SweepEndKeeps ==
    ASSUME NoOverlap, LedgerInv, SweepEnd
    PROVE  LedgerInv'
<1>. USE DEF LedgerInv
<1>1. /\ Working /\ at = "sweep" /\ os # "windows" /\ todo = {}
      /\ UNCHANGED <<os, network, disk, lists, applied, scrubbed>>
  BY DEF SweepEnd, Working
<1>2. /\ after \in {"install", "failed", "refreshed", "stop", "rebuild"}
      /\ after \in {"stop", "rebuild"} => tries \in 1 .. 3
  BY <1>1 DEF Places
<1>3. Plan(call)' = Plan(call) \/ call' # call
  BY <1>1 DEF Plan, PhysicalPath
<1>4. CASE after = "install" /\ ~err
  <2>1. /\ at' = "install" /\ todo' = Plan(call) /\ added' = {}
        /\ UNCHANGED <<kernel, link, dev, cfg, mode, call, cur, ret, err, outcome, moved>>
    BY <1>1, <1>4 DEF SweepEnd
  <2>2. RoutesTyped' /\ Places' /\ Listed'
    BY <1>1, <2>1 DEF RoutesTyped, Places, CommonPlaces, UnixPlaces, Listed, Lists, lists
  <2>3. Gone' /\ Owned' /\ Intended' /\ ForeignApart'
    BY <1>1, <2>1, Unrecorded DEF lists
  <2>4. routed = {} /\ residual = {}
    BY <1>1, <1>4 DEF Fresh
  <2>5. Fresh'
    BY <1>1, <1>3, <2>1, <2>4 DEF Fresh, Installing, lists
  <2>6. Cleared' /\ Adapter'
    BY <1>1, <2>1 DEF Cleared, Adapter
  <2>. QED
    BY <2>2, <2>3, <2>5, <2>6
<1>5. CASE (after = "install" /\ err) \/ after \in {"failed", "refreshed"}
        \/ (after = "rebuild" /\ err /\ tries = 1)
  <2>. DEFINE Ends ==
        /\ at' = "idle" /\ ret' = "none" /\ call' = Empty /\ err' = FALSE
        /\ outcome' \in {"ok", "error"} /\ cfg' \in {cfg, call}
        /\ link' \in {link, FALSE} /\ dev' \in {dev, Nil}
        /\ kernel' \in {kernel, OffTunnel} /\ moved' = moved
  <2>1. ASSUME (after = "install" /\ err) \/ after = "failed" PROVE Ends
    BY <1>1, <2>1 DEF SweepEnd, Fails, Finish
  <2>2. ASSUME after = "refreshed" PROVE Ends
    BY <1>1, <2>2 DEF SweepEnd, Finish
  <2>3. ASSUME after = "rebuild", err, tries = 1 PROVE Ends
    <3>1. ~(tries > 1)
      BY <2>3
    <3>. QED
      BY <1>1, <2>3, <3>1 DEF SweepEnd, Finish
  <2>4. Ends
    BY <1>5, <2>1, <2>2, <2>3
  <2>5. /\ kernel' \subseteq kernel /\ \A k \in kernel : ~k.own => k \in kernel'
    BY <2>4 DEF OffTunnel, ForeignApart
  <2>6. RoutesTyped' /\ Places' /\ Listed'
    BY <1>1, <2>4, <2>5 DEF RoutesTyped, Places, CommonPlaces, Listed, Lists, lists
  <2>7. Gone' /\ Owned' /\ Intended' /\ ForeignApart'
    BY <1>1, <2>4, <2>5 DEF Gone, Owned, LedgerCovers, Own, Intended, ForeignApart, lists
  <2>8. Fresh' /\ Cleared' /\ Adapter'
    BY <1>1, <2>4 DEF Fresh, Installing, Cleared, Adapter
  <2>. QED
    BY <2>6, <2>7, <2>8
<1>6. CASE after \in {"stop", "rebuild"} /\ err /\ tries > 1
  <2>1. /\ Sweep(after, {}, tries - 1)
        /\ UNCHANGED <<kernel, link, dev, cfg, mode, call, cur, ret, added, outcome, moved>>
    <3>1. CASE after = "stop"
      BY <1>1, <1>6, <3>1 DEF SweepEnd
    <3>2. CASE after = "rebuild"
      <4>1. tries # 1
        BY <1>6
      <4>. QED
        BY <1>1, <1>6, <3>2, <4>1 DEF SweepEnd
    <3>. QED
      BY <1>6, <3>1, <3>2
  <2>2. tries - 1 \in 1 .. 3
    BY <1>2, <1>6
  <2>3. RoutesTyped' /\ Listed'
    <3>1. err' = FALSE /\ link' \in BOOLEAN /\ applied' \in BOOLEAN /\ scrubbed' \in BOOLEAN
      BY <1>1, <2>1 DEF Sweep, RoutesTyped
    <3>2. RoutesTyped'
      BY <1>1, <2>1, <3>1, TypesKept DEF RoutesTyped, lists
    <3>3. Listed'
      BY <1>1, <2>1 DEF Sweep, Listed, Lists, lists
    <3>. QED
      BY <3>2, <3>3
  <2>6. Places'
    <3>1. tries' \in 1 .. 3 /\ at' = "sweep" /\ after' = after
      BY <2>1, <2>2 DEF Sweep
    <3>. QED
      BY <1>1, <1>2, <1>6, <2>1, <3>1 DEF Places, CommonPlaces
  <2>4. Gone' /\ Owned' /\ Intended' /\ ForeignApart'
    BY <1>1, <2>1, Unrecorded DEF Sweep, lists
  <2>5. Fresh' /\ Cleared' /\ Adapter'
    BY <1>1, <1>6, <2>1 DEF Sweep, Fresh, Installing, Cleared, Adapter, Lists, lists
  <2>. QED
    BY <2>3, <2>4, <2>5, <2>6
<1>7. CASE after = "rebuild" /\ ~err
  <2>1. /\ at' = "relink" /\ link' = FALSE /\ dev' = Nil /\ kernel' = OffTunnel
        /\ moved' = FALSE
        /\ UNCHANGED <<cfg, mode, call, todo, cur, ret, added, err, outcome>>
    BY <1>1, <1>7 DEF SweepEnd
  <2>2. /\ kernel' \subseteq kernel /\ \A k \in kernel : ~k.own => k \in kernel'
    BY <2>1 DEF OffTunnel, ForeignApart
  <2>3. RoutesTyped' /\ Places' /\ Listed'
    BY <1>1, <2>1, <2>2 DEF RoutesTyped, Places, CommonPlaces, UnixPlaces, Listed, Lists, lists
  <2>4. Gone' /\ Owned' /\ Intended' /\ ForeignApart'
    BY <1>1, <2>1, <2>2 DEF Gone, Owned, LedgerCovers, Own, Intended, ForeignApart, lists
  <2>5. Fresh' /\ Cleared' /\ Adapter'
    BY <1>1, <2>1 DEF Fresh, Installing, Cleared, Adapter
  <2>. QED
    BY <2>3, <2>4, <2>5
<1>8. CASE after = "stop" /\ ~(err /\ tries > 1)
  <2>1. /\ at' = "unlink"
        /\ UNCHANGED <<kernel, link, dev, cfg, mode, call, todo, cur, ret, added, err,
                             outcome, moved>>
    BY <1>1, <1>8 DEF SweepEnd
  <2>2. RoutesTyped' /\ Places' /\ Listed'
    BY <1>1, <2>1 DEF RoutesTyped, Places, CommonPlaces, Listed, Lists, lists
  <2>3. Gone' /\ Owned' /\ Intended' /\ ForeignApart'
    BY <1>1, <2>1, Unrecorded DEF lists
  <2>4. ~err => owners = {}
    BY <1>1, <1>8 DEF Cleared, Listed
  <2>5. Fresh' /\ Cleared' /\ Adapter'
    BY <1>1, <2>1, <2>4 DEF Fresh, Installing, Cleared, Adapter, lists
  <2>. QED
    BY <2>2, <2>3, <2>5
<1>9. (after = "rebuild" /\ err) => tries = 1 \/ tries > 1
  BY <1>2
<1>. QED
  BY <1>2, <1>4, <1>5, <1>6, <1>7, <1>8, <1>9

-----------------------------------------------------------------------------
LEMMA WEachKeeps ==
    ASSUME NoOverlap, LedgerInv, os = "windows",
           NEW loop \in {"wstage", "wpins", "wroutes"}, NEW routes, NEW then \in {"wsync",
                   "wservice", "wdone"},
           WEach(loop, routes, then), Offers(routes),
           loop = "wpins" => \A r \in routes : r.to \in Endpoints,
           then = "wservice" => loop = "wpins"
    PROVE  LedgerInv'
<1>. USE DEF LedgerInv
<1>1. /\ at = loop /\ Working
      /\ UNCHANGED <<os, network, kernel, link, dev, routed, residual, pinned, engine, mode,
                   call, added, outcome, budget, calls, crashes, roams, moved>>
  BY WEachEffect DEF Working
<1>2. CASE routes = {} /\ at' = then /\ UNCHANGED <<disk, owners, cur, ret, Loop>>
  <2>1. Gone' /\ Owned' /\ Intended' /\ ForeignApart'
    BY <1>1, <1>2, Unrecorded
  <2>2. RoutesTyped' /\ Places' /\ Listed'
    BY <1>1, <1>2 DEF RoutesTyped, Places, CommonPlaces, WindowsPlaces, Listed, Loop, engine
  <2>3. Fresh' /\ Cleared' /\ Adapter'
    BY <1>1, <1>2 DEF Fresh, Installing, Cleared, Adapter, Loop
  <2>. QED
    BY <2>1, <2>2, <2>3
<1>3. CASE UNCHANGED <<disk, owners, cur, ret>> /\ Abandon(loop)
  <2>1. /\ at' = "sweep" /\ after' \in {"remove", "failed", "failedLive"} /\ tries' = 2
          /\ err' = FALSE /\ todo' = owners
    BY <1>3 DEF Abandon, WClear
  <2>2. Gone' /\ Owned' /\ Intended' /\ ForeignApart'
    BY <1>1, <1>3, <2>1, Unrecorded
  <2>3. RoutesTyped' /\ Places' /\ Listed'
    <3>1. tries' \in 1 .. 3
      BY <2>1
    <3>2. UNCHANGED <<owners, disk>>
      BY <1>3
    <3>3. Places'
      BY <1>1, <1>3, <2>1, <3>1 DEF Places, CommonPlaces, WindowsPlaces
    <3>4. RoutesTyped'
      BY <1>1, <2>1, <3>2 DEF RoutesTyped, engine
    <3>5. Listed'
      BY <1>1, <1>3, <2>1, <3>1 DEF Listed
    <3>. QED
      BY <3>3, <3>4, <3>5
  <2>4. Fresh' /\ Cleared' /\ Adapter'
    BY <1>1, <1>3, <2>1 DEF Fresh, Installing, Cleared, Adapter
  <2>. QED
    BY <2>2, <2>3, <2>4
<1>4. CASE \E q \in Routes \ owners, r \in routes :
                    q = Route(r.to, r.via) /\ Records(q, loop) /\ UNCHANGED Loop
  <2>1. PICK q \in Routes \ owners, r \in routes :
                    q = Route(r.to, r.via) /\ Records(q, loop) /\ UNCHANGED Loop
    BY <1>4
  <2>2. q.to = r.to
    BY <2>1 DEF Route
  <2>3. /\ owners' \subseteq Routes /\ disk' \subseteq Routes
        /\ Gone' /\ Owned' /\ Intended' /\ ForeignApart'
    BY <1>1, <2>1, Recorded
  <2>4. RoutesTyped' /\ Places' /\ Listed'
    BY <1>1, <2>1, <2>3 DEF Records, RoutesTyped, Places, CommonPlaces, WindowsPlaces, Listed,
       Loop, engine
  <2>5. Fresh' /\ Cleared'
    BY <1>1, <2>1 DEF Records, Fresh, Installing, Cleared, Loop
  <2>6. Adapter'
    BY <1>1, <2>1, <2>2, SamePlan DEF Records, Adapter, Loop
  <2>. QED
    BY <2>3, <2>4, <2>5, <2>6
<1>5. \/ routes = {} /\ at' = then /\ UNCHANGED <<disk, owners, cur, ret, Loop>>
      \/ \E q \in Routes \ owners, r \in routes :
                    q = Route(r.to, r.via) /\ Records(q, loop) /\ UNCHANGED Loop
      \/ UNCHANGED <<disk, owners, cur, ret>> /\ Abandon(loop)
  BY WEachEffect
<1>. QED
  BY <1>2, <1>3, <1>4, <1>5

LEMMA WStageKeeps ==
    ASSUME NoOverlap, LedgerInv, WStage
    PROVE  LedgerInv'
<1>1. WEach("wstage", PinRoutes(call) \ owners, "wsync")
  BY DEF WStage
<1>. QED
  BY <1>1, WStageEffect, WEachKeeps

LEMMA WPinsKeeps ==
    ASSUME NoOverlap, LedgerInv, WPins
    PROVE  LedgerInv'
<1>1. WEach("wpins", todo, "wservice")
  BY DEF WPins
<1>2. at = "wpins" /\ os = "windows"
  BY <1>1 DEF WEach, LedgerInv, Places, CommonPlaces, UnixPlaces
<1>3. Offers(todo) /\ \A r \in todo : r.to \in Endpoints
  BY <1>2, PinsOffered
<1>. QED
  BY <1>1, <1>2, <1>3, WEachKeeps

LEMMA WRoutesKeeps ==
    ASSUME NoOverlap, LedgerInv, WRoutes
    PROVE  LedgerInv'
<1>1. WEach("wroutes", Next1(todo), "wdone")
  BY DEF WRoutes
<1>2. at = "wroutes" /\ os = "windows"
  BY <1>1 DEF WEach, LedgerInv, Places, CommonPlaces, UnixPlaces
<1>3. Offers(Next1(todo))
  BY <1>2, ExtraOffered
<1>. QED
  BY <1>1, <1>2, <1>3, WEachKeeps

LEMMA WAddKeeps ==
    ASSUME NoOverlap, LedgerInv, WAdd
    PROVE  LedgerInv'
<1>. USE DEF LedgerInv
<1>. DEFINE k == [to |-> cur.to, via |-> cur.via, own |-> TRUE]
<1>1. os = "windows" /\ at = "add" /\ ~Taken(cur.to) /\ kernel' = kernel \cup {k}
  BY DEF WAdd
<1>2. k \in Entries /\ k.own /\ k.to = cur.to /\ k.via = cur.via /\ Route(k.to, k.via) = cur
  BY <1>1, Extended
<1>. HIDE DEF k
<1>3. /\ ret \in {"wstage", "wpins", "wroutes"}
      /\ at' = ret /\ ret' = "none" /\ todo' = {i \in todo : ~Matches(i, cur)}
      /\ UNCHANGED <<os, network, link, dev, disk, lists, engine, mode, call, added, after, err,
                   tries, outcome, moved>>
  BY <1>1 DEF WAdd, Places
<1>4. /\ kernel' \subseteq Entries
      /\ Gone' /\ Owned' /\ Intended' /\ ForeignApart'
  BY <1>1, <1>2, <1>3, Extends1 DEF lists
<1>5. RoutesTyped' /\ Places' /\ Listed'
  BY <1>1, <1>3, <1>4 DEF RoutesTyped, Places, CommonPlaces, WindowsPlaces, Listed, engine, lists
<1>6. Fresh' /\ Cleared'
  BY <1>1, <1>3 DEF Fresh, Installing, Cleared
<1>7. Adapter'
  <2>1. \A i \in todo' : i \in todo /\ i # cur /\ Route(i.to, i.via) # cur
    BY <1>3 DEF Matches, Route
  <2>. QED
    BY <1>1, <1>3, <2>1, SamePlan DEF Adapter, lists
<1>. QED
  BY <1>4, <1>5, <1>6, <1>7

LEMMA WAddFailsKeeps ==
    ASSUME NoOverlap, LedgerInv, WAddFails
    PROVE  LedgerInv'
<1>. USE DEF LedgerInv
<1>1. /\ os = "windows" /\ at = "add" /\ owners' = owners \ {cur} /\ Abandon(ret)
      /\ disk' = owners' \/ disk' = disk
      /\ ret' = "none"
      /\ UNCHANGED <<os, network, kernel, link, dev, routed, residual, pinned, engine, mode, call,
                   added, outcome, moved>>
  BY DEF WAddFails, Persist
<1>2. ret \in {"wstage", "wpins", "wroutes"}
  BY <1>1 DEF Places
<1>3. /\ at' = "sweep" /\ after' \in {"remove", "failed", "failedLive"} /\ tries' \in 1 .. 3
        /\ err' = FALSE /\ todo' = owners'
  BY <1>1 DEF Abandon, WClear
<1>4. owners' \subseteq disk' /\ disk' \subseteq disk
  BY <1>1 DEF Owned
<1>5. /\ owners' \subseteq Routes /\ disk' \subseteq Routes
      /\ Gone' /\ Owned' /\ Intended' /\ ForeignApart'
  BY <1>1, <1>3, <1>4, Retracts
<1>6. RoutesTyped'
  BY <1>1, <1>3, <1>5 DEF RoutesTyped, engine
<1>7. Places'
  BY <1>1, <1>3 DEF Places, CommonPlaces
<1>8. Listed' /\ Fresh' /\ Cleared' /\ Adapter'
  BY <1>1, <1>3 DEF Listed, Fresh, Installing, Cleared, Adapter
<1>. QED
  BY <1>5, <1>6, <1>7, <1>8

LEMMA WSweepEndKeeps ==
    ASSUME NoOverlap, LedgerInv, WSweepEnd
    PROVE  LedgerInv'
<1>. USE DEF LedgerInv
<1>1. /\ Working /\ at = "sweep" /\ os = "windows" /\ todo = {}
      /\ UNCHANGED <<os, network, kernel, link, dev, owners, routed, residual, pinned, engine,
              moved>>
  BY DEF WSweepEnd, Working
<1>2. after \in {"remove", "failed", "failedLive", "stop"} /\ (after \in {"remove", "stop"}
        => tries \in 1 .. 3)
      /\ (~err => owners = {})
  BY <1>1 DEF Places, Cleared
<1>3. PICK ok \in BOOLEAN :
        LET failed == err \/ ~ok
            again == failed /\ tries > 1
        IN /\ Persist(owners, ok)
           /\ CASE again ->
                    WClear(after, tries - 1) /\ UNCHANGED <<mode, call, cur, ret, added, outcome>>
                [] ~again /\ (after = "failed" \/ (after = "remove" /\ failed)) ->
                    Finish("error")
                [] OTHER ->
                    /\ at' = CASE after = "remove" -> "wremove"
                               [] after = "stop" -> "unlink"
                               [] OTHER -> "wuninstall"
                    /\ err' = failed /\ after' = "none" /\ tries' = 0
                    /\ UNCHANGED <<mode, call, todo, cur, ret, added, outcome>>
  BY DEF WSweepEnd
<1>. DEFINE failed == err \/ ~ok
<1>4. owners \subseteq disk' /\ disk' \subseteq Routes /\ disk' \in {disk, owners}
  BY <1>3 DEF Persist, Owned, RoutesTyped
<1>5. at' \notin {"down", "clean", "bringUp", "add"} => Gone' /\ Owned' /\ Intended'
        /\ ForeignApart'
  BY <1>1, <1>4 DEF Gone, Owned, LedgerCovers, Own, Intended, ForeignApart, Working
<1>6. CASE failed /\ tries > 1
  <2>1. WClear(after, tries - 1) /\ UNCHANGED <<mode, call, cur, ret, added, outcome>>
    BY <1>3, <1>6
  <2>2. at' = "sweep" /\ after' = after /\ err' = FALSE /\ todo' = owners
    BY <1>1, <2>1 DEF WClear
  <2>3. after \in {"remove", "stop"} => tries' \in 1 .. 3
    BY <1>2, <1>6, <2>1 DEF WClear
  <2>4. RoutesTyped' /\ Listed'
    BY <1>1, <1>4, <2>1, <2>2 DEF RoutesTyped, Listed, engine
  <2>5. Places'
    BY <1>1, <1>2, <2>1, <2>2, <2>3 DEF Places, CommonPlaces
  <2>6. Fresh' /\ Cleared' /\ Adapter'
    BY <1>1, <2>2 DEF Fresh, Installing, Cleared, Adapter
  <2>. QED
    BY <1>5, <2>2, <2>4, <2>5, <2>6
<1>7. CASE ~(failed /\ tries > 1) /\ (after = "failed" \/ (after = "remove" /\ failed))
  <2>1. Finish("error")
    BY <1>3, <1>7
  <2>2. at' = "idle" /\ err' = FALSE /\ outcome' = "error" /\ call' = Empty /\ ret' = "none"
    BY <2>1 DEF Finish
  <2>3. RoutesTyped' /\ Listed'
    BY <1>1, <1>4, <2>2 DEF RoutesTyped, Listed, engine
  <2>4. Places' /\ Fresh' /\ Cleared' /\ Adapter'
    BY <1>1, <2>2 DEF Places, CommonPlaces, Fresh, Installing, Cleared, Adapter
  <2>. QED
    BY <1>5, <2>2, <2>3, <2>4
<1>8. CASE ~(failed /\ tries > 1) /\ ~(after = "failed" \/ (after = "remove" /\ failed))
  <2>1. /\ at' = CASE after = "remove" -> "wremove"
                               [] after = "stop" -> "unlink"
                               [] OTHER -> "wuninstall"
        /\ err' = failed /\ after' = "none" /\ tries' = 0
        /\ UNCHANGED <<mode, call, todo, cur, ret, added, outcome>>
    BY <1>3, <1>8
  <2>2. at' \in {"wremove", "unlink", "wuninstall"} /\ (at' = "wremove" => after = "remove")
    BY <2>1
  <2>3. after = "remove" => ~failed
    BY <1>2, <1>8
  <2>4. RoutesTyped' /\ Listed'
    BY <1>1, <1>4, <2>1, <2>2 DEF RoutesTyped, Listed, engine
  <2>5. Places'
    BY <1>1, <2>1, <2>2 DEF Places, CommonPlaces, WindowsPlaces
  <2>6. Fresh' /\ Cleared' /\ Adapter'
    BY <1>1, <1>2, <2>1, <2>2, <2>3 DEF Fresh, Installing, Cleared, Adapter
  <2>. QED
    BY <1>5, <2>2, <2>4, <2>5, <2>6
<1>. QED
  BY <1>6, <1>7, <1>8

LEMMA WRemoveKeeps ==
    ASSUME NoOverlap, LedgerInv, WRemove
    PROVE  LedgerInv'
<1>. USE DEF LedgerInv
<1>1. /\ Working /\ at = "wremove" /\ os = "windows" /\ at' \in {"wpins", "idle"}
      /\ UNCHANGED <<os, network, kernel, disk, lists, scrubbed, cfg, moved>>
      /\ link' \in {link, FALSE} /\ dev' \in {dev, Nil} /\ applied' \in {applied, FALSE}
      /\ err' \in {err, FALSE} /\ call' \in {call, Empty} /\ outcome' \in {outcome, "error"}
      /\ ret' \in {ret, "none"}
      /\ at' = "wpins" => todo' = PinRoutes(call) /\ call' = call
  BY DEF WRemove, Working, Places, CommonPlaces, UnixPlaces, Finish
<1>2. RoutesTyped'
  <2>1. link' \in BOOLEAN
    BY <1>1 DEF RoutesTyped
  <2>2. applied' \in BOOLEAN
    BY <1>1 DEF RoutesTyped
  <2>3. err' \in BOOLEAN
    BY <1>1 DEF RoutesTyped
  <2>4. dev' \in Configs \cup {Nil, Empty} /\ call' \in Configs \cup {Empty}
    BY <1>1 DEF RoutesTyped
  <2>. QED
    BY <1>1, <2>1, <2>2, <2>3, <2>4 DEF RoutesTyped, lists
<1>6. Places' /\ Listed'
  BY <1>1 DEF Places, CommonPlaces, WindowsPlaces, Listed, lists
<1>3. Gone' /\ Owned' /\ Intended' /\ ForeignApart'
  BY <1>1, Unrecorded DEF lists
<1>4. \A r \in PinRoutes(call) : r.to \in Endpoints
  BY Settings DEF PinRoutes, Route, RoutesTyped, Asked
<1>5. Fresh' /\ Cleared' /\ Adapter'
  BY <1>1, <1>4, SamePlan DEF Fresh, Installing, Cleared, Adapter, lists
<1>. QED
  BY <1>2, <1>3, <1>5, <1>6

LEMMA WServiceKeeps ==
    ASSUME NoOverlap, LedgerInv, WService
    PROVE  LedgerInv'
<1>. USE DEF LedgerInv
<1>1. /\ Working /\ at = "wservice" /\ os = "windows" /\ at' \in {"wroutes", "sweep"}
      /\ UNCHANGED <<os, network, kernel, disk, owners, routed, residual, pinned, engine, mode,
              call, cur,
                   ret, added, outcome, moved>>
      /\ link' \in {link, TRUE} /\ dev' \in {dev, call}
      /\ at' = "wroutes" => todo' = Extra(call) /\ UNCHANGED <<after, err, tries>>
      /\ at' = "sweep" => todo' = owners' /\ err' = FALSE /\ after' \in {"failed", "failedLive"}
  BY DEF WService, Working, Places, CommonPlaces, UnixPlaces, WClear
<1>2. RoutesTyped'
  <2>1. err' \in BOOLEAN /\ link' \in BOOLEAN /\ dev' \in {dev, call}
    BY <1>1 DEF RoutesTyped
  <2>. QED
    BY <1>1, <2>1, TypesKept DEF RoutesTyped, engine
<1>6. Places' /\ Listed'
  BY <1>1 DEF Places, CommonPlaces, WindowsPlaces, Listed
<1>3. Gone' /\ Owned' /\ Intended' /\ ForeignApart'
  BY <1>1, Unrecorded
<1>4. \A i \in Extra(call) : Route(i.to, i.via) \notin owners
  BY <1>1, ExtraApart
<1>5. Fresh' /\ Cleared' /\ Adapter'
  BY <1>1, <1>4, SamePlan DEF Fresh, Installing, Cleared, Adapter
<1>. QED
  BY <1>2, <1>3, <1>5, <1>6

-----------------------------------------------------------------------------
\* and where a call starts, ends or is cut short.

LEMMA StartKeeps ==
    ASSUME NoOverlap, LedgerInv, Start
    PROVE  LedgerInv'
<1>. USE DEF LedgerInv, Start, host, lists, engine, control, counters
<1>1. RoutesTyped'
  BY DEF RoutesTyped
<1>2. Places'
  BY DEF Places, CommonPlaces
<1>3. Gone' /\ Owned' /\ Intended' /\ ForeignApart'
  BY DEF Gone, Own, Owned, LedgerCovers, Intended, ForeignApart
<1>4. Listed' /\ Fresh' /\ Cleared' /\ Adapter'
  BY DEF Listed, Lists, Fresh, Installing, Cleared, Adapter
<1>. QED
  BY <1>1, <1>2, <1>3, <1>4

LEMMA CleanOneKeeps ==
    ASSUME NoOverlap, LedgerInv, CleanOne
    PROVE  LedgerInv'
<1>1. RoutesTyped'
  <2>1. /\ UNCHANGED <<os, network, link, dev, disk>> /\ kernel' \subseteq kernel
        /\ owners' \subseteq owners /\ routed' \subseteq routed /\ residual' \subseteq residual
        /\ pinned' \subseteq pinned /\ applied' \in BOOLEAN /\ scrubbed' \in BOOLEAN
        /\ err' \in BOOLEAN /\ moved' \in BOOLEAN /\ cfg' \in {cfg, Empty}
        /\ call' \in Configs \cup {Empty} /\ outcome' \in {outcome, "error", "noStart"}
    BY DEF CleanOne, Exit, Forget, Without, lists, engine, LedgerInv, RoutesTyped
  <2>. QED
    BY <2>1, TypesKept DEF LedgerInv, RoutesTyped
<1>. USE DEF LedgerInv, CleanOne, host, lists, engine, control, counters
<1>2. Places'
  BY DEF Exit, Forget, Places, CommonPlaces
<1>3. Gone' /\ Owned' /\ Intended' /\ ForeignApart'
  BY DEF Exit, Forget, Without, Matches, Route, Gone, Own, Owned, LedgerCovers, Intended,
     ForeignApart
<1>4. Listed' /\ Fresh' /\ Cleared' /\ Adapter'
  BY DEF Exit, Forget, Listed, Gone, Fresh, Installing, Cleared, Adapter
<1>. QED
  BY <1>1, <1>2, <1>3, <1>4

LEMMA CleanedKeeps ==
    ASSUME NoOverlap, LedgerInv, Cleaned
    PROVE  LedgerInv'
<1>1. RoutesTyped'
  <2>1. /\ UNCHANGED <<os, network, kernel, link, dev>> /\ disk' \subseteq disk
        /\ owners' \subseteq owners /\ routed' \subseteq routed /\ residual' \subseteq residual
        /\ pinned' \subseteq pinned /\ applied' \in BOOLEAN /\ scrubbed' \in BOOLEAN
        /\ err' \in BOOLEAN /\ moved' \in BOOLEAN /\ cfg' \in {cfg, Empty}
        /\ call' \in Configs \cup {Empty} /\ outcome' \in {outcome, "error", "noStart"}
    BY DEF Cleaned, Exit, Forget, Persist, lists, engine, LedgerInv, RoutesTyped
  <2>. QED
    BY <2>1, TypesKept DEF LedgerInv, RoutesTyped
<1>. USE DEF LedgerInv, Cleaned, host, lists, engine, control, counters
<1>2. Places'
  BY DEF Exit, Forget, Places, CommonPlaces
<1>3. Gone' /\ Owned' /\ Intended' /\ ForeignApart'
  BY DEF Exit, Forget, Gone, Own, Owned, LedgerCovers, Intended, ForeignApart
<1>4. Listed' /\ Fresh' /\ Cleared' /\ Adapter'
  BY DEF Exit, Forget, Listed, Gone, Fresh, Installing, Cleared, Adapter
<1>. QED
  BY <1>1, <1>2, <1>3, <1>4

LEMMA BringUpKeeps ==
    ASSUME NoOverlap, LedgerInv, BringUp
    PROVE  LedgerInv'
<1>1. RoutesTyped'
  <2>1. /\ UNCHANGED <<os, network, kernel, dev, disk>> /\ link' \in BOOLEAN
        /\ owners' \subseteq owners /\ routed' \subseteq routed /\ residual' \subseteq residual
        /\ pinned' \subseteq pinned /\ applied' \in BOOLEAN /\ scrubbed' \in BOOLEAN
        /\ err' \in BOOLEAN /\ moved' \in BOOLEAN /\ cfg' \in {cfg, Empty}
        /\ call' \in Configs \cup {Empty} /\ outcome' \in {outcome, "error", "noStart"}
    BY DEF BringUp, Exit, Forget, lists, engine, LedgerInv, RoutesTyped
  <2>. QED
    BY <2>1, TypesKept DEF LedgerInv
<1>. USE DEF LedgerInv, BringUp, host, lists, engine, control, counters
<1>2. Places'
  BY DEF Exit, Forget, Places, CommonPlaces
<1>3. Gone' /\ Owned' /\ Intended' /\ ForeignApart'
  BY DEF Exit, Forget, Gone, Own, Owned, LedgerCovers, Intended, ForeignApart
<1>4. Listed' /\ Fresh' /\ Cleared' /\ Adapter'
  BY DEF Exit, Forget, Listed, Gone, Fresh, Installing, Cleared, Adapter
<1>. QED
  BY <1>1, <1>2, <1>3, <1>4

LEMMA OperatorRemovesLinkKeeps ==
    ASSUME NoOverlap, LedgerInv, OperatorRemovesLink
    PROVE  LedgerInv'
<1>. USE DEF LedgerInv, OperatorRemovesLink, host, lists, engine, control, counters
<1>1. RoutesTyped'
  BY DEF OffTunnel, RoutesTyped
<1>2. Places'
  BY DEF Places
<1>3. Gone' /\ Owned' /\ Intended' /\ ForeignApart'
  BY DEF OffTunnel, Gone, Own, Owned, LedgerCovers, Intended, ForeignApart
<1>4. Listed' /\ Fresh' /\ Cleared' /\ Adapter'
  BY DEF OffTunnel, Listed, Gone, Fresh, Installing, Cleared, Own, Adapter
<1>. QED
  BY <1>1, <1>2, <1>3, <1>4

LEMMA CrashKeeps ==
    ASSUME NoOverlap, LedgerInv, Crash
    PROVE  LedgerInv'
<1>. USE DEF LedgerInv, Crash, host, lists, engine, control, counters
<1>1. RoutesTyped'
  BY DEF Exit, Forget, DeviceDies, OffTunnel, RoutesTyped
<1>2. Places'
  BY DEF Exit, Forget, Places, CommonPlaces
<1>3. Gone' /\ Owned' /\ Intended' /\ ForeignApart'
  BY DEF Exit, Forget, DeviceDies, OffTunnel, Gone, Own, Owned, LedgerCovers, Intended, ForeignApart
<1>4. Listed' /\ Fresh' /\ Cleared' /\ Adapter'
  BY DEF Exit, Forget, Listed, Fresh, Cleared, Adapter
<1>. QED
  BY <1>1, <1>2, <1>3, <1>4

LEMMA RoamKeeps ==
    ASSUME NoOverlap, LedgerInv, Roam
    PROVE  LedgerInv'
<1>. USE DEF LedgerInv, Roam, host, lists, engine, control, counters
<1>1. RoutesTyped'
  BY DEF RoutesTyped
<1>2. Places'
  BY DEF Places
<1>3. Gone' /\ Owned' /\ Intended' /\ ForeignApart'
  BY DEF Gone, Own, Owned, LedgerCovers, Intended, ForeignApart
<1>4. Listed' /\ Fresh' /\ Cleared' /\ Adapter'
  BY DEF Listed, Lists, Fresh, Installing, Cleared, Adapter
<1>. QED
  BY <1>1, <1>2, <1>3, <1>4

LEMMA ConfigureKeeps ==
    ASSUME NoOverlap, LedgerInv, Configure
    PROVE  LedgerInv'
<1>. USE DEF LedgerInv, Configure, host, lists, engine, control, counters
<1>1. RoutesTyped'
  BY DEF RoutesTyped
<1>2. Places'
  BY DEF Places, UnixPlaces
<1>3. Gone' /\ Owned' /\ Intended' /\ ForeignApart'
  BY DEF Gone, Own, Owned, LedgerCovers, Intended, ForeignApart
<1>4. Listed' /\ Fresh' /\ Cleared' /\ Adapter'
  BY DEF Listed, Lists, Fresh, Installing, Cleared, Adapter
<1>. QED
  BY <1>1, <1>2, <1>3, <1>4

LEMMA InstalledKeeps ==
    ASSUME NoOverlap, LedgerInv, Installed
    PROVE  LedgerInv'
<1>. USE DEF LedgerInv, Installed, host, lists, engine, control, counters
<1>1. RoutesTyped'
  BY DEF Finish, RoutesTyped
<1>2. Places'
  BY DEF Finish, Places, CommonPlaces
<1>3. Gone' /\ Owned' /\ Intended' /\ ForeignApart'
  BY DEF Finish, Gone, Own, Owned, LedgerCovers, Intended, ForeignApart
<1>4. Listed' /\ Fresh' /\ Cleared' /\ Adapter'
  BY DEF Finish, Listed, Lists, Fresh, Cleared, Adapter
<1>. QED
  BY <1>1, <1>2, <1>3, <1>4

LEMMA RelinkKeeps ==
    ASSUME NoOverlap, LedgerInv, Relink
    PROVE  LedgerInv'
<1>. USE DEF LedgerInv, Relink, host, lists, engine, control, counters
<1>1. RoutesTyped'
  BY DEF Finish, RoutesTyped, Places, Intended, Asked
<1>2. Places'
  BY DEF Finish, Places, CommonPlaces, UnixPlaces, WindowsPlaces
<1>3. Gone' /\ Owned' /\ Intended' /\ ForeignApart'
  BY DEF Finish, Gone, Own, Owned, LedgerCovers, Intended, ForeignApart
<1>4. Listed' /\ Fresh' /\ Cleared' /\ Adapter'
  BY DEF Finish, Listed, Lists, Fresh, Installing, Cleared, Adapter
<1>. QED
  BY <1>1, <1>2, <1>3, <1>4

LEMMA UnlinkKeeps ==
    ASSUME NoOverlap, LedgerInv, Unlink
    PROVE  LedgerInv'
<1>. USE DEF LedgerInv, Unlink, host, lists, engine, control, counters
<1>1. RoutesTyped'
  BY DEF Exit, Forget, OffTunnel, RoutesTyped
<1>2. Places'
  BY DEF Exit, Forget, Places, CommonPlaces
<1>3. Gone' /\ Owned' /\ Intended' /\ ForeignApart'
  BY DEF Exit, Forget, OffTunnel, Gone, Own, Owned, LedgerCovers, Intended, ForeignApart
<1>4. Listed' /\ Fresh' /\ Cleared' /\ Adapter'
  BY DEF Exit, Forget, OffTunnel, Listed, Owned, Fresh, Cleared, Own, Adapter
<1>. QED
  BY <1>1, <1>2, <1>3, <1>4

LEMMA RecoverKeeps ==
    ASSUME NoOverlap, LedgerInv, Recover
    PROVE  LedgerInv'
<1>. USE DEF LedgerInv, Recover, host, lists, engine, control, counters
<1>1. RoutesTyped'
  BY DEF Sweep, RoutesTyped
<1>2. Places'
  BY DEF Sweep, Places, CommonPlaces
<1>3. Gone' /\ Owned' /\ Intended' /\ ForeignApart'
  BY DEF Sweep, Gone, Own, Owned, LedgerCovers, Intended, ForeignApart
<1>4. Listed' /\ Fresh' /\ Cleared' /\ Adapter'
  BY DEF Sweep, Listed, Lists, Fresh, Installing, Cleared, Adapter
<1>. QED
  BY <1>1, <1>2, <1>3, <1>4

LEMMA DownKeeps ==
    ASSUME NoOverlap, LedgerInv, Down
    PROVE  LedgerInv'
<1>. USE DEF LedgerInv, Down, host, lists, engine, control, counters
<1>1. RoutesTyped'
  BY DEF Sweep, RoutesTyped, Places, Intended, Asked
<1>2. Places'
  BY DEF Sweep, Places, CommonPlaces
<1>3. Gone' /\ Owned' /\ Intended' /\ ForeignApart'
  BY DEF Sweep, Gone, Own, Owned, LedgerCovers, Intended, ForeignApart
<1>4. Listed' /\ Fresh' /\ Cleared' /\ Adapter'
  BY DEF Sweep, Listed, Lists, Fresh, Installing, Cleared, Adapter
<1>. QED
  BY <1>1, <1>2, <1>3, <1>4

LEMMA WConfigureKeeps ==
    ASSUME NoOverlap, LedgerInv, WConfigure
    PROVE  LedgerInv'
<1>1. RoutesTyped'
  <2>1. /\ call' \in Configs \cup {Empty} /\ outcome' \in {outcome, "ok"} /\ err' \in BOOLEAN
        /\ UNCHANGED <<host, lists, engine, moved>>
    BY DEF WConfigure, WClear, Loop, lists, LedgerInv, RoutesTyped
  <2>. QED
    BY <2>1 DEF host, lists, engine, LedgerInv, RoutesTyped
<1>. USE DEF LedgerInv, WConfigure, host, lists, engine, control, counters
<1>2. Places'
  BY DEF WClear, Places, CommonPlaces, WindowsPlaces
<1>3. Gone' /\ Owned' /\ Intended' /\ ForeignApart'
  BY DEF WClear, Gone, Own, Owned, LedgerCovers, Intended, ForeignApart
<1>4. Listed' /\ Fresh' /\ Cleared' /\ Adapter'
  BY DEF WClear, Listed, Fresh, Cleared, Adapter
<1>. QED
  BY <1>1, <1>2, <1>3, <1>4

LEMMA WSyncKeeps ==
    ASSUME NoOverlap, LedgerInv, WSync
    PROVE  LedgerInv'
<1>1. RoutesTyped'
  <2>1. /\ UNCHANGED <<os, network, kernel, link, disk, owners, routed, residual, pinned, engine, call,
              outcome, moved>>
        /\ dev' \in {dev, call} /\ err' \in BOOLEAN
    BY DEF WSync, WClear, LedgerInv, RoutesTyped
  <2>. QED
    BY <2>1, TypesKept DEF LedgerInv, RoutesTyped, engine
<1>. USE DEF LedgerInv, WSync, host, lists, engine, control, counters
<1>2. Places'
  BY DEF WClear, Places, CommonPlaces, UnixPlaces, WindowsPlaces
<1>3. Gone' /\ Owned' /\ Intended' /\ ForeignApart'
  BY DEF WClear, Gone, Own, Owned, LedgerCovers, Intended, ForeignApart
<1>4. Listed' /\ Fresh' /\ Cleared' /\ Adapter'
  BY DEF WClear, Pins, Listed, Lists, Fresh, Installing, Cleared, Adapter
<1>. QED
  BY <1>1, <1>2, <1>3, <1>4

LEMMA WDropKeeps ==
    ASSUME NoOverlap, LedgerInv, WDrop
    PROVE  LedgerInv'
<1>. USE DEF LedgerInv, WDrop, host, lists, engine, control, counters
<1>1. RoutesTyped'
  BY RouteEq DEF Without, RoutesTyped
<1>2. Places'
  BY RouteEq DEF Places
<1>3. Gone' /\ Owned' /\ Intended' /\ ForeignApart'
  BY RouteEq DEF Without, Matches, Route, Gone, Own, Owned, LedgerCovers, Intended, ForeignApart
<1>4. Listed' /\ Fresh' /\ Cleared' /\ Adapter'
  BY RouteEq, SamePlan DEF Listed, Lists, Fresh, Installing, Cleared, Adapter
<1>. QED
  BY <1>1, <1>2, <1>3, <1>4

LEMMA WSyncedKeeps ==
    ASSUME NoOverlap, LedgerInv, WSynced
    PROVE  LedgerInv'
<1>. USE DEF LedgerInv, WSynced, host, lists, engine, control, counters
<1>1. RoutesTyped'
  BY DEF Finish, RoutesTyped
<1>2. Places'
  BY DEF Finish, Places, CommonPlaces
<1>3. Gone' /\ Owned' /\ Intended' /\ ForeignApart'
  BY DEF Finish, Gone, Own, Owned, LedgerCovers, Intended, ForeignApart
<1>4. Listed' /\ Fresh' /\ Cleared' /\ Adapter'
  BY DEF Finish, Listed, Lists, Fresh, Cleared, Adapter
<1>. QED
  BY <1>1, <1>2, <1>3, <1>4

LEMMA WSweepOneKeeps ==
    ASSUME NoOverlap, LedgerInv, WSweepOne
    PROVE  LedgerInv'
<1>1. RoutesTyped'
  <2>1. /\ UNCHANGED <<os, network, link, dev, disk, routed, residual, pinned, engine, call, outcome,
              moved>>
        /\ kernel' \subseteq kernel /\ owners' \subseteq owners /\ err' \in BOOLEAN
    BY DEF WSweepOne, Without, LedgerInv, RoutesTyped
  <2>. QED
    BY <2>1, TypesKept DEF LedgerInv, RoutesTyped, engine
<1>. USE DEF LedgerInv, WSweepOne, host, lists, engine, control, counters
<1>2. Places'
  BY RouteEq DEF Places
<1>3. Gone' /\ Owned' /\ Intended' /\ ForeignApart'
  BY RouteEq DEF Without, Matches, Route, Gone, Own, Owned, LedgerCovers, Intended, ForeignApart
<1>4. Listed' /\ Fresh' /\ Cleared' /\ Adapter'
  BY RouteEq DEF Listed, Fresh, Cleared, Adapter
<1>. QED
  BY <1>1, <1>2, <1>3, <1>4

LEMMA WInstalledKeeps ==
    ASSUME NoOverlap, LedgerInv, WInstalled
    PROVE  LedgerInv'
<1>. USE DEF LedgerInv, WInstalled, host, lists, engine, control, counters
<1>1. RoutesTyped'
  BY DEF Finish, RoutesTyped
<1>2. Places'
  BY DEF Finish, Places, CommonPlaces
<1>3. Gone' /\ Owned' /\ Intended' /\ ForeignApart'
  BY DEF Finish, Gone, Own, Owned, LedgerCovers, Intended, ForeignApart
<1>4. Listed' /\ Fresh' /\ Cleared' /\ Adapter'
  BY DEF Finish, Listed, Lists, Fresh, Cleared, Adapter
<1>. QED
  BY <1>1, <1>2, <1>3, <1>4

LEMMA WUninstallKeeps ==
    ASSUME NoOverlap, LedgerInv, WUninstall
    PROVE  LedgerInv'
<1>. USE DEF LedgerInv, WUninstall, host, lists, engine, control, counters
<1>1. RoutesTyped'
  BY DEF Finish, RoutesTyped
<1>2. Places'
  BY DEF Finish, Places, CommonPlaces
<1>3. Gone' /\ Owned' /\ Intended' /\ ForeignApart'
  BY DEF Finish, Gone, Own, Owned, LedgerCovers, Intended, ForeignApart
<1>4. Listed' /\ Fresh' /\ Cleared' /\ Adapter'
  BY DEF Finish, Listed, Lists, Fresh, Cleared, Adapter
<1>. QED
  BY <1>1, <1>2, <1>3, <1>4

-----------------------------------------------------------------------------
\* The books, all steps together.

\* The books agree after every step.
LEMMA LedgerStep ==
    ASSUME NoOverlap, LedgerInv, [RoutesNext]_vars
    PROVE  LedgerInv'
<1>1. CASE UNCHANGED vars
  <2>. USE <1>1 DEF vars, host, lists, engine, control, counters, LedgerInv
  <2>1. RoutesTyped' /\ Places'
    BY DEF RoutesTyped, Places
  <2>2. Gone' /\ Owned' /\ Listed' /\ Intended' /\ ForeignApart'
    BY DEF Gone, Own, Owned, LedgerCovers, Listed, Lists, Intended, Matches, ForeignApart
  <2>3. Fresh' /\ Cleared'
    BY SamePlan DEF Fresh, Installing, Matches, Cleared, Lists, Own
  <2>4. Adapter'
    BY SamePlan DEF Adapter
  <2>. QED
    BY <2>1, <2>2, <2>3, <2>4
<1>2. CASE UnixStep
  BY <1>2, CleanOneKeeps, CleanedKeeps, BringUpKeeps, StageKeeps, AddKeeps, AddFailsKeeps,
     UnstageKeeps, DeviceKeeps, ResidualKeeps, ReplanKeeps, InstallKeeps, Undo6Keeps,
     InstalledKeeps, SweepOneKeeps, SweepEndKeeps, RelinkKeeps, UnlinkKeeps DEF UnixStep
<1>3. CASE WindowsStep
  BY <1>3, WStageKeeps, WAddKeeps, WAddFailsKeeps, WSyncKeeps, WDropKeeps, WSyncedKeeps,
     WSweepOneKeeps, WSweepEndKeeps, WRemoveKeeps, WPinsKeeps, WServiceKeeps, WRoutesKeeps,
     WInstalledKeeps, WUninstallKeeps DEF WindowsStep
<1>4. CASE Arrives \/ WConfigure
  BY <1>4, StartKeeps, ConfigureKeeps, RecoverKeeps, DownKeeps, CrashKeeps, RoamKeeps,
     OperatorRemovesLinkKeeps, WConfigureKeeps DEF Arrives
<1>. QED
  BY <1>1, <1>2, <1>3, <1>4 DEF RoutesNext, EngineStep

\* The books agree before the first start.
LEMMA LedgerInit == InitRoutes => LedgerInv
<1>. SUFFICES ASSUME InitRoutes PROVE LedgerInv
  OBVIOUS
<1>. USE DEF InitRoutes
<1>1. ASSUME NEW k \in kernel PROVE k \in Entries /\ ~k.own /\ k.via # Tunnel
  <2>1. PICK f \in Foreign : kernel = {[to |-> r.to, via |-> r.via, own |-> FALSE] : r \in f}
    OBVIOUS
  <2>2. PICK r \in f : k = [to |-> r.to, via |-> r.via, own |-> FALSE]
    BY <2>1
  <2>3. k.via \in Gateways(network) /\ network \in Networks
    OBVIOUS
  <2>4. k.via \in Ways /\ k.via # Tunnel
    BY <2>3, RoutesAssumption DEF Ways, Gateways, Tunnel
  <2>5. r.to \in Destinations
    BY <2>1, <2>2 DEF Destinations
  <2>. QED
    BY <2>2, <2>4, <2>5 DEF Entries
<1>2. RoutesTyped
  BY <1>1 DEF RoutesTyped
<1>3. Places /\ Gone /\ Listed /\ Intended /\ Fresh /\ Adapter
  BY DEF Places, CommonPlaces, Gone, Listed, Intended, Fresh, Adapter
<1>4. Owned /\ ForeignApart /\ Cleared
  BY <1>1 DEF Owned, LedgerCovers, Own, ForeignApart, Cleared
<1>. QED
  BY <1>2, <1>3, <1>4 DEF LedgerInv

\* No step but the removal of a predecessor's leftovers takes a route of somebody else.
LEMMA ForeignStep ==
    ASSUME LedgerInv, [RoutesNext]_vars, network' = network, at # "clean", NEW k \in kernel, ~k.own
    PROVE  k \in kernel'
<1>. USE DEF LedgerInv
<1>1. CASE Cleaned
  BY <1>1 DEF Cleaned
<1>2. CASE BringUp
  BY <1>2 DEF BringUp
<1>3. CASE Stage
  BY <1>3 DEF Stage
<1>4. CASE Add
  BY <1>4 DEF Add, Programs
<1>5. CASE AddFails
  BY <1>5 DEF AddFails
<1>6. CASE Unstage
  BY <1>6, Dropped DEF Unstage, Deletes, Fails, OffTunnel, ForeignApart, Places, CommonPlaces,
     WindowsPlaces
<1>7. CASE Device
  BY <1>7 DEF Device, Fails, OffTunnel, host, ForeignApart
<1>8. CASE Residual
  BY <1>8, Dropped DEF Residual, Deletes, Places, CommonPlaces, WindowsPlaces
<1>9. CASE Replan
  BY <1>9 DEF Replan, Fails, OffTunnel, ForeignApart
<1>10. CASE Install
  BY <1>10 DEF Install
<1>11. CASE Undo6
  BY <1>11, Dropped DEF Undo6, Deletes, host, Places, CommonPlaces, WindowsPlaces
<1>12. CASE Installed
  BY <1>12 DEF Installed, host
<1>13. CASE SweepOne
  BY <1>13, Dropped DEF SweepOne, Deletes
<1>14. CASE SweepEnd
  BY <1>14 DEF SweepEnd, Fails, OffTunnel, ForeignApart
<1>15. CASE Relink
  BY <1>15 DEF Relink, host
<1>16. CASE Unlink
  BY <1>16 DEF Unlink, OffTunnel, ForeignApart
<1>17. CASE WStage
  BY <1>17 DEF WStage, WEach
<1>18. CASE WAdd
  BY <1>18 DEF WAdd
<1>19. CASE WAddFails
  BY <1>19 DEF WAddFails
<1>20. CASE WSync
  BY <1>20 DEF WSync
<1>21. CASE WDrop
  BY <1>21 DEF WDrop, Adapter, Without, Matches, ForeignApart
<1>22. CASE WSynced
  BY <1>22 DEF WSynced, host
<1>23. CASE WSweepOne
  BY <1>23 DEF WSweepOne, Cleared, Without, Matches, ForeignApart
<1>24. CASE WSweepEnd
  BY <1>24 DEF WSweepEnd
<1>25. CASE WRemove
  BY <1>25 DEF WRemove
<1>26. CASE WPins
  BY <1>26 DEF WPins, WEach
<1>27. CASE WService
  BY <1>27 DEF WService
<1>28. CASE WRoutes
  BY <1>28 DEF WRoutes, WEach
<1>29. CASE WInstalled
  BY <1>29 DEF WInstalled, host
<1>30. CASE WUninstall
  BY <1>30 DEF WUninstall
<1>31. CASE Start
  BY <1>31 DEF Start, host
<1>32. CASE Configure
  BY <1>32 DEF Configure, host
<1>33. CASE Recover
  BY <1>33 DEF Recover, host
<1>34. CASE Down
  BY <1>34 DEF Down, host
<1>35. CASE Crash
  BY <1>35 DEF Crash, DeviceDies, OffTunnel, ForeignApart
<1>36. CASE Roam
  BY <1>36 DEF Roam
<1>37. CASE OperatorRemovesLink
  BY <1>37 DEF OperatorRemovesLink, OffTunnel, ForeignApart
<1>38. CASE WConfigure
  BY <1>38 DEF WConfigure, host
<1>39. CASE UNCHANGED vars
  BY <1>39 DEF vars, host
<1>. QED
  BY <1>1, <1>2, <1>3, <1>4, <1>5, <1>6, <1>7, <1>8, <1>9, <1>10, <1>11, <1>12, <1>13, <1>14,
     <1>15, <1>16, <1>17, <1>18, <1>19, <1>20, <1>21, <1>22, <1>23, <1>24, <1>25, <1>26, <1>27,
     <1>28, <1>29, <1>30, <1>31, <1>32, <1>33, <1>34, <1>35, <1>36, <1>37, <1>38, <1>39
     DEF RoutesNext, EngineStep, UnixStep, WindowsStep, Arrives, CleanOne

-----------------------------------------------------------------------------
\* What "applied" and "pinned" promise on Unix.

\* What no step changes, or only one.
Fixes ==
    /\ UNCHANGED os
    /\ Roam \/ UNCHANGED network
    /\ Crash \/ UNCHANGED crashes
    /\ faults' \in {faults, faults + 1}

\* What no step changes, or only one.
LEMMA Fixed ==
    ASSUME [RoutesNext]_vars
    PROVE  Fixes
<1>. USE DEF Fixes, host, control, counters, NoFault, Fault, Persist
<1>1. CASE UnixStep
  <2>1. CASE CleanOne \/ Cleaned \/ BringUp
    BY <2>1 DEF CleanOne, Cleaned, BringUp
  <2>2. CASE Stage \/ Add \/ AddFails
    BY <2>2 DEF Stage, Intent, Add, Programs, AddFails
  <2>3. CASE Unstage
    BY <2>3 DEF Unstage, Drop
  <2>4. CASE Device
    BY <2>4 DEF Device
  <2>5. CASE Residual \/ SweepOne
    BY <2>5 DEF Residual, SweepOne, Drop
  <2>6. CASE Undo6
    BY <2>6 DEF Undo6, Drop
  <2>7. CASE Replan \/ Install \/ Installed
    BY <2>7 DEF Replan, Install, Intent, Installed
  <2>8. CASE SweepEnd \/ Relink \/ Unlink
    BY <2>8 DEF SweepEnd, Relink, Unlink
  <2>. QED
    BY <1>1, <2>1, <2>2, <2>3, <2>4, <2>5, <2>6, <2>7, <2>8 DEF UnixStep
<1>2. CASE WindowsStep
  <2>1. CASE WStage \/ WPins \/ WRoutes
    BY <2>1 DEF WStage, WPins, WRoutes, WEach, WIntent
  <2>2. CASE WAdd \/ WAddFails \/ WSync \/ WDrop \/ WSynced
    BY <2>2 DEF WAdd, WAddFails, WSync, WDrop, WSynced
  <2>3. CASE WSweepOne \/ WSweepEnd \/ WRemove
    BY <2>3 DEF WSweepOne, WSweepEnd, WRemove
  <2>4. CASE WService \/ WInstalled \/ WUninstall
    BY <2>4 DEF WService, WInstalled, WUninstall
  <2>. QED
    BY <1>2, <2>1, <2>2, <2>3, <2>4 DEF WindowsStep
<1>3. CASE Arrives \/ WConfigure
  <2>1. CASE Roam
    BY <2>1 DEF Roam
  <2>2. CASE Crash
    BY <2>2 DEF Crash
  <2>3. CASE Start \/ Configure \/ Recover \/ Down \/ OperatorRemovesLink \/ WConfigure
    BY <2>3 DEF Start, Configure, Recover, Down, OperatorRemovesLink, WConfigure
  <2>. QED
    BY <1>3, <2>1, <2>2, <2>3 DEF Arrives
<1>. QED
  BY <1>1, <1>2, <1>3 DEF RoutesNext, EngineStep, vars

\* Pins are those of a configuration,
LEMMA SamePins ==
    /\ call' = call => DesiredPins(call)' = DesiredPins(call)
    /\ dev' = dev => DesiredPins(dev)' = DesiredPins(dev)
    /\ dev' = call => DesiredPins(dev)' = DesiredPins(call)
BY DEF DesiredPins

\* and a plan is that of a configuration, a system and a network.
LEMMA SamePlans ==
    /\ UNCHANGED <<os, network, cfg>> => Plan(cfg)' = Plan(cfg)
    /\ UNCHANGED <<os, network, call>> => Plan(call)' = Plan(call)
    /\ UNCHANGED <<os, network>> /\ cfg' = call => Plan(cfg)' = Plan(call)
<1>1. UNCHANGED <<os, network>> => PhysicalPath' = PhysicalPath
  BY DEF PhysicalPath
<1>2. ASSUME UNCHANGED <<os, network, cfg>> PROVE Plan(cfg)' = Plan(cfg)
  BY <1>1, <1>2 DEF Plan
<1>3. ASSUME UNCHANGED <<os, network, call>> PROVE Plan(call)' = Plan(call)
  BY <1>1, <1>3 DEF Plan
<1>4. ASSUME UNCHANGED <<os, network>>, cfg' = call PROVE Plan(cfg)' = Plan(call)
  BY <1>1, <1>4 DEF Plan
<1>. QED
  BY <1>2, <1>3, <1>4

\* Whether two configurations ask for the same routes is theirs alone (unixTunnelRouteInputsEqual),
LEMMA SameCompared ==
    UNCHANGED <<cfg, call>> => (SameRoutes(cfg, call)' <=> SameRoutes(cfg, call))
BY DEF SameRoutes

\* and where they do, they have the same plan.
LEMMA PlanCompared ==
    ASSUME SameRoutes(cfg, call)
    PROVE  Plan(cfg) = Plan(call)
BY DEF SameRoutes, Plan

\* Where nothing is going on, there is nothing to keep.
LEMMA Rests ==
    ASSUME LedgerInv', os # "windows", os' = os, at' \in {"down", "clean", "bringUp"},
            applied' = FALSE,
           mode' = "none", added' = {}, at' # "down" => outcome' # "ok"
    PROVE  UnixPlan'
<1>1. owners' = {}
  BY DEF LedgerInv, Gone
<1>2. Unapplied'
  BY DEF Unapplied, Applying, Installing, Refreshed
<1>3. Modes'
  BY DEF Modes, Refreshed
<1>4. Pinning'
  BY DEF Pinning, Applying, Installing, Refreshed
<1>5. PinsThere' /\ PlanThere'
  BY <1>1 DEF PinsThere, PlanThere, Installing
<1>. QED
  BY <1>2, <1>3, <1>4, <1>5 DEF UnixPlan

\* What has just been said of such a state.
LEMMA StillRests ==
    ASSUME UnixPlan, RoutesTyped, at \in {"down", "clean", "bringUp"}
    PROVE  applied = FALSE /\ mode = "none" /\ added = {}
BY DEF UnixPlan, Unapplied, Modes, Pinning

LEMMA StartHolds ==
    ASSUME LedgerInv, LedgerInv', UnixPlan, os # "windows", Start
    PROVE  UnixPlan'
BY StillRests, Rests DEF Start, host, engine, LedgerInv

LEMMA CleanOneHolds ==
    ASSUME LedgerInv, LedgerInv', UnixPlan, os # "windows", CleanOne
    PROVE  UnixPlan'
BY StillRests, Rests DEF CleanOne, Exit, Forget, engine, LedgerInv, UnixPlan, Modes

LEMMA CleanedHolds ==
    ASSUME LedgerInv, LedgerInv', UnixPlan, os # "windows", Cleaned
    PROVE  UnixPlan'
BY StillRests, Rests DEF Cleaned, Exit, Forget, engine, LedgerInv, UnixPlan, Modes

LEMMA OperatorRemovesLinkHolds ==
    ASSUME LedgerInv, LedgerInv', UnixPlan, os # "windows", OperatorRemovesLink
    PROVE  UnixPlan'
BY StillRests, Rests DEF OperatorRemovesLink, engine, control, LedgerInv

LEMMA CrashHolds ==
    ASSUME LedgerInv', UnixPlan, os # "windows", Crash
    PROVE  UnixPlan'
BY Rests DEF Crash, Exit, Forget

LEMMA UnlinkHolds ==
    ASSUME LedgerInv', UnixPlan, os # "windows", Unlink
    PROVE  UnixPlan'
BY Rests DEF Unlink, Exit, Forget

LEMMA BringUpHolds ==
    ASSUME LedgerInv, LedgerInv', UnixPlan, os # "windows", BringUp
    PROVE  UnixPlan'
<1>1. applied = FALSE /\ mode = "none" /\ added = {} /\ at = "bringUp" /\ outcome # "ok"
  BY StillRests DEF LedgerInv, UnixPlan, Modes, BringUp
<1>2. CASE at' = "down"
  BY <1>1, <1>2, Rests DEF BringUp, Exit, Forget
<1>3. CASE at' # "down"
  <2>1. /\ at' = "idle"
        /\ UNCHANGED <<lists, engine, mode, call, todo, cur, ret, added, after, err, tries,
                         outcome, moved>>
    BY <1>3 DEF BringUp, Exit
  <2>2. owners' = {}
    BY <1>1, <2>1 DEF LedgerInv, Gone, lists
  <2>3. Unapplied' /\ Modes'
    BY <1>1, <2>1 DEF Unapplied, Applying, Installing, Refreshed, Modes, engine
  <2>4. Pinning'
    BY <1>1, <2>1 DEF Pinning, Applying, Installing, Refreshed, engine
  <2>5. PinsThere' /\ PlanThere'
    BY <1>1, <2>1, <2>2 DEF PinsThere, PlanThere, Installing, engine
  <2>. QED
    BY <2>3, <2>4, <2>5 DEF UnixPlan
<1>. QED
  BY <1>2, <1>3

LEMMA ConfigureHolds ==
    ASSUME NoOverlap, LedgerInv, LedgerInv', UnixPlan, os # "windows", Configure
    PROVE  UnixPlan'
<1>. USE DEF UnixPlan, LedgerInv, RoutesTyped, Places, CommonPlaces, UnixPlaces
<1>1. Unapplied'
  BY  DEF Configure, engine, Unapplied, Applying, Installing, Refreshed
<1>2. Modes'
  BY SameCompared DEF Configure, engine, Modes, Staging, Refreshed
<1>3. Pinning'
  BY SamePins DEF Configure, host, lists, engine, Pinning, Applying, Installing, Refreshed
<1>4. PinsThere'
  BY  DEF Configure, host, lists, PinsThere, Present
<1>5. PlanThere'
  BY SamePlans DEF Configure, host, lists, engine, PlanThere, Installing, Done, Present
<1>. QED
  BY <1>1, <1>2, <1>3, <1>4, <1>5

LEMMA RecoverHolds ==
    ASSUME NoOverlap, LedgerInv, LedgerInv', UnixPlan, os # "windows", Recover
    PROVE  UnixPlan'
<1>. USE DEF UnixPlan, LedgerInv, RoutesTyped, Places, CommonPlaces, UnixPlaces
<1>1. Unapplied'
  BY  DEF Recover, Sweep, Unapplied, Applying, Installing, Refreshed
<1>2. Modes'
  BY SameCompared DEF Recover, Sweep, Modes, Refreshed
<1>3. Pinning'
  BY SamePins DEF Recover, Sweep, Pinning, Applying, Installing, Refreshed
<1>4. PinsThere'
  BY  DEF Recover, host, lists, PinsThere, Present
<1>5. PlanThere'
  BY SamePlans DEF Recover, Sweep, PlanThere, Installing
<1>. QED
  BY <1>1, <1>2, <1>3, <1>4, <1>5

LEMMA DownHolds ==
    ASSUME NoOverlap, LedgerInv, LedgerInv', UnixPlan, os # "windows", Down
    PROVE  UnixPlan'
<1>. USE DEF UnixPlan, LedgerInv, RoutesTyped, Places, CommonPlaces, UnixPlaces
<1>1. Unapplied'
  BY  DEF Down, Sweep, Unapplied, Applying, Installing, Refreshed
<1>2. Modes'
  BY SameCompared DEF Down, Sweep, Modes, Refreshed
<1>3. Pinning'
  BY SamePins DEF Down, Sweep, Pinning, Applying, Installing, Refreshed
<1>4. PinsThere'
  BY  DEF Down, host, lists, counters, PinsThere, Present
<1>5. PlanThere'
  BY SamePlans DEF Down, Sweep, PlanThere, Installing
<1>. QED
  BY <1>1, <1>2, <1>3, <1>4, <1>5

LEMMA RoamHolds ==
    ASSUME NoOverlap, LedgerInv, LedgerInv', UnixPlan, os # "windows", Roam
    PROVE  UnixPlan'
<1>. USE DEF UnixPlan, LedgerInv, RoutesTyped, Places, CommonPlaces, UnixPlaces
<1>1. Unapplied'
  BY  DEF Roam, engine, control, Unapplied, Applying, Installing, Refreshed
<1>2. Modes'
  BY SameCompared DEF Roam, engine, control, Modes, Refreshed
<1>3. Pinning'
  BY SamePins DEF Roam, lists, engine, control, Pinning, Applying, Installing, Refreshed
<1>4. PinsThere'
  BY  DEF Roam, PinsThere
<1>5. PlanThere'
  BY SamePlans DEF Roam, control, PlanThere, Installing
<1>. QED
  BY <1>1, <1>2, <1>3, <1>4, <1>5

LEMMA InstalledHolds ==
    ASSUME NoOverlap, LedgerInv, LedgerInv', UnixPlan, os # "windows", Installed
    PROVE  UnixPlan'
<1>. USE DEF UnixPlan, LedgerInv, RoutesTyped, Places, CommonPlaces, UnixPlaces
<1>1. Unapplied'
  BY  DEF Installed, Finish, Unapplied, Applying, Installing
<1>2. Modes'
  BY SameCompared DEF Installed, Finish, Modes, Refreshed
<1>3. Pinning'
  BY SamePins DEF Installed, Finish, host, lists, Pinning, Applying, Installing, Refreshed
<1>4. PinsThere'
  BY  DEF Installed, host, lists, counters, PinsThere, Present
<1>5. PlanThere'
  BY SamePlans DEF Installed, Finish, host, lists, PlanThere, Installing, Done, Present
<1>. QED
  BY <1>1, <1>2, <1>3, <1>4, <1>5

LEMMA RelinkHolds ==
    ASSUME NoOverlap, LedgerInv, LedgerInv', UnixPlan, os # "windows", Relink
    PROVE  UnixPlan'
<1>. USE DEF UnixPlan, LedgerInv, RoutesTyped, Places, CommonPlaces, UnixPlaces
<1>1. Unapplied'
  BY  DEF Relink, Finish, engine, Unapplied, Applying, Installing, Refreshed
<1>2. Modes'
  BY SameCompared DEF Relink, Finish, engine, Modes, Staging, Refreshed
<1>3. Pinning'
  BY SamePins DEF Relink, Finish, host, lists, engine, Pinning, Applying, Installing, Refreshed
<1>4. PinsThere'
  BY  DEF Relink, host, lists, PinsThere, Present
<1>5. PlanThere'
  BY SamePlans DEF Relink, Finish, host, lists, engine, PlanThere, Installing, Done, Present
<1>. QED
  BY <1>1, <1>2, <1>3, <1>4, <1>5

LEMMA ReplanHolds ==
    ASSUME NoOverlap, LedgerInv, LedgerInv', UnixPlan, os # "windows", Replan
    PROVE  UnixPlan'
<1>. USE DEF UnixPlan, LedgerInv, RoutesTyped, Places, CommonPlaces, UnixPlaces
<1>1. Unapplied'
  BY  DEF Replan, Fails, Finish, Unapplied, Applying, Installing
<1>2. Modes'
  BY SameCompared DEF Replan, Fails, Finish, Sweep, Modes, Refreshed
<1>3. Pinning'
  BY SamePins DEF Replan, Fails, Finish, Sweep, lists, Pinning, Applying, Installing, Refreshed,
     Staging
<1>4. /\ at = "residual" /\ at' \in {"idle", "sweep"} /\ applied' \in {applied, FALSE}
      /\ UNCHANGED <<os, network, owners, routed, residual, pinned, cfg, moved>>
      /\ kernel' = kernel \/ (mode = "recover" /\ kernel' = OffTunnel)
  BY DEF Replan, Fails, Finish, Sweep, lists, counters
<1>5. PinsThere'
  <2>1. \A o : o.via # Tunnel /\ Present(o) => Present(o)'
    BY <1>4 DEF Present, OffTunnel, Matches
  <2>. QED
    BY <1>4, <2>1 DEF PinsThere
<1>6. PlanThere'
  <2>1. applied' => applied
    BY DEF Replan, Fails, Sweep
  <2>2. applied => kernel' = kernel
    BY <1>4 DEF Unapplied
  <2>3. ~Installing' /\ at' # "undo6"
    BY <1>4 DEF Installing
  <2>4. Plan(cfg)' = Plan(cfg)
    BY <1>4, SamePlans
  <2>. QED
    BY <1>4, <2>1, <2>2, <2>3, <2>4 DEF PlanThere, Done, Present
<1>. QED
  BY <1>1, <1>2, <1>3, <1>5, <1>6

\* A route deleted, seen from the pins,
LEMMA DeletedPins ==
    ASSUME PinsThere, NEW to, NEW ok \in BOOLEAN, Deletes(to, ok), pinned' \subseteq pinned,
            moved' = moved
    PROVE  PinsThere'
<1>1. ASSUME NEW o \in owners', o.to \in pinned', ~moved'
      PROVE  o.via # Tunnel /\ Present(o)'
  <2>1. o.via # Tunnel /\ Present(o)
    BY <1>1 DEF PinsThere, Deletes
  <2>2. PICK k \in kernel : Matches(k, o)
    BY <2>1 DEF Present
  <2>3. k \in kernel'
    BY <1>1, <2>2 DEF Deletes, Matches
  <2>. QED
    BY <2>1, <2>2, <2>3 DEF Present, Matches
<1>. QED
  BY <1>1 DEF PinsThere

\* and from the plan.
LEMMA DeletedDone ==
    ASSUME NEW to, NEW ok \in BOOLEAN, Deletes(to, ok), residual' \subseteq residual \cup {to},
           NEW i, Done(i), i.rank = 4 \/ i.to # to
    PROVE  Done(i)'
<1>1. CASE i.rank = 4
  BY <1>1 DEF Done
<1>2. CASE i.rank # 4
  <2>1. PICK k \in kernel : Matches(k, Route(i.to, i.via))
    BY <1>2 DEF Done, Present
  <2>2. k \in kernel'
    BY <1>2, <2>1 DEF Deletes, Matches, Route
  <2>. QED
    BY <1>2, <2>1, <2>2 DEF Done, Present, Matches, Route
<1>. QED
  BY <1>1, <1>2

LEMMA StageHolds ==
    ASSUME NoOverlap, LedgerInv, LedgerInv', UnixPlan, os # "windows", Stage
    PROVE  UnixPlan'
<1>. USE DEF UnixPlan, LedgerInv, RoutesTyped, Places, CommonPlaces, UnixPlaces, engine
<1>1. /\ at = "stage"
      /\ UNCHANGED <<os, network, kernel, link, dev, routed, residual, pinned, engine, mode,
                   call, todo, added, after, err, tries, outcome, budget, calls, crashes, roams,
                           moved>>
  BY StageEffect
<1>2. CASE at' \in {"device", "unstage"} /\ UNCHANGED <<disk, owners, cur, ret>>
            /\ (at' = "device" => DesiredPins(call) \subseteq pinned)
  <2>1. Unapplied' /\ Modes'
    BY <1>1, <1>2, SameCompared DEF Unapplied, Applying, Installing, Refreshed, Modes, Staging
  <2>2. Pinning'
    BY <1>1, <1>2, SamePins DEF Pinning, Applying, Installing, Refreshed, Staging
  <2>3. PinsThere'
    BY <1>1, <1>2 DEF PinsThere, Present
  <2>4. PlanThere'
    BY <1>1, <1>2, SamePlans DEF PlanThere, Installing, Done, Present
  <2>. QED
    BY <2>1, <2>2, <2>3, <2>4
<1>3. ASSUME NEW r \in Routes, Records(r, "stage"), r.to \notin Lists, r.via \notin {Tunnel, Null}
      PROVE  UnixPlan'
  <2>1. /\ at' = "add" /\ cur' = r /\ ret' = "stage" /\ owners' = owners \cup {r}
    BY <1>3 DEF Records
  <2>2. Unapplied' /\ Modes'
    BY <1>1, <2>1, SameCompared DEF Unapplied, Applying, Installing, Refreshed, Modes, Staging
  <2>3. Pinning'
    BY <1>1, <1>3, <2>1, SamePins DEF Pinning, Applying, Installing, Refreshed, Staging
  <2>4. PinsThere'
    BY <1>1, <1>3, <2>1 DEF PinsThere, Present, Lists
  <2>5. PlanThere'
    BY <1>1, <2>1, SamePlans DEF PlanThere, Installing, Done, Present
  <2>. QED
    BY <2>2, <2>3, <2>4, <2>5
<1>. QED
  BY <1>2, <1>3, StageEffect

LEMMA AddHolds ==
    ASSUME NoOverlap, LedgerInv, LedgerInv', UnixPlan, os # "windows", Add
    PROVE  UnixPlan'
<1>. USE DEF UnixPlan, LedgerInv, engine
<1>1. PICK k \in Entries :
                /\ kernel' = kernel \cup {k} /\ k.own /\ k.to = cur.to /\ k.via = cur.via
  BY AddEffect
<1>2. /\ at = "add" /\ ret \in {"stage", "install"} /\ cur.to \notin Lists /\ cur \in owners
      /\ at' = ret /\ cur' = Nil /\ ret' = "none"
      /\ UNCHANGED <<os, network, link, dev, disk, owners, residual, applied, scrubbed, cfg, mode,
              call,
                   after, err, tries, outcome, budget, calls, faults, crashes, roams, moved>>
  BY AddEffect DEF Places
<1>3. \A o : Present(o) => Present(o)'
  BY <1>1 DEF Present
<1>4. \A o : Matches(cur, o) => Present(o)'
  BY <1>1 DEF Present, Matches
<1>5. \A i : Done(i) => Done(i)'
  BY <1>2, <1>3 DEF Done
<1>6. \A o \in owners : o.to = cur.to => o = cur
  BY <1>2 DEF Owned
<1>7. CASE ret = "stage"
  <2>1. pinned' = pinned \cup {cur.to} /\ UNCHANGED <<routed, todo>> /\ added' = added \cup {cur.to}
    BY <1>7, AddEffect
  <2>2. cur.to \in Endpoints /\ cur.via # Tunnel
    BY <1>2, <1>7 DEF Fresh, Pinning
  <2>3. Unapplied' /\ Modes'
    BY <1>2, <1>7, SameCompared DEF Unapplied, Applying, Installing, Refreshed, Modes, Staging
  <2>4. Pinning'
    BY <1>2, <1>7, <2>1, <2>2, SamePins DEF Pinning, Applying, Installing, Refreshed, Staging, Lists
  <2>5. PinsThere'
    BY <1>2, <1>3, <1>4, <1>6, <2>1, <2>2 DEF PinsThere, Matches
  <2>6. PlanThere'
    BY <1>2, <1>5, <1>7, SamePlans DEF PlanThere, Installing
  <2>. QED
    BY <2>3, <2>4, <2>5, <2>6
<1>8. CASE ret = "install"
  <2>1. pinned' = pinned /\ todo' = {i \in todo : ~Matches(i, cur)} /\ ~applied
    BY <1>2, <1>8, AddEffect DEF Unapplied, Installing
  <2>3. Unapplied' /\ Modes'
    BY <1>2, <1>8, <2>1, SameCompared DEF Unapplied, Applying, Installing, Refreshed, Modes, Staging
  <2>4. Pinning'
    BY <1>2, <1>8, <2>1, SamePins DEF Pinning, Applying, Installing, Refreshed, Staging
  <2>5. PinsThere'
    BY <1>2, <1>3, <2>1 DEF PinsThere
  <2>6. \A i \in Plan(call) \ todo' : Done(i)'
    <3>1. TAKE i \in Plan(call) \ todo'
    <3>2. CASE i \notin todo
      BY <1>2, <1>5, <1>8, <3>2 DEF PlanThere, Installing
    <3>3. CASE i \in todo
      <4>1. Matches(i, cur)
        BY <2>1, <3>3
      <4>2. Matches(cur, Route(i.to, i.via))
        BY <4>1 DEF Matches, Route
      <4>. QED
        BY <1>2, <1>4, <4>1, <4>2 DEF Done, Matches, Lists
    <3>. QED
      BY <3>2, <3>3
  <2>7. PlanThere'
    BY <1>2, <1>8, <2>1, <2>6, SamePlans DEF PlanThere, Installing
  <2>. QED
    BY <2>3, <2>4, <2>5, <2>7
<1>. QED
  BY <1>2, <1>7, <1>8

\* What a loop does about a route it could not install.
LEMMA RecoversHolds ==
    ASSUME NoOverlap, LedgerInv, UnixPlan, os # "windows", NEW back \in {"stage", "install"},
           Recovers(back), at = "add" \/ at = back, at = "add" => ret = back, at # "add"
                   => ret = "none",
           back = "install" => todo # {}, ret' = "none",
           UNCHANGED <<os, network, link, dev, kernel, routed, residual, pinned, scrubbed, cfg,
                   mode, call,
                       added, outcome, moved>>,
           owners' \subseteq owners
    PROVE  UnixPlan'
<1>. USE DEF UnixPlan, LedgerInv, RoutesTyped
<1>1. PinsThere'
  BY DEF PinsThere, Present
<1>2. CASE back = "stage"
  <2>1. at' = "unstage" /\ UNCHANGED <<todo, after, err, tries, applied>>
    BY <1>2 DEF Recovers
  <2>2. Unapplied' /\ Modes'
    BY <1>2, <2>1, SameCompared DEF Unapplied, Applying, Installing, Refreshed, Modes, Staging
  <2>3. Pinning'
    BY <1>2, <2>1, SamePins DEF Pinning, Applying, Installing, Refreshed, Staging
  <2>4. PlanThere'
    BY <1>2, <2>1, SamePlans DEF PlanThere, Installing, Done, Present
  <2>. QED
    BY <1>1, <2>2, <2>3, <2>4
<1>3. CASE back = "install" /\ (\A i \in Next1(todo) : i.rank = 4)
  <2>1. /\ at' = "undo6" /\ todo' = {i \in todo : i.rank > 4}
        /\ UNCHANGED <<after, err, tries, applied>>
    BY <1>3 DEF Recovers
  <2>2. Installing /\ todo \subseteq Plan(call) /\ call \in Asked
    BY <1>3 DEF Installing, Fresh, Asked
  <2>3. \A i \in Plan(call) : i.rank \in 1 .. 6
    BY <2>2, PlanFacts
  <2>4. PICK f \in todo : f.rank = 4 /\ \A i \in todo : f.rank <= i.rank
    BY <1>3, <2>2, <2>3, SomeFirst DEF Next1
  <2>5. call.kill /\ call.v6 /\ call.default
    BY <2>2, <2>4, PlanFacts
  <2>6. \A i \in Plan(call) \ todo' : Done(i)
    <3>1. TAKE i \in Plan(call) \ todo'
    <3>2. i \notin todo \/ i.rank = 4
      BY <2>1, <2>3, <2>4
    <3>. QED
      BY <2>2, <3>2 DEF PlanThere, Done
  <2>7. Unapplied' /\ Modes'
    BY <1>3, <2>1, <2>2, SameCompared DEF Unapplied, Applying, Installing, Refreshed, Modes, Staging
  <2>8. Pinning'
    BY <1>3, <2>1, <2>2, SamePins DEF Pinning, Applying, Installing, Refreshed, Staging
  <2>9. PlanThere'
    BY <2>1, <2>2, <2>5, <2>6, SamePlans DEF PlanThere, Unapplied, Done, Present
  <2>. QED
    BY <1>1, <2>7, <2>8, <2>9
<1>4. CASE back = "install" /\ ~(\A i \in Next1(todo) : i.rank = 4)
  <2>1. at' = "sweep" /\ after' = "failed" /\ tries' = 1 /\ err' = FALSE /\ applied' = FALSE
    BY <1>4 DEF Recovers, Sweep
  <2>2. Installing
    BY <1>4 DEF Installing
  <2>3. Unapplied' /\ Modes'
    BY <1>4, <2>1, <2>2, SameCompared DEF Unapplied, Applying, Installing, Refreshed, Modes, Staging
  <2>4. Pinning' /\ PlanThere'
    BY <2>1 DEF Pinning, Applying, Installing, Refreshed, Staging, PlanThere
  <2>. QED
    BY <1>1, <2>3, <2>4
<1>. QED
  BY <1>2, <1>3, <1>4

LEMMA AddFailsHolds ==
    ASSUME NoOverlap, LedgerInv, LedgerInv', UnixPlan, os # "windows", AddFails
    PROVE  UnixPlan'
<1>1. ret \in {"stage", "install"} /\ at = "add" /\ (ret = "install" => todo # {})
  BY AddFailsEffect DEF LedgerInv, Places, Fresh
<1>. QED
  BY <1>1, AddFailsEffect, RecoversHolds

LEMMA InstallHolds ==
    ASSUME NoOverlap, LedgerInv, LedgerInv', UnixPlan, os # "windows", Install
    PROVE  UnixPlan'
<1>. USE DEF UnixPlan, LedgerInv
<1>1. /\ at = "install" /\ todo # {} /\ ret = "none"
      /\ UNCHANGED <<os, network, kernel, link, dev, routed, residual, pinned, scrubbed, cfg,
                   mode, call, added, outcome, budget, calls, crashes, roams, moved>>
  BY InstallEffect DEF Places
<1>2. CASE Recovers("install") /\ UNCHANGED <<cur, ret, owners, disk>>
  BY <1>1, <1>2, RecoversHolds
<1>3. ASSUME NEW r \in Routes, Records(r, "install"), r.to \notin Lists, r.to \notin Endpoints,
             UNCHANGED <<todo, after, err, tries, applied>>
      PROVE  UnixPlan'
  <2>1. at' = "add" /\ cur' = r /\ ret' = "install" /\ owners' = owners \cup {r}
    BY <1>3 DEF Records
  <2>2. Unapplied' /\ Modes'
    BY <1>1, <1>3, <2>1, SameCompared DEF Unapplied, Applying, Installing, Refreshed, Modes, Staging
  <2>3. Pinning'
    BY <1>1, <1>3, <2>1, SamePins DEF Pinning, Applying, Installing, Refreshed, Staging
  <2>4. PinsThere'
    BY <1>1, <1>3, <2>1 DEF PinsThere, Present, Lists
  <2>5. PlanThere'
    BY <1>1, <1>3, <2>1, SamePlans DEF PlanThere, Installing, Done, Present, RoutesTyped
  <2>. QED
    BY <2>2, <2>3, <2>4, <2>5
<1>. QED
  BY <1>2, <1>3, InstallEffect

LEMMA UnstageHolds ==
    ASSUME NoOverlap, LedgerInv, LedgerInv', UnixPlan, os # "windows", Unstage
    PROVE  UnixPlan'
<1>. USE DEF UnixPlan, LedgerInv, RoutesTyped
<1>1. at = "unstage"
  BY DEF Unstage
<1>2. CASE added = {}
  <2>1. /\ at' = "idle" /\ outcome' = "error" /\ mode' = "none" /\ added' = {} /\ ret' = "none"
        /\ UNCHANGED <<os, network, owners, routed, residual, pinned, applied, scrubbed, cfg,
                moved>>
        /\ dev' = dev \/ dev' = Nil
        /\ kernel' = kernel \/ (mode = "recover" /\ kernel' = OffTunnel)
    BY <1>2 DEF Unstage, Fails, Finish, lists, engine
  <2>2. Unapplied' /\ Modes'
    BY <1>1, <2>1 DEF Unapplied, Applying, Installing, Refreshed, Modes, Staging
  <2>3. Pinning'
    BY <1>1, <2>1, SamePins DEF Pinning, Applying, Installing, Refreshed, Staging
  <2>4. \A o : o.via # Tunnel /\ Present(o) => Present(o)'
    BY <2>1 DEF Present, OffTunnel, Matches
  <2>5. PinsThere'
    BY <2>1, <2>4 DEF PinsThere
  <2>6. applied => kernel' = kernel
    BY <2>1 DEF Unapplied
  <2>7. PlanThere'
    BY <2>1, <2>6, SamePlans DEF PlanThere, Installing, Done, Present
  <2>. QED
    BY <2>2, <2>3, <2>5, <2>7
<1>3. CASE added # {}
  <2>1. PICK to \in added, ok \in BOOLEAN :
              /\ Deletes(to, ok) /\ Unlist(to, ok) /\ added' = added \ {to}
              /\ UNCHANGED <<engine, at, mode, call, todo, cur, ret, after, err, tries, outcome,
                      moved>>
    BY <1>1, <1>3, Dropped DEF Unstage
  <2>2. to \in Endpoints /\ UNCHANGED <<os, network, dev, applied, scrubbed, cfg>>
    BY <1>1, <2>1 DEF Pinning, Staging, Deletes, engine
  <2>3. pinned \ {to} \subseteq pinned' /\ pinned' \subseteq pinned /\ residual' \subseteq residual
    BY <2>1 DEF Unlist
  <2>4. Unapplied' /\ Modes'
    BY <1>1, <2>1, <2>2, SameCompared DEF Unapplied, Applying, Installing, Refreshed, Modes, Staging
  <2>5. Pinning'
    BY <1>1, <2>1, <2>2, <2>3, SamePins DEF Pinning, Applying, Installing, Refreshed, Staging
  <2>6. PinsThere'
    BY <2>1, <2>3, DeletedPins
  <2>7. \A i \in Plan(cfg) : Done(i) => Done(i)'
    BY <2>1, <2>2, <2>3, DeletedDone, PlanFacts DEF Asked
  <2>8. PlanThere'
    BY <1>1, <2>1, <2>2, <2>7, SamePlans DEF PlanThere, Installing
  <2>. QED
    BY <2>4, <2>5, <2>6, <2>8
<1>. QED
  BY <1>2, <1>3

LEMMA DeviceHolds ==
    ASSUME NoOverlap, LedgerInv, LedgerInv', UnixPlan, os # "windows", Device
    PROVE  UnixPlan'
<1>. USE DEF UnixPlan, LedgerInv, RoutesTyped
<1>1. at = "device"
        /\ UNCHANGED <<os, network, owners, routed, residual, pinned, applied, cfg, moved>>
  BY DEF Device, lists, Fails, host
<1>2. CASE /\ at' = "unstage"
           /\ UNCHANGED <<host, scrubbed, todo, added, mode, call, cur, ret, after, err,
                         tries, outcome>>
  <2>1. Unapplied' /\ Modes'
    BY <1>1, <1>2, SameCompared DEF Unapplied, Applying, Installing, Refreshed, Modes, Staging
  <2>2. Pinning'
    BY <1>1, <1>2, SamePins DEF Pinning, Applying, Installing, Refreshed, Staging, host
  <2>3. PinsThere'
    BY <1>1, <1>2 DEF PinsThere, Present, host
  <2>4. PlanThere'
    BY <1>1, <1>2, SamePlans DEF PlanThere, Installing, Done, Present, host
  <2>. QED
    BY <2>1, <2>2, <2>3, <2>4
<1>3. CASE /\ at' = "idle" /\ outcome' = "error" /\ mode' = "none" /\ added' = {} /\ ret' = "none"
           /\ UNCHANGED scrubbed
           /\ dev' \in {dev, call, Nil}
           /\ kernel' = kernel \/ (mode = "recover" /\ kernel' = OffTunnel)
  <2>1. Unapplied' /\ Modes'
    BY <1>1, <1>3 DEF Unapplied, Applying, Installing, Refreshed, Modes, Staging
  <2>2. Pinning'
    BY <1>1, <1>3, SamePins DEF Pinning, Applying, Installing, Refreshed, Staging
  <2>3. \A o : o.via # Tunnel /\ Present(o) => Present(o)'
    BY <1>3 DEF Present, OffTunnel, Matches
  <2>4. PinsThere'
    BY <1>1, <2>3 DEF PinsThere
  <2>5. applied => kernel' = kernel
    BY <1>3 DEF Unapplied
  <2>6. PlanThere'
    BY <1>1, <1>3, <2>5, SamePlans DEF PlanThere, Installing, Done, Present
  <2>. QED
    BY <2>1, <2>2, <2>4, <2>6
<1>4. CASE /\ dev' = call /\ scrubbed' = TRUE
           /\ kernel' = IF scrubbed THEN kernel
                       ELSE {k \in kernel : k.to \notin V4 \cup V6 \/ k.via # Tunnel}
           /\ at' = "residual" /\ todo' = residual /\ added' = {}
           /\ UNCHANGED <<os, network, link, disk, mode, call, cur, ret, after, err, tries,
                         outcome>>
  <2>1. Unapplied' /\ Modes'
    BY <1>1, <1>4, SameCompared DEF Unapplied, Applying, Installing, Refreshed, Modes, Staging
  <2>2. Pinning'
    BY <1>1, <1>4, SamePins DEF Pinning, Applying, Installing, Refreshed, Staging
  <2>3. \A o : o.via # Tunnel /\ Present(o) => Present(o)'
    BY <1>4 DEF Present, Matches
  <2>4. PinsThere'
    BY <1>1, <2>3 DEF PinsThere
  <2>5. applied => kernel' = kernel
    BY <1>4 DEF Unapplied
  <2>6. PlanThere'
    BY <1>1, <1>4, <2>5, SamePlans DEF PlanThere, Installing, Done, Present
  <2>. QED
    BY <2>1, <2>2, <2>4, <2>6
<1>. QED
  BY <1>2, <1>3, <1>4 DEF Device, Fails, Finish

LEMMA ResidualHolds ==
    ASSUME NoOverlap, LedgerInv, LedgerInv', UnixPlan, os # "windows", Residual
    PROVE  UnixPlan'
<1>. USE DEF UnixPlan, LedgerInv, RoutesTyped
<1>1. at = "residual"
  BY DEF Residual
<1>2. PICK to \in todo, ok \in BOOLEAN : Deletes(to, ok) /\ Unlist(to, ok) /\ todo' = todo \ {to}
  BY <1>1, Dropped DEF Residual
<1>3. UNCHANGED <<engine, at, mode, call, cur, ret, added, after, tries, outcome, moved>>
  BY DEF Residual
<1>4. to \in residual /\ to \notin Endpoints
        /\ UNCHANGED <<os, network, dev, applied, scrubbed, cfg>>
  BY <1>1, <1>2, <1>3 DEF Pinning, Deletes, engine
<1>5. /\ residual' \subseteq residual /\ pinned' = pinned
      /\ ok => residual' = residual \ {to}
  BY <1>2, <1>4 DEF Unlist
<1>6. Unapplied' /\ Modes'
  BY <1>1, <1>3, <1>4, SameCompared DEF Unapplied, Applying, Installing, Refreshed, Modes, Staging
<1>7. Pinning'
  BY <1>1, <1>2, <1>3, <1>4, <1>5, SamePins DEF Pinning, Applying, Installing, Refreshed, Staging,
     Unlist
<1>8. PinsThere'
  BY <1>2, <1>3, <1>5, DeletedPins
<1>9. \A i : Done(i) => Done(i)'
  BY <1>2, <1>4, <1>5, DeletedDone DEF Done
<1>10. PlanThere'
  BY <1>1, <1>3, <1>4, <1>9, SamePlans DEF PlanThere, Installing
<1>. QED
  BY <1>6, <1>7, <1>8, <1>10

LEMMA SweepOneHolds ==
    ASSUME NoOverlap, LedgerInv, LedgerInv', UnixPlan, os # "windows", SweepOne
    PROVE  UnixPlan'
<1>. USE DEF UnixPlan, LedgerInv, RoutesTyped
<1>1. at = "sweep"
  BY DEF SweepOne
<1>2. PICK to \in todo, ok \in BOOLEAN : Deletes(to, ok) /\ Unlist(to, ok) /\ todo' = todo \ {to}
  BY <1>1, Dropped DEF SweepOne, Earliest
<1>3. UNCHANGED <<engine, at, mode, call, cur, ret, added, after, tries, outcome, moved>>
  BY DEF SweepOne
<1>4. UNCHANGED <<os, network, dev, applied, scrubbed, cfg>>
  BY <1>2, <1>3 DEF Deletes, engine
<1>5. residual' \subseteq residual /\ pinned' \subseteq pinned /\ pinned \ {to} \subseteq pinned'
  BY <1>2 DEF Unlist
<1>6. Unapplied' /\ Modes'
  BY <1>1, <1>3, <1>4, SameCompared DEF Unapplied, Applying, Installing, Refreshed, Modes, Staging
<1>7. Pinning'
  BY <1>1, <1>2, <1>3, <1>4, <1>5, SamePins DEF Pinning, Applying, Installing, Refreshed, Staging,
     Unlist, Unapplied
<1>8. PinsThere'
  BY <1>2, <1>3, <1>5, DeletedPins
<1>9. CASE Refreshed
  <2>1. to \in Endpoints
    BY <1>2, <1>9 DEF Pinning
  <2>2. \A i \in Plan(cfg) : Done(i) => Done(i)'
    BY <1>2, <1>4, <1>5, <2>1, DeletedDone, PlanFacts DEF Asked
  <2>3. PlanThere'
    BY <1>1, <1>3, <1>4, <2>2, SamePlans DEF PlanThere, Installing
  <2>. QED
    BY <1>6, <1>7, <1>8, <2>3
<1>10. CASE ~Refreshed
  <2>1. PlanThere'
    BY <1>1, <1>3, <1>4, <1>10 DEF PlanThere, Installing, Refreshed, Unapplied
  <2>. QED
    BY <1>6, <1>7, <1>8, <2>1
<1>. QED
  BY <1>9, <1>10

LEMMA Undo6Holds ==
    ASSUME NoOverlap, LedgerInv, LedgerInv', UnixPlan, os # "windows", Undo6
    PROVE  UnixPlan'
<1>. USE DEF UnixPlan, LedgerInv, RoutesTyped
<1>1. /\ at = "undo6" /\ Installing
      /\ UNCHANGED <<engine, mode, call, todo, cur, ret, after, err, tries, outcome, moved>>
  BY DEF Undo6, Installing
<1>2. CASE added = {}
  <2>1. at' = "install" /\ UNCHANGED <<host, lists, added>>
    BY <1>2 DEF Undo6
  <2>2. Unapplied' /\ Modes'
    BY <1>1, <2>1, SameCompared DEF Unapplied, Applying, Installing, Refreshed, Modes, Staging,
       engine
  <2>3. Pinning'
    BY <1>1, <2>1, SamePins DEF Pinning, Applying, Installing, Refreshed, Staging, engine, host,
       lists
  <2>4. PinsThere'
    BY <1>1, <2>1 DEF PinsThere, Present, host, lists
  <2>5. PlanThere'
    BY <1>1, <2>1, SamePlans DEF PlanThere, Unapplied, Installing, Done, Present, engine, host,
       lists
  <2>. QED
    BY <2>2, <2>3, <2>4, <2>5
<1>3. CASE added # {}
  <2>1. PICK to \in added, ok \in BOOLEAN :
              /\ Deletes(to, ok) /\ added' = added \ {to} /\ UNCHANGED <<at, pinned>>
              /\ residual' = IF ok THEN residual ELSE residual \cup {to}
    BY <1>1, <1>3, Dropped DEF Undo6
  <2>2. UNCHANGED <<os, network, dev, applied, scrubbed, cfg>>
          /\ residual' \subseteq residual \cup {to}
    BY <1>1, <2>1 DEF Deletes, engine
  <2>3. Unapplied' /\ Modes'
    BY <1>1, <2>1, <2>2, SameCompared DEF Unapplied, Applying, Installing, Refreshed, Modes, Staging
  <2>4. Pinning'
    BY <1>1, <2>1, <2>2, SamePins DEF Pinning, Applying, Installing, Refreshed, Staging
  <2>5. PinsThere'
    BY <1>1, <2>1, DeletedPins
  <2>6. to \in V6 /\ call.kill /\ call.v6 /\ call.default /\ call \in Asked
    BY <1>1, <2>1 DEF Fresh, PlanThere, Asked
  <2>7. \A i \in Plan(call) : i.rank = 4 \/ i.to # to
    BY <2>6, PlanFacts
  <2>8. \A i \in Plan(call) : Done(i) => Done(i)'
    BY <2>1, <2>2, <2>7, DeletedDone
  <2>9. PlanThere'
    BY <1>1, <2>1, <2>2, <2>6, <2>8, SamePlans DEF PlanThere, Unapplied
  <2>. QED
    BY <2>3, <2>4, <2>5, <2>9
<1>. QED
  BY <1>2, <1>3

LEMMA SweepEndHolds ==
    ASSUME NoOverlap, LedgerInv, LedgerInv', UnixPlan, os # "windows", SweepEnd
    PROVE  UnixPlan'
<1>. USE DEF UnixPlan, LedgerInv, RoutesTyped
<1>1. /\ at = "sweep" /\ todo = {}
      /\ UNCHANGED <<os, network, disk, lists, applied, scrubbed>>
  BY DEF SweepEnd
<1>2. /\ after \in {"install", "failed", "refreshed", "stop", "rebuild"}
      /\ after \in {"stop", "rebuild"} => tries \in 1 .. 3
      /\ ret = "none"
  BY <1>1 DEF Places
<1>3. after # "refreshed" => ~applied /\ ~applied'
  BY <1>1 DEF Unapplied
<1>4. CASE after = "install" /\ ~err
  <2>1. /\ at' = "install" /\ todo' = Plan(call) /\ added' = {}
        /\ UNCHANGED <<kernel, link, dev, cfg, mode, call, cur, ret, err, outcome, moved>>
    BY <1>1, <1>4 DEF SweepEnd
  <2>2. Unapplied' /\ Modes'
    BY <1>1, <1>3, <1>4, <2>1, SameCompared DEF Unapplied, Applying, Installing, Refreshed, Modes,
       Staging
  <2>3. Pinning'
    BY <1>1, <1>2, <1>3, <1>4, <2>1, SamePins DEF Pinning, Applying, Installing, Refreshed,
       Staging, lists
  <2>4. PinsThere'
    BY <1>1, <2>1 DEF PinsThere, Present, lists
  <2>5. PlanThere'
    BY <1>1, <1>3, <1>4, <2>1, SamePlans DEF PlanThere, Installing
  <2>. QED
    BY <2>2, <2>3, <2>4, <2>5
<1>5. CASE (after = "install" /\ err) \/ after = "failed" \/ (after = "rebuild" /\ err /\ tries = 1)
  <2>. DEFINE Ends ==
        /\ at' = "idle" /\ ret' = "none" /\ mode' = "none" /\ added' = {} /\ outcome' = "error"
                /\ moved' = moved
        /\ kernel' = kernel \/ kernel' = OffTunnel
  <2>1. ASSUME (after = "install" /\ err) \/ after = "failed" PROVE Ends
    BY <1>1, <2>1 DEF SweepEnd, Fails, Finish
  <2>2. ASSUME after = "rebuild", err, tries = 1 PROVE Ends
    <3>1. ~(tries > 1)
      BY <2>2
    <3>. QED
      BY <1>1, <2>2, <3>1 DEF SweepEnd, Finish
  <2>3. Ends
    BY <1>5, <2>1, <2>2
  <2>4. ~applied'
    BY <1>3, <1>5
  <2>5. Unapplied' /\ Modes'
    BY <2>3, <2>4 DEF Unapplied, Applying, Installing, Refreshed, Modes, Staging
  <2>6. Pinning'
    BY <2>3, <2>4 DEF Pinning, Applying, Installing, Refreshed, Staging
  <2>7. \A o : o.via # Tunnel /\ Present(o) => Present(o)'
    BY <2>3 DEF Present, OffTunnel, Matches
  <2>8. PinsThere' /\ PlanThere'
    BY <1>1, <2>3, <2>4, <2>7 DEF PinsThere, PlanThere, Installing, lists
  <2>. QED
    BY <2>5, <2>6, <2>8
<1>6. CASE after = "refreshed"
  <2>1. /\ at' = "idle" /\ ret' = "none" /\ mode' = "none" /\ added' = {} /\ outcome' = "ok"
          /\ moved' = moved
        /\ cfg' = call /\ UNCHANGED <<kernel, link, dev>>
    BY <1>1, <1>6 DEF SweepEnd, Finish
  <2>2. Refreshed
    BY <1>1, <1>6 DEF Refreshed
  <2>3. SameRoutes(cfg, call) /\ applied /\ Plan(cfg) = Plan(call)
    BY <2>2, PlanCompared DEF Modes
  <2>4. Unapplied' /\ Modes'
    BY <1>1, <2>1, <2>2, <2>3 DEF Unapplied, Applying, Installing, Refreshed, Modes, Staging
  <2>5. Pinning'
    BY <1>1, <2>1, <2>2, SamePins DEF Pinning, Applying, Installing, Refreshed, Staging, lists
  <2>6. PinsThere'
    BY <1>1, <2>1 DEF PinsThere, Present, lists
  <2>7. PlanThere'
    BY <1>1, <2>1, <2>3, SamePlans DEF PlanThere, Installing, Done, Present, lists
  <2>. QED
    BY <2>4, <2>5, <2>6, <2>7
<1>7. CASE after \in {"stop", "rebuild"} /\ err /\ tries > 1
  <2>1. /\ Sweep(after, {}, tries - 1)
        /\ UNCHANGED <<kernel, link, dev, cfg, mode, call, cur, ret, added, outcome, moved>>
    <3>1. CASE after = "stop"
      BY <1>1, <1>7, <3>1 DEF SweepEnd
    <3>2. CASE after = "rebuild"
      <4>1. tries # 1
        BY <1>7
      <4>. QED
        BY <1>1, <1>7, <3>2, <4>1 DEF SweepEnd
    <3>. QED
      BY <1>7, <3>1, <3>2
  <2>2. at' = "sweep" /\ after' = after
    BY <2>1 DEF Sweep
  <2>3. Unapplied' /\ Modes'
    BY <1>1, <1>3, <1>7, <2>1, <2>2, SameCompared DEF Unapplied, Applying, Installing, Refreshed,
       Modes, Staging
  <2>4. Pinning'
    BY <1>1, <1>3, <1>7, <2>1, <2>2 DEF Pinning, Applying, Installing, Refreshed, Staging
  <2>5. PinsThere' /\ PlanThere'
    BY <1>1, <1>3, <1>7, <2>1, <2>2 DEF PinsThere, PlanThere, Installing, Present, lists
  <2>. QED
    BY <2>3, <2>4, <2>5
<1>8. CASE after = "rebuild" /\ ~err
  <2>1. /\ at' = "relink" /\ link' = FALSE /\ dev' = Nil /\ kernel' = OffTunnel
        /\ moved' = FALSE
        /\ UNCHANGED <<cfg, mode, call, todo, cur, ret, added, err, outcome>>
    BY <1>1, <1>8 DEF SweepEnd
  <2>2. Unapplied' /\ Modes'
    BY <1>1, <1>3, <1>8, <2>1, SameCompared DEF Unapplied, Applying, Installing, Refreshed, Modes,
       Staging
  <2>3. Pinning'
    BY <1>1, <1>3, <1>8, <2>1 DEF Pinning, Applying, Installing, Refreshed, Staging
  <2>4. pinned' = {}
    BY <1>1, <1>8 DEF Cleared, Lists, lists
  <2>5. PinsThere' /\ PlanThere'
    BY <1>3, <1>8, <2>1, <2>4 DEF PinsThere, PlanThere, Installing
  <2>. QED
    BY <2>2, <2>3, <2>5
<1>9. CASE after = "stop" /\ ~(err /\ tries > 1)
  <2>1. /\ at' = "unlink"
        /\ UNCHANGED <<kernel, link, dev, cfg, mode, call, todo, cur, ret, added, err,
                             outcome, moved>>
    BY <1>1, <1>9 DEF SweepEnd
  <2>2. Unapplied' /\ Modes'
    BY <1>1, <1>3, <1>9, <2>1, SameCompared DEF Unapplied, Applying, Installing, Refreshed, Modes,
       Staging
  <2>3. Pinning'
    BY <1>1, <1>3, <1>9, <2>1 DEF Pinning, Applying, Installing, Refreshed, Staging
  <2>4. PinsThere' /\ PlanThere'
    BY <1>1, <1>3, <1>9, <2>1 DEF PinsThere, PlanThere, Installing, Present, lists
  <2>. QED
    BY <2>2, <2>3, <2>4
<1>10. (after = "rebuild" /\ err) => tries = 1 \/ tries > 1
  BY <1>2
<1>. QED
  BY <1>2, <1>4, <1>5, <1>6, <1>7, <1>8, <1>9, <1>10

-----------------------------------------------------------------------------
\* What the adapter's routes are on Windows.

\* A step that keeps what holds on Windows: without conditions, and when the host
\* does not come back to a gateway it has left.
AdapterGoesOn == LiveAdapter' /\ (StillThere /\ NoReturn => StillThere')

\* With no adapter up, and no route added, there is nothing to keep on Windows,
LEMMA AdapterRests ==
    ASSUME LedgerInv', LiveAdapter, at' \in {"down", "clean", "bringUp"}, kernel' \subseteq kernel
    PROVE  AdapterGoesOn
BY DEF LedgerInv, Gone, LiveAdapter, StillThere, AdapterGoesOn

\* nor after a step that touches neither the table nor the owners.
LEMMA AdapterStill ==
    ASSUME LiveAdapter, UNCHANGED <<os, kernel, owners, network>>, at # "add",
           at' \notin {"add", "wpins", "wservice", "wsync"}
    PROVE  AdapterGoesOn
BY DEF LiveAdapter, StillThere, AdapterGoesOn, Present, Gateways

LEMMA StartAdapter ==
    ASSUME LedgerInv', LiveAdapter, Start
    PROVE  AdapterGoesOn
BY AdapterRests DEF Start, host

LEMMA CleanOneAdapter ==
    ASSUME LedgerInv', LiveAdapter, CleanOne
    PROVE  AdapterGoesOn
BY AdapterRests DEF CleanOne, Exit, Without

LEMMA CleanedAdapter ==
    ASSUME LedgerInv', LiveAdapter, Cleaned
    PROVE  AdapterGoesOn
BY AdapterRests DEF Cleaned, Exit

LEMMA CrashAdapter ==
    ASSUME LedgerInv', LiveAdapter, Crash
    PROVE  AdapterGoesOn
BY AdapterRests DEF Crash, Exit, DeviceDies, OffTunnel

LEMMA UnlinkAdapter ==
    ASSUME LedgerInv', LiveAdapter, Unlink
    PROVE  AdapterGoesOn
BY AdapterRests DEF Unlink, Exit, OffTunnel

LEMMA BringUpAdapter ==
    ASSUME LedgerInv, LedgerInv', LiveAdapter, BringUp
    PROVE  AdapterGoesOn
<1>1. CASE at' = "down"
  BY <1>1, AdapterRests DEF BringUp
<1>2. CASE at' # "down"
  BY <1>2, AdapterStill DEF BringUp, Exit, lists
<1>. QED
  BY <1>1, <1>2

LEMMA DownAdapter ==
    ASSUME LiveAdapter, Down
    PROVE  AdapterGoesOn
BY AdapterStill DEF Down, Sweep, host, lists, counters

LEMMA WConfigureAdapter ==
    ASSUME LiveAdapter, WConfigure
    PROVE  AdapterGoesOn
BY AdapterStill DEF WConfigure, WClear, host

LEMMA WSyncAdapter ==
    ASSUME LiveAdapter, WSync
    PROVE  AdapterGoesOn
BY AdapterStill DEF WSync, WClear

LEMMA WSyncedAdapter ==
    ASSUME LiveAdapter, WSynced
    PROVE  AdapterGoesOn
BY AdapterStill DEF WSynced, Finish, host, lists, counters

LEMMA WSweepEndAdapter ==
    ASSUME LiveAdapter, WSweepEnd
    PROVE  AdapterGoesOn
<1>1. /\ at = "sweep" /\ UNCHANGED <<os, kernel, owners, network>>
      /\ at' \in {"sweep", "idle", "wremove", "unlink", "wuninstall"}
  BY DEF WSweepEnd, WClear, Finish
<1>. QED
  BY <1>1, AdapterStill

LEMMA WServiceAdapter ==
    ASSUME LiveAdapter, WService
    PROVE  AdapterGoesOn
BY AdapterStill DEF WService, WClear

LEMMA WInstalledAdapter ==
    ASSUME LiveAdapter, WInstalled
    PROVE  AdapterGoesOn
BY AdapterStill DEF WInstalled, Finish, host, lists, counters

LEMMA WUninstallAdapter ==
    ASSUME LiveAdapter, WUninstall
    PROVE  AdapterGoesOn
BY AdapterStill DEF WUninstall, Finish, lists

LEMMA WRemoveAdapter ==
    ASSUME LiveAdapter, WRemove
    PROVE  AdapterGoesOn
<1>1. CASE at' = "idle"
  BY <1>1, AdapterStill DEF WRemove, lists
<1>2. CASE at' # "idle"
  <2>1. /\ at' = "wpins" /\ todo' = PinRoutes(call)
        /\ UNCHANGED <<os, kernel, owners, network, call>> /\ at = "wremove"
    BY <1>2 DEF WRemove, Finish, lists
  <2>. QED
    BY <2>1, SamePlan DEF LiveAdapter, StillThere, AdapterGoesOn, Present, Gateways
<1>. QED
  BY <1>1, <1>2

LEMMA RoamAdapter ==
    ASSUME LiveAdapter, Roam
    PROVE  AdapterGoesOn
<1>1. /\ at = "idle" /\ network' # network
      /\ kernel' = {k \in kernel : k.via \in {Tunnel, Null} \cup Gateways(network')}
      /\ UNCHANGED <<os, owners, at>>
  BY DEF Roam, lists, control
<1>2. ASSUME os = "windows", StillThere, NoReturn, NEW o \in owners
      PROVE  Present(o)' \/ o.via \notin Gateways(network') \cup {Null}
  <2>1. CASE ~Present(o)
    BY <1>1, <1>2, <2>1 DEF StillThere, NoReturn
  <2>2. CASE Present(o)
    BY <1>1, <2>2 DEF Present, Matches
  <2>. QED
    BY <2>1, <2>2
<1>3. Gateways(network)' = Gateways(network')
  BY DEF Gateways
<1>. QED
  BY <1>1, <1>2, <1>3 DEF LiveAdapter, StillThere, AdapterGoesOn

LEMMA WAddAdapter ==
    ASSUME LedgerInv, LedgerInv', LiveAdapter, WAdd
    PROVE  AdapterGoesOn
<1>. USE DEF LedgerInv
<1>. DEFINE k == [to |-> cur.to, via |-> cur.via, own |-> TRUE]
<1>1. /\ at = "add" /\ os = "windows" /\ kernel' = kernel \cup {k} /\ at' = ret /\ ret' = "none"
      /\ todo' = {i \in todo : ~Matches(i, cur)}
      /\ UNCHANGED <<os, network, call, owners>>
  BY DEF WAdd, lists
<1>2. k.to = cur.to /\ k.via = cur.via
  OBVIOUS
<1>3. ret \in {"wstage", "wpins", "wroutes"}
  BY <1>1 DEF Places
<1>. HIDE DEF k
<1>4. \A o : Present(o) \/ Matches(o, cur) => Present(o)'
  BY <1>1, <1>2 DEF Present, Matches
<1>5. \A j \in kernel' : j.via # Tunnel
  BY <1>1, <1>2 DEF LiveAdapter
<1>6. ASSUME at' = "wpins" PROVE \A r \in PinRoutes(call)' \ todo' : Present(r)'
  <2>1. PinRoutes(call)' = PinRoutes(call)
    BY <1>1, SamePlan
  <2>. QED
    BY <1>1, <1>4, <1>6, <2>1 DEF LiveAdapter
<1>7. ASSUME StillThere, NEW o \in owners'
      PROVE  Present(o)' \/ o.via \notin Gateways(network)' \cup {Null}
  <2>1. Gateways(network)' = Gateways(network)
    BY <1>1 DEF Gateways
  <2>2. Matches(cur, cur)
    BY DEF Matches
  <2>. QED
    BY <1>1, <1>4, <1>7, <2>1, <2>2 DEF StillThere
<1>. QED
  BY <1>1, <1>3, <1>5, <1>6, <1>7 DEF LiveAdapter, StillThere, AdapterGoesOn

LEMMA WAddFailsAdapter ==
    ASSUME LedgerInv, LiveAdapter, WAddFails
    PROVE  AdapterGoesOn
<1>1. /\ at = "add" /\ owners' = owners \ {cur} /\ at' = "sweep"
      /\ UNCHANGED <<os, network, kernel>>
  BY DEF WAddFails, Abandon, WClear
<1>. QED
  BY <1>1 DEF LiveAdapter, StillThere, AdapterGoesOn, Present, Gateways

\* A route deleted from the adapter takes no other with it.
LEMMA WithoutAdapter ==
    ASSUME LedgerInv, LiveAdapter, at \in {"wdrop", "sweep"}, at' = at, NEW r \in owners,
           UNCHANGED <<os, network>>,
           \/ kernel' = Without(r) /\ owners' = owners \ {r}
           \/ UNCHANGED <<kernel, owners>>
    PROVE  AdapterGoesOn
<1>1. CASE UNCHANGED <<kernel, owners>>
  BY <1>1, AdapterStill
<1>2. CASE kernel' = Without(r) /\ owners' = owners \ {r}
  <2>1. ASSUME NEW o \in owners', Present(o) PROVE Present(o)'
    <3>1. PICK k \in kernel : Matches(k, o)
      BY <2>1 DEF Present
    <3>2. ~Matches(k, r)
      <4>1. o \in Routes /\ r \in Routes /\ o # r
        BY <1>2 DEF LedgerInv, RoutesTyped
      <4>. QED
        BY <3>1, <4>1, RouteEq DEF Matches
    <3>. QED
      BY <1>2, <3>1, <3>2 DEF Present, Without
  <2>. QED
    BY <1>2, <2>1 DEF LiveAdapter, StillThere, AdapterGoesOn, Without, Gateways
<1>. QED
  BY <1>1, <1>2

LEMMA WDropAdapter ==
    ASSUME LedgerInv, LiveAdapter, WDrop
    PROVE  AdapterGoesOn
<1>1. todo \subseteq owners
  BY DEF LedgerInv, Adapter, WDrop
<1>. QED
  BY <1>1, WithoutAdapter DEF WDrop

LEMMA WSweepOneAdapter ==
    ASSUME LedgerInv, LiveAdapter, WSweepOne
    PROVE  AdapterGoesOn
<1>1. todo \subseteq owners
  BY DEF LedgerInv, Cleared, WSweepOne
<1>. QED
  BY <1>1, WithoutAdapter DEF WSweepOne

LEMMA WEachAdapter ==
    ASSUME LedgerInv, LiveAdapter, NEW loop, NEW routes, NEW then, WEach(loop, routes, then),
            Offers(routes),
           loop # "add", then \notin {"add", "wpins"},
           \A r \in routes : r.via # Tunnel,
           then = "wsync" => routes = PinRoutes(call) \ owners,
           then = "wservice" => loop = "wpins" /\ routes = todo
    PROVE  AdapterGoesOn
<1>1. /\ at = loop
      /\ UNCHANGED <<os, network, kernel, call>>
  BY WEachEffect
<1>2. CASE UNCHANGED <<disk, owners, cur, ret>> /\ Abandon(loop)
  BY <1>1, <1>2, AdapterStill DEF Abandon, WClear
<1>3. CASE routes = {} /\ at' = then /\ UNCHANGED <<disk, owners, cur, ret, Loop>>
  BY <1>1, <1>3, SamePlan DEF LiveAdapter, StillThere, AdapterGoesOn, Present, Gateways
<1>4. ASSUME NEW q \in Routes, NEW r \in routes, q = Route(r.to, r.via), Records(q, loop),
        UNCHANGED Loop
      PROVE  AdapterGoesOn
  <2>1. at' = "add" /\ cur' = q /\ ret' = loop /\ owners' = owners \cup {q} /\ todo' = todo
          /\ q.via # Tunnel
    BY <1>4 DEF Records, Loop, Route
  <2>. QED
    BY <1>1, <2>1, SamePlan DEF LiveAdapter, StillThere, AdapterGoesOn, Present, Gateways
<1>. QED
  BY <1>2, <1>3, <1>4, WEachEffect

LEMMA WStageAdapter ==
    ASSUME LedgerInv, LiveAdapter, WStage
    PROVE  AdapterGoesOn
<1>1. WEach("wstage", PinRoutes(call) \ owners, "wsync")
  BY DEF WStage
<1>2. \A r \in PinRoutes(call) : r.via # Tunnel
  <2>1. Nil # Tunnel
    BY RoutesAssumption DEF Tunnel
  <2>. QED
    BY <2>1, PinFacts DEF LedgerInv, RoutesTyped, Asked
<1>. QED
  BY <1>1, <1>2, WStageEffect, WEachAdapter

LEMMA WPinsAdapter ==
    ASSUME LedgerInv, LiveAdapter, WPins
    PROVE  AdapterGoesOn
<1>1. WEach("wpins", todo, "wservice") /\ at = "wpins"
  BY DEF WPins, WEach
<1>2. \A r \in todo : r.via # Tunnel
  <2>1. Nil # Tunnel
    BY RoutesAssumption DEF Tunnel
  <2>. QED
    BY <1>1, <2>1, PinFacts DEF LedgerInv, RoutesTyped, Asked, Adapter
<1>. QED
  BY <1>1, <1>2, PinsOffered, WEachAdapter

LEMMA WRoutesAdapter ==
    ASSUME NoOverlap, LedgerInv, LiveAdapter, WRoutes
    PROVE  AdapterGoesOn
<1>1. WEach("wroutes", Next1(todo), "wdone") /\ at = "wroutes"
  BY DEF WRoutes, WEach
<1>2. \A r \in Next1(todo) : r.via # Tunnel
  <2>1. Nil # Tunnel
    BY RoutesAssumption DEF Tunnel
  <2>. QED
    BY <1>1, <2>1, ExtraTyped DEF LedgerInv, RoutesTyped, Asked, Adapter, ExtraFacts, Next1
<1>. QED
  BY <1>1, <1>2, ExtraOffered, WEachAdapter

-----------------------------------------------------------------------------
\* What "applied" promises on Windows.

\* What an adapter is to carry is that of a configuration, a system and a network.
LEMMA SameAdapter ==
    ASSUME UNCHANGED <<os, network>>
    PROVE  /\ cfg' = cfg => PinRoutes(cfg)' = PinRoutes(cfg) /\ Extra(cfg)' = Extra(cfg)
           /\ call' = call => PinRoutes(call)' = PinRoutes(call) /\ Extra(call)' = Extra(call)
           /\ cfg' = call => PinRoutes(cfg)' = PinRoutes(call) /\ Extra(cfg)' = Extra(call)
<1>1. PhysicalPath' = PhysicalPath
  BY DEF PhysicalPath
<1>2. ASSUME cfg' = cfg PROVE PinRoutes(cfg)' = PinRoutes(cfg) /\ Extra(cfg)' = Extra(cfg)
  BY <1>1, <1>2 DEF PinRoutes, Extra, DesiredPins
<1>3. ASSUME call' = call PROVE PinRoutes(call)' = PinRoutes(call) /\ Extra(call)' = Extra(call)
  BY <1>1, <1>3 DEF PinRoutes, Extra, DesiredPins
<1>4. ASSUME cfg' = call PROVE PinRoutes(cfg)' = PinRoutes(call) /\ Extra(cfg)' = Extra(call)
  BY <1>1, <1>4 DEF PinRoutes, Extra, DesiredPins
<1>. QED
  BY <1>2, <1>3, <1>4

\* Transport addresses are no part of what it carries besides its pins.
LEMMA SameExtra ==
    ASSUME LedgerInv, WithoutTransport(call) = WithoutTransport(cfg)
    PROVE  Extra(call) = Extra(cfg)
<1>1. ASSUME NEW c \in Configs \cup {Empty}
      PROVE  /\ WithoutTransport(c).default = c.default
             /\ WithoutTransport(c).direct = c.direct
             /\ WithoutTransport(c).block = c.block
  BY RoutesAssumption DEF WithoutTransport, Empty
<1>2. call.default = cfg.default /\ call.direct = cfg.direct /\ call.block = cfg.block
  BY <1>1 DEF LedgerInv, RoutesTyped
<1>. QED
  BY <1>2 DEF Extra

\* Where nothing is applied and nothing is being rebuilt, there is nothing to own.
LEMMA BooksRest ==
    ASSUME at' \in {"down", "clean", "bringUp", "idle"}, applied' = FALSE
    PROVE  AdapterBooks'
BY DEF AdapterBooks, AdapterStates, AdapterOwns, AppliedIsOwned, Refreshing, Reinstalling

LEMMA StartBooks ==
    ASSUME LedgerInv, AdapterBooks, os = "windows",
           CleanOne \/ Cleaned \/ BringUp \/ Unlink \/ Start \/ Crash
    PROVE  AdapterBooks'
<1>1. CASE CleanOne \/ Cleaned \/ BringUp \/ Start
  <2>1. applied = FALSE
    BY <1>1 DEF AdapterBooks, AdapterStates, CleanOne, Cleaned, BringUp, Start, LedgerInv,
       RoutesTyped
  <2>. QED
    BY <1>1, <2>1, BooksRest DEF CleanOne, Cleaned, BringUp, Start, Exit, Forget, engine
<1>2. CASE Unlink \/ Crash
  BY <1>2, BooksRest DEF Unlink, Crash, Exit, Forget
<1>. QED
  BY <1>1, <1>2

\* Between two calls: nothing changes, or the network does.
LEMMA CallBooks ==
    ASSUME LedgerInv, AdapterBooks, os = "windows", Down \/ Roam \/ WConfigure
    PROVE  AdapterBooks'
<1>. USE DEF AdapterBooks, AdapterStates, AdapterOwns, AppliedIsOwned, Refreshing, Reinstalling
<1>1. CASE Down
  BY <1>1 DEF Down
<1>2. CASE Roam
  BY <1>2 DEF Roam, control, lists, engine
<1>3. CASE WConfigure
  <2>1. /\ at = "idle" /\ UNCHANGED <<os, network, owners, applied, cfg, faults, moved, ret>>
        /\ \/ at' = "idle"
           \/ at' = "wstage" /\ applied /\ WithoutTransport(call') = WithoutTransport(cfg)
           \/ at' = "sweep" /\ after' = "remove" /\ err' = FALSE
    BY <1>3 DEF WConfigure, WClear, host, engine
  <2>2. WithoutTransport(call)' = WithoutTransport(call') /\ WithoutTransport(cfg)' =
            WithoutTransport(cfg)
    BY <2>1 DEF WithoutTransport
  <2>3. \A r : Has(r)' <=> Has(r)
    BY <2>1 DEF Has
  <2>. QED
    BY <2>1, <2>2, <2>3, SameAdapter
<1>. QED
  BY <1>1, <1>2, <1>3

\* One step of a loop that adds routes: it ends, it owns one more, or it gives up.
LEMMA WEachBooks ==
    ASSUME AdapterBooks, NEW loop, NEW routes, NEW then, WEach(loop, routes, then),
           Offers(routes), loop \in {"wstage", "wpins", "wroutes"},
           then = CASE loop = "wstage" -> "wsync" [] loop = "wpins" -> "wservice"
                    [] loop = "wroutes" -> "wdone",
           loop # "wstage" /\ routes = {} => todo = {}
    PROVE  AdapterBooks'
<1>. USE DEF AdapterBooks, AdapterStates, AdapterOwns, AppliedIsOwned, Refreshing, Reinstalling
<1>1. /\ at = loop
      /\ UNCHANGED <<os, network, applied, cfg, call, moved>>
  BY WEachEffect DEF engine
<1>2. faults' = faults \/ at' = "sweep"
  BY DEF WEach, WIntent, Persist, NoFault, Abandon, WClear
<1>3. /\ WithoutTransport(call)' = WithoutTransport(call)
      /\ WithoutTransport(cfg)' = WithoutTransport(cfg)
  BY <1>1 DEF WithoutTransport
<1>4. CASE UNCHANGED <<disk, owners, cur, ret>> /\ Abandon(loop)
  <2>1. at' = "sweep" /\ err' = FALSE
        /\ after' = CASE loop = "wstage" -> "remove" [] loop = "wpins" -> "failed"
                      [] OTHER -> "failedLive"
    BY <1>4 DEF Abandon, WClear
  <2>. QED
    BY <1>1, <2>1
<1>5. CASE routes = {} /\ at' = then /\ UNCHANGED <<disk, owners, cur, ret, Loop>>
  <2>1. \A r : Has(r)' <=> Has(r)
    BY <1>5 DEF Has
  <2>2. faults' = faults /\ todo' = todo
    BY <1>2, <1>5 DEF Loop
  <2>. QED
    BY <1>1, <1>3, <1>5, <2>1, <2>2, SameAdapter
<1>6. CASE at' = "add" /\ ret' = loop /\ owners \subseteq owners' /\ todo' = todo
  <2>1. \A r : Has(r) => Has(r)'
    BY <1>6 DEF Has
  <2>. QED
    BY <1>1, <1>2, <1>3, <1>6, <2>1, SameAdapter
<1>. QED
  BY <1>4, <1>5, <1>6, WEachEffect DEF Records, Loop

LEMMA WStageBooks ==
    ASSUME LedgerInv, AdapterBooks, WStage
    PROVE  AdapterBooks'
BY WStageEffect, WEachBooks DEF WStage

LEMMA WPinsBooks ==
    ASSUME LedgerInv, AdapterBooks, WPins
    PROVE  AdapterBooks'
<1>1. WEach("wpins", todo, "wservice") /\ at = "wpins"
  BY DEF WPins, WEach
<1>. QED
  BY <1>1, PinsOffered, WEachBooks

LEMMA WRoutesBooks ==
    ASSUME NoOverlap, LedgerInv, AdapterBooks, WRoutes
    PROVE  AdapterBooks'
<1>1. WEach("wroutes", Next1(todo), "wdone") /\ at = "wroutes"
  BY DEF WRoutes, WEach
<1>2. \A i \in todo : i.rank \in {5, 6}
  BY <1>1 DEF LedgerInv, Adapter, Extra, Item
<1>3. Next1(todo) = {} => todo = {}
  <2>1. ASSUME NEW i \in todo, i.rank = 5 PROVE i \in Next1(todo)
    BY <1>2, <2>1 DEF Next1
  <2>2. ASSUME NEW i \in todo, \A j \in todo : j.rank = 6 PROVE i \in Next1(todo)
    BY <2>2 DEF Next1
  <2>. QED
    BY <1>2, <2>1, <2>2
<1>. QED
  BY <1>1, <1>3, ExtraOffered, WEachBooks

\* The route that was to be added is there: what is left of its loop is less,
LEMMA WAddBooks ==
    ASSUME LedgerInv, AdapterBooks, WAdd
    PROVE  AdapterBooks'
<1>. USE DEF AdapterBooks, AdapterStates, AdapterOwns, AppliedIsOwned, Refreshing, Reinstalling
<1>1. /\ at = "add" /\ os = "windows" /\ at' = ret /\ ret' = "none"
      /\ todo' = {i \in todo : ~Matches(i, cur)}
      /\ UNCHANGED <<os, network, applied, cfg, call, moved, faults, owners>>
  BY DEF WAdd, lists, engine
<1>2. ret \in {"wstage", "wpins", "wroutes"}
  BY <1>1 DEF LedgerInv, Places
<1>3. /\ WithoutTransport(call)' = WithoutTransport(call)
      /\ WithoutTransport(cfg)' = WithoutTransport(cfg)
  BY <1>1 DEF WithoutTransport
<1>4. \A r : Has(r)' <=> Has(r)
  BY <1>1 DEF Has
<1>5. \A i : Matches(i, cur) => Has(i)
  <2>1. cur \in owners /\ cur \in Routes
    BY <1>1 DEF LedgerInv, Intended
  <2>2. cur = Route(cur.to, cur.via)
    BY <2>1 DEF Routes, Route
  <2>. QED
    BY <2>1, <2>2 DEF Matches, Has
<1>6. \A S : (\A i \in S \ todo : Has(i)) => \A i \in S \ todo' : Has(i)'
  BY <1>1, <1>4, <1>5
<1>7. CASE ret = "wstage"
  BY <1>1, <1>3, <1>4, <1>7, SameAdapter
<1>8. CASE ret = "wpins"
  BY <1>1, <1>4, <1>6, <1>8, SameAdapter
<1>9. CASE ret = "wroutes"
  BY <1>1, <1>4, <1>6, <1>9, SameAdapter
<1>. QED
  BY <1>2, <1>7, <1>8, <1>9

\* or it is refused, and the call gives up.
LEMMA WAddFailsBooks ==
    ASSUME LedgerInv, AdapterBooks, WAddFails
    PROVE  AdapterBooks'
<1>1. /\ at = "add" /\ os = "windows" /\ at' = "sweep" /\ err' = FALSE /\ applied' = applied
      /\ after' = CASE ret = "wstage" -> "remove" [] ret = "wpins" -> "failed"
                    [] OTHER -> "failedLive"
  BY DEF WAddFails, Abandon, WClear, engine
<1>2. ret \in {"wstage", "wpins", "wroutes"}
  BY <1>1 DEF LedgerInv, Places
<1>. QED
  BY <1>1, <1>2 DEF AdapterBooks, AdapterStates, AdapterOwns, AppliedIsOwned, Refreshing,
     Reinstalling

LEMMA WSyncBooks ==
    ASSUME LedgerInv, LiveAdapter, AdapterBooks, WSync
    PROVE  AdapterBooks'
<1>. USE DEF AdapterBooks, AdapterStates, AdapterOwns, AppliedIsOwned, Refreshing, Reinstalling
<1>1. /\ at = "wsync"
      /\ UNCHANGED <<os, network, applied, cfg, call, moved, owners>>
      /\ \/ at' = "wdrop" /\ todo' = Pins \ PinRoutes(call) /\ faults' = faults
         \/ at' = "sweep" /\ err' = FALSE /\ after' = "remove"
  BY DEF WSync, WClear, NoFault, engine
<1>2. /\ WithoutTransport(call)' = WithoutTransport(call)
      /\ WithoutTransport(cfg)' = WithoutTransport(cfg)
  BY <1>1 DEF WithoutTransport
<1>3. \A r : Has(r)' <=> Has(r)
  BY <1>1 DEF Has
<1>4. \A r \in PinRoutes(call) : Has(r)
  BY <1>1, PinFacts DEF LedgerInv, RoutesTyped, Asked, LiveAdapter, Has
<1>5. \A r \in Pins \ PinRoutes(call) : r.to \in Endpoints /\ r \notin PinRoutes(call)
  BY DEF Pins
<1>. QED
  BY <1>1, <1>2, <1>3, <1>4, <1>5, SameAdapter

\* A pin that is dropped is not one of those to keep, nor a direct route.
LEMMA WDropBooks ==
    ASSUME NoOverlap, LedgerInv, AdapterBooks, faults \in Nat, WDrop
    PROVE  AdapterBooks'
<1>. USE DEF AdapterBooks, AdapterStates, AdapterOwns, AppliedIsOwned, Refreshing, Reinstalling
<1>1. PICK r \in todo : /\ todo' = todo \ {r}
                        /\ \/ owners' = owners \ {r} /\ faults' = faults
                           \/ UNCHANGED owners /\ Fault
  BY DEF WDrop, NoFault
<1>2. /\ at = "wdrop" /\ at' = "wdrop"
      /\ UNCHANGED <<os, network, applied, cfg, call, moved>>
  BY DEF WDrop, engine
<1>3. /\ WithoutTransport(call)' = WithoutTransport(call)
      /\ WithoutTransport(cfg)' = WithoutTransport(cfg)
  BY <1>2 DEF WithoutTransport
<1>4. network \in Networks /\ call \in Asked
  BY DEF LedgerInv, RoutesTyped, Asked
<1>5. r.to \in Endpoints /\ r \notin PinRoutes(call)
  BY <1>1, <1>2
<1>6. \A q \in PinRoutes(call) : Has(q)'
  <2>1. \A q \in PinRoutes(call) : Has(q) /\ q = Route(q.to, q.via)
    BY <1>2, <1>4, PinFacts
  <2>. QED
    BY <1>1, <1>5, <2>1 DEF Has
<1>7. \A i \in Extra(call) : Has(i) => Has(i)'
  <2>1. \A i \in Extra(call) : i.to \notin Endpoints
    BY <1>4, ExtraTyped DEF ExtraFacts
  <2>2. \A i \in Extra(call) : Route(i.to, i.via) # r
    BY <1>5, <2>1 DEF Route
  <2>. QED
    BY <1>1, <2>2 DEF Has
<1>8. Extra(cfg) = Extra(call)
  BY <1>2, SameExtra
<1>9. applied' /\ ~moved' /\ faults' = 0 => \A i \in Extra(cfg) : Has(i)'
  BY <1>1, <1>2, <1>7, <1>8 DEF Fault
<1>10. PinRoutes(call)' = PinRoutes(call) /\ Extra(cfg)' = Extra(cfg)
  BY <1>2, SameAdapter
<1>. QED
  BY <1>1, <1>2, <1>3, <1>6, <1>9, <1>10

LEMMA WSyncedBooks ==
    ASSUME LedgerInv, AdapterBooks, WSynced
    PROVE  AdapterBooks'
<1>. USE DEF AdapterBooks, AdapterStates, AdapterOwns, AppliedIsOwned, Refreshing, Reinstalling
<1>1. /\ at = "wdrop" /\ at' = "idle" /\ cfg' = call
      /\ UNCHANGED <<os, network, applied, moved, faults, owners>>
  BY DEF WSynced, Finish, host, lists, counters
<1>2. \A r : Has(r)' <=> Has(r)
  BY <1>1 DEF Has
<1>3. Extra(cfg) = Extra(call)
  BY <1>1, SameExtra
<1>. QED
  BY <1>1, <1>2, <1>3, SameAdapter

LEMMA WSweepBooks ==
    ASSUME LedgerInv, AdapterBooks, faults \in Nat, WSweepOne \/ WSweepEnd
    PROVE  AdapterBooks'
<1>. USE DEF AdapterBooks, AdapterStates, AdapterOwns, AppliedIsOwned, Refreshing, Reinstalling
<1>1. CASE WSweepOne
  <2>1. /\ at = "sweep" /\ at' = "sweep" /\ after' = after /\ applied' = applied
        /\ (err' = err /\ faults' = faults) \/ faults' = faults + 1
    BY <1>1 DEF WSweepOne, NoFault, Fault, engine
  <2>. QED
    BY <2>1
<1>2. CASE WSweepEnd
  <2>1. PICK ok \in BOOLEAN :
          LET failed == err \/ ~ok
              again == failed /\ tries > 1
          IN /\ Persist(owners, ok)
             /\ CASE again ->
                      WClear(after, tries - 1) /\ UNCHANGED <<mode, call, cur, ret, added, outcome>>
                  [] ~again /\ (after = "failed" \/ (after = "remove" /\ failed)) ->
                      Finish("error")
                  [] OTHER ->
                      /\ at' = CASE after = "remove" -> "wremove"
                                 [] after = "stop" -> "unlink"
                                 [] OTHER -> "wuninstall"
                      /\ err' = failed /\ after' = "none" /\ tries' = 0
                      /\ UNCHANGED <<mode, call, todo, cur, ret, added, outcome>>
    BY <1>2 DEF WSweepEnd
  <2>2. at = "sweep" /\ os = "windows" /\ applied' = applied
    BY <1>2 DEF WSweepEnd, engine
  <2>3. after \in {"remove", "failed", "failedLive", "stop"}
    BY <2>2 DEF LedgerInv, Places
  <2>4. ok \/ faults' = faults + 1
    <3>1. Persist(owners, ok)
      BY <2>1
    <3>. QED
      BY <3>1 DEF Persist, Fault
  <2>5. err \/ ~ok => faults' # 0
    <3>1. faults' \in {faults, faults + 1}
      BY <1>2 DEF WSweepEnd, Persist, NoFault, Fault
    <3>. QED
      BY <2>2, <2>4, <3>1
  <2>6. CASE (err \/ ~ok) /\ tries > 1
    BY <2>1, <2>2, <2>6 DEF WClear
  <2>7. CASE ~((err \/ ~ok) /\ tries > 1) /\ (after = "failed" \/ (after = "remove" /\ (err \/ ~ok)))
    <3>1. at' = "idle"
      BY <2>1, <2>7 DEF Finish
    <3>2. ~applied' \/ faults' # 0
      BY <2>2, <2>5, <2>7
    <3>. QED
      BY <3>1, <3>2
  <2>8. CASE ~((err \/ ~ok) /\ tries > 1) /\ ~(after = "failed" \/ (after = "remove" /\ (err \/ ~ok)))
    <3>1. at' = CASE after = "remove" -> "wremove" [] after = "stop" -> "unlink"
                  [] OTHER -> "wuninstall"
      BY <2>1, <2>8
    <3>2. at' = "wuninstall" => ~applied
      BY <2>2, <2>3, <2>8, <3>1
    <3>. QED
      BY <2>2, <2>3, <3>1, <3>2
  <2>. QED
    BY <2>6, <2>7, <2>8
<1>. QED
  BY <1>1, <1>2

LEMMA WRemoveBooks ==
    ASSUME AdapterBooks, faults \in Nat, WRemove
    PROVE  AdapterBooks'
<1>. USE DEF AdapterBooks, AdapterStates, AdapterOwns, AppliedIsOwned, Refreshing, Reinstalling
<1>1. CASE at' = "idle"
  <2>1. faults' = faults + 1
    BY <1>1 DEF WRemove, Fault
  <2>. QED
    BY <1>1, <2>1
<1>2. CASE at' # "idle"
  <2>1. at' = "wpins" /\ todo' = PinRoutes(call) /\ applied' = FALSE
        /\ UNCHANGED <<os, network, call>>
    BY <1>2 DEF WRemove, Finish
  <2>. QED
    BY <2>1, SameAdapter
<1>. QED
  BY <1>1, <1>2

LEMMA WServiceBooks ==
    ASSUME AdapterBooks, WService
    PROVE  AdapterBooks'
<1>. USE DEF AdapterBooks, AdapterStates, AdapterOwns, AppliedIsOwned, Refreshing, Reinstalling
<1>1. /\ at = "wservice" /\ UNCHANGED <<os, network, applied, call, owners>>
      /\ \/ at' = "wroutes" /\ todo' = Extra(call)
         \/ at' = "sweep" /\ err' = FALSE
  BY DEF WService, WClear, engine
<1>2. \A r : Has(r)' <=> Has(r)
  BY <1>1 DEF Has
<1>. QED
  BY <1>1, <1>2, SameAdapter

LEMMA WInstalledBooks ==
    ASSUME AdapterBooks, WInstalled
    PROVE  AdapterBooks'
<1>. USE DEF AdapterBooks, AdapterStates, AdapterOwns, AppliedIsOwned, Refreshing, Reinstalling
<1>1. /\ at = "wdone" /\ at' = "idle" /\ cfg' = call
      /\ UNCHANGED <<os, network, owners>>
  BY DEF WInstalled, Finish, host, lists
<1>2. \A r : Has(r)' <=> Has(r)
  BY <1>1 DEF Has
<1>. QED
  BY <1>1, <1>2, SameAdapter

LEMMA WUninstallBooks ==
    ASSUME LedgerInv, AdapterBooks, WUninstall
    PROVE  AdapterBooks'
<1>1. applied' = FALSE /\ at' = "idle"
  BY DEF WUninstall, Finish, engine, AdapterBooks, AdapterStates, Reinstalling, LedgerInv,
     RoutesTyped
<1>. QED
  BY <1>1, BooksRest

\* Only the loops that add routes own more, by a gateway of the network or by none.
LEMMA WaysStep ==
    ASSUME NoOverlap, LedgerInv, WaysKnown, os = "windows", [RoutesNext]_vars, network' = network
    PROVE  WaysKnown'
<1>1. Gateways(network)' = Gateways(network)
  BY DEF Gateways
<1>2. CASE owners' \subseteq owners
  BY <1>1, <1>2 DEF WaysKnown
<1>3. ASSUME NEW loop, NEW routes, NEW then, WEach(loop, routes, then), Offers(routes),
             \A r \in routes : r.via \in {PhysicalPath, Null}
      PROVE  WaysKnown'
  <2>1. ASSUME NEW q \in Routes \ owners, NEW r \in routes, q = Route(r.to, r.via),
               owners' = owners \cup {q}
        PROVE  WaysKnown'
    <3>1. q.via = r.via /\ q.via \in Ways
      BY <2>1 DEF Routes, Route
    <3>2. Nil \notin Ways
      BY RoutesAssumption DEF Ways, Gateways, Tunnel, Null
    <3>3. q.via \in Gateways(network) \cup {Null}
      BY <1>3, <3>1, <3>2, PathIsGateway DEF LedgerInv, RoutesTyped
    <3>. QED
      BY <1>1, <2>1, <3>3 DEF WaysKnown
  <2>2. CASE owners' = owners
    BY <1>1, <2>2 DEF WaysKnown
  <2>. QED
    BY <1>3, <2>1, <2>2, WEachEffect DEF Records, Abandon, WClear
<1>4. CASE WStage
  <2>1. \A r \in PinRoutes(call) \ owners : r.via \in {PhysicalPath, Null}
    BY DEF PinRoutes, Route
  <2>. QED
    BY <1>3, <1>4, <2>1, WStageEffect DEF WStage
<1>5. CASE WPins
  <2>1. WEach("wpins", todo, "wservice") /\ at = "wpins"
    BY <1>5 DEF WPins, WEach
  <2>2. \A r \in todo : r.via \in {PhysicalPath, Null}
    BY <2>1 DEF LedgerInv, Adapter, PinRoutes, Route
  <2>. QED
    BY <1>3, <2>1, <2>2, PinsOffered
<1>6. CASE WRoutes
  <2>1. WEach("wroutes", Next1(todo), "wdone") /\ at = "wroutes"
    BY <1>6 DEF WRoutes, WEach
  <2>2. \A r \in Next1(todo) : r.via \in {PhysicalPath, Null}
    BY <2>1 DEF LedgerInv, Adapter, Extra, Item, Next1
  <2>. QED
    BY <1>3, <2>1, <2>2, ExtraOffered
<1>7. CASE WindowsStep /\ ~(WStage \/ WPins \/ WRoutes)
  BY <1>2, <1>7 DEF WindowsStep, WAdd, WAddFails, WSync, WDrop, WSynced, WSweepOne, WSweepEnd,
     WRemove, WService, WInstalled, WUninstall, lists
<1>8. CASE UnixStep
  <2>1. CleanOne \/ Cleaned \/ BringUp \/ Unlink
    BY <1>8 DEF UnixStep, Stage, Add, AddFails, Unstage, Device, Residual, Replan, Install, Undo6,
       Installed, SweepOne, SweepEnd, Relink, LedgerInv, Places, CommonPlaces, WindowsPlaces
  <2>. QED
    BY <1>2, <2>1 DEF CleanOne, Cleaned, BringUp, Unlink, Exit, Forget, lists
<1>9. CASE Arrives \/ WConfigure \/ UNCHANGED vars
  BY <1>2, <1>9 DEF Arrives, Start, Configure, Recover, Down, Crash, Exit, Forget, Roam,
     OperatorRemovesLink, WConfigure, lists, vars
<1>. QED
  BY <1>4, <1>5, <1>6, <1>7, <1>8, <1>9 DEF RoutesNext, EngineStep, WindowsStep

\* A process that has met no other network is the only one of its kind, or begins.
LEMMA StayedStep ==
    ASSUME os = "windows", LedgerInv, [RoutesNext]_vars, ~moved'
    PROVE  (~moved /\ network' = network) \/ at' = "down"
<1>1. CASE UnixStep
  <2>1. CleanOne \/ Cleaned \/ BringUp \/ Unlink
    BY <1>1 DEF UnixStep, Stage, Add, AddFails, Unstage, Device, Residual, Replan, Install, Undo6,
       Installed, SweepOne, SweepEnd, Relink, LedgerInv, Places, CommonPlaces, WindowsPlaces
  <2>. QED
    BY <2>1 DEF CleanOne, Cleaned, BringUp, Unlink, Exit
<1>2. CASE WindowsStep
  BY <1>2 DEF WindowsStep, WStage, WPins, WRoutes, WEach, WAdd, WAddFails, WSync, WDrop, WSynced,
     WSweepOne, WSweepEnd, WRemove, WService, WInstalled, WUninstall, host, counters
<1>3. CASE Arrives \/ WConfigure \/ UNCHANGED vars
  BY <1>3 DEF Arrives, Start, Configure, Recover, Down, Crash, Exit, Roam, OperatorRemovesLink,
     WConfigure, vars, host, counters
<1>. QED
  BY <1>1, <1>2, <1>3 DEF RoutesNext, EngineStep

LEMMA WindowsStays ==
    ASSUME NoOverlap, LedgerInv, LedgerInv', AdapterPlan, AdapterGoesOn, os = "windows",
           [RoutesNext]_vars, ~moved'
    PROVE  StillThere' /\ WaysKnown'
<1>1. CASE at' = "down"
  BY <1>1 DEF LedgerInv, Gone, StillThere, WaysKnown
<1>2. CASE ~moved /\ network' = network
  BY <1>2, WaysStep DEF AdapterPlan, AdapterGoesOn, NoReturn
<1>. QED
  BY <1>1, <1>2, StayedStep

\* All the steps on Windows.
LEMMA BooksHold ==
    ASSUME NoOverlap, LedgerInv, LiveAdapter, AdapterBooks, Counted, os = "windows",
           [RoutesNext]_vars
    PROVE  AdapterBooks'
<1>1. CASE UNCHANGED vars
  <2>1. UNCHANGED <<os, network, at, ret, after, err, faults, moved, todo, call, cfg, applied,
            owners>>
    BY <1>1 DEF vars, host, lists, engine, control, counters
  <2>2. \A r : Has(r)' <=> Has(r)
    BY <2>1 DEF Has
  <2>3. /\ WithoutTransport(call)' = WithoutTransport(call)
        /\ WithoutTransport(cfg)' = WithoutTransport(cfg)
    BY <2>1 DEF WithoutTransport
  <2>. QED
    BY <2>1, <2>2, <2>3, SameAdapter DEF AdapterBooks, AdapterStates, AdapterOwns, AppliedIsOwned,
       Refreshing, Reinstalling
<1>2. CASE UnixStep
  <2>1. CleanOne \/ Cleaned \/ BringUp \/ Unlink
    BY <1>2 DEF UnixStep, Stage, Add, AddFails, Unstage, Device, Residual, Replan, Install, Undo6,
       Installed, SweepOne, SweepEnd, Relink, LedgerInv, Places, CommonPlaces, WindowsPlaces
  <2>. QED
    BY <2>1, StartBooks
<1>3. CASE WindowsStep
  BY <1>3, WStageBooks, WAddBooks, WAddFailsBooks, WSyncBooks, WDropBooks, WSyncedBooks,
     WSweepBooks, WRemoveBooks, WPinsBooks, WServiceBooks, WRoutesBooks, WInstalledBooks,
     WUninstallBooks DEF WindowsStep, Counted
<1>4. CASE Arrives \/ WConfigure
  <2>1. ~Configure /\ ~Recover /\ ~OperatorRemovesLink
    BY DEF Configure, Recover, OperatorRemovesLink
  <2>. QED
    BY <1>4, <2>1, StartBooks, CallBooks DEF Arrives
<1>. QED
  BY <1>1, <1>2, <1>3, <1>4 DEF RoutesNext, EngineStep

-----------------------------------------------------------------------------
\* All steps together, and what follows from the invariants.

\* All the steps on Unix,
LEMMA UnixHolds ==
    ASSUME NoOverlap, LedgerInv, LedgerInv', UnixPlan, os # "windows", [RoutesNext]_vars
    PROVE  UnixPlan'
<1>1. CASE UNCHANGED vars
  BY <1>1, SamePins, SamePlans, SameCompared DEF vars, host, lists, engine, control, counters,
     UnixPlan, Unapplied, Modes, Pinning, PinsThere, PlanThere, Applying, Installing, Refreshed,
     Staging, Done, Present
<1>2. CASE UnixStep
  BY <1>2, CleanOneHolds, CleanedHolds, BringUpHolds, StageHolds, AddHolds, AddFailsHolds,
     UnstageHolds, DeviceHolds, ResidualHolds, ReplanHolds, InstallHolds, Undo6Holds,
     InstalledHolds, SweepOneHolds, SweepEndHolds, RelinkHolds, UnlinkHolds DEF UnixStep
<1>3. ~WindowsStep /\ ~WConfigure
  BY DEF WindowsStep, WStage, WAdd, WAddFails, WSync, WDrop, WSynced, WSweepOne, WSweepEnd,
     WRemove, WPins, WService, WRoutes, WInstalled, WUninstall, WEach, WConfigure, LedgerInv,
     Places, CommonPlaces, UnixPlaces
<1>4. CASE Arrives
  BY <1>4, StartHolds, ConfigureHolds, RecoverHolds, DownHolds, CrashHolds, RoamHolds,
     OperatorRemovesLinkHolds DEF Arrives
<1>. QED
  BY <1>1, <1>2, <1>3, <1>4 DEF RoutesNext, EngineStep

\* and all the steps on Windows.
LEMMA AdapterHolds ==
    ASSUME NoOverlap, LedgerInv, LedgerInv', LiveAdapter, os = "windows", [RoutesNext]_vars
    PROVE  AdapterGoesOn
<1>1. CASE UNCHANGED vars
  BY <1>1, SamePlan DEF vars, host, lists, control, counters, LiveAdapter, StillThere,
     AdapterGoesOn, Present, Gateways
<1>2. CASE UnixStep
  <2>1. CleanOne \/ Cleaned \/ BringUp \/ Unlink
    BY <1>2 DEF UnixStep, Stage, Add, AddFails, Unstage, Device, Residual, Replan, Install, Undo6,
       Installed, SweepOne, SweepEnd, Relink, LedgerInv, Places, CommonPlaces, WindowsPlaces
  <2>. QED
    BY <2>1, CleanOneAdapter, CleanedAdapter, BringUpAdapter, UnlinkAdapter
<1>3. CASE WindowsStep
  BY <1>3, WStageAdapter, WAddAdapter, WAddFailsAdapter, WSyncAdapter, WDropAdapter,
     WSyncedAdapter, WSweepOneAdapter, WSweepEndAdapter, WRemoveAdapter, WPinsAdapter,
     WServiceAdapter, WRoutesAdapter, WInstalledAdapter, WUninstallAdapter DEF WindowsStep
<1>4. CASE Arrives \/ WConfigure
  <2>1. ~Configure /\ ~Recover /\ ~OperatorRemovesLink
    BY DEF Configure, Recover, OperatorRemovesLink
  <2>. QED
    BY <1>4, <2>1, StartAdapter, DownAdapter, CrashAdapter, RoamAdapter, WConfigureAdapter
       DEF Arrives
<1>. QED
  BY <1>1, <1>2, <1>3, <1>4 DEF RoutesNext, EngineStep

\* What is concluded from the books still holds after every step.
LEMMA PlanStep ==
    ASSUME NoOverlap, LedgerInv, PlanInv, [RoutesNext]_vars
    PROVE  PlanInv'
<1>1. LedgerInv'
  BY LedgerStep
<1>2. os' = os
  BY Fixed DEF Fixes
<1>3. Counted'
  BY Fixed DEF Fixes, Crash, Counted, PlanInv
<1>4. CASE os = "windows"
  <2>1. LiveAdapter /\ AdapterPlan /\ Counted
    BY <1>4 DEF PlanInv
  <2>2. AdapterGoesOn
    BY <1>1, <1>4, <2>1, AdapterHolds
  <2>3. AdapterBooks'
    BY <1>4, <2>1, BooksHold DEF AdapterPlan
  <2>4. ~moved' => StillThere' /\ WaysKnown'
    BY <1>1, <1>4, <2>1, <2>2, WindowsStays
  <2>. QED
    BY <1>2, <1>3, <1>4, <2>2, <2>3, <2>4 DEF PlanInv, AdapterGoesOn, AdapterPlan
<1>5. CASE os # "windows"
  BY <1>1, <1>2, <1>3, <1>5, UnixHolds DEF PlanInv
<1>. QED
  BY <1>4, <1>5

\* On Windows what is owned stays in the table while the host does not come back to a gateway.
LEMMA ThereStep ==
    ASSUME NoOverlap, LedgerInv, PlanInv, StillThere, NoReturn, [RoutesNext]_vars
    PROVE  StillThere'
<1>1. LedgerInv'
  BY LedgerStep
<1>2. os' = os
  BY Fixed DEF Fixes
<1>3. CASE os = "windows"
  BY <1>1, <1>3, AdapterHolds DEF PlanInv, AdapterGoesOn
<1>4. CASE os # "windows"
  BY <1>2, <1>4 DEF StillThere
<1>. QED
  BY <1>3, <1>4

\* Before the first start there is nothing to conclude.
LEMMA PlanInit == InitRoutes => PlanInv /\ StillThere
<1>. SUFFICES ASSUME InitRoutes PROVE PlanInv /\ StillThere
  OBVIOUS
<1>. USE DEF InitRoutes
<1>1. Unapplied /\ Modes
  BY DEF Unapplied, Applying, Installing, Refreshed, Modes, Staging
<1>2. Pinning
  BY DEF Pinning, Applying, Installing, Refreshed, Staging
<1>3. PinsThere /\ PlanThere
  BY DEF PinsThere, PlanThere, Installing
<1>4. \A k \in kernel : k.via # Tunnel
  BY RoutesAssumption DEF Gateways, Tunnel
<1>5. LiveAdapter
  BY <1>4 DEF LiveAdapter
<1>6. Counted /\ StillThere
  BY DEF Counted, StillThere
<1>7. AdapterPlan
  BY <1>6 DEF AdapterPlan, AdapterBooks, AdapterStates, AdapterOwns, AppliedIsOwned, Refreshing,
     Reinstalling, WaysKnown
<1>. QED
  BY <1>1, <1>2, <1>3, <1>5, <1>6, <1>7 DEF PlanInv, UnixPlan

\* What the invariants say of the states a run looks at.
LEMMA LedgerEnough == LedgerInv => TypeOK /\ LedgerCovers /\ CleanStop
<1>. SUFFICES ASSUME LedgerInv PROVE TypeOK /\ LedgerCovers /\ CleanStop
  OBVIOUS
<1>. USE DEF LedgerInv
<1>1. \A k \in kernel : Route(k.to, k.via) \in Routes /\ k.own \in BOOLEAN
  BY DEF RoutesTyped, Entries, Routes, Route
<1>2. TypeOK
  BY <1>1 DEF RoutesTyped, Owned, Listed, TypeOK
<1>3. LedgerCovers /\ CleanStop
  BY DEF Owned, Cleared, CleanStop
<1>. QED
  BY <1>2, <1>3

LEMMA PlanEnough == LedgerInv /\ PlanInv => NoSelfLoop /\ AppliedIsInstalled
<1>. SUFFICES ASSUME LedgerInv, PlanInv PROVE NoSelfLoop /\ AppliedIsInstalled
  OBVIOUS
<1>. USE DEF LedgerInv, PlanInv
<1>1. CASE os = "windows"
  <2>1. NoSelfLoop
    BY <1>1 DEF LiveAdapter, Halves, NoSelfLoop
  <2>2. ASSUME at = "idle", applied, faults = 0, ~moved, NEW r \in PinRoutes(cfg) \cup Extra(cfg)
        PROVE  Present(r)
    <3>1. Has(r)
      BY <1>1, <2>2 DEF AdapterPlan, AdapterBooks, AppliedIsOwned
    <3>2. Present(Route(r.to, r.via))
      BY <1>1, <2>2, <3>1 DEF AdapterPlan, StillThere, WaysKnown, Has
    <3>. QED
      BY <3>2 DEF Present, Matches, Route
  <2>. QED
    BY <1>1, <2>1, <2>2 DEF AppliedIsInstalled
<1>2. CASE os # "windows"
  <2>. USE DEF UnixPlan
  <2>1. ASSUME applied \/ at = "install" \/ ret = "install", dev # Nil
        PROVE  DesiredPins(dev) \subseteq pinned
    <3>1. CASE applied
      BY <1>2, <2>1, <3>1 DEF Pinning
    <3>2. CASE ~applied
      <4>1. Applying
        BY <2>1, <3>2 DEF Places, Applying, Installing
      <4>. QED
        BY <1>2, <4>1 DEF Pinning
    <3>. QED
      BY <3>1, <3>2
  <2>2. ASSUME applied \/ at = "install" \/ ret = "install", Retained, ~moved, dev # Nil,
               NEW to \in DesiredPins(dev)
        PROVE  \E k \in kernel : k.to = to /\ k.via # Tunnel
    <3>1. to \in pinned
      BY <2>1, <2>2
    <3>2. PICK o \in owners : o.to = to
      BY <1>2, <2>2, <3>1 DEF Retained, OwnerOf
    <3>3. o.via # Tunnel /\ Present(o)
      BY <1>2, <2>2, <3>1, <3>2 DEF PinsThere
    <3>. QED
      BY <3>2, <3>3 DEF Present, Matches
  <2>3. NoSelfLoop
    BY <2>2 DEF NoSelfLoop, PinsLive
  <2>4. AppliedIsInstalled
    BY <1>2 DEF AppliedIsInstalled, PlanThere, Done
  <2>. QED
    BY <2>3, <2>4
<1>. QED
  BY <1>1, <1>2

\* A device gets transport addresses from two steps, and each has seen to the pins.
LEMMA PinsStep ==
    ASSUME StillThere, LedgerInv, PlanInv, [RoutesNext]_vars, os = "windows", dev' # dev, dev' # Nil
    PROVE  PinsLive(dev')
<1>. USE DEF LedgerInv, PlanInv
<1>1. WSync \/ WService
  <2>1. ~UNCHANGED vars
    BY DEF vars, host
  <2>2. CASE UnixStep
    BY <2>2 DEF UnixStep, CleanOne, Cleaned, BringUp, Unlink, Stage, Add, AddFails, Unstage,
       Device, Residual, Replan, Install, Undo6, Installed, SweepOne, SweepEnd, Relink, Places,
       CommonPlaces, WindowsPlaces
  <2>3. CASE WindowsStep
    BY <2>3 DEF WindowsStep, WStage, WAdd, WAddFails, WDrop, WSynced, WSweepOne, WSweepEnd,
       WRemove, WPins, WRoutes, WInstalled, WUninstall, WEach, host
  <2>4. CASE Arrives \/ WConfigure
    BY <2>4 DEF Arrives, Start, Configure, Recover, Down, Crash, DeviceDies, Roam,
       OperatorRemovesLink, WConfigure, host
  <2>. QED
    BY <2>1, <2>2, <2>3, <2>4 DEF RoutesNext, EngineStep
<1>2. dev' = call /\ at \in {"wsync", "wservice"}
  BY <1>1 DEF WSync, WService
<1>3. \A r \in PinRoutes(call) : Present(r)
  <2>1. CASE at = "wservice"
    BY <2>1 DEF LiveAdapter
  <2>2. CASE at = "wsync"
    <3>1. TAKE r \in PinRoutes(call)
    <3>2. r \in owners
      BY <2>2 DEF LiveAdapter
    <3>3. r.via \in Ways
      BY <3>2, RouteEq DEF RoutesTyped
    <3>4. Nil \notin Ways
      BY RoutesAssumption DEF Ways, Gateways, Tunnel, Null
    <3>5. r.via \in Gateways(network)
      BY <3>3, <3>4, PinFacts DEF RoutesTyped, Asked
    <3>. QED
      BY <2>2, <3>2, <3>5 DEF StillThere
  <2>. QED
    BY <1>2, <2>1, <2>2
<1>4. ASSUME NEW to \in DesiredPins(call) PROVE \E k \in kernel : k.to = to /\ k.via # Tunnel
  <2>1. Route(to, PhysicalPath) \in PinRoutes(call)
    BY DEF PinRoutes
  <2>2. PICK k \in kernel : Matches(k, Route(to, PhysicalPath))
    BY <1>3, <2>1 DEF Present
  <2>. QED
    BY <2>2 DEF LiveAdapter, Matches, Route
<1>. QED
  BY <1>2, <1>4 DEF PinsLive

\* A call that has only pins to exchange takes no route of the tunnel out of the table.
LEMMA RefreshStep ==
    ASSUME LedgerInv, PlanInv, [RoutesNext]_vars, os # "windows", mode = "configure",
            outcome = "ok",
           SameRoutes(cfg, call), crashes' = crashes, NEW k \in kernel, k.to \in routed
    PROVE  k \in kernel'
<1>. USE DEF LedgerInv, PlanInv, UnixPlan
<1>1. applied /\ (Staging \/ at = "residual" \/ Refreshed)
  BY DEF Modes
<1>2. k.to \notin Endpoints /\ k.to \notin residual /\ scrubbed /\ mode # "recover"
  BY <1>1 DEF RoutesTyped, Listed, Unapplied
<1>3. CASE UNCHANGED vars
  BY <1>3 DEF vars, host
<1>4. CASE UnixStep
  <2>1. CASE Stage \/ Add \/ AddFails
    BY <2>1 DEF Stage, Add, Programs, AddFails
  <2>2. CASE Unstage
    <3>1. CASE added = {}
      BY <1>2, <2>2, <3>1 DEF Unstage, Fails
    <3>2. CASE added # {}
      <4>1. PICK to \in added, ok \in BOOLEAN : Deletes(to, ok)
        BY <2>2, <3>2, Dropped DEF Unstage
      <4>. QED
        BY <1>2, <2>2, <4>1 DEF Deletes, Pinning, Staging, Unstage
    <3>. QED
      BY <3>1, <3>2
  <2>3. CASE Device
    BY <1>2, <2>3 DEF Device, Fails, host
  <2>4. CASE Residual
    <3>1. PICK to \in todo, ok \in BOOLEAN : Deletes(to, ok)
      BY <2>4, Dropped DEF Residual
    <3>. QED
      BY <1>2, <2>4, <3>1 DEF Deletes, Pinning, Residual
  <2>5. CASE Replan
    BY <1>2, <2>5 DEF Replan, Fails
  <2>6. CASE SweepOne
    <3>1. PICK to \in todo, ok \in BOOLEAN : Deletes(to, ok)
      BY <2>6, Dropped DEF SweepOne, Earliest
    <3>2. Refreshed
      BY <1>1, <2>6 DEF SweepOne, Staging
    <3>. QED
      BY <1>2, <3>1, <3>2 DEF Deletes, Pinning, RoutesTyped
  <2>7. CASE SweepEnd
    <3>1. after = "refreshed"
      BY <1>1, <2>7 DEF SweepEnd, Staging, Refreshed
    <3>. QED
      BY <2>7, <3>1 DEF SweepEnd
  <2>8. ~(CleanOne \/ Cleaned \/ BringUp \/ Install \/ Undo6 \/ Installed \/ Relink \/ Unlink)
    BY <1>1 DEF CleanOne, Cleaned, BringUp, Install, Undo6, Installed, Relink, Unlink, Staging,
       Refreshed
  <2>. QED
    BY <1>4, <2>1, <2>2, <2>3, <2>4, <2>5, <2>6, <2>7, <2>8 DEF UnixStep
<1>5. ~WindowsStep /\ ~WConfigure
  BY DEF WindowsStep, WStage, WAdd, WAddFails, WSync, WDrop, WSynced, WSweepOne, WSweepEnd,
     WRemove, WPins, WService, WRoutes, WInstalled, WUninstall, WEach, WConfigure, Places,
     CommonPlaces, UnixPlaces
<1>6. CASE Arrives
  <2>1. at \notin {"idle", "down"} /\ ~Crash
    BY <1>1 DEF Staging, Refreshed, Crash, Counted
  <2>. QED
    BY <1>6, <2>1 DEF Arrives, Start, Configure, Recover, Down, Roam, OperatorRemovesLink
<1>. QED
  BY <1>3, <1>4, <1>5, <1>6 DEF RoutesNext, EngineStep

\* The two invariants of the engine hold together.
LEMMA RoutesInvariant ==
    ASSUME NoOverlap
    PROVE  RoutesSpec => [](LedgerInv /\ PlanInv)
<1>1. InitRoutes => LedgerInv /\ PlanInv
  BY LedgerInit, PlanInit
<1>2. LedgerInv /\ PlanInv /\ [RoutesNext]_vars => LedgerInv' /\ PlanInv'
  BY LedgerStep, PlanStep
<1>. QED
  BY <1>1, <1>2, PTL DEF RoutesSpec

\* RoutesSound: every route the engine (RealEngine) has in the table is in its ownership
\* file before it is there (installManagedRoute), an engine that says it stopped has left
\* none (Down, delRoute).  On Linux and macOS no endpoint of a full tunnel goes into it,
\* and what is marked as applied is installed, as long as the network is the same and the
\* file could be written; on Windows what is marked as applied is installed as long as no
\* command and no write has failed (applyRoutes, reconfigureWindowsLocked).
THEOREM RoutesAreSound ==
    ASSUME NoOverlap
    PROVE  RoutesSpec => []RoutesSound
<1>1. LedgerInv /\ PlanInv => RoutesSound
  BY LedgerEnough, PlanEnough DEF RoutesSound
<1>. QED
  BY <1>1, RoutesInvariant, PTL

\* ForeignSpared: an operator's or another program's route is only ever removed by a
\* change of the network or by cleanStaleRoutes on a start, which finds it in the file of
\* a predecessor; delRoute asks the owners and installManagedRoute gives a refused intent
\* back before anything is deleted by it.
THEOREM ForeignIsSpared ==
    ASSUME NoOverlap
    PROVE  RoutesSpec => ForeignSpared
<1>1. LedgerInv /\ PlanInv /\ [RoutesNext]_vars
        => (network' = network /\ at # "clean" => \A k \in kernel : ~k.own => k \in kernel')
  BY ForeignStep
<1>. QED
  BY <1>1, RoutesInvariant, PTL DEF RoutesSpec, ForeignSpared

\* RefreshKeepsRoutes: a Reconfigure with the same tunnel routes
\* (unixTunnelRouteInputsEqual) exchanges pins and leaves the tunnel's routes in the
\* table at every step, unless a command fails or the network changes.
THEOREM RefreshKeeps ==
    ASSUME NoOverlap
    PROVE  RoutesSpec => RefreshKeepsRoutes
<1>1. LedgerInv /\ PlanInv /\ [RoutesNext]_vars
        => (mode = "configure" /\ outcome = "ok" /\ os # "windows" /\ SameRoutes(cfg, call)
              /\ ~moved /\ crashes' = crashes =>
              \A k \in kernel : k.own /\ k.via = Tunnel /\ k.to \in routed => k \in kernel')
  BY RefreshStep
<1>. QED
  BY <1>1, RoutesInvariant, PTL DEF RoutesSpec, RefreshKeepsRoutes

\* PinsFirst: on Windows WireGuard gets a peer's transport addresses only when each has
\* its pin in the table (stageWindowsPinsLocked for a live adapter,
\* reconfigureWindowsLocked for a new one).  NoReturn is needed: what a list of pins says
\* of the table is not looked at again.
THEOREM PinsComeFirst ==
    ASSUME NoOverlap
    PROVE  RoutesSpec /\ [][NoReturn]_vars => PinsFirst
<1>1. InitRoutes => StillThere
  BY PlanInit
<1>2. (LedgerInv /\ PlanInv) /\ StillThere /\ [RoutesNext]_vars /\ [NoReturn]_vars => StillThere'
  <2>. SUFFICES ASSUME LedgerInv, PlanInv, StillThere, [RoutesNext]_vars, [NoReturn]_vars
                PROVE  StillThere'
    OBVIOUS
  <2>1. NoReturn
    BY DEF NoReturn, vars, host
  <2>. QED
    BY <2>1, ThereStep
<1>3. (LedgerInv /\ PlanInv) /\ StillThere /\ [RoutesNext]_vars
        => (os = "windows" /\ dev' # dev /\ dev' # Nil => PinsLive(dev'))
  BY PinsStep
<1>. QED
  BY <1>1, <1>2, <1>3, RoutesInvariant, PTL DEF RoutesSpec, PinsFirst

\* RoutesKept: the three together, for every system RealEngine runs on.
THEOREM RoutesAreKept ==
    ASSUME NoOverlap
    PROVE  RoutesSpec /\ [][NoReturn]_vars => RoutesKept
BY PinsComeFirst, RefreshKeeps, ForeignIsSpared, PTL DEF RoutesKept
=============================================================================
