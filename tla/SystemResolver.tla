---------------------------- MODULE SystemResolver ----------------------------
(***************************************************************************)
(* The daemon points the host's resolver at its own MagicDNS server and puts *)
(* back, when it stops, what was there before.                              *)
(*                                                                          *)
(* A goroutine keeps trying until the host has a resolver to take over from *)
(* (superviseSystemResolver).  On Linux it rewrites /etc/resolv.conf, with   *)
(* the original in a backup file; on macOS it sets the servers of the        *)
(* primary network service and remembers the original in memory; on Windows  *)
(* the tunnel service does it.  Netmaps meanwhile decide whether MagicDNS    *)
(* forwards to the tunnel's resolver or to the host's (updateDNSUpstreams).  *)
(*                                                                          *)
(* A file is emptied before it is written, and a kill may come in between.   *)
(***************************************************************************)
EXTENDS Naturals

CONSTANTS
    Platforms,
    Servers,    \* what a user or a DHCP client may configure
    Limits,     \* how often the daemon may start, fail, and be told of an exit
    Unset

VARIABLES
    platform,
    setting,    \* resolv.conf, or the servers of the primary service
    saved,      \* the backup file
    online,     \* whether the primary service is there
    others,     \* whether another interface brings a resolver of its own
    life,       \* of the daemon: off, up, stopping or killed
    step,       \* the next step of the supervisor
    backup, recovered, taken,   \* the fields of the resolver manager
    found,      \* systemUpstreams of this attempt
    held,       \* systemResolver is set
    system,     \* dnsSystemUpstrms
    tunnelMode, \* dnsTunnelMode
    pick,       \* what the supervisor is about to give the server
    update,     \* what a netmap is about to give the server, or idle
    server,     \* the upstreams of the MagicDNS server
    crossed,    \* a netmap and the takeover have overlapped since the last
                \* netmap that did not
    starts, failures, edits, choices

hostDNS == <<platform, setting, saved, online, others>>
manager == <<backup, recovered, taken>>
forwarding == <<held, system, tunnelMode, pick, update, server, crossed>>
trials == <<starts, failures, edits, choices>>
resolverVars == <<hostDNS, life, step, manager, found, forwarding, trials>>

Self == "self"          \* MagicDNS; in a file, with the mark of the daemon
Torn == "torn"          \* emptied, and never written
Absent == "absent"
Dhcp == "dhcp"          \* no servers of its own: those of DHCP
Other == "other"
Through == "tunnel"     \* TunnelDNS

\* A server is an address, and no word above is one.
ASSUME ResolverAssumption ==
    /\ Platforms \subseteq {"linux", "darwin", "windows"}
    /\ \A s \in Servers \cup {Unset} : s \notin {Self, Torn, Absent, Dhcp, Other, Through, "idle"}
    /\ Unset \notin Servers

Fails1 == failures < Limits.failures /\ failures' = failures + 1
Works == UNCHANGED failures
-----------------------------------------------------------------------------
\* What there is to forward to.

\* Mutant: the servers in resolv.conf are taken for upstreams whoever wrote them.
LinuxUpstreams_Literal == IF setting \in Servers \cup {Self} THEN setting ELSE Unset

\* A managed file stands for its backup and never for itself.
LinuxUpstreams ==
    IF setting \in Servers THEN setting
    ELSE IF setting = Self /\ saved \in Servers THEN saved ELSE Unset

\* A predecessor was killed: its loopback address is all there is.
Recovers1 == platform = "darwin" /\ setting = Self /\ ~others /\ online

\* CurrentUpstreams.
Upstreams ==
    IF platform = "linux" THEN LinuxUpstreams
    ELSE IF online /\ (platform = "windows" \/ setting # Self) THEN setting
    ELSE IF others THEN Other
    ELSE IF Recovers1 THEN Dhcp
    ELSE Unset

Discovers ==
    /\ recovered' = (recovered \/ Recovers1)
    /\ backup' = IF Recovers1 THEN Unset ELSE backup
-----------------------------------------------------------------------------
\* The supervisor.

Look ==
    /\ step = "look"
    /\ found' = Upstreams /\ Discovers
    /\ step' = IF found' = Unset THEN "wait" ELSE "keep"
    /\ UNCHANGED <<hostDNS, life, taken, forwarding, trials>>

\* Mutant: whatever the file holds is the original.
Keep_Blind ==
    /\ step = "keep"
    /\ \/ /\ platform = "linux" /\ backup' = setting /\ saved' = Torn /\ step' = "save"
       \/ /\ platform = "darwin" /\ online /\ step' = "point" /\ UNCHANGED saved
          /\ backup' = IF recovered THEN backup ELSE setting
       \/ platform = "windows" /\ step' = "publish" /\ UNCHANGED <<backup, saved>>
    /\ UNCHANGED <<platform, setting, online, others, life, recovered, taken, found,
                   forwarding, trials>>

\* Install, up to where the original is kept.
Keep ==
    /\ step = "keep"
    /\ \/ /\ platform = "linux" /\ setting = Self /\ Works
          /\ backup' = IF saved = Absent THEN Unset ELSE saved
          /\ step' = "empty" /\ UNCHANGED saved
       \/ /\ platform = "linux" /\ setting # Self /\ backup' = setting
          /\ \/ Works /\ saved' = Torn /\ step' = "save"
             \/ Fails1 /\ UNCHANGED saved /\ step' = "wait"
       \/ /\ platform = "darwin" /\ UNCHANGED saved /\ Works
          /\ IF online
             THEN backup' = (IF recovered THEN backup ELSE setting) /\ step' = "point"
             ELSE UNCHANGED backup /\ step' = "wait"
       \/ platform = "windows" /\ step' = "publish" /\ UNCHANGED <<backup, saved>> /\ Works
    /\ UNCHANGED <<platform, setting, online, others, life, recovered, taken, found,
                   forwarding, starts, edits, choices>>

Save ==
    /\ step = "save"
    /\ \/ Works /\ saved' = backup /\ step' = "empty"
       \/ Fails1 /\ UNCHANGED saved /\ step' = "wait"
    /\ UNCHANGED <<platform, setting, online, others, life, manager, found, forwarding,
                   starts, edits, choices>>

EmptyFile ==
    /\ step = "empty"
    /\ \/ Works /\ setting' = Torn /\ step' = "point"
       \/ Fails1 /\ UNCHANGED setting /\ step' = "wait"
    /\ UNCHANGED <<platform, saved, online, others, life, manager, found, forwarding,
                   starts, edits, choices>>

\* On macOS a cache that cannot be flushed fails the call, with the servers set.
Point ==
    /\ step = "point"
    /\ \/ Works /\ setting' = Self /\ taken' = TRUE /\ step' = "publish"
       \/ Fails1 /\ UNCHANGED <<setting, taken>> /\ step' = "wait"
       \/ platform = "darwin" /\ Fails1 /\ setting' = Self /\ taken' = TRUE /\ step' = "wait"
    /\ UNCHANGED <<platform, saved, online, others, life, backup, recovered, found,
                   forwarding, starts, edits, choices>>

\* Mutant: the takeover gives the server the host's resolvers, exit or no exit.
Publish_Direct ==
    /\ step = "publish" /\ step' = "hand"
    /\ held' = TRUE /\ system' = found /\ pick' = found
    /\ crossed' = (crossed \/ update # "idle")
    /\ UNCHANGED <<hostDNS, life, manager, found, tunnelMode, update, server, trials>>

\* The daemon's lock is held for the choice and not for what follows.
Publish ==
    /\ step = "publish" /\ step' = "hand"
    /\ held' = TRUE /\ system' = found
    /\ pick' = IF tunnelMode THEN Through ELSE found
    /\ crossed' = (crossed \/ update # "idle")
    /\ UNCHANGED <<hostDNS, life, manager, found, tunnelMode, update, server, trials>>

Hand ==
    /\ step = "hand" /\ step' = "hold" /\ server' = pick
    /\ UNCHANGED <<hostDNS, life, manager, found, held, system, tunnelMode, pick, update,
                   crossed, trials>>

Hold ==
    /\ step = "hold" /\ life = "stopping" /\ step' = "restore"
    /\ UNCHANGED <<hostDNS, life, manager, found, forwarding, trials>>

\* Restore: it is not tried a second time.
Restore ==
    /\ step = "restore" /\ taken' = FALSE
    /\ \/ ~taken /\ step' = "release" /\ UNCHANGED setting /\ Works
       \/ taken /\ Fails1 /\ step' = "release" /\ UNCHANGED setting
       \/ /\ taken /\ Works /\ platform = "linux"
          /\ IF backup = Unset THEN setting' = Absent /\ step' = "release"
                               ELSE setting' = Torn /\ step' = "rewrite"
       \/ /\ taken /\ Works /\ platform = "darwin" /\ step' = "release"
          /\ setting' = IF backup = Unset THEN Dhcp ELSE backup
    /\ UNCHANGED <<platform, saved, online, others, life, backup, recovered, found,
                   forwarding, starts, edits, choices>>

Rewrite ==
    /\ step = "rewrite"
    /\ \/ Works /\ setting' = backup /\ step' = "unsave"
       \/ Fails1 /\ UNCHANGED setting /\ step' = "release"
    /\ UNCHANGED <<platform, saved, online, others, life, manager, found, forwarding,
                   starts, edits, choices>>

Unsave ==
    /\ step = "unsave" /\ step' = "release"
    /\ \/ Works /\ saved' = Absent
       \/ Fails1 /\ UNCHANGED saved
    /\ UNCHANGED <<platform, setting, online, others, life, manager, found, forwarding,
                   starts, edits, choices>>

Release ==
    /\ step = "release" /\ step' = "done" /\ held' = FALSE
    /\ UNCHANGED <<hostDNS, life, manager, found, system, tunnelMode, pick, update, server,
                   crossed, trials>>

\* Mutant: an attempt that was deferred was the last one.
Retry_Never ==
    /\ step = "wait" /\ life = "stopping" /\ step' = "look"
    /\ UNCHANGED <<hostDNS, life, manager, found, forwarding, trials>>

\* The ticker, which may win over a stop that has begun.
Retry ==
    /\ step = "wait" /\ step' = "look"
    /\ UNCHANGED <<hostDNS, life, manager, found, forwarding, trials>>

GiveUp ==
    /\ step = "wait" /\ life = "stopping" /\ step' = "done"
    /\ UNCHANGED <<hostDNS, life, manager, found, forwarding, trials>>

Supervise ==
    \/ Look \/ Keep \/ Save \/ EmptyFile \/ Point \/ Publish \/ Hand \/ Hold
    \/ Restore \/ Rewrite \/ Unsave \/ Release \/ Retry
-----------------------------------------------------------------------------
\* Netmaps, one at a time.

Decide ==
    /\ life = "up" /\ update = "idle" /\ choices < Limits.choices /\ choices' = choices + 1
    /\ \E exitActive \in BOOLEAN :
        /\ tunnelMode' = exitActive
        /\ update' = IF exitActive THEN Through ELSE system
    /\ crossed' = (step = "hand")
    /\ UNCHANGED <<hostDNS, life, step, manager, found, held, system, pick, server,
                   starts, failures, edits>>

Send ==
    /\ update # "idle" /\ server' = update /\ update' = "idle"
    /\ UNCHANGED <<hostDNS, life, step, manager, found, held, system, tunnelMode, pick,
                   crossed, trials>>
-----------------------------------------------------------------------------
\* The daemon's life and the host's.

\* A service manager may start the daemon before the host is online.
Boot ==
    /\ life \in {"off", "killed"} /\ starts < Limits.starts /\ starts' = starts + 1
    /\ life' = "up" /\ step' = "look"
    /\ system' = Upstreams /\ server' = Upstreams
    /\ recovered' = Recovers1 /\ backup' = Unset /\ taken' = FALSE /\ found' = Unset
    /\ held' = FALSE /\ tunnelMode' = FALSE /\ pick' = Unset /\ update' = "idle"
    /\ crossed' = FALSE
    /\ UNCHANGED <<hostDNS, failures, edits, choices>>

Stop ==
    /\ life = "up" /\ life' = "stopping"
    /\ UNCHANGED <<hostDNS, step, manager, found, forwarding, trials>>

\* Run waits for the supervisor.
Off ==
    /\ life = "stopping" /\ step = "done" /\ update = "idle"
    /\ life' = "off"
    /\ UNCHANGED <<hostDNS, step, manager, found, forwarding, trials>>

\* SIGKILL, and what is in memory is gone.
Kill ==
    /\ life \in {"up", "stopping"} /\ starts < Limits.starts
    /\ life' = "killed" /\ step' = "done" /\ update' = "idle"
    /\ UNCHANGED <<hostDNS, manager, found, held, system, tunnelMode, pick, server, crossed,
                   trials>>

Connect ==
    /\ ~online /\ online' = TRUE
    /\ UNCHANGED <<platform, setting, saved, others, life, step, manager, found, forwarding,
                   trials>>

\* A user or a DHCP client configures the host.
Edit ==
    /\ edits < Limits.edits /\ edits' = edits + 1
    /\ setting' \in Servers \ {setting}
    /\ UNCHANGED <<platform, saved, online, others, life, step, manager, found, forwarding,
                   starts, failures, choices>>

InitResolver ==
    /\ platform \in Platforms
    /\ setting \in Servers \cup IF platform = "linux" THEN {} ELSE {Dhcp}
    /\ saved = Absent
    /\ online \in IF platform = "linux" THEN {TRUE} ELSE BOOLEAN
    /\ others \in IF platform = "darwin" THEN BOOLEAN ELSE {FALSE}
    /\ life = "off" /\ step = "done"
    /\ backup = Unset /\ recovered = FALSE /\ taken = FALSE /\ found = Unset
    /\ held = FALSE /\ system = Unset /\ tunnelMode = FALSE /\ pick = Unset
    /\ update = "idle" /\ server = Unset /\ crossed = FALSE
    /\ starts = 0 /\ failures = 0 /\ edits = 0 /\ choices = 0

ResolverNext ==
    \/ Supervise \/ GiveUp \/ Decide \/ Send
    \/ Boot \/ Stop \/ Off \/ Kill \/ Connect \/ Edit

ResolverSpec == InitResolver /\ [][ResolverNext]_resolverVars
-----------------------------------------------------------------------------
\* MagicDNS is not its own upstream, whatever a killed predecessor has left in
\* the host's configuration: that would be a loop (CurrentUpstreams).
NeverSelf == Self \notin {server, system}

\* On Linux the servers of the host are in resolv.conf or in the backup, at
\* every point between two writes of Install and Restore.
ServersKept == platform = "linux" => setting \in Servers \/ saved \in Servers

\* A daemon that stops, with nothing failed in any life, leaves the host with a
\* resolver and not with the address of a server that is gone, also when the
\* daemon before was killed with the host's resolver taken (Install after a kill,
\* Restore).  A file that a kill has emptied is no resolver to take over from:
\* the daemon that finds one waits and leaves it, so an emptied file is excluded
\* only where this daemon had found a resolver.  On macOS the whole needs that
\* no other interface brings a resolver.
StopRestores ==
    life = "off" /\ starts > 0 /\ failures = 0 /\ ~others =>
        /\ setting \notin {Self, Absent}
        /\ found # Unset => setting # Torn

\* The host's resolver is restored on shutdown (the comment of SystemResolver),
\* whatever the daemon found when it started.  A kill that leaves the file emptied
\* violates it: without the daemon's mark nobody reads the backup.
RestoredOnShutdown ==
    life = "off" /\ starts > 0 /\ failures = 0 /\ ~others => setting \notin {Self, Absent, Torn}

\* Once settled, the server forwards to what the last netmap and the last
\* takeover say, if those two have not overlapped.
ForwardsAlone ==
    update = "idle" /\ step # "hand" /\ ~crossed /\ life = "up" =>
        server = IF tunnelMode THEN Through ELSE system

\* While an exit is active the server forwards only to the tunnel's resolver
\* (updateDNSUpstreams).
ForwardsOnlyToTunnel ==
    life = "up" /\ tunnelMode /\ update = "idle" /\ step # "hand" => server = Through

\* A daemon that stays up takes the resolver over as soon as the host has one,
\* however early it was started (superviseSystemResolver).  A file that a
\* failed write or a kill has emptied is not one.
TakesOver ==
    life = "up" /\ (online \/ platform = "linux")
        ~> held \/ life # "up" \/ (setting = Torn /\ step = "wait")

\* The host's resolver is kept on Linux, never MagicDNS itself, put back by the
\* daemon that took it over, and used only when no tunnel's is there (Install,
\* Restore, updateDNSUpstreams).
ResolverKept == NeverSelf /\ ServersKept /\ StopRestores /\ ForwardsAlone
=============================================================================
