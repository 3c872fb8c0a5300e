------------------------------- MODULE Rates -------------------------------
(***************************************************************************)
(* The rates a poll computes from a counter of the server and the sample   *)
(* the previous snapshot holds: processor time as a whole and per core,    *)
(* bytes of an interface, processor time of a machine (for its own sensor  *)
(* and for the host's share) and energy of a processor package, which      *)
(* wraps around.  A behaviour follows one counter.  It restarts at a       *)
(* reboot, and when its interface or machine is replaced; polls are lost,  *)
(* or lack the section of the counter or the one that tells the boot.      *)
(***************************************************************************)
EXTENDS Integers

CONSTANTS
    Bound,      \* highest power of the package: energy in one tick
    Limit,      \* its energy counter goes from 0 to Limit - 1
    MaxUptime,  \* bounds: ticks between two reboots,
    MaxPassed,  \* ticks between two answers,
    MaxBoots,   \* boots,
    MaxOwners,  \* interfaces or machines of the name in one boot
    None

Kind == {"cpu", "core", "interface", "power", "host", "machine"}

\* Assumed where this module is instantiated.
RatesAssumption ==
    /\ Bound \in Nat \ {0} /\ Limit \in Nat \ {0} /\ None \notin Int \cup Kind
    /\ {MaxUptime, MaxPassed, MaxBoots, MaxOwners} \subseteq Nat

VARIABLES
    kind,     \* which counter it is, None before the first step
    boot,     \* the boot the server is in
    uptime,   \* ticks since then
    counter,  \* whose it is and what it counted: [owner, used, idle]
    prev,     \* the boot and the counter in the previous snapshot, None if unread
    shown,    \* the rate in the snapshot, or None
    \* History, since the answer `prev` comes from:
    passed,   \* ticks
    spent     \* what was used, whatever the counter did

vars == <<kind, boot, uptime, counter, prev, shown, passed, spent>>

Cpu    == {"cpu", "core"}                         \* count idle time, too
Named  == {"interface", "host", "machine"}        \* can be replaced
Booted == {"core", "interface", "power", "host"}  \* are compared within a boot

Restarted(owner) == [owner |-> owner, used |-> 0, idle |-> 0]
Unread == [boot |-> None, counter |-> None]

Init ==
    /\ kind = None /\ boot = 1 /\ uptime = 0 /\ counter = Restarted(1)
    /\ prev = Unread /\ shown = None /\ passed = 0 /\ spent = 0

Chosen == kind = None /\ kind' \in Kind /\ UNCHANGED <<boot, uptime, counter, prev, shown, passed, spent>>

-----------------------------------------------------------------------------
(* The server                                                              *)

Uses == IF kind = "power" THEN 0..Bound ELSE 0..1

Tick(use) ==
    /\ kind # None /\ uptime < MaxUptime /\ passed < MaxPassed
    /\ uptime' = uptime + 1 /\ passed' = passed + 1 /\ spent' = spent + use
    /\ counter' = [counter EXCEPT !.used = IF kind = "power" THEN (@ + use) % Limit ELSE @ + use,
                                  !.idle = IF kind \in Cpu THEN @ + 1 - use ELSE @]
    /\ UNCHANGED <<kind, boot, prev, shown>>

\* Indexes of interfaces and numbers of machines begin again.
Reboot ==
    /\ kind # None /\ boot < MaxBoots
    /\ boot' = boot + 1 /\ uptime' = 0 /\ counter' = Restarted(1)
    /\ UNCHANGED <<kind, prev, shown, passed, spent>>

\* The interface or machine is removed and created anew, with the next number.
Replaced ==
    /\ kind \in Named /\ counter.owner < MaxOwners
    /\ counter' = Restarted(counter.owner + 1)
    /\ UNCHANGED <<kind, boot, uptime, prev, shown, passed, spent>>

-----------------------------------------------------------------------------
(* The snapshot                                                            *)

Rate(amount, over) == [amount |-> amount, over |-> over]

\* _delta
Delta(new, old) == IF passed <= 0 \/ new < old THEN None ELSE Rate(new - old, passed)

SameBoot(seen)  == seen.boot # None /\ seen.boot = prev.boot
SameOwner(seen) == seen.counter.owner = prev.counter.owner

\* cpu_percent
CpuRate(seen) ==
    LET used  == seen.counter.used - prev.counter.used
        total == used + seen.counter.idle - prev.counter.idle
    IN  IF total <= 0 THEN None ELSE Rate(used, total)

CoreRate(seen) ==
    IF SameBoot(seen) /\ seen.counter.used >= prev.counter.used /\ seen.counter.idle >= prev.counter.idle
    THEN CpuRate(seen) ELSE None

InterfaceRate(seen) ==
    IF SameBoot(seen) /\ SameOwner(seen) THEN Delta(seen.counter.used, prev.counter.used) ELSE None

HostRate(seen) ==
    IF SameBoot(seen) /\ SameOwner(seen) THEN Delta(seen.counter.used, prev.counter.used) ELSE None

MachineRate(seen) ==
    IF SameOwner(seen) THEN Delta(seen.counter.used, prev.counter.used) ELSE None

\* Mutation of PowerRate: a counter that may have gone round once is trusted.
PowerUnbounded(seen) ==
    LET delta == (seen.counter.used - prev.counter.used) % Limit
    IN  IF SameBoot(seen) /\ passed > 0 /\ delta <= passed * Bound THEN Rate(delta, passed) ELSE None

\* The counter may have wrapped, but not gone round: not even at full power.
PowerRate(seen) ==
    LET less  == seen.counter.used - prev.counter.used
        delta == IF less < 0 THEN less + Limit ELSE less
    IN  IF SameBoot(seen) /\ passed > 0 /\ passed * Bound < Limit /\ delta <= passed * Bound
        THEN Rate(delta, passed) ELSE None

RateOf(seen) ==
    CASE kind = "cpu"       -> CpuRate(seen)
      [] kind = "core"      -> CoreRate(seen)
      [] kind = "interface" -> InterfaceRate(seen)
      [] kind = "power"     -> PowerRate(seen)
      [] kind = "host"      -> HostRate(seen)
      [] kind = "machine"   -> MachineRate(seen)

\* A section that could not be read leaves no sample behind.  The section of the
\* cores tells the boot as well; where no one looks at the boot it is told.
Answered(told, counted) ==
    /\ kind # None
    /\ kind = "core" => told = counted
    /\ kind \notin Booted => told
    /\ \E seen \in {[boot    |-> IF told THEN boot ELSE None,
                     counter |-> IF counted THEN counter ELSE None]} :
          /\ prev' = seen
          /\ shown' = IF seen.counter = None \/ prev.counter = None THEN None ELSE RateOf(seen)
    /\ passed' = 0 /\ spent' = 0
    /\ UNCHANGED <<kind, boot, uptime, counter>>

\* Lost polls change nothing: the next one compares with the older sample.
Next ==
    \/ Chosen
    \/ \E use \in Uses : Tick(use)
    \/ Reboot \/ Replaced
    \/ \E told, counted \in BOOLEAN : Answered(told, counted)

Spec == Init /\ [][Next]_vars

-----------------------------------------------------------------------------
(* Properties                                                              *)

\* Without a boot to compare with, a rate is as good as a guess over a reboot.
Guessed == kind \notin Booted /\ prev.boot # boot

\* A rate that is shown is what was really used between the two samples, over
\* the time between them, however the counter wrapped, restarted or changed its
\* owner, and whichever polls and sections were missing (telemetry.py:159).
RatesAreReal ==
    [][\A told, counted \in BOOLEAN :
          Answered(told, counted) /\ shown' # None /\ ~Guessed => shown' = Rate(spent, passed)]_vars

=============================================================================
