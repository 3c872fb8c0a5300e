--------------------------- MODULE SnapshotParts ---------------------------
(***************************************************************************)
(* What becomes of the answer to one poll: the probes it comes from, the   *)
(* stacks and identities read from it, the rates computed from it, and the *)
(* pictures of stacks.  The four share no state, so a behaviour is about   *)
(* one of them at a time.                                                  *)
(***************************************************************************)
EXTENDS Identity

\* Those of Probes, Rates and Pictures.
CONSTANTS
    Groups, Budget, Cap, Need, Grace, Slots,
    Bound, Limit, MaxUptime, MaxPassed, MaxBoots, MaxOwners,
    Listed, File, PictureKind, OwnName, OwnKey, PictureFailures, MaxListed

VARIABLES
    step, group, launched, clock, deadline, need, jobs, whole, faulty, sections,
    kind, boot, uptime, counter, prev, shown, passed, spent,
    listing, services, picture, missing

Launcher == INSTANCE Probes
Meter    == INSTANCE Rates
Wall     == INSTANCE Pictures WITH Service <- Listed, Kind <- PictureKind, Failures <- PictureFailures, Nothing <- None,
                                   shown <- picture

ASSUME SnapshotAssumption ==
    Launcher!ProbesAssumption /\ Meter!RatesAssumption /\ Wall!PicturesAssumption

probing  == <<step, group, launched, clock, deadline, need, jobs, whole, faulty, sections>>
metering == <<kind, boot, uptime, counter, prev, shown, passed, spent>>
hanging  == <<listing, services, picture, missing>>

SnapshotInit == Init /\ Launcher!Init /\ Meter!Init /\ Wall!Init

Blank == missing = {"docker"} /\ listing = <<>> /\ services = None /\ picture = None

SnapshotNext ==
    \/ step = "idle" /\ kind = None /\ Blank /\ Next /\ UNCHANGED <<probing, metering, hanging>>
    \/ folders = {} /\ labels = <<>> /\ record = <<>> /\ projects = {}
       /\ \/ kind = None /\ Blank /\ Launcher!Next /\ UNCHANGED <<vars, metering, hanging>>
          \/ step = "idle" /\ Blank /\ Meter!Next /\ UNCHANGED <<vars, probing, hanging>>
          \/ step = "idle" /\ kind = None /\ Wall!Next /\ UNCHANGED <<vars, probing, metering>>

SnapshotSpec == SnapshotInit /\ [][SnapshotNext]_<<vars, probing, metering, hanging>>

-----------------------------------------------------------------------------
(* Properties                                                              *)

\* However long probes take, the poll stays within its budget, and exactly the
\* probes that ended by themselves with status 0 are read: hanging ones cost no
\* other its result while they leave a slot and time (collect.py:240, 225).
WholeInTime == Launcher!Bounded /\ Launcher!OnlyWhole

\* A rate that is shown is what was used between two samples (telemetry.py:159).
RatesAreReal == Meter!RatesAreReal

\* Of polls that could read folders, containers and pictures: a stack with a
\* picture in its compose files shows one, up or down, and what happens to the
\* containers behind the service that decides does not change it.  The second
\* also needs the projects, unless the stack's is called by its compose name:
\* a poll without the folders takes the picture away, and one without the
\* projects leaves what the files say (icons.py:101, icon_cache.py:106).
StackKeepsPicture == []Wall!Labelled /\ Wall!Steady

=============================================================================
