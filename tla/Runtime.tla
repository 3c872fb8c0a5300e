------------------------------ MODULE Runtime ------------------------------
(***************************************************************************)
(* What one set-up of the entry shares: the lock of the server actions,    *)
(* the update queue and the image checks, in the view of one container.    *)
(*                                                                         *)
(* A server action and an update exclude each other.  An update ends with  *)
(* a comparison of what the last check found; the worker asks for a new    *)
(* check first, but Home Assistant debounces that request.  A check lists  *)
(* the images on the server, then asks the registry, and may be overtaken  *)
(* by the update itself or by a new release.  A reload makes a new lock, a *)
(* new coordinator and a queue with the jobs that were saved.              *)
(*                                                                         *)
(* The worker may be at it for other containers while a request is saved,  *)
(* and take the new job before its save has ended.  When that save raises, *)
(* the list is put back without the job, which is launched all the same.   *)
(***************************************************************************)
EXTENDS Naturals, FiniteSets

CONSTANTS
    Press,       \* presses of server action buttons under way at once
    MaxVersion,  \* bound: the newest release of the container's image
    MaxReloads,  \* bound: reloads of the entry
    MaxDropped   \* bound: jobs taken out of the list that are still heard of

Unknown == 0
Version == 1..MaxVersion

ASSUME RuntimeAssumption == MaxVersion \in Nat \ {0} /\ MaxReloads \in Nat /\ MaxDropped \in Nat

VARIABLES
    runtime,    \* which set-up of the entry this is
    presses,    \* press -> the runtime whose lock it holds
    job,        \* the container's latest update in the list
    saving,     \* enqueue awaits the save of the list with it
    before,     \* what enqueue puts back: the job before the one it saves
    dropped,    \* jobs taken out of the list again that may still be heard of
    unsaved,    \* the file may still have them
    checks,     \* who began a check -> how far it is, and the image it has listed
    shown,      \* UpdateCoordinator.data of the container
    success,    \* UpdateCoordinator.last_update_success
    cooling,    \* the debouncer waits before it lets the next request through
    installed,  \* the image the container runs
    latest      \* the image the registry offers

queue == <<job, saving, before, dropped, unsaved>>
rest == <<runtime, presses, queue>>
vars == <<rest, checks, shown, success, cooling, installed, latest>>

Active   == {"queued", "preparing", "working", "ended", "awaiting", "judging"}
Terminal == {"completed", "failed"}

\* `current` is history: the container ran the newest image at some time since
\* this job was asked for; of a job that failed nobody asks it.
NoJob == [state |-> "none", current |-> FALSE]

\* The clock has one check running at most, like the debouncer for the worker;
\* and a press begins none beside another.
Check   == {"clock", "button", "worker"}
NoCheck == [step |-> "idle", listed |-> Unknown]
Nothing == [installed |-> Unknown, latest |-> Unknown]
NoPress == 0

Outdated == shown.latest # Unknown /\ shown.latest # shown.installed

-----------------------------------------------------------------------------
(* Server actions and updates                                              *)

Locked == \E p \in Press : presses[p] = runtime

\* Mutation of Idle: the queue is not looked at.
IdleAnyway == ~Locked

\* Neither another action of this runtime nor an update.
Idle == ~Locked /\ job.state \notin Active

PressAction(p) ==
    /\ presses[p] = NoPress
    /\ Idle
    /\ presses' = [presses EXCEPT ![p] = runtime]
    /\ UNCHANGED <<runtime, queue, checks, shown, success, cooling, installed, latest>>

\* Its poll has refused it, or it was sent and answered, refused or uncertain:
\* the lock is released.
EndAction(p) ==
    /\ presses[p] # NoPress
    /\ presses' = [presses EXCEPT ![p] = NoPress]
    /\ UNCHANGED <<runtime, queue, checks, shown, success, cooling, installed, latest>>

\* The list has the job before its save is awaited.
Request ==
    /\ ~Locked
    /\ Outdated /\ job.state \notin Active
    /\ job' = [state |-> "queued", current |-> installed = latest]
    /\ saving' = TRUE /\ before' = job
    /\ UNCHANGED <<runtime, presses, dropped, unsaved, checks, shown, success, cooling, installed, latest>>

Running(jobs) == {d \in jobs : d.state # "queued"}

Saved ==
    /\ saving
    /\ saving' = FALSE /\ before' = NoJob
    /\ dropped' = Running(dropped) /\ unsaved' = FALSE
    /\ UNCHANGED <<runtime, presses, job, checks, shown, success, cooling, installed, latest>>

\* The job before is back in the list, whatever the worker has made of the new
\* one, and whatever the file has.
SaveRaises ==
    /\ saving /\ Cardinality(dropped) < MaxDropped
    /\ job' = before
    /\ saving' = FALSE /\ before' = NoJob
    /\ dropped' = dropped \cup {job} /\ unsaved' = TRUE
    /\ UNCHANGED <<runtime, presses, checks, shown, success, cooling, installed, latest>>

Turns(state) == job' = [state |-> state, current |-> job.current /\ state # "failed"]

To(state) ==
    /\ Turns(state)
    /\ UNCHANGED <<runtime, presses, saving, before, dropped, unsaved, checks, shown, success, cooling, installed, latest>>

\* The intent, which is saved.
Pick == job.state = "queued" /\ To("preparing")

\* The worker's save comes after enqueue's, and the launch after both.
Launch == job.state = "preparing" /\ ~saving /\ To("working")

\* The rest of the worker's round for a job that is no longer in the list.
LaunchDropped ==
    /\ \E d \in dropped :
          /\ d.state = "preparing"
          /\ dropped' = (dropped \ {d}) \cup {[d EXCEPT !.state = "working"]}
    /\ UNCHANGED <<runtime, presses, job, saving, before, unsaved, checks, shown, success, cooling, installed, latest>>

Notes(j) == [j EXCEPT !.current = @ \/ (j.state \in Active /\ installed' = latest)]

\* The script has pulled an image, the newest then, and starts the container
\* with it; or the container stays on its old one.
Recreated ==
    /\ \E j \in {job} \cup dropped : j.state = "working"
    /\ installed' \in installed..latest
    /\ job' = Notes(job) /\ dropped' = {Notes(d) : d \in dropped}
    /\ UNCHANGED <<runtime, presses, saving, before, unsaved, checks, shown, success, cooling, latest>>

ScriptEnds == job.state = "working" /\ To("ended")

ScriptFails == job.state = "working" /\ To("failed")

\* Nobody asks for the result of this one.
DroppedEnds ==
    /\ \E d \in dropped : d.state = "working" /\ dropped' = dropped \ {d}
    /\ UNCHANGED <<runtime, presses, job, saving, before, unsaved, checks, shown, success, cooling, installed, latest>>

-----------------------------------------------------------------------------
(* Checks                                                                  *)

\* UpdateCoordinator._lock
Free == \A c \in Check : checks[c].step \in {"idle", "waiting"}

Begin(c) ==
    /\ checks[c] = NoCheck
    /\ checks' = [checks EXCEPT ![c].step = "waiting"]

\* The first check after a setup, and the one of every few hours.
TimedCheck ==
    /\ Begin("clock")
    /\ UNCHANGED <<rest, shown, success, cooling, installed, latest>>

\* The button starts none while one is running, it waits for that.
PressCheck ==
    /\ Free
    /\ Begin("button")
    /\ UNCHANGED <<rest, shown, success, cooling, installed, latest>>

TakeLock(c) ==
    /\ checks[c].step = "waiting" /\ Free
    /\ checks' = [checks EXCEPT ![c].step = "listing"]
    /\ UNCHANGED <<rest, shown, success, cooling, installed, latest>>

\* The first command, and the second sent.
Listed(c) ==
    /\ checks[c].step = "listing"
    /\ checks' = [checks EXCEPT ![c].step = "asking", ![c].listed = installed]
    /\ UNCHANGED <<rest, shown, success, cooling, installed, latest>>

\* The worker that asked for this check goes on, and the cooldown begins.
Leave(c) ==
    /\ checks' = [checks EXCEPT ![c] = NoCheck]
    /\ cooling' = (cooling \/ c = "worker")
    /\ IF c = "worker" THEN Turns("judging") ELSE UNCHANGED job
    /\ UNCHANGED <<runtime, presses, saving, before, dropped, unsaved, installed, latest>>

Publish(c, status) ==
    /\ checks[c].step = "asking"
    /\ shown' = status
    /\ success' = TRUE
    /\ Leave(c)

Answered(c) == Publish(c, [installed |-> checks[c].listed, latest |-> latest])

\* The registry has no answer for this image.
Unanswered(c) == Publish(c, Nothing)

CheckFails(c) ==
    /\ checks[c].step \in {"listing", "asking"}
    /\ success' = FALSE
    /\ Leave(c)
    /\ UNCHANGED shown

-----------------------------------------------------------------------------
(* The comparison                                                          *)

\* async_request_refresh: a request during a cooldown returns at once.  The
\* debouncer has one running call at most, the worker's, which awaits it.
Verify ==
    /\ job.state = "ended"
    /\ \/ /\ cooling
          /\ Turns("judging")
          /\ UNCHANGED checks
       \/ /\ ~cooling
          /\ Begin("worker")
          /\ Turns("awaiting")
    /\ UNCHANGED <<runtime, presses, saving, before, dropped, unsaved, shown, success, cooling, installed, latest>>

\* Mutation of Judge: an unknown digest counts as up to date.
JudgeUnknown ==
    /\ job.state = "judging"
    /\ success
    /\ To(IF Outdated THEN "failed" ELSE "completed")

Judge ==
    /\ job.state = "judging"
    /\ success /\ shown.latest # Unknown
    /\ To(IF Outdated THEN "failed" ELSE "completed")

\* No check, no digest, or Docker not readable in the last poll: the worker
\* sleeps and comes back.
Unsure ==
    /\ job.state = "judging"
    /\ To("ended")

\* Mutation of CoolDown: the timer only ends by the next check of the clock.
CoolDownNever ==
    /\ cooling /\ \E c \in Check : checks[c].step = "listing"
    /\ cooling' = FALSE
    /\ UNCHANGED <<rest, checks, shown, success, installed, latest>>

CoolDown ==
    /\ cooling
    /\ cooling' = FALSE
    /\ UNCHANGED <<rest, checks, shown, success, installed, latest>>

-----------------------------------------------------------------------------

Release ==
    /\ latest < MaxVersion
    /\ latest' = latest + 1
    /\ UNCHANGED <<rest, checks, shown, success, cooling, installed>>

\* Mutation of Loaded: the job is where the cancelled worker left it.
LoadedAsIs == {job}

\* What a reload makes of the listed job: one whose save is under way is found
\* or not.
Loaded ==
    CASE saving -> {job, before}
      [] job.state \in {"awaiting", "judging"} -> {[job EXCEPT !.state = "ended"]}
      [] OTHER -> {job}

\* The list is what the file has: the job, the one before, or one that was
\* taken out of the list and not out of the file.  A save under way may still
\* come to the file after it was read.
Reread ==
    \/ /\ job' \in Loaded
       /\ dropped' = Running(dropped) \cup (IF saving /\ job' # job THEN {[job EXCEPT !.state = "queued"]} ELSE {})
       /\ unsaved' = (saving /\ job' # job)
    \/ /\ unsaved
       /\ \E d \in dropped : job' = d /\ dropped' = Running(dropped \ {d})
       /\ unsaved' = FALSE

\* Presses go on with the objects they began with; checks and the worker are
\* cancelled.
Reload ==
    /\ runtime <= MaxReloads
    /\ runtime' = runtime + 1
    /\ Reread
    /\ saving' = FALSE /\ before' = NoJob
    /\ checks' = [c \in Check |-> NoCheck]
    /\ shown' = Nothing /\ success' = TRUE /\ cooling' = FALSE
    /\ UNCHANGED <<presses, installed, latest>>

Init ==
    /\ runtime = 1
    /\ presses = [p \in Press |-> NoPress]
    /\ job = NoJob /\ before = NoJob
    /\ saving = FALSE /\ dropped = {} /\ unsaved = FALSE
    /\ checks = [c \in Check |-> NoCheck]
    /\ shown = Nothing /\ success = TRUE /\ cooling = FALSE
    /\ installed = 1 /\ latest = 1

CheckStep(c) == TakeLock(c) \/ Listed(c) \/ Answered(c) \/ Unanswered(c) \/ CheckFails(c)

Next ==
    \/ \E p \in Press : PressAction(p) \/ EndAction(p)
    \/ Request \/ Saved \/ SaveRaises \/ Pick \/ Launch \/ LaunchDropped
    \/ Recreated \/ ScriptEnds \/ ScriptFails \/ DroppedEnds
    \/ TimedCheck \/ PressCheck \/ \E c \in Check : CheckStep(c)
    \/ Verify \/ Judge \/ Unsure \/ CoolDown
    \/ Release \/ Reload

\* Checks end and the worker goes on; of the checks the worker asks for, and of
\* its comparisons, one succeeds some time.
Fairness ==
    /\ \A c \in Check \ {"worker"} : WF_vars(CheckStep(c))
    /\ SF_vars(TakeLock("worker")) /\ SF_vars(Listed("worker")) /\ SF_vars(Answered("worker"))
    /\ WF_vars(Verify) /\ WF_vars(Judge \/ Unsure) /\ SF_vars(Judge)
    /\ WF_vars(CoolDown)

Spec == Init /\ [][Next]_vars /\ Fairness

-----------------------------------------------------------------------------
(* Properties                                                              *)

Seen == Version \cup {Unknown}

Job == [state : Active \cup Terminal \cup {"none"}, current : BOOLEAN]

\* Every variable keeps its type; the worker waits for one check of its own,
\* and what is being saved has not been launched.
TypeOK ==
    /\ runtime \in 1..(MaxReloads + 1)
    /\ presses \in [Press -> 0..(MaxReloads + 1)]
    /\ job \in Job /\ before \in Job /\ before.state \notin Active
    /\ dropped \subseteq {d \in Job : d.state \in {"queued", "preparing", "working"}}
    /\ checks \in [Check -> [step : {"idle", "waiting", "listing", "asking"},
                             listed : Seen]]
    /\ shown \in [installed : Seen, latest : Seen]
    /\ {success, cooling, saving, unsaved} \subseteq BOOLEAN
    /\ installed \in Version /\ latest \in Version
    /\ job.state = "awaiting" <=> checks["worker"] # NoCheck
    /\ saving => job.state \in {"queued", "preparing"}

\* In one runtime no server action is under way beside another or beside an
\* update the queue lists, from the admission of either to its end: the lock
\* and the list are looked at and taken before anything is awaited
\* (button.py:177, update_queue.py:121).  An update that a failed save has
\* taken out of the list after the worker had picked it is beyond this: it is
\* launched, and nothing in the list keeps an action from it
\* (update_queue.py:150).
Exclusive ==
    \A p, q \in Press :
        presses[p] = runtime =>
            /\ job.state \notin Active
            /\ presses[q] = runtime => p = q

\* An update is only called completed if the container ran the newest image at
\* some time since it was asked for, although the comparison may use a check
\* that began before the script ended, another update that was taken out of the
\* list may still be running, and a new release, a reload or another check
\* comes between (update_queue.py:193, coordinator.py:210).
CompletedWasCurrent == job.state = "completed" => job.current

\* The comparison comes to a result once checks succeed, although a debounced
\* request does not start one.
Judged == job.state = "ended" ~> job.state \in Terminal

=============================================================================
