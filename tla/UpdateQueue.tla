---------------------------- MODULE UpdateQueue ----------------------------
(***************************************************************************)
(* The serial update queue of custom_components/unraid_ssh/update_queue.py *)
(* together with what it drives: Home Assistant's Store (the JSON file the *)
(* queue is saved to), the SSH command that admits a job on the Unraid     *)
(* server, and the shell script that runs there under nohup.               *)
(*                                                                         *)
(* The process is one asyncio event loop, so a step of a coroutine reaches *)
(* from one await to the next.  Three coroutines interleave: the worker    *)
(* (UpdateQueue.run), one call of UpdateQueue.enqueue (the asyncio lock    *)
(* admits one at a time) and the restart of the integration.  The server   *)
(* runs on its own, and the SSH network may lose or delay a command.       *)
(***************************************************************************)
EXTENDS Naturals, Sequences, FiniteSets, Functions

CONSTANTS
    Job,                \* the uuid4 job ids that can ever be drawn
    Target,             \* container keys (model.container_key)
    TargetOf,           \* the target each job updates
    Compose,            \* the targets updated by docker compose
    Batches,            \* the job sequences one call of enqueue can create
    NoJob,              \* the worker holds no job
    MaxEnqueueFailures, \* bound: saves that raise inside enqueue
    MaxWorkerFailures,  \* bound: saves that raise inside the worker
    MaxRestarts,        \* bound: stops of the integration (reload, HA crash)
    MaxReboots          \* bound: reboots of the Unraid server

ASSUME QueueAssumption ==
    /\ TargetOf \in [Job -> Target]
    /\ Compose \subseteq Target
    /\ Batches \subseteq Seq(Job)
    /\ NoJob \notin Job
    /\ {MaxEnqueueFailures, MaxWorkerFailures, MaxRestarts, MaxReboots} \subseteq Nat

VARIABLES
    up,        \* an UpdateQueue object is loaded
    jobs,      \* UpdateQueue.jobs: the list, as ids of the job dicts
    state,     \* job["state"] of every job dict in memory
    disk,      \* what the Store file holds: the list and the states in it
    pc,        \* where the worker task waits
    cur,       \* the worker's local variable `job`
    saving,    \* the list object the worker has handed to Store.async_save
    previous,  \* enqueue's local variable `previous`
    holder,    \* the coroutine that holds the Store's write lock
    waiter,    \* the one that waits for it
    wire,      \* jobs whose launch command is on its way while its call waits
    late,      \* jobs with a launch command on its way that outlived its call
    remote,    \* the status file of each job on the server
    runs,      \* how often the update command of a job was started (history)
    used,      \* the job ids drawn so far
    faults     \* how often each bounded fault has happened

memory == <<jobs, state, pc, cur, saving, previous, holder, waiter, used>>
server == <<wire, late, remote, runs>>
vars   == <<up, disk, faults, memory, server>>

-----------------------------------------------------------------------------
(* Job states                                                              *)

ACTIVE   == {"queued", "preparing", "pulling", "updating", "recreating", "verifying"}
TERMINAL == {"completed", "failed"}
State    == ACTIVE \cup TERMINAL \cup {"none"}

\* The script's phases between admission and its last status line.
Working == {"preparing", "pulling", "updating", "recreating"}
Remote  == Working \cup {"absent", "verifying", "failed"}

\* The worker's await points; "none" is no task, or one that has ended.
WorkerPC == {"none", "pick", "save_intent", "launch", "status", "refresh_failed",
             "save_verifying", "refresh", "save_result", "save_error", "sleep"}
SavePC   == {"save_intent", "save_verifying", "save_result", "save_error"}

Writer == {"none", "worker", "enqueue"}
Fault  == {"enqueue", "worker", "restart", "reboot"}

Active(j)      == state[j] \in ACTIVE
BatchActive    == \E i \in DOMAIN jobs : Active(jobs[i])
InStore(w)     == w \in {holder, waiter}
Enqueueing     == InStore("enqueue")
Running(j)     == remote[j] \in Working

\* A job the Store holds in a state other than terminal.
Pending(store, j) == j \in Range(store.list) /\ store.state[j] \in ACTIVE

Snapshot(list) == [list  |-> list,
                   state |-> [j \in Job |-> IF j \in Range(list) THEN state[j] ELSE "none"]]

\* What the Store is writing: each writer's list object, with the states of now.
Writing == IF holder = "none" THEN {}
           ELSE {Snapshot(IF holder = "worker" THEN saving ELSE jobs)}

\* Store.async_save takes the write lock, or waits for it; the lock is handed on.
EnterStore(w) ==
    IF holder = "none" THEN holder' = w /\ UNCHANGED waiter
                       ELSE waiter' = w /\ UNCHANGED holder

LeaveStore == holder' = waiter /\ waiter' = "none"

\* The holder leaves and asks for the lock again.
RejoinStore ==
    IF waiter = "none" THEN UNCHANGED <<holder, waiter>>
                       ELSE holder' = waiter /\ waiter' = holder

Fail(f) == faults' = [faults EXCEPT ![f] = @ + 1]

-----------------------------------------------------------------------------
(* Requests: UpdateQueue.enqueue                                           *)

\* Mutation of Merged: a finished target of a running batch is queued again.
MergedIfActive(t) == \E i \in DOMAIN jobs :
                        TargetOf[jobs[i]] = t /\ Active(jobs[i])

\* A target is merged into the running batch instead of being queued again.
Merged(t) == \E i \in DOMAIN jobs :
                /\ TargetOf[jobs[i]] = t
                /\ BatchActive \/ Active(jobs[i])

\* Mutation of Enqueue: a request always starts a new list.
EnqueueReplacing(new) ==
    /\ up /\ ~Enqueueing
    /\ new # <<>>
    /\ \A i \in DOMAIN new : new[i] \notin used /\ ~Merged(TargetOf[new[i]])
    /\ previous' = jobs
    /\ jobs' = new
    /\ state' = [j \in Job |-> IF j \in Range(new) THEN "queued" ELSE state[j]]
    /\ used' = used \cup Range(new)
    /\ EnterStore("enqueue")
    /\ UNCHANGED <<up, disk, faults, pc, cur, saving, server>>

\* Up to the await of the save.  `new` are the accepted jobs in order; a call
\* that accepts none, or meets a target that cannot be updated, changes nothing.
Enqueue(new) ==
    /\ up
    /\ ~Enqueueing
    /\ new # <<>>
    /\ \A i \in DOMAIN new : new[i] \notin used /\ ~Merged(TargetOf[new[i]])
    /\ \A i, k \in DOMAIN new : i # k => TargetOf[new[i]] # TargetOf[new[k]]
    /\ previous' = jobs
    /\ jobs' = IF BatchActive THEN jobs \o new ELSE new
    \* extend() works in place: a save under way sees the longer list
    /\ saving' = IF BatchActive /\ saving = jobs THEN jobs' ELSE saving
    /\ state' = [j \in Job |-> IF j \in Range(new) THEN "queued" ELSE state[j]]
    /\ used' = used \cup Range(new)
    /\ EnterStore("enqueue")
    /\ UNCHANGED <<up, disk, faults, pc, cur, server>>

\* UpdateQueue.start: a worker is created unless one is alive or nothing is active.
Started == IF pc = "none" /\ BatchActive THEN "pick" ELSE pc

EnqueueSaved ==
    /\ holder = "enqueue"
    /\ disk' = Snapshot(jobs)
    /\ LeaveStore
    /\ previous' = <<>>
    /\ pc' = Started
    /\ UNCHANGED <<up, faults, jobs, state, cur, saving, used, server>>

\* The save raises or the call is cancelled: the list is put back.  A cancelled
\* write may have reached the file all the same.
EnqueueRaises ==
    /\ Enqueueing
    /\ faults["enqueue"] < MaxEnqueueFailures
    /\ Fail("enqueue")
    /\ jobs' = previous
    /\ previous' = <<>>
    /\ disk' \in {disk} \cup (IF holder = "enqueue" THEN Writing ELSE {})
    /\ IF holder = "enqueue" THEN LeaveStore ELSE waiter' = "none" /\ UNCHANGED holder
    /\ UNCHANGED <<up, state, pc, cur, saving, used, server>>

-----------------------------------------------------------------------------
(* The worker: UpdateQueue.run                                             *)

\* `await self.changed()` from the worker
SaveAt(at) ==
    /\ pc' = at
    /\ saving' = jobs
    /\ EnterStore("worker")

\* The except branch records the error and saves.
Raise ==
    /\ SaveAt("save_error")
    /\ UNCHANGED <<up, disk, faults, jobs, state, cur, previous, used>>

SendLaunch(j) ==
    /\ pc' = "launch"
    /\ wire' = wire \cup {j}

\* Mutation of Pick: any active job, not the first.
PickAny ==
    /\ pc = "pick"
    /\ \E i \in DOMAIN jobs :
          /\ Active(jobs[i])
          /\ cur' = jobs[i]
          /\ IF state[jobs[i]] = "queued"
             THEN /\ state' = [state EXCEPT ![jobs[i]] = "preparing"]
                  /\ SaveAt("save_intent")
                  /\ UNCHANGED wire
             ELSE SendLaunch(jobs[i]) /\ UNCHANGED <<state, saving, holder, waiter>>
    /\ UNCHANGED <<up, disk, faults, jobs, previous, used, late, remote, runs>>

\* Mutation of Pick: the job is launched before the intent is saved.
PickAndLaunch ==
    /\ pc = "pick"
    /\ \E i \in DOMAIN jobs :
          /\ Active(jobs[i])
          /\ \A k \in 1..(i - 1) : ~Active(jobs[k])
          /\ cur' = jobs[i]
          /\ state' = [state EXCEPT ![jobs[i]] = "preparing"]
          /\ SendLaunch(jobs[i])
    /\ UNCHANGED <<up, disk, faults, jobs, saving, previous, holder, waiter, used, late, remote, runs>>

\* The top of the loop: the first active job, up to the first await.
Pick ==
    /\ pc = "pick"
    /\ \E i \in DOMAIN jobs :
          /\ Active(jobs[i])
          /\ \A k \in 1..(i - 1) : ~Active(jobs[k])
          /\ cur' = jobs[i]
          /\ \/ /\ state[jobs[i]] = "queued"
                /\ state' = [state EXCEPT ![jobs[i]] = "preparing"]
                /\ SaveAt("save_intent")
                /\ UNCHANGED wire
             \/ /\ state[jobs[i]] = "preparing"
                /\ SendLaunch(jobs[i])
                /\ UNCHANGED <<state, saving, holder, waiter>>
             \/ /\ state[jobs[i]] \notin {"queued", "preparing"}
                /\ pc' = "status"
                /\ UNCHANGED <<state, saving, holder, waiter, wire>>
    /\ UNCHANGED <<up, disk, faults, jobs, previous, used, late, remote, runs>>

NothingLeft ==
    /\ pc = "pick"
    /\ ~BatchActive
    /\ pc' = "none"
    /\ cur' = NoJob
    /\ UNCHANGED <<up, disk, faults, jobs, state, saving, previous, holder, waiter, used, server>>

\* Where the worker goes on after a save.
AfterSave ==
    CASE pc = "save_intent"    -> "launch"
      [] pc = "save_verifying" -> "refresh"
      [] OTHER                 -> IF state[cur] \in TERMINAL THEN "pick" ELSE "sleep"

WorkerSaved ==
    /\ holder = "worker"
    /\ disk' = Snapshot(saving)
    /\ saving' = <<>>
    /\ LeaveStore
    /\ pc' = AfterSave
    /\ wire' = IF pc = "save_intent" THEN wire \cup {cur} ELSE wire
    /\ UNCHANGED <<up, faults, jobs, state, cur, previous, used, late, remote, runs>>

\* The write, or a listener called after it, raises: the except branch saves
\* again, and when that save raises too the task ends.
WorkerSaveRaises ==
    /\ holder = "worker"
    /\ faults["worker"] < MaxWorkerFailures
    /\ Fail("worker")
    /\ disk' \in {disk, Snapshot(saving)}
    /\ \/ /\ pc = "save_error"
          /\ pc' = "none"
          /\ cur' = NoJob
          /\ saving' = <<>>
          /\ LeaveStore
       \/ /\ pc # "save_error"
          /\ pc' = "save_error"
          /\ saving' = jobs
          /\ RejoinStore
          /\ UNCHANGED cur
    /\ UNCHANGED <<up, jobs, state, previous, used, server>>

LaunchReplied ==
    /\ pc = "launch"
    /\ cur \notin wire
    /\ remote[cur] # "absent"
    /\ pc' = "status"
    /\ UNCHANGED <<up, disk, faults, jobs, state, cur, saving, previous, holder, waiter, used, server>>

\* Mutation of LaunchFails: an error of the launch counts as a failed update.
LaunchFailsJob ==
    /\ pc = "launch"
    /\ state' = [state EXCEPT ![cur] = "failed"]
    /\ SaveAt("save_result")
    /\ UNCHANGED <<up, disk, faults, jobs, cur, previous, used, server>>

\* No connection, a broken one, or the timeout: the command may be lost, done
\* already, or still on its way.
LaunchFails ==
    /\ pc = "launch"
    /\ Raise
    /\ wire' = wire \ {cur}
    /\ late' \in {late, late \cup (wire \cap {cur})}
    /\ UNCHANGED <<remote, runs>>

\* Mutation of StatusWorking: whatever the status says becomes the state.
StatusUnchecked ==
    /\ pc = "status"
    /\ state' = [state EXCEPT ![cur] = remote[cur]]
    /\ SaveAt("save_result")
    /\ UNCHANGED <<up, disk, faults, jobs, cur, previous, used, server>>

\* `cat status` answers with a phase of the script: it becomes the job's state.
StatusWorking ==
    /\ pc = "status"
    /\ Running(cur)
    /\ state' = [state EXCEPT ![cur] = remote[cur]]
    /\ SaveAt("save_result")
    /\ UNCHANGED <<up, disk, faults, jobs, cur, previous, used, server>>

StatusVerifying ==
    /\ pc = "status"
    /\ remote[cur] = "verifying"
    /\ state' = [state EXCEPT ![cur] = "verifying"]
    /\ SaveAt("save_verifying")
    /\ UNCHANGED <<up, disk, faults, jobs, cur, previous, used, server>>

StatusFailed ==
    /\ pc = "status"
    /\ remote[cur] = "failed"
    /\ pc' = "refresh_failed"
    /\ UNCHANGED <<up, disk, faults, jobs, state, cur, saving, previous, holder, waiter, used, server>>

\* SSH fails, or there is no status file (exit status of cat).
StatusUnknown ==
    /\ pc = "status"
    /\ Raise
    /\ UNCHANGED server

\* Both coordinators were refreshed after a failed script.
FailureRefreshed ==
    /\ pc = "refresh_failed"
    /\ state' = [state EXCEPT ![cur] = "failed"]
    /\ SaveAt("save_result")
    /\ UNCHANGED <<up, disk, faults, jobs, cur, previous, used, server>>

\* The registry comparison is conclusive: the image is current, or still old.
Verified ==
    /\ pc = "refresh"
    /\ \E verdict \in TERMINAL : state' = [state EXCEPT ![cur] = verdict]
    /\ SaveAt("save_result")
    /\ UNCHANGED <<up, disk, faults, jobs, cur, previous, used, server>>

\* A poll failed, the container is not listed, or the registry did not answer.
VerificationUnclear ==
    /\ pc = "refresh"
    /\ Raise
    /\ UNCHANGED server

Wake ==
    /\ pc = "sleep"
    /\ pc' = "pick"
    /\ UNCHANGED <<up, disk, faults, jobs, state, cur, saving, previous, holder, waiter, used, server>>

-----------------------------------------------------------------------------
(* The Unraid server: the launch command and the script                    *)

\* A launch command for j reaches the server, in time or late.
Arrives(j) ==
    \/ j \in wire /\ wire' = wire \ {j} /\ UNCHANGED late
    \/ j \in late /\ late' = late \ {j} /\ UNCHANGED wire

\* Mutation of Admit: the directory may exist already (mkdir -p).
AdmitAgain(j) ==
    /\ Arrives(j)
    /\ remote' = [remote EXCEPT ![j] = "preparing"]
    /\ UNCHANGED <<up, disk, faults, memory, runs>>

\* mkdir admits a job once; a repeated command finds the directory.
Admit(j) ==
    /\ Arrives(j)
    /\ remote' = [remote EXCEPT ![j] = IF @ = "absent" THEN "preparing" ELSE @]
    /\ UNCHANGED <<up, disk, faults, memory, runs>>

\* `mark pulling` or `mark updating`, then the update command starts.
ScriptBegins(j) ==
    /\ remote[j] = "preparing"
    /\ remote' = [remote EXCEPT ![j] = IF TargetOf[j] \in Compose THEN "pulling" ELSE "updating"]
    /\ runs' = [runs EXCEPT ![j] = @ + 1]
    /\ UNCHANGED <<up, disk, faults, memory, wire, late>>

\* The pull ended: `docker compose up` follows, unless it failed.
ScriptPulled(j) ==
    /\ remote[j] = "pulling"
    /\ \E next \in {"recreating", "failed"} : remote' = [remote EXCEPT ![j] = next]
    /\ UNCHANGED <<up, disk, faults, memory, wire, late, runs>>

ScriptEnds(j) ==
    /\ remote[j] \in {"updating", "recreating"}
    /\ \E next \in {"verifying", "failed"} : remote' = [remote EXCEPT ![j] = next]
    /\ UNCHANGED <<up, disk, faults, memory, wire, late, runs>>

\* /run is volatile: directories, scripts and connections are gone.
Reboot ==
    /\ faults["reboot"] < MaxReboots
    /\ Fail("reboot")
    /\ wire' = {}
    /\ late' = {}
    /\ remote' = [j \in Job |-> "absent"]
    /\ UNCHANGED <<up, disk, memory, runs>>

-----------------------------------------------------------------------------
(* Restart of the integration: UpdateQueue.close and UpdateQueue.load      *)

\* A reload cancels the worker, a crash ends everything; a write under way may
\* still reach the file.
Stop ==
    /\ up
    /\ faults["restart"] < MaxRestarts
    /\ Fail("restart")
    /\ up' = FALSE
    /\ disk' \in {disk} \cup Writing
    /\ jobs' = <<>>
    /\ state' = [j \in Job |-> "none"]
    /\ pc' = "none"
    /\ cur' = NoJob
    /\ saving' = <<>>
    /\ previous' = <<>>
    /\ holder' = "none"
    /\ waiter' = "none"
    /\ wire' = {}
    /\ late' \in {late, late \cup wire}
    /\ UNCHANGED <<used, remote, runs>>

\* Mutation of Load: the restored queue is not started.
LoadOnly ==
    /\ ~up
    /\ up' = TRUE
    /\ jobs' = disk.list
    /\ state' = disk.state
    /\ UNCHANGED <<disk, faults, pc, cur, saving, previous, holder, waiter, used, server>>

Load ==
    /\ ~up
    /\ up' = TRUE
    /\ jobs' = disk.list
    /\ state' = disk.state
    /\ pc' = IF \E j \in Job : Pending(disk, j) THEN "pick" ELSE "none"
    /\ UNCHANGED <<disk, faults, cur, saving, previous, holder, waiter, used, server>>

-----------------------------------------------------------------------------

Init ==
    /\ up = FALSE
    /\ jobs = <<>>
    /\ state = [j \in Job |-> "none"]
    /\ disk = Snapshot(<<>>)
    /\ pc = "none"
    /\ cur = NoJob
    /\ saving = <<>>
    /\ previous = <<>>
    /\ holder = "none"
    /\ waiter = "none"
    /\ wire = {}
    /\ late = {}
    /\ remote = [j \in Job |-> "absent"]
    /\ runs = [j \in Job |-> 0]
    /\ used = {}
    /\ faults = [f \in Fault |-> 0]

Worker ==
    \/ Pick \/ NothingLeft
    \/ WorkerSaved \/ WorkerSaveRaises
    \/ LaunchReplied \/ LaunchFails
    \/ StatusWorking \/ StatusVerifying \/ StatusFailed \/ StatusUnknown
    \/ FailureRefreshed \/ Verified \/ VerificationUnclear
    \/ Wake

Script(j) == ScriptBegins(j) \/ ScriptPulled(j) \/ ScriptEnds(j)

Next ==
    \/ \E new \in Batches : Enqueue(new)
    \/ EnqueueSaved \/ EnqueueRaises
    \/ Worker
    \/ \E j \in Job : Admit(j) \/ Script(j)
    \/ Reboot \/ Stop \/ Load

Spec == Init /\ [][Next]_vars

-----------------------------------------------------------------------------
(* Fairness.  The event loop runs every coroutine that can run, the script *)
(* runs on, and the network and the registry do not fail for ever: of the  *)
(* commands sent again and again one arrives, and one reply comes back.    *)

AdmitInTime(j) == j \in wire /\ Admit(j) /\ j \notin wire'

Fairness ==
    /\ WF_vars(EnqueueSaved)
    /\ WF_vars(Load)
    /\ WF_vars(Pick \/ NothingLeft \/ WorkerSaved \/ FailureRefreshed \/ Wake)
    /\ \A j \in Job : WF_vars(Script(j))
    /\ SF_vars(\E j \in Job : AdmitInTime(j))
    /\ SF_vars(LaunchReplied)
    /\ SF_vars(StatusWorking \/ StatusVerifying \/ StatusFailed)
    /\ SF_vars(Verified)

FairSpec == Spec /\ Fairness

-----------------------------------------------------------------------------
(* Properties                                                              *)

\* Every variable keeps its type.
TypeOK ==
    /\ up \in BOOLEAN
    /\ jobs \in Seq(Job)
    /\ state \in [Job -> State]
    /\ disk \in [list : Seq(Job), state : [Job -> State]]
    /\ pc \in WorkerPC
    /\ cur \in Job \cup {NoJob}
    /\ saving \in Seq(Job)
    /\ previous \in Seq(Job)
    /\ holder \in Writer
    /\ waiter \in Writer
    /\ wire \subseteq Job
    /\ late \subseteq Job
    /\ remote \in [Job -> Remote]
    /\ runs \in [Job -> Nat]
    /\ used \subseteq Job
    /\ faults \in [Fault -> Nat]

\* A list of jobs is worked off in order: behind a job that is not terminal
\* every job is still queued, so at most one has left the queue.
InOrder(list, st) ==
    \A i, k \in DOMAIN list : i < k /\ st[list[i]] \in ACTIVE => st[list[k]] = "queued"

\* Serial processing holds in memory and in what a reload would find.
SerialBatch == InOrder(jobs, state) /\ InOrder(disk.list, disk.state)

\* The launch intent is durable before the server can see the job: whatever
\* happens to Home Assistant, a job the server may run is never found as queued.
IntentBeforeLaunch ==
    \A j \in Job : (j \in wire \cup late \/ remote[j] # "absent") =>
        disk.state[j] # "queued" /\ state[j] # "queued"

\* Repeated launch commands start a job's update at most once per server boot.
OncePerBoot == \A j \in Job : runs[j] <= 1 + faults["reboot"]

\* A batch, and the saved one, holds no target twice: requests for a target
\* of a running batch are merged, also while a save is under way.
NoDuplicateTarget ==
    \A list \in {jobs, disk.list} : \A i, k \in DOMAIN list :
        i # k => TargetOf[list[i]] # TargetOf[list[k]]

\* A job shown or saved as finished does not run, and none of its launch
\* commands that are still on their way can bring it back.
FinishedIsQuiet ==
    \A j \in Job : (state[j] \in TERMINAL \/ disk.state[j] \in TERMINAL) =>
        ~Running(j) /\ (j \in wire \cup late => remote[j] # "absent")

\* At no time do two update scripts run on the server.
OneScriptAtATime == \A j, k \in Job : Running(j) /\ Running(k) => j = k

\* Scripts run one after the other and never for a job that is finished, also
\* when launch commands are lost, late or repeated over restarts: two updates
\* never work on the server's containers at once (update_queue.py:182).
ScriptsInOrder == OneScriptAtATime /\ FinishedIsQuiet

\* A job the server has admitted stays in the saved list until its result is
\* known, so no restart can lose sight of it.
AdmittedStaysSaved ==
    [][\A j \in Job : Pending(disk, j) /\ remote[j] # "absent" =>
         j \in Range(disk'.list) \/ state[j] \in TERMINAL]_vars

\* The queue implements SerialJobs: the saved list is the line, and the server's
\* status files say which job runs.
ServerView == [j \in Job |-> CASE Running(j)          -> "busy"
                              [] remote[j] = "absent" -> "idle"
                              [] OTHER                -> "over"]

Promise == INSTANCE SerialJobs WITH line <- disk.list, run <- ServerView

ImplementsSerialJobs == Promise!Spec

\* Every saved job reaches a result.
EveryJobEnds == \A j \in Job : Pending(disk, j) ~> ~Pending(disk, j)

=============================================================================
