-------------------------- MODULE QueueOrderProofs --------------------------
(***************************************************************************)
(* Proofs about UpdateQueue, among them that it implements SerialJobs,     *)
(* where no save of a request fails and the server is not rebooted         *)
(* (QueueRollback and Reboot show why), for every set of jobs, targets and *)
(* requests, any number of restarts and of failing saves of the worker.    *)
(***************************************************************************)
EXTENDS UpdateQueueProofs, SequenceTheorems

\* No request is put back and no status file is lost.
Reliable == MaxEnqueueFailures = 0 /\ MaxReboots = 0

-----------------------------------------------------------------------------
(* The inductive invariant                                                 *)

\* The server has seen the job or may see it; its script has ended; it is
\* running or may yet begin.
Touched(j) == j \in wire \cup late \/ remote[j] # "absent"
Ended(j)   == remote[j] \in {"verifying", "failed"}
Live(j)    == Touched(j) /\ ~Ended(j)

\* Listed jobs have a state, and without a queue there is none.
Stated ==
    /\ ~up => \A j \in Job : state[j] = "none"
    /\ \A j \in Range(jobs) \cup Range(saving) : state[j] # "none"

\* The list that the worker saves is the present one, or all of it is finished
\* and a request with a new one waits behind it.
Aligned ==
    InStore("worker") /\ saving # jobs =>
        /\ waiter = "enqueue"
        /\ \A i \in DOMAIN jobs : state[jobs[i]] = "queued"
        /\ \A i \in DOMAIN saving : ~Active(saving[i])

\* The job whose intent is saved is listed; the verdict on a job is sought when
\* its script has ended.
InHand ==
    /\ pc = "save_intent" => cur \in Range(jobs)
    /\ pc \in {"save_verifying", "refresh", "refresh_failed"} => Ended(cur)

LiveListed == up => \A j \in Job : Live(j) => j \in Range(jobs) /\ Active(j)

\* A file in which the queue finds again what the server may still run, and
\* that shows nothing the queue has forgotten.
FileFits(file) ==
    /\ \A j \in Range(file.list) : file.state[j] # "none"
    /\ \A j \in Job : Live(j) => Pending(file, j)
    /\ up => \A j \in Job : Pending(file, j) /\ Touched(j) => j \in Range(jobs) \/ state[j] \in TERMINAL

\* A file that has every job the queue has begun with.
HasBegun(file) ==
    \A j \in Range(jobs) : state[j] \in ACTIVE \ {"queued"} => Pending(file, j)

Behind == {"none", "save_intent", "save_error"}

Turns ==
    /\ Stated /\ Aligned /\ InHand /\ LiveListed
    /\ FileFits(disk)
    /\ up /\ pc \notin Behind => HasBegun(disk)

TurnsInv == QueueInv /\ Turns

-----------------------------------------------------------------------------
(* What the Store writes                                                   *)

\* A file that is being written fits, and has what the queue has begun with.
LEMMA WritingFits ==
    ASSUME TurnsInv, NEW s \in Writing
    PROVE  /\ FileFits(s) /\ HasBegun(s)
           /\ \A j \in Job : Pending(disk, j) /\ remote[j] # "absent" =>
                 j \in Range(s.list) \/ state[j] \in TERMINAL
<1>1. TypeOK /\ WorkerWaits /\ IntentBeforeLaunch
  BY DEF TurnsInv, QueueInv, IntentInv
<1>2. /\ s.list \in {jobs, saving} /\ s = Snapshot(s.list) /\ s.list \in Seq(Job)
      /\ holder = "enqueue" => s.list = jobs
  BY <1>1, WritingShows
<1>3. up /\ holder # "none"
  BY <1>1 DEF WorkerWaits, Writing
<1>4. \A j \in Range(s.list) : s.state[j] = state[j] /\ j \in Job
  <2>1. \A j \in Range(s.list) : Snapshot(s.list).state[j] = state[j]
    BY <1>1, <1>2, SnapshotShows DEF TypeOK
  <2>2. QED
    BY <1>2, <2>1, RangeOfList
<1>5. Stated /\ Aligned /\ LiveListed /\ FileFits(disk)
  BY DEF TurnsInv, Turns
<1>6. \A j \in Range(s.list) : s.state[j] # "none"
  BY <1>2, <1>4, <1>5 DEF Stated
<1>7. CASE s.list = jobs
  <2>1. \A j \in Job : Live(j) => Pending(s, j)
    BY <1>3, <1>4, <1>5, <1>7 DEF LiveListed, Pending, Active
  <2>2. \A j \in Job : Pending(s, j) => j \in Range(jobs)
    BY <1>7 DEF Pending
  <2>3. HasBegun(s)
    BY <1>4, <1>7 DEF HasBegun, Pending
  <2>4. \A j \in Job : Pending(disk, j) /\ remote[j] # "absent" => j \in Range(s.list) \/ state[j] \in TERMINAL
    BY <1>3, <1>5, <1>7 DEF FileFits, Touched
  <2>5. QED
    BY <1>6, <2>1, <2>2, <2>3, <2>4 DEF FileFits
<1>8. CASE s.list # jobs
  <2>1. s.list = saving /\ InStore("worker") /\ saving # jobs
    BY <1>1, <1>2, <1>3, <1>8 DEF InStore, TypeOK, Writer
  <2>2. /\ \A j \in Range(jobs) : state[j] = "queued"
        /\ \A j \in Range(saving) : state[j] \notin ACTIVE
    BY <1>5, <2>1 DEF Aligned, Range, Active
  <2>3. \A j \in Job : Touched(j) => state[j] # "queued"
    BY <1>1 DEF IntentBeforeLaunch, Touched
  <2>4. \A j \in Job : Touched(j) => j \notin Range(jobs)
    BY <2>2, <2>3
  <2>5. \A j \in Job : ~Live(j)
    BY <1>3, <1>5, <2>4 DEF LiveListed, Live
  <2>6. \A j \in Job : ~Pending(s, j)
    BY <1>4, <2>1, <2>2 DEF Pending
  <2>7. HasBegun(s)
    BY <2>2 DEF HasBegun
  <2>8. \A j \in Job : Pending(disk, j) /\ remote[j] # "absent" => state[j] \in TERMINAL
    BY <1>3, <1>5, <2>4 DEF FileFits, Touched
  <2>9. QED
    BY <1>6, <2>5, <2>6, <2>7, <2>8 DEF FileFits
<1>9. QED
  BY <1>7, <1>8

\* Files only change to what is being written.
LEMMA FileChanges ==
    ASSUME TurnsInv, [Next]_vars
    PROVE  disk' \in {disk} \cup Writing
<1>1. CASE EnqueueSaved \/ WorkerSaved \/ WorkerSaveRaises
  BY <1>1 DEF EnqueueSaved, WorkerSaved, WorkerSaveRaises, Writing
<1>2. CASE EnqueueRaises \/ Stop
  BY <1>2 DEF EnqueueRaises, Stop
<1>3. CASE Pick \/ NothingLeft \/ LaunchReplied \/ LaunchFails \/ Wake
  BY <1>3 DEF Pick, NothingLeft, LaunchReplied, LaunchFails, Wake, Raise
<1>4. CASE StatusWorking \/ StatusVerifying \/ StatusFailed \/ StatusUnknown
  BY <1>4 DEF StatusWorking, StatusVerifying, StatusFailed, StatusUnknown, Raise
<1>5. CASE FailureRefreshed \/ Verified \/ VerificationUnclear
  BY <1>5 DEF FailureRefreshed, Verified, VerificationUnclear, Raise
<1>6. CASE (\E new \in Batches : Enqueue(new)) \/ Load \/ Reboot \/ UNCHANGED vars
  BY <1>6 DEF Enqueue, Load, Reboot, vars
<1>7. CASE \E j \in Job : Admit(j) \/ Script(j)
  BY <1>7 DEF Admit, Script, ScriptBegins, ScriptPulled, ScriptEnds
<1>8. QED
  BY <1>1, <1>2, <1>3, <1>4, <1>5, <1>6, <1>7 DEF Next, Worker

-----------------------------------------------------------------------------
(* Requests                                                                *)

\* A request puts its jobs behind those under way, or in place of finished ones.
LEMMA EnqueueTurns ==
    ASSUME TurnsInv, NEW new \in Batches, Enqueue(new)
    PROVE  Turns'
<1>1. TypeOK /\ WorkerWaits /\ Known /\ IntentInv /\ Turns
  BY DEF TurnsInv, QueueInv
<1>2. /\ new \in Seq(Job) /\ Range(new) \subseteq Job /\ Range(new) \cap used = {}
      /\ jobs \in Seq(Job) /\ state \in [Job -> State]
  BY <1>1, QueueAssumption, RangeOfList DEF Enqueue, TypeOK, Range
<1>3. /\ up /\ UNCHANGED <<up, disk, pc, cur, wire, late, remote>>
      /\ state' = [j \in Job |-> IF j \in Range(new) THEN "queued" ELSE state[j]]
      /\ ~Enqueueing /\ EnterStore("enqueue")
  BY DEF Enqueue, server
<1>4. \A j \in used \cap Job : state'[j] = state[j] /\ Active(j)' = Active(j)
  BY <1>2, <1>3 DEF Active
<1>5. /\ \A j \in Job : Touched(j)' = Touched(j) /\ Ended(j)' = Ended(j) /\ Live(j)' = Live(j)
      /\ \A j \in Job : Touched(j) => j \in used
      /\ \A j \in Job : Pending(disk', j) = Pending(disk, j)
  BY <1>1, <1>3 DEF Touched, Ended, Live, Known
<1>6. \/ /\ BatchActive /\ Range(jobs') \subseteq Range(jobs) \cup Range(new) /\ Range(jobs) \subseteq Range(jobs')
         /\ saving' = IF saving = jobs THEN jobs' ELSE saving
      \/ ~BatchActive /\ jobs' = new /\ saving' = saving
  BY <1>2, RangeOfConcat DEF Enqueue
<1>7. \A j \in Range(jobs) : j \in used /\ j \in Job /\ (Active(j) => BatchActive)
  BY <1>1, <1>2, RangeOfList DEF Known, BatchActive, Range
<1>8. \A j \in Range(saving) : j \in used /\ j \in Job
  BY <1>1, RangeOfList DEF Known, TypeOK
<1>9. Stated'
  BY <1>1, <1>2, <1>3, <1>4, <1>6, <1>7, <1>8 DEF Turns, Stated
<1>10. Aligned'
  <2>1. SUFFICES ASSUME InStore("worker")', saving' # jobs'
                 PROVE  waiter' = "enqueue" /\ (\A i \in DOMAIN jobs' : state'[jobs'[i]] = "queued")
                        /\ \A i \in DOMAIN saving' : state'[saving'[i]] \notin ACTIVE
    BY DEF Aligned, Active
  <2>2. holder = "worker" /\ waiter = "none" /\ waiter' = "enqueue"
    BY <1>1, <1>3, <2>1 DEF InStore, Enqueueing, EnterStore, WorkerWaits, TypeOK, Writer
  <2>3. saving = jobs
    BY <1>1, <2>2 DEF Turns, Aligned, InStore
  <2>4. ~BatchActive /\ jobs' = new /\ saving' = jobs
    BY <1>6, <2>1, <2>3
  <2>5. \A i \in DOMAIN new : state'[new[i]] = "queued"
    BY <1>2, <1>3, RangeOfList
  <2>6. \A i \in DOMAIN jobs : state'[jobs[i]] \notin ACTIVE
    BY <1>2, <1>4, <1>7, <2>4, RangeOfList DEF Active
  <2>7. QED
    BY <2>2, <2>4, <2>5, <2>6
<1>11. InHand'
  <2>1. pc = "save_intent" => cur \in Range(jobs) /\ Active(cur)
    BY <1>1 DEF Turns, InHand, IntentInv, Attending, Active
  <2>2. pc = "save_intent" => cur \in Range(jobs')
    BY <1>6, <1>7, <2>1
  <2>3. QED
    BY <1>1, <1>3, <2>2 DEF Turns, InHand, Ended
<1>12. LiveListed'
  <2>1. \A j \in Job : Live(j) => j \in Range(jobs) /\ Active(j) /\ j \in used
    BY <1>1, <1>3, <1>5 DEF Turns, LiveListed, Live
  <2>2. QED
    BY <1>4, <1>5, <1>6, <1>7, <2>1 DEF LiveListed
<1>13. FileFits(disk)'
  <2>1. \A j \in Range(jobs) : Active(j) \/ state[j] \in TERMINAL
    BY <1>1, <1>2, <1>7 DEF Turns, Stated, State, Active
  <2>2. ASSUME NEW j \in Job, Pending(disk, j), Touched(j)
        PROVE  j \in Range(jobs') \/ state'[j] \in TERMINAL
    <3>1. j \in Range(jobs) \/ state[j] \in TERMINAL
      BY <1>1, <1>3, <2>2 DEF Turns, FileFits
    <3>2. j \in used
      BY <1>5, <2>2
    <3>3. QED
      BY <1>4, <1>6, <1>7, <2>1, <3>1, <3>2
  <2>3. QED
    BY <1>1, <1>3, <1>5, <2>2 DEF Turns, FileFits
<1>14. pc \notin Behind => HasBegun(disk)'
  <2>1. \A j \in Range(jobs') : state'[j] \in ACTIVE \ {"queued"} => j \in Range(jobs) /\ Active(j)
    BY <1>2, <1>3, <1>4, <1>6, <1>7 DEF Active
  <2>2. \A j \in Range(jobs) : state'[j] = state[j]
    BY <1>4, <1>7
  <2>3. QED
    BY <1>1, <1>3, <1>5, <1>7, <2>1, <2>2 DEF Turns, HasBegun
<1>15. QED
  BY <1>3, <1>9, <1>10, <1>11, <1>12, <1>13, <1>14 DEF Turns

\* A saved request is in the file.
LEMMA EnqueueSavedTurns ==
    ASSUME TurnsInv, EnqueueSaved
    PROVE  Turns'
<1>1. TypeOK /\ WorkerWaits /\ Turns
  BY DEF TurnsInv, QueueInv
<1>2. /\ UNCHANGED <<up, jobs, state, cur, saving, wire, late, remote>>
      /\ disk' \in Writing /\ pc' \in {pc, "pick"} /\ (pc' # pc => pc = "none")
      /\ holder = "enqueue" /\ holder' = waiter /\ waiter' = "none"
  BY DEF EnqueueSaved, Writing, Started, LeaveStore, server
<1>3. FileFits(disk') /\ HasBegun(disk')
  BY <1>2, WritingFits
<1>4. Aligned'
  BY <1>1, <1>2 DEF Turns, Aligned, InStore, WorkerWaits, Active
<1>5. QED
  BY <1>1, <1>2, <1>3, <1>4 DEF Turns, Stated, InHand, LiveListed, FileFits, HasBegun, Pending, Active,
                               Live, Touched, Ended

-----------------------------------------------------------------------------
(* The worker                                                              *)

\* The first active job is taken: its intent is saved, it is launched again, or
\* its status is asked for.
LEMMA PickTurns ==
    ASSUME TurnsInv, Pick
    PROVE  Turns'
<1>1. TypeOK /\ WorkerWaits /\ Turns
  BY DEF TurnsInv, QueueInv
<1>2. PICK i \in DOMAIN jobs :
        /\ Active(jobs[i]) /\ cur' = jobs[i]
        /\ \/ /\ state[jobs[i]] = "queued" /\ SaveAt("save_intent") /\ UNCHANGED wire
              /\ state' = [state EXCEPT ![jobs[i]] = "preparing"]
           \/ /\ state[jobs[i]] # "queued" /\ UNCHANGED <<state, saving, holder, waiter>>
              /\ pc' \in {"launch", "status"} /\ wire' \in {wire, wire \cup {jobs[i]}}
  BY DEF Pick, SendLaunch
<1>3. /\ pc = "pick" /\ up /\ UNCHANGED <<up, disk, jobs, late, remote>>
      /\ ~InStore("worker") /\ saving = <<>>
  BY <1>1 DEF Pick, WorkerWaits, SavePC
<1>4. jobs[i] \in Job /\ jobs[i] \in Range(jobs) /\ state \in [Job -> State] /\ Range(jobs) \subseteq Job
  BY <1>1, RangeOfList DEF TypeOK
<1>5. HasBegun(disk)
  BY <1>1, <1>3 DEF Turns, Behind
<1>6. CASE state[jobs[i]] = "queued"
  <2>1. /\ pc' = "save_intent" /\ saving' = jobs /\ UNCHANGED wire
        /\ state' = [state EXCEPT ![jobs[i]] = "preparing"]
    BY <1>2, <1>6 DEF SaveAt
  <2>2. /\ \A j \in Job : Active(j)' = Active(j) /\ (state'[j] # "none" <=> state[j] # "none")
        /\ \A j \in Job : state'[j] \in TERMINAL <=> state[j] \in TERMINAL
    BY <1>4, <1>6, <2>1 DEF Active, ACTIVE, TERMINAL
  <2>3. Stated'
    BY <1>1, <1>3, <1>4, <2>1, <2>2 DEF Turns, Stated
  <2>4. Aligned' /\ InHand'
    BY <1>2, <1>3, <1>4, <2>1 DEF Aligned, InHand
  <2>5. LiveListed' /\ FileFits(disk)'
    BY <1>1, <1>3, <2>1, <2>2 DEF Turns, LiveListed, FileFits, Pending, Live, Touched, Ended
  <2>6. QED
    BY <1>1, <2>1, <2>3, <2>4, <2>5 DEF Turns, Behind
<1>7. CASE state[jobs[i]] # "queued"
  <2>1. /\ UNCHANGED <<state, saving, holder, waiter>>
        /\ pc' \in {"launch", "status"} /\ wire' \in {wire, wire \cup {jobs[i]}}
    BY <1>2, <1>7
  <2>2. Pending(disk, jobs[i])
    BY <1>2, <1>4, <1>5, <1>7 DEF HasBegun, Active
  <2>3. \A j \in Job : /\ Live(j)' => Live(j) \/ j = jobs[i]
                       /\ Touched(j)' => Touched(j) \/ j = jobs[i]
    BY <1>3, <2>1 DEF Live, Touched, Ended
  <2>4. Stated' /\ Aligned' /\ InHand' /\ HasBegun(disk)'
    BY <1>1, <1>3, <1>5, <2>1 DEF Turns, Stated, Aligned, InHand, HasBegun, InStore, Pending
  <2>5. LiveListed'
    BY <1>1, <1>2, <1>3, <1>4, <2>1, <2>3 DEF Turns, LiveListed, Active
  <2>6. FileFits(disk)'
    BY <1>1, <1>3, <1>4, <2>1, <2>2, <2>3 DEF Turns, FileFits, Pending
  <2>7. QED
    BY <2>4, <2>5, <2>6 DEF Turns
<1>8. QED
  BY <1>6, <1>7

\* After a save of the worker the file is right; the intent is in it when the
\* job is launched.
LEMMA WorkerSavedTurns ==
    ASSUME TurnsInv, WorkerSaved
    PROVE  Turns'
<1>1. TypeOK /\ WorkerWaits /\ IntentInv /\ Turns
  BY DEF TurnsInv, QueueInv
<1>2. /\ UNCHANGED <<up, jobs, state, cur, late, remote>> /\ saving' = <<>>
      /\ holder = "worker" /\ holder' = waiter /\ waiter' = "none"
      /\ disk' \in Writing
      /\ wire' = IF pc = "save_intent" THEN wire \cup {cur} ELSE wire
      /\ pc' = AfterSave
  BY DEF WorkerSaved, Writing, LeaveStore
<1>3. FileFits(disk') /\ HasBegun(disk') /\ up
  BY <1>1, <1>2, WritingFits DEF WorkerWaits
<1>4. pc \in SavePC /\ ~InStore("worker")'
  BY <1>1, <1>2 DEF WorkerWaits, InStore
<1>5. pc = "save_intent" => /\ cur \in Range(jobs) /\ state[cur] \in ACTIVE \ {"queued"}
                            /\ Pending(disk', cur)
  BY <1>1, <1>3 DEF Turns, InHand, IntentInv, Attending, HasBegun
<1>6. \A j \in Job : /\ Live(j)' => Live(j) \/ (pc = "save_intent" /\ j = cur)
                     /\ Touched(j)' => Touched(j) \/ (pc = "save_intent" /\ j = cur)
  BY <1>2 DEF Live, Touched, Ended
<1>7. Stated' /\ Aligned'
  BY <1>1, <1>2, <1>4 DEF Turns, Stated, Aligned, Range
<1>8. InHand'
  BY <1>1, <1>2, <1>4 DEF Turns, InHand, AfterSave, SavePC, Ended
<1>9. LiveListed'
  BY <1>1, <1>2, <1>3, <1>5, <1>6 DEF Turns, LiveListed, Active
<1>10. FileFits(disk)' /\ HasBegun(disk)'
  BY <1>2, <1>3, <1>5, <1>6 DEF FileFits, HasBegun, Pending
<1>11. QED
  BY <1>7, <1>8, <1>9, <1>10 DEF Turns

\* A save that raises is repeated, or ends the task.
LEMMA WorkerSaveRaisesTurns ==
    ASSUME TurnsInv, WorkerSaveRaises
    PROVE  Turns'
<1>1. TypeOK /\ WorkerWaits /\ Turns
  BY DEF TurnsInv, QueueInv
<1>2. /\ UNCHANGED <<up, jobs, state, wire, late, remote>>
      /\ holder = "worker" /\ disk' \in {disk} \cup Writing
      /\ \/ /\ pc' = "none" /\ saving' = <<>> /\ LeaveStore
         \/ /\ pc' = "save_error" /\ saving' = jobs
  BY DEF WorkerSaveRaises, Writing, server
<1>3. FileFits(disk')
  BY <1>1, <1>2, WritingFits DEF Turns
<1>4. Aligned'
  BY <1>1, <1>2 DEF Aligned, InStore, LeaveStore, WorkerWaits
<1>5. Stated' /\ InHand' /\ LiveListed'
  BY <1>1, <1>2 DEF Turns, Stated, InHand, LiveListed, Active, Live, Touched, Ended, Range
<1>6. FileFits(disk)' /\ pc' \in Behind
  BY <1>2, <1>3 DEF FileFits, Pending, Live, Touched, Ended, Behind
<1>7. QED
  BY <1>4, <1>5, <1>6 DEF Turns

\* A result or an error is saved: a job goes on as the script says, and ends
\* when the script has.
LEMMA ReportTurns ==
    ASSUME TurnsInv, Next,
           LaunchFails \/ StatusWorking \/ StatusVerifying \/ StatusUnknown
               \/ FailureRefreshed \/ Verified \/ VerificationUnclear
    PROVE  Turns'
<1>1. TypeOK /\ WorkerWaits /\ IntentInv /\ Turns
  BY DEF TurnsInv, QueueInv
<1>2. /\ UNCHANGED <<up, disk, jobs, cur, remote>>
      /\ pc \in {"launch", "status", "refresh", "refresh_failed"}
      /\ wire' \cup late' \subseteq wire \cup late
      /\ \E at \in {"save_result", "save_verifying", "save_error"} : SaveAt(at)
      /\ pc' = "save_verifying" => remote[cur] = "verifying"
      /\ \/ UNCHANGED state
         \/ /\ pc = "status" /\ \E phase \in Working \cup {"verifying"} : state' = [state EXCEPT ![cur] = phase]
         \/ /\ pc \in {"refresh", "refresh_failed"}
            /\ \E verdict \in TERMINAL : state' = [state EXCEPT ![cur] = verdict]
  <2>1. CASE LaunchFails \/ StatusUnknown \/ VerificationUnclear
    BY <2>1 DEF LaunchFails, StatusUnknown, VerificationUnclear, Raise, SaveAt, server
  <2>2. CASE StatusWorking \/ StatusVerifying
    BY <2>2 DEF StatusWorking, StatusVerifying, SaveAt, Running, server
  <2>3. CASE FailureRefreshed \/ Verified
    BY <2>3 DEF FailureRefreshed, Verified, SaveAt, TERMINAL, server
  <2>4. QED
    BY <2>1, <2>2, <2>3
<1>3. /\ up /\ cur \in Job /\ state[cur] \in ACTIVE \ {"queued"} /\ saving' = jobs
      /\ HasBegun(disk)
  BY <1>1, <1>2 DEF WorkerWaits, IntentInv, Attending, SaveAt, Turns, Behind
<1>4. /\ \A j \in Job : Live(j)' => Live(j)
      /\ \A j \in Job : Touched(j)' => Touched(j)
      /\ \A j \in Job : Ended(j)' = Ended(j)
  BY <1>2 DEF Live, Touched, Ended
<1>5. /\ \A j \in Job : Live(j) /\ Active(j) => Active(j)'
      /\ \A j \in Job : state'[j] \in ACTIVE \ {"queued"} => state[j] \in ACTIVE \ {"queued"}
      /\ \A j \in Job : state[j] \in TERMINAL => state'[j] \in TERMINAL
      /\ \A j \in Job : state[j] # "none" => state'[j] # "none"
  <2>1. state \in [Job -> State]
    BY <1>1 DEF TypeOK
  <2>2. CASE UNCHANGED state
    BY <2>2 DEF Active
  <2>3. CASE pc = "status" /\ \E phase \in Working \cup {"verifying"} : state' = [state EXCEPT ![cur] = phase]
    BY <1>3, <2>1, <2>3 DEF Active, Working, ACTIVE, TERMINAL
  <2>4. CASE /\ pc \in {"refresh", "refresh_failed"}
             /\ \E verdict \in TERMINAL : state' = [state EXCEPT ![cur] = verdict]
    <3>1. ~Live(cur)
      BY <1>1, <2>4 DEF Turns, InHand, Live
    <3>2. QED
      BY <1>3, <2>1, <2>4, <3>1 DEF Active, ACTIVE, TERMINAL
  <2>5. QED
    BY <1>2, <2>2, <2>3, <2>4
<1>6. Range(jobs) \subseteq Job
  BY <1>1, RangeOfList DEF TypeOK
<1>7. Stated' /\ Aligned' /\ InHand'
  BY <1>1, <1>2, <1>3, <1>5, <1>6 DEF Turns, Stated, Aligned, InHand, SaveAt, Ended
<1>8. LiveListed'
  BY <1>1, <1>2, <1>3, <1>4, <1>5 DEF Turns, LiveListed
<1>9. FileFits(disk)' /\ HasBegun(disk)'
  BY <1>1, <1>2, <1>3, <1>4, <1>5, <1>6 DEF Turns, FileFits, HasBegun, Pending
<1>10. QED
  BY <1>7, <1>8, <1>9 DEF Turns

-----------------------------------------------------------------------------
(* The server, restarts and the rest                                       *)

\* What the server does touches no further job and revives none.
LEMMA ServerTurns ==
    ASSUME TurnsInv, NEW k \in Job, Admit(k) \/ Script(k)
    PROVE  Turns'
<1>1. TypeOK /\ Turns
  BY DEF TurnsInv, QueueInv
<1>2. UNCHANGED <<up, disk, jobs, state, pc, cur, saving, holder, waiter>>
  BY DEF Admit, Script, ScriptBegins, ScriptPulled, ScriptEnds, memory
<1>3. \A j \in Job : /\ Touched(j)' => Touched(j)
                     /\ Ended(j) => Ended(j)'
  <2>1. CASE Admit(k)
    BY <1>1, <2>1 DEF Admit, Arrives, Touched, Ended, TypeOK
  <2>2. CASE ScriptBegins(k) \/ ScriptPulled(k) \/ ScriptEnds(k)
    BY <1>1, <2>2 DEF ScriptBegins, ScriptPulled, ScriptEnds, Touched, Ended, TypeOK
  <2>3. QED
    BY <2>1, <2>2 DEF Script
<1>4. Stated' /\ Aligned'
  BY <1>1, <1>2 DEF Turns, Stated, Aligned, InStore, Active
<1>5. InHand'
  <2>1. pc \in {"save_verifying", "refresh", "refresh_failed"} => cur \in Job
    BY DEF TurnsInv, QueueInv, WorkerWaits
  <2>2. QED
    BY <1>1, <1>2, <1>3, <2>1 DEF Turns, InHand
<1>6. LiveListed' /\ FileFits(disk)' /\ (up' /\ pc' \notin Behind => HasBegun(disk)')
  BY <1>1, <1>2, <1>3 DEF Turns, LiveListed, FileFits, HasBegun, Pending, Active, Live
<1>7. QED
  BY <1>4, <1>5, <1>6 DEF Turns

\* What a stop leaves behind fits, and the next start finds it.
LEMMA RestartTurns ==
    ASSUME TurnsInv, Stop \/ Load
    PROVE  Turns'
<1>1. TypeOK /\ WorkerWaits /\ Turns
  BY DEF TurnsInv, QueueInv
<1>2. CASE Stop
  <2>1. /\ ~up' /\ jobs' = <<>> /\ saving' = <<>> /\ state' = [j \in Job |-> "none"] /\ pc' = "none"
        /\ holder' = "none" /\ waiter' = "none" /\ UNCHANGED remote
        /\ wire' \cup late' \subseteq wire \cup late /\ disk' \in {disk} \cup Writing
    BY <1>2 DEF Stop
  <2>2. FileFits(disk')
    BY <1>1, <2>1, WritingFits DEF Turns
  <2>3. FileFits(disk)'
    BY <2>1, <2>2 DEF FileFits, Pending, Live, Touched, Ended
  <2>4. QED
    BY <2>1, <2>3 DEF Turns, Stated, Aligned, InHand, LiveListed, InStore, Range
<1>3. CASE Load
  <2>1. /\ ~up /\ up' /\ jobs' = disk.list /\ state' = disk.state /\ pc' \in {"pick", "none"}
        /\ UNCHANGED <<disk, saving, holder, waiter, wire, late, remote>>
    BY <1>3 DEF Load, server
  <2>2. saving = <<>> /\ holder = "none" /\ waiter = "none"
    BY <1>1, <2>1 DEF WorkerWaits, SavePC, TypeOK, Writer
  <2>3. \A j \in Job : Live(j)' = Live(j)
    BY <2>1 DEF Live, Touched, Ended
  <2>4. Stated' /\ Aligned' /\ InHand'
    BY <1>1, <2>1, <2>2 DEF Turns, Stated, Aligned, InHand, FileFits, InStore, Range
  <2>5. LiveListed' /\ FileFits(disk)' /\ HasBegun(disk)'
    BY <1>1, <2>1, <2>3 DEF Turns, LiveListed, FileFits, HasBegun, Pending, Active
  <2>6. QED
    BY <2>4, <2>5 DEF Turns
<1>4. QED
  BY <1>2, <1>3

\* The worker moves on without a change, or nothing happens.
LEMMA IdleTurns ==
    ASSUME TurnsInv, NothingLeft \/ LaunchReplied \/ StatusFailed \/ Wake \/ UNCHANGED vars
    PROVE  Turns'
<1>1. Turns
  BY DEF TurnsInv
<1>2. /\ UNCHANGED <<up, disk, jobs, state, saving, holder, waiter, wire, late, remote>>
      /\ \/ pc' = pc /\ cur' = cur
         \/ /\ pc \notin Behind
            /\ (pc' \in {"none", "status", "pick"} \/ (pc' = "refresh_failed" /\ Ended(cur')))
  BY DEF NothingLeft, LaunchReplied, StatusFailed, Wake, Behind, Ended, vars, memory, server
<1>3. InHand'
  BY <1>1, <1>2 DEF Turns, InHand, Ended
<1>4. QED
  BY <1>1, <1>2, <1>3 DEF Turns, Stated, Aligned, LiveListed, FileFits, HasBegun, Pending, Active,
                         InStore, Live, Touched, Ended

-----------------------------------------------------------------------------
(* The theorems                                                            *)

\* At the start there is nothing.
LEMMA TurnsInit ==
    ASSUME Init
    PROVE  TurnsInv
<1>1. /\ ~up /\ jobs = <<>> /\ saving = <<>> /\ wire = {} /\ late = {} /\ pc = "none"
      /\ holder = "none" /\ waiter = "none" /\ disk.list = <<>>
      /\ \A j \in Job : state[j] = "none" /\ remote[j] = "absent"
  BY DEF Init, Snapshot
<1>2. Turns
  BY <1>1 DEF Turns, Stated, Aligned, InHand, LiveListed, FileFits, InStore, Live, Touched, Range
<1>3. QED
  BY <1>2, QueueInit DEF TurnsInv

LEMMA TurnsStep ==
    ASSUME Reliable, TurnsInv, [Next]_vars
    PROVE  TurnsInv'
<1>1. QueueInv'
  BY TypeStep, WorkerStep, KnownStep, IntentStep, OnceStep, OrderStep DEF TurnsInv, QueueInv
<1>2. ~EnqueueRaises /\ ~Reboot
  <2>1. faults["enqueue"] \in Nat /\ faults["reboot"] \in Nat
    BY DEF TurnsInv, QueueInv, TypeOK, Fault
  <2>2. QED
    BY <2>1 DEF EnqueueRaises, Reboot, Reliable
<1>3. Turns'
  BY <1>2, EnqueueTurns, EnqueueSavedTurns, PickTurns, WorkerSavedTurns, WorkerSaveRaisesTurns,
     ReportTurns, ServerTurns, RestartTurns, IdleTurns DEF Next, Worker
<1>4. QED
  BY <1>1, <1>3 DEF TurnsInv

LEMMA TurnsSafe ==
    ASSUME Reliable
    PROVE  Spec => []TurnsInv
<1>1. TurnsInv /\ [Next]_vars => TurnsInv'
  BY TurnsStep
<1>2. QED
  BY TurnsInit, <1>1, PTL DEF Spec

\* Scripts run one after the other, and none for a job that is finished, however
\* launch commands are lost, late or repeated: a job that may run is active in
\* the file, of active jobs only the first has left the queue.
THEOREM ScriptsTakeTurns ==
    ASSUME Reliable
    PROVE  Spec => []ScriptsInOrder
<1>1. ASSUME TurnsInv  PROVE ScriptsInOrder
  <2>1. TypeOK /\ IntentBeforeLaunch /\ InOrder(disk.list, disk.state) /\ FileFits(disk) /\ LiveListed /\ Stated
    BY <1>1 DEF TurnsInv, QueueInv, IntentInv, OrderInv, Turns
  <2>2. \A j \in Job : Running(j) => Live(j)
    BY DEF Running, Working, Live, Touched, Ended
  <2>3. ASSUME NEW j \in Job, NEW k \in Job, Live(j), Live(k)  PROVE j = k
    <3>1. Pending(disk, j) /\ Pending(disk, k) /\ disk.state[j] # "queued" /\ disk.state[k] # "queued"
      BY <2>1, <2>3 DEF FileFits, IntentBeforeLaunch, Live, Touched
    <3>2. PICK m \in DOMAIN disk.list, n \in DOMAIN disk.list : disk.list[m] = j /\ disk.list[n] = k
      BY <3>1 DEF Pending, Range
    <3>3. m \in Nat /\ n \in Nat
      BY <2>1, <3>2 DEF TypeOK
    <3>4. QED
      BY <2>1, <3>1, <3>2, <3>3 DEF InOrder, Pending
  <2>4. FinishedIsQuiet
    <3>1. ASSUME NEW j \in Job, state[j] \in TERMINAL \/ disk.state[j] \in TERMINAL  PROVE ~Live(j)
      BY <2>1, <3>1 DEF Stated, LiveListed, FileFits, Pending, Active, ACTIVE, TERMINAL
    <3>2. QED
      BY <2>2, <3>1 DEF FinishedIsQuiet, Live, Touched, Ended
  <2>5. QED
    BY <2>2, <2>3, <2>4 DEF ScriptsInOrder, OneScriptAtATime
<1>2. QED
  BY <1>1, TurnsSafe, PTL

AdmittedStep ==
    \A j \in Job : Pending(disk, j) /\ remote[j] # "absent" =>
        j \in Range(disk'.list) \/ state[j] \in TERMINAL

\* No write, whether it ends, fails halfway or is cut off by a restart, removes a
\* job that the server has admitted from the file before its result is known.
THEOREM AdmittedIsKept ==
    ASSUME Reliable
    PROVE  Spec => AdmittedStaysSaved
<1>1. ASSUME TurnsInv, [Next]_vars  PROVE AdmittedStep
  <2>1. disk' \in {disk} \cup Writing
    BY <1>1, FileChanges
  <2>2. QED
    BY <1>1, <2>1, WritingFits DEF AdmittedStep, Pending
<1>2. TurnsInv /\ [Next]_vars => [AdmittedStep]_vars
  BY <1>1
<1>3. Spec => [][AdmittedStep]_vars
  BY <1>2, TurnsSafe, PTL DEF Spec
<1>4. QED
  BY <1>3 DEF AdmittedStaysSaved, AdmittedStep

-----------------------------------------------------------------------------
(* SerialJobs: the inductive invariant                                     *)

\* A job with a result has been run.
Finished == \A j \in Job : state[j] \in TERMINAL \/ disk.state[j] \in TERMINAL => Ended(j)

\* The queue's list continues the saved one, with jobs the server has not seen.
Continues(line, list) ==
    /\ Len(line) <= Len(list)
    /\ \A i \in DOMAIN line : list[i] = line[i]
    /\ \A i \in DOMAIN list \ DOMAIN line : ~Touched(list[i])

\* It takes the place of a saved one that is worked off.
Succeeds(line, list) ==
    /\ list # <<>>
    /\ \A i \in DOMAIN line : Ended(line[i])
    /\ \A i \in DOMAIN list : ~Touched(list[i])

Joined == up => Continues(disk.list, jobs) \/ Succeeds(disk.list, jobs)

\* A list that was replaced while it is saved is the one in the file already.
NothingLost == InStore("worker") /\ saving # jobs => saving = disk.list

LineInv == Finished /\ Joined /\ NothingLost

-----------------------------------------------------------------------------
(* What a step does to lists and to the server                             *)

Changing == (\E new \in Batches : Enqueue(new)) \/ Stop \/ Load

\* Apart from requests and restarts, lists stay and the worker saves the present
\* one.
LEMMA ListsStay ==
    ASSUME TurnsInv, [Next]_vars, ~EnqueueRaises, ~Changing
    PROVE  /\ UNCHANGED <<jobs, up>>
           /\ saving' = jobs \/ ~InStore("worker")' \/ (saving' = saving /\ InStore("worker"))
<1>1. TypeOK /\ WorkerWaits
  BY DEF TurnsInv, QueueInv
<1>2. CASE EnqueueSaved \/ Reboot \/ UNCHANGED vars
  BY <1>1, <1>2 DEF EnqueueSaved, LeaveStore, InStore, WorkerWaits, Reboot, vars, memory
<1>3. CASE WorkerSaved \/ WorkerSaveRaises
  BY <1>1, <1>3 DEF WorkerSaved, WorkerSaveRaises, LeaveStore, RejoinStore, InStore, WorkerWaits
<1>4. CASE Pick \/ NothingLeft \/ LaunchReplied \/ LaunchFails \/ Wake
  BY <1>4 DEF Pick, NothingLeft, LaunchReplied, LaunchFails, Wake, Raise, SaveAt, InStore
<1>5. CASE StatusWorking \/ StatusVerifying \/ StatusFailed \/ StatusUnknown
  BY <1>5 DEF StatusWorking, StatusVerifying, StatusFailed, StatusUnknown, Raise, SaveAt, InStore
<1>6. CASE FailureRefreshed \/ Verified \/ VerificationUnclear
  BY <1>6 DEF FailureRefreshed, Verified, VerificationUnclear, Raise, SaveAt, InStore
<1>7. CASE \E j \in Job : Admit(j) \/ Script(j)
  BY <1>7 DEF Admit, Script, ScriptBegins, ScriptPulled, ScriptEnds, memory, InStore
<1>8. QED
  BY <1>2, <1>3, <1>4, <1>5, <1>6, <1>7 DEF Next, Worker, Changing

\* Only the server's own steps change what it shows of a job.
LEMMA ServerStays ==
    ASSUME TurnsInv, [Next]_vars, ~Reboot, ~\E j \in Job : Admit(j) \/ Script(j)
    PROVE  UNCHANGED remote
<1>1. CASE (\E new \in Batches : Enqueue(new)) \/ EnqueueSaved \/ EnqueueRaises \/ Stop \/ Load \/ UNCHANGED vars
  BY <1>1 DEF Enqueue, EnqueueSaved, EnqueueRaises, Stop, Load, vars, server
<1>2. CASE Pick \/ NothingLeft \/ WorkerSaved \/ WorkerSaveRaises \/ LaunchReplied \/ LaunchFails \/ Wake
  BY <1>2 DEF Pick, NothingLeft, WorkerSaved, WorkerSaveRaises, LaunchReplied, LaunchFails, Wake, server
<1>3. CASE StatusWorking \/ StatusVerifying \/ StatusFailed \/ StatusUnknown
  BY <1>3 DEF StatusWorking, StatusVerifying, StatusFailed, StatusUnknown, server
<1>4. CASE FailureRefreshed \/ Verified \/ VerificationUnclear
  BY <1>4 DEF FailureRefreshed, Verified, VerificationUnclear, server
<1>5. QED
  BY <1>1, <1>2, <1>3, <1>4 DEF Next, Worker

\* A script that has ended stays so, and a job the server may newly see is in
\* the file.
LEMMA TouchStep ==
    ASSUME TurnsInv, TurnsInv', [Next]_vars, ~Reboot
    PROVE  /\ \A j \in Job : Ended(j) => Ended(j)'
           /\ \A j \in Job : Touched(j)' => Touched(j) \/ j \in Range(disk'.list)
<1>1. TypeOK /\ TypeOK' /\ FileFits(disk)'
  BY DEF TurnsInv, QueueInv, Turns
<1>2. \A j \in Job : remote'[j] = remote[j] \/ (Touched(j) /\ ~Ended(j))
  <2>1. CASE \E k \in Job : Admit(k)
    BY <1>1, <2>1 DEF Admit, Arrives, Touched, Ended, TypeOK
  <2>2. CASE \E k \in Job : Script(k)
    BY <1>1, <2>2 DEF Script, ScriptBegins, ScriptPulled, ScriptEnds, Touched, Ended, TypeOK
  <2>3. CASE UNCHANGED remote
    BY <2>3
  <2>4. QED
    BY <2>1, <2>2, <2>3, ServerStays
<1>3. ASSUME NEW j \in Job, Touched(j)', ~Touched(j)  PROVE j \in Range(disk'.list)
  <2>1. remote'[j] = "absent"
    BY <1>2, <1>3 DEF Touched
  <2>2. Live(j)'
    BY <1>3, <2>1 DEF Live, Ended
  <2>3. QED
    BY <1>1, <2>2 DEF FileFits, Pending
<1>4. QED
  BY <1>2, <1>3 DEF Ended

-----------------------------------------------------------------------------
(* The invariant is inductive                                              *)

Clean == ~EnqueueRaises /\ ~Reboot

\* A verdict is only passed on a job whose script has ended.
LEMMA FinishedStep ==
    ASSUME TurnsInv, TurnsInv', LineInv, [Next]_vars, Clean
    PROVE  Finished'
<1>1. TypeOK /\ WorkerWaits /\ IntentInv /\ InHand /\ Finished
  BY DEF TurnsInv, QueueInv, Turns, LineInv
<1>2. \A j \in Job : Ended(j) => Ended(j)'
  BY TouchStep DEF Clean
<1>3. \A j \in Job : disk'.state[j] \in {disk.state[j], state[j], "none"}
  BY <1>1, FileChanges, WritingShows
<1>4. \A j \in Job : state'[j] \in TERMINAL => Ended(j)
  <2>1. CASE UNCHANGED state
    BY <1>1, <2>1 DEF Finished
  <2>2. ASSUME NEW new \in Batches, Enqueue(new)  PROVE \A j \in Job : state'[j] \in TERMINAL => Ended(j)
    BY <1>1, <2>2 DEF Enqueue, Finished, TERMINAL
  <2>3. CASE Pick \/ StatusWorking \/ StatusVerifying
    <3>1. \E j \in Job, s \in ACTIVE : state' = [state EXCEPT ![j] = s] \/ UNCHANGED state
      <4>1. CASE Pick
        BY <1>1, <4>1 DEF Pick, TypeOK, ACTIVE
      <4>2. CASE StatusWorking \/ StatusVerifying
        BY <1>1, <4>2 DEF StatusWorking, StatusVerifying, Running, Working, ACTIVE, WorkerWaits
      <4>3. QED
        BY <2>3, <4>1, <4>2
    <3>2. QED
      BY <1>1, <3>1 DEF Finished, TypeOK, ACTIVE, TERMINAL
  <2>4. CASE FailureRefreshed \/ Verified
    <3>1. Ended(cur) /\ \E s \in TERMINAL : state' = [state EXCEPT ![cur] = s]
      BY <1>1, <2>4 DEF FailureRefreshed, Verified, InHand, TERMINAL
    <3>2. QED
      BY <1>1, <3>1 DEF Finished, TypeOK
  <2>5. CASE Stop \/ Load
    BY <1>1, <2>5 DEF Stop, Load, Finished, TERMINAL
  <2>6. CASE \/ EnqueueSaved \/ WorkerSaved \/ WorkerSaveRaises \/ NothingLeft \/ LaunchReplied \/ LaunchFails
             \/ StatusFailed \/ StatusUnknown \/ VerificationUnclear \/ Wake \/ UNCHANGED vars
    BY <2>1, <2>6 DEF EnqueueSaved, WorkerSaved, WorkerSaveRaises, NothingLeft, LaunchReplied, LaunchFails,
                      StatusFailed, StatusUnknown, VerificationUnclear, Wake, Raise, vars, memory
  <2>7. CASE \E j \in Job : Admit(j) \/ Script(j)
    BY <2>1, <2>7 DEF Admit, Script, ScriptBegins, ScriptPulled, ScriptEnds, memory
  <2>8. QED
    BY <2>2, <2>3, <2>4, <2>5, <2>6, <2>7 DEF Clean, Next, Worker
<1>5. \A j \in Job : disk'.state[j] \in TERMINAL => Ended(j)
  BY <1>1, <1>3 DEF Finished, TERMINAL
<1>6. QED
  BY <1>2, <1>4, <1>5 DEF Finished

\* A list of jobs that has other jobs than those touched keeps its relation to
\* the saved one.
LEMMA JoinedStays ==
    ASSUME TurnsInv, TurnsInv', LineInv, [Next]_vars, Clean, up, UNCHANGED jobs, disk'.list = disk.list
    PROVE  Joined'
<1>1. jobs \in Seq(Job) /\ disk.list \in Seq(Job) /\ Distinct(jobs)
  BY DEF TurnsInv, QueueInv, TypeOK, OrderInv
<1>2. /\ \A j \in Job : Ended(j) => Ended(j)'
      /\ \A j \in Job : Touched(j)' => Touched(j) \/ j \in Range(disk.list)
  BY TouchStep DEF Clean
<1>3. CASE Continues(disk.list, jobs)
  <2>1. \A i \in DOMAIN jobs \ DOMAIN disk.list : jobs[i] \notin Range(disk.list) /\ jobs[i] \in Job
    BY <1>1, <1>3 DEF Continues, Distinct, Range
  <2>2. QED
    BY <1>2, <1>3, <2>1 DEF Joined, Continues
<1>4. CASE Succeeds(disk.list, jobs)
  <2>1. \A i \in DOMAIN jobs : jobs[i] \notin Range(disk.list) /\ jobs[i] \in Job
    BY <1>1, <1>4 DEF Succeeds, Ended, Touched, Range
  <2>2. QED
    BY <1>1, <1>2, <1>4, <2>1 DEF Joined, Succeeds
<1>5. QED
  BY <1>3, <1>4 DEF LineInv, Joined

\* A saved list continues itself.
LEMMA SavedContinues ==
    ASSUME TypeOK', disk'.list = jobs'
    PROVE  Joined'
  BY DEF Joined, Continues, TypeOK

\* The lists stay joined.
LEMMA JoinedStep ==
    ASSUME TurnsInv, TurnsInv', LineInv, [Next]_vars, Clean
    PROVE  Joined'
<1>1. TypeOK /\ TypeOK' /\ WorkerWaits /\ Known /\ Stated
  BY DEF TurnsInv, QueueInv, Turns
<1>2. ASSUME NEW new \in Batches, Enqueue(new)  PROVE Joined'
  <2>1. /\ up /\ up' /\ UNCHANGED <<disk, wire, late, remote>> /\ new \in Seq(Job) /\ new # <<>>
        /\ jobs' = IF BatchActive THEN jobs \o new ELSE new
        /\ \A i \in DOMAIN new : new[i] \in Job \ used
    BY <1>2, QueueAssumption DEF Enqueue, server
  <2>2. /\ \A i \in DOMAIN new : ~Touched(new[i])
        /\ \A j \in Job : Touched(j)' = Touched(j) /\ Ended(j)' = Ended(j)
    BY <1>1, <2>1 DEF Known, Touched, Ended
  <2>3. jobs \in Seq(Job) /\ disk.list \in Seq(Job) /\ jobs' \in Seq(Job)
    BY <1>1 DEF TypeOK
  <2>4. CASE BatchActive
    <3>1. /\ Len(jobs') = Len(jobs) + Len(new)
          /\ \A i \in DOMAIN jobs : jobs'[i] = jobs[i]
          /\ \A i \in DOMAIN jobs' \ DOMAIN jobs : ~Touched(jobs'[i])
      BY <2>1, <2>2, <2>3, <2>4
    <3>2. CASE Continues(disk.list, jobs)
      BY <2>1, <2>2, <2>3, <3>1, <3>2 DEF Joined, Continues, Touched
    <3>3. CASE Succeeds(disk.list, jobs)
      <4>1. jobs' # <<>> /\ \A i \in DOMAIN jobs' : ~Touched(jobs'[i]) /\ jobs'[i] \in Job
        BY <2>3, <3>1, <3>3 DEF Succeeds
      <4>2. QED
        BY <2>1, <2>2, <3>3, <4>1 DEF Joined, Succeeds, Touched, Ended
    <3>4. QED
      BY <2>1, <3>2, <3>3 DEF LineInv, Joined
  <2>5. CASE ~BatchActive
    <3>1. \A i \in DOMAIN jobs : Ended(jobs[i]) /\ Touched(jobs[i])
      <4>1. \A i \in DOMAIN jobs : jobs[i] \in Job /\ state[jobs[i]] \in TERMINAL
        BY <1>1, <2>3, <2>5 DEF BatchActive, Active, Stated, Range, TypeOK, State
      <4>2. QED
        BY <4>1 DEF LineInv, Finished, Ended, Touched
    <3>2. \A i \in DOMAIN disk.list : Ended(disk.list[i])
      <4>1. CASE Continues(disk.list, jobs)
        BY <2>3, <3>1, <4>1 DEF Continues
      <4>2. CASE Succeeds(disk.list, jobs)
        BY <4>2 DEF Succeeds
      <4>3. QED
        BY <2>1, <4>1, <4>2 DEF LineInv, Joined
    <3>3. QED
      BY <2>1, <2>2, <2>3, <2>5, <3>2 DEF Joined, Succeeds, Touched, Ended
  <2>6. QED
    BY <2>4, <2>5
<1>3. CASE Stop
  BY <1>3 DEF Stop, Joined
<1>4. CASE Load
  BY <1>1, <1>4, SavedContinues DEF Load
<1>5. CASE ~Changing
  <2>1. UNCHANGED <<jobs, up>>
    BY <1>5, ListsStay DEF Clean
  <2>2. CASE ~up
    BY <2>1, <2>2 DEF Joined
  <2>3. CASE up /\ disk'.list = jobs
    BY <1>1, <2>1, <2>3, SavedContinues
  <2>4. CASE up /\ disk'.list # jobs
    <3>1. disk' = disk \/ (disk' \in Writing /\ disk'.list = saving /\ saving # jobs /\ holder # "enqueue")
      BY <1>1, <2>4, FileChanges, WritingShows
    <3>2. disk'.list = disk.list
      BY <1>1, <3>1 DEF LineInv, NothingLost, Writing, InStore, TypeOK, Writer
    <3>3. QED
      BY <2>1, <2>4, <3>2, JoinedStays
  <2>5. QED
    BY <2>2, <2>3, <2>4
<1>6. QED
  BY <1>2, <1>3, <1>4, <1>5 DEF Changing

\* A list of finished jobs that are joined to the saved one is the saved one.
LEMMA FinishedIsSaved ==
    ASSUME TurnsInv, LineInv, up, ~BatchActive
    PROVE  jobs = disk.list
<1>1. jobs \in Seq(Job) /\ disk.list \in Seq(Job) /\ state \in [Job -> State] /\ Stated
  BY DEF TurnsInv, QueueInv, TypeOK, Turns
<1>2. \A i \in DOMAIN jobs : Touched(jobs[i])
  <2>1. \A i \in DOMAIN jobs : jobs[i] \in Job /\ state[jobs[i]] \in TERMINAL
    BY <1>1 DEF BatchActive, Active, Stated, Range, State
  <2>2. QED
    BY <2>1 DEF LineInv, Finished, Ended, Touched
<1>3. Continues(disk.list, jobs)
  BY <1>1, <1>2 DEF LineInv, Joined, Succeeds
<1>4. Len(jobs) = Len(disk.list) /\ \A i \in DOMAIN jobs : jobs[i] = disk.list[i]
  BY <1>1, <1>2, <1>3 DEF Continues
<1>5. QED
  BY <1>1, <1>4

\* A list that is replaced while it is saved is in the file already.
LEMMA NothingLostStep ==
    ASSUME TurnsInv, TurnsInv', LineInv, [Next]_vars, Clean
    PROVE  NothingLost'
<1>1. /\ TypeOK /\ TypeOK' /\ WorkerWaits /\ Aligned /\ Aligned' /\ NothingLost
      /\ pc = "save_intent" => cur \in Range(jobs)
  BY DEF TurnsInv, QueueInv, Turns, LineInv, InHand
<1>2. ASSUME NEW new \in Batches, Enqueue(new)  PROVE NothingLost'
  <2>1. SUFFICES ASSUME InStore("worker")', saving' # jobs'  PROVE saving' = disk'.list
    BY DEF NothingLost
  <2>2. /\ up /\ UNCHANGED disk /\ ~Enqueueing /\ EnterStore("enqueue")
        /\ ~(BatchActive /\ saving = jobs) /\ saving' = saving
    BY <1>2, <2>1 DEF Enqueue
  <2>3. holder = "worker" /\ waiter = "none"
    BY <1>1, <2>1, <2>2 DEF InStore, Enqueueing, EnterStore, WorkerWaits, TypeOK, Writer
  <2>4. saving = jobs /\ ~BatchActive
    BY <1>1, <2>2, <2>3 DEF Aligned, InStore
  <2>5. QED
    BY <2>2, <2>4, FinishedIsSaved
<1>3. CASE Stop \/ Load
  BY <1>1, <1>3 DEF Stop, Load, NothingLost, InStore, WorkerWaits
<1>4. CASE ~Changing
  <2>1. SUFFICES ASSUME InStore("worker")', saving' # jobs'  PROVE saving' = disk'.list
    BY DEF NothingLost
  <2>2. UNCHANGED jobs /\ saving' = saving /\ InStore("worker")
    BY <1>4, <2>1, ListsStay DEF Clean
  <2>3. holder # "enqueue" /\ saving = disk.list
    BY <1>1, <2>1, <2>2 DEF Aligned, NothingLost, WorkerWaits
  <2>4. disk' = disk \/ disk' = Snapshot(saving)
    BY <1>1, <2>3, FileChanges DEF Writing, TypeOK, Writer
  <2>5. QED
    BY <2>2, <2>3, <2>4 DEF Snapshot
<1>5. QED
  BY <1>2, <1>3, <1>4 DEF Changing

-----------------------------------------------------------------------------
(* The refinement                                                          *)

\* What SerialJobs sees of a job.
LEMMA ViewOfJob ==
    ASSUME TypeOK, NEW j \in Job
    PROVE  /\ Running(j) => ServerView[j] = "busy"
           /\ remote[j] = "absent" => ServerView[j] = "idle"
           /\ Ended(j) => ServerView[j] = "over"
           /\ Running(j) \/ remote[j] = "absent" \/ Ended(j)
  BY DEF TypeOK, Remote, Running, Working, Ended, ServerView

\* A job whose launch command arrives is next in line.
LEMMA AdmitStarts ==
    ASSUME TurnsInv, TurnsInv', LineInv, NEW j \in Job, Admit(j), remote[j] = "absent", ScriptsInOrder'
    PROVE  Promise!Start(j)
<1>1. /\ TypeOK /\ TypeOK' /\ FileFits(disk) /\ InOrder(disk.list, disk.state) /\ Finished /\ IntentBeforeLaunch
  BY DEF TurnsInv, QueueInv, Turns, LineInv, OrderInv, IntentInv
<1>2. /\ remote' = [remote EXCEPT ![j] = "preparing"] /\ UNCHANGED disk /\ j \in wire \cup late
  BY DEF Admit, Arrives
<1>3. Pending(disk, j) /\ disk.state[j] # "queued"
  BY <1>1, <1>2 DEF FileFits, Live, Touched, Ended, IntentBeforeLaunch
<1>4. PICK i \in DOMAIN disk.list : disk.list[i] = j
  BY <1>3 DEF Pending, Range
<1>5. \A k \in 1..(i - 1) : ServerView[disk.list[k]] = "over"
  <2>1. SUFFICES ASSUME NEW k \in 1..(i - 1)  PROVE ServerView[disk.list[k]] = "over"
    OBVIOUS
  <2>2. k \in DOMAIN disk.list /\ k < i /\ disk.list[k] \in Job /\ disk.list[k] \in Range(disk.list)
    <3>1. disk.list \in Seq(Job)
      BY <1>1 DEF TypeOK
    <3>2. k \in DOMAIN disk.list /\ k < i
      BY <3>1
    <3>3. QED
      BY <3>1, <3>2, RangeOfList
  <2>3. disk.state[disk.list[k]] \in TERMINAL
    <3>1. disk.state[disk.list[k]] \notin ACTIVE
      BY <1>3, <1>4, <2>2, <1>1 DEF InOrder
    <3>2. disk.state[disk.list[k]] # "none" /\ disk.state[disk.list[k]] \in State
      BY <1>1, <2>2 DEF FileFits, TypeOK
    <3>3. QED
      BY <3>1, <3>2 DEF State
  <2>4. QED
    BY <1>1, <2>2, <2>3, ViewOfJob DEF Finished
<1>6. \A k \in Job : ServerView[k] # "busy"
  <2>1. ASSUME NEW k \in Job, Running(k)  PROVE FALSE
    <3>1. k # j /\ Running(k)' /\ Running(j)'
      BY <1>1, <1>2, <2>1 DEF Running, Working, TypeOK
    <3>2. QED
      BY <3>1 DEF ScriptsInOrder, OneScriptAtATime
  <2>2. QED
    BY <1>1, <2>1, ViewOfJob
<1>7. ServerView' = [ServerView EXCEPT ![j] = "busy"]
  BY <1>1, <1>2 DEF ServerView, Running, Working, TypeOK
<1>8. QED
  BY <1>1, <1>2, <1>4, <1>5, <1>6, <1>7, ViewOfJob DEF Promise!Start, Promise!Idle, Promise!Over

\* A script that ends is a job that finishes; its phases are not seen.
LEMMA ScriptFinishes ==
    ASSUME TypeOK, TypeOK', NEW j \in Job, Script(j)
    PROVE  Promise!Finish(j) \/ UNCHANGED <<disk, ServerView>>
<1>1. /\ Running(j) /\ UNCHANGED disk
      /\ \E phase \in Remote \ {"absent"} : remote' = [remote EXCEPT ![j] = phase]
  BY DEF Script, ScriptBegins, ScriptPulled, ScriptEnds, Running, Working, Remote
<1>2. PICK phase \in Remote \ {"absent"} : remote' = [remote EXCEPT ![j] = phase]
  BY <1>1
<1>3. CASE phase \in Working
  BY <1>1, <1>2, <1>3 DEF ServerView, Running, Working, TypeOK
<1>4. CASE phase \notin Working
  <2>1. ServerView' = [ServerView EXCEPT ![j] = "over"]
    BY <1>1, <1>2, <1>4 DEF ServerView, Running, Working, TypeOK, Remote
  <2>2. QED
    BY <1>1, <2>1, ViewOfJob DEF Promise!Finish
<1>5. QED
  BY <1>3, <1>4

\* What follows the first n elements of a list.
LEMMA EndOfList ==
    ASSUME NEW list \in Seq(Job), NEW n \in Nat, n < Len(list)
    PROVE  /\ SubSeq(list, n + 1, Len(list)) # <<>>
           /\ \A i \in DOMAIN SubSeq(list, n + 1, Len(list)) :
                 /\ n + i \in DOMAIN list \ 1..n
                 /\ SubSeq(list, n + 1, Len(list))[i] = list[n + i]
<1> DEFINE rest == SubSeq(list, n + 1, Len(list))
<1>1. Len(list) \in Nat /\ n + 1 \in 1..Len(list) /\ \A i \in (n + 1)..Len(list) : list[i] \in Job
  OBVIOUS
<1>2. rest \in Seq(Job) /\ Len(rest) = Len(list) - n /\ \A i \in 1..(Len(list) - n) : rest[i] = list[n + i]
  BY <1>1, SubSeqProperties
<1>3. DOMAIN rest = 1..(Len(list) - n) /\ Len(list) - n > 0
  BY <1>1, <1>2
<1>4. rest # <<>>
  <2> HIDE DEF rest
  <2>1. Len(rest) # 0
    BY <1>1, <1>2
  <2>2. QED
    BY <2>1, EmptySeq
<1>5. \A i \in 1..(Len(list) - n) : n + i \in DOMAIN list \ 1..n
  BY <1>1
<1>6. QED
  BY <1>2, <1>3, <1>4, <1>5

\* Writing the queue's list accepts new jobs, or begins a new line.
LEMMA WritingAccepts ==
    ASSUME TurnsInv, TypeOK', LineInv, up, disk'.list = jobs, disk'.list # disk.list, UNCHANGED ServerView
    PROVE  Promise!Accept \/ Promise!Renew
<1> DEFINE line == disk.list
<1>1. /\ TypeOK /\ jobs \in Seq(Job) /\ line \in Seq(Job) /\ Distinct(jobs)
  BY DEF TurnsInv, QueueInv, TypeOK, OrderInv
<1>2. \A i \in DOMAIN jobs : ~Touched(jobs[i]) => ServerView[jobs[i]] = "idle"
  BY <1>1, ViewOfJob DEF Touched
<1>3. CASE Continues(line, jobs)
  <2> DEFINE n == Len(line)  new == SubSeq(jobs, n + 1, Len(jobs))
  <2>1. n \in Nat /\ n <= Len(jobs) /\ \A i \in DOMAIN line : jobs[i] = line[i]
    BY <1>1, <1>3 DEF Continues
  <2>2. n < Len(jobs)
    <3>1. Len(jobs) = n => jobs = line
      BY <1>1, <2>1
    <3>2. QED
      BY <1>1, <2>1, <3>1
  <2>3. SubSeq(jobs, 1, n) = line
    BY <1>1, <2>1
  <2>4. /\ new # <<>>
        /\ \A i \in DOMAIN new : /\ n + i \in DOMAIN jobs \ DOMAIN line
                                 /\ new[i] = jobs[n + i]
    <3>1. /\ SubSeq(jobs, n + 1, Len(jobs)) # <<>>
          /\ \A i \in DOMAIN SubSeq(jobs, n + 1, Len(jobs)) :
                /\ n + i \in DOMAIN jobs \ 1..n
                /\ SubSeq(jobs, n + 1, Len(jobs))[i] = jobs[n + i]
      <4> HIDE DEF n
      <4> QED
        BY <1>1, <2>1, <2>2, EndOfList
    <3>2. DOMAIN line = 1..n
      BY <1>1
    <3>3. QED
      BY <3>1, <3>2
  <2>5. \A i \in DOMAIN new : ServerView[new[i]] = "idle" /\ new[i] \notin Range(line)
    <3>1. SUFFICES ASSUME NEW i \in DOMAIN new  PROVE ServerView[new[i]] = "idle" /\ new[i] \notin Range(line)
      OBVIOUS
    <3>2. n + i \in DOMAIN jobs \ DOMAIN line /\ new[i] = jobs[n + i]
      BY <2>4, <3>1
    <3>3. ServerView[new[i]] = "idle"
      BY <1>2, <1>3, <3>2 DEF Continues
    <3>4. \A k \in DOMAIN line : k \in DOMAIN jobs /\ k # n + i /\ jobs[k] = line[k]
      BY <1>1, <2>1, <3>2
    <3>5. \A k \in DOMAIN line : line[k] # new[i]
      <4>1. \A k, l \in DOMAIN jobs : k # l => jobs[k] # jobs[l]
        BY <1>1 DEF Distinct
      <4>2. QED
        BY <3>2, <3>4, <4>1
    <3>6. new[i] \notin Range(line)
      BY <3>5 DEF Range
    <3>7. QED
      BY <3>3, <3>6
  <2>6. n \in DOMAIN jobs \cup {0}
    BY <1>1, <2>1
  <2>7. Promise!Accept
    BY <2>3, <2>4, <2>5, <2>6 DEF Promise!Accept, Promise!Fresh, Promise!Idle,
                                      Promise!Range, Range
  <2>8. QED
    BY <2>7
<1>4. CASE Succeeds(line, jobs)
  <2>1. \A i \in DOMAIN line : ServerView[line[i]] = "over"
    BY <1>1, <1>4, ViewOfJob DEF Succeeds
  <2>2. \A i \in DOMAIN jobs : ServerView[jobs[i]] = "idle" /\ jobs[i] \notin Range(line)
    BY <1>1, <1>2, <1>4 DEF Succeeds, Ended, Touched, Range
  <2>3. QED
    BY <1>4, <2>1, <2>2 DEF Succeeds, Promise!Renew, Promise!Fresh, Promise!Idle, Promise!Over,
                                      Promise!Range, Range
<1>5. QED
  BY <1>3, <1>4 DEF LineInv, Joined

\* Every step of the queue is a step of SerialJobs, or none.
LEMMA StepPromised ==
    ASSUME TurnsInv, TurnsInv', LineInv, ScriptsInOrder', [Next]_vars, Clean
    PROVE  Promise!Next \/ UNCHANGED <<disk.list, ServerView>>
<1>1. TypeOK /\ TypeOK' /\ WorkerWaits
  BY DEF TurnsInv, QueueInv
<1>2. ASSUME NEW j \in Job, Admit(j)  PROVE Promise!Next \/ UNCHANGED <<disk.list, ServerView>>
  <2>1. CASE remote[j] = "absent"
    BY <1>2, <2>1, AdmitStarts DEF Promise!Next
  <2>2. CASE remote[j] # "absent"
    BY <1>1, <1>2, <2>2 DEF Admit, ServerView, Running, TypeOK
  <2>3. QED
    BY <2>1, <2>2
<1>3. ASSUME NEW j \in Job, Script(j)  PROVE Promise!Next \/ UNCHANGED <<disk.list, ServerView>>
  BY <1>1, <1>3, ScriptFinishes DEF Promise!Next
<1>4. CASE ~\E j \in Job : Admit(j) \/ Script(j)
  <2>1. UNCHANGED ServerView
    BY <1>4, ServerStays DEF Clean, ServerView, Running
  <2>2. CASE disk'.list = jobs /\ up
    BY <1>1, <2>1, <2>2, WritingAccepts DEF Promise!Next
  <2>3. CASE ~(disk'.list = jobs /\ up)
    <3>1. disk' = disk \/ (disk' \in Writing /\ disk'.list = saving /\ saving # jobs /\ holder = "worker")
      BY <1>1, <2>3, FileChanges, WritingShows DEF WorkerWaits, Writing, TypeOK, Writer
    <3>2. disk'.list = disk.list
      BY <3>1 DEF LineInv, NothingLost, InStore
    <3>3. QED
      BY <2>1, <3>2
  <2>4. QED
    BY <2>2, <2>3
<1>5. QED
  BY <1>2, <1>3, <1>4

\* Where neither may happen, no request is put back and nothing is rebooted.
LEMMA ReliableIsClean ==
    ASSUME Reliable, TurnsInv
    PROVE  Clean
<1>1. faults["enqueue"] \in Nat /\ faults["reboot"] \in Nat
  BY DEF TurnsInv, QueueInv, TypeOK, Fault
<1>2. QED
  BY <1>1 DEF Clean, EnqueueRaises, Reboot, Reliable

LEMMA LineStep ==
    ASSUME Reliable, TurnsInv, TurnsInv', LineInv, [Next]_vars
    PROVE  LineInv'
  BY ReliableIsClean, FinishedStep, JoinedStep, NothingLostStep DEF LineInv

LEMMA LineInit ==
    ASSUME Init
    PROVE  LineInv /\ Promise!Init
<1>1. /\ ~up /\ holder = "none" /\ waiter = "none" /\ disk.list = <<>>
      /\ \A j \in Job : state[j] = "none" /\ disk.state[j] = "none"
      /\ remote = [j \in Job |-> "absent"]
  BY DEF Init, Snapshot
<1>2. LineInv
  BY <1>1 DEF LineInv, Finished, Joined, NothingLost, InStore, TERMINAL
<1>3. Promise!Init
  BY <1>1 DEF Promise!Init, ServerView, Running, Working
<1>4. QED
  BY <1>2, <1>3

\* The queue keeps its promise: the saved list is a line of jobs, run one at a
\* time, each once, in order, over lost and late commands, restarts and failing
\* saves of the worker.
THEOREM QueueIsSerial ==
    ASSUME Reliable
    PROVE  Spec => ImplementsSerialJobs
<1>1. TurnsInv /\ TurnsInv' /\ LineInv /\ [Next]_vars => LineInv'
  BY LineStep
<1>2. TurnsInv /\ TurnsInv' /\ LineInv /\ ScriptsInOrder' /\ [Next]_vars => [Promise!Next]_<<disk.list, ServerView>>
  BY ReliableIsClean, StepPromised
<1>3. Init => LineInv /\ Promise!Init
  BY LineInit
<1>4. Spec => []TurnsInv /\ []ScriptsInOrder
  BY TurnsSafe, ScriptsTakeTurns
<1>5. Spec => Promise!Spec
  BY <1>1, <1>2, <1>3, <1>4, PTL DEF Spec, Promise!Spec
<1>6. QED
  BY <1>5 DEF ImplementsSerialJobs

=============================================================================
