------------------------- MODULE UpdateQueueProofs -------------------------
(***************************************************************************)
(* Proofs about UpdateQueue, for every set of jobs, targets and requests   *)
(* and every number of faults.                                             *)
(***************************************************************************)
EXTENDS UpdateQueue, TLAPS

-----------------------------------------------------------------------------
(* Lemmas about the operators the model is built from                      *)

\* Lists of jobs have jobs as elements.
LEMMA RangeOfList ==
    ASSUME NEW list \in Seq(Job)
    PROVE  /\ Range(list) \subseteq Job
           /\ \A i \in DOMAIN list : list[i] \in Range(list) /\ list[i] \in Job
  BY DEF Range

\* The elements of a concatenation.
LEMMA RangeOfConcat ==
    ASSUME NEW s \in Seq(Job), NEW t \in Seq(Job)
    PROVE  /\ s \o t \in Seq(Job)
           /\ Range(s \o t) \subseteq Range(s) \cup Range(t)
           /\ Range(s) \subseteq Range(s \o t)
  BY DEF Range

\* What a save writes is a store that shows a job in its state or not at all.
LEMMA SnapshotShows ==
    ASSUME NEW list \in Seq(Job), state \in [Job -> State]
    PROVE  /\ Snapshot(list) \in [list : Seq(Job), state : [Job -> State]]
           /\ Snapshot(list).list = list
           /\ \A j \in Job : Snapshot(list).state[j] \in {state[j], "none"}
           /\ \A j \in Range(list) : Snapshot(list).state[j] = state[j]
  BY RangeOfList DEF Snapshot, State

\* So is what the Store has under way.
LEMMA WritingShows ==
    ASSUME TypeOK, NEW s \in Writing
    PROVE  /\ s \in [list : Seq(Job), state : [Job -> State]]
           /\ s.list \in {jobs, saving}
           /\ s = Snapshot(s.list)
           /\ \A j \in Job : s.state[j] \in {state[j], "none"}
           /\ holder = "enqueue" => s.list = jobs
  BY SnapshotShows DEF TypeOK, Writing

-----------------------------------------------------------------------------
(* The worker and its task                                                 *)

\* The worker is inside the Store exactly while it saves, and has a job in hand
\* whenever it waits for something.
WorkerWaits ==
    /\ InStore("worker") <=> pc \in SavePC
    /\ waiter # "none" => holder # "none" /\ holder # waiter
    /\ pc \notin SavePC => saving = <<>>
    /\ pc \notin {"none", "pick"} => cur \in Job
    /\ ~up => pc = "none" /\ holder = "none" /\ jobs = <<>> /\ previous = <<>>

-----------------------------------------------------------------------------
(* Type correctness                                                        *)

\* A worker that starts to save is at an await and holds or awaits the Store.
LEMMA SaveAtTypes ==
    ASSUME TypeOK, NEW at \in SavePC, SaveAt(at)
    PROVE  /\ pc' \in WorkerPC /\ saving' \in Seq(Job)
           /\ holder' \in Writer /\ waiter' \in Writer
  BY DEF SaveAt, EnterStore, TypeOK, SavePC, WorkerPC, Writer

\* Counting a fault keeps the counters' type.
LEMMA FailTypes ==
    ASSUME faults \in [Fault -> Nat], NEW f \in Fault, Fail(f)
    PROVE  faults' \in [Fault -> Nat]
  BY DEF Fail

\* Every step keeps every variable's type.
LEMMA TypeStep ==
    ASSUME TypeOK, WorkerWaits, [Next]_vars
    PROVE  TypeOK'
<1> USE QueueAssumption DEF memory, server
<1>1. ASSUME NEW new \in Batches, Enqueue(new)  PROVE TypeOK'
  <2>1. new \in Seq(Job) /\ jobs \in Seq(Job) /\ jobs \o new \in Seq(Job) /\ Range(new) \subseteq Job
    BY RangeOfList DEF TypeOK
  <2>2. state' \in [Job -> State]
    BY <1>1 DEF Enqueue, TypeOK, State, ACTIVE
  <2>3. QED
    BY <1>1, <2>1, <2>2 DEF Enqueue, EnterStore, TypeOK, Writer
<1>2. CASE EnqueueSaved
  <2>1. disk' \in [list : Seq(Job), state : [Job -> State]]
    BY <1>2, SnapshotShows DEF EnqueueSaved, TypeOK
  <2>2. QED
    BY <1>2, <2>1 DEF EnqueueSaved, LeaveStore, Started, TypeOK, Writer, WorkerPC
<1>3. CASE EnqueueRaises
  <2>1. disk' \in [list : Seq(Job), state : [Job -> State]]
    BY <1>3, WritingShows DEF EnqueueRaises, TypeOK
  <2>2. faults' \in [Fault -> Nat]
    <3>1. faults \in [Fault -> Nat] /\ "enqueue" \in Fault /\ Fail("enqueue")
      BY <1>3 DEF EnqueueRaises, TypeOK, Fault
    <3>2. QED
      BY <3>1, FailTypes
  <2>3. holder' \in Writer /\ waiter' \in Writer
    BY <1>3 DEF EnqueueRaises, LeaveStore, TypeOK, Writer
  <2>4. QED
    BY <1>3, <2>1, <2>2, <2>3 DEF EnqueueRaises, TypeOK
<1>4. CASE Pick
  <2>1. PICK i \in DOMAIN jobs :
          /\ cur' = jobs[i]
          /\ state' \in {state, [state EXCEPT ![jobs[i]] = "preparing"]}
          /\ pc' \in {"save_intent", "launch", "status"}
          /\ saving' \in {saving, jobs}
          /\ wire' \in {wire, wire \cup {jobs[i]}}
          /\ holder' \in {holder, "worker"} /\ waiter' \in {waiter, "worker"}
    BY <1>4 DEF Pick, SaveAt, EnterStore, SendLaunch
  <2>2. jobs[i] \in Job
    BY <2>1 DEF TypeOK
  <2>3. state' \in [Job -> State]
    BY <2>1, <2>2 DEF TypeOK, State, ACTIVE
  <2>4. pc' \in WorkerPC /\ holder' \in Writer /\ waiter' \in Writer
    BY <2>1 DEF TypeOK, WorkerPC, Writer
  <2>5. QED
    BY <1>4, <2>1, <2>2, <2>3, <2>4 DEF Pick, TypeOK
<1>5. CASE NothingLeft
  BY <1>5 DEF NothingLeft, TypeOK, WorkerPC
<1>6. CASE WorkerSaved
  <2>1. disk' \in [list : Seq(Job), state : [Job -> State]]
    BY <1>6, SnapshotShows DEF WorkerSaved, TypeOK
  <2>2. pc' \in WorkerPC
    BY <1>6 DEF WorkerSaved, AfterSave, WorkerPC
  <2>3. wire' \subseteq Job
    BY <1>6 DEF WorkerSaved, WorkerWaits, TypeOK
  <2>4. QED
    BY <1>6, <2>1, <2>2, <2>3 DEF WorkerSaved, LeaveStore, TypeOK, Writer
<1>7. CASE WorkerSaveRaises
  <2>1. disk' \in [list : Seq(Job), state : [Job -> State]]
    BY <1>7, SnapshotShows DEF WorkerSaveRaises, TypeOK
  <2>2. faults' \in [Fault -> Nat]
    <3>1. faults \in [Fault -> Nat] /\ "worker" \in Fault /\ Fail("worker")
      BY <1>7 DEF WorkerSaveRaises, TypeOK, Fault
    <3>2. QED
      BY <3>1, FailTypes
  <2>3. saving' \in Seq(Job) /\ pc' \in WorkerPC /\ cur' \in Job \cup {NoJob}
    <3>1. CASE pc = "save_error"
      BY <1>7, <3>1 DEF WorkerSaveRaises, WorkerPC
    <3>2. CASE pc # "save_error"
      BY <1>7, <3>2 DEF WorkerSaveRaises, TypeOK, WorkerPC
    <3>3. QED
      BY <3>1, <3>2
  <2>4. holder' \in Writer /\ waiter' \in Writer
    BY <1>7 DEF WorkerSaveRaises, LeaveStore, RejoinStore, TypeOK, Writer
  <2>5. QED
    BY <1>7, <2>1, <2>2, <2>3, <2>4 DEF WorkerSaveRaises, TypeOK
<1>8. CASE LaunchReplied
  BY <1>8 DEF LaunchReplied, TypeOK, WorkerPC
<1>9. CASE LaunchFails
  <2>1. SaveAt("save_error") /\ "save_error" \in SavePC
    BY <1>9 DEF LaunchFails, Raise, SavePC
  <2>2. QED
    BY <1>9, <2>1, SaveAtTypes DEF LaunchFails, Raise, TypeOK
<1>10. CASE StatusWorking
  <2>1. SaveAt("save_result") /\ "save_result" \in SavePC
    BY <1>10 DEF StatusWorking, SavePC
  <2>2. state' \in [Job -> State]
    BY <1>10 DEF StatusWorking, TypeOK, State, Running, Working, ACTIVE
  <2>3. QED
    BY <1>10, <2>1, <2>2, SaveAtTypes DEF StatusWorking, TypeOK
<1>11. CASE StatusVerifying
  <2>1. SaveAt("save_verifying") /\ "save_verifying" \in SavePC
    BY <1>11 DEF StatusVerifying, SavePC
  <2>2. state' \in [Job -> State]
    BY <1>11 DEF StatusVerifying, TypeOK, State, ACTIVE
  <2>3. QED
    BY <1>11, <2>1, <2>2, SaveAtTypes DEF StatusVerifying, TypeOK
<1>12. CASE StatusFailed
  BY <1>12 DEF StatusFailed, TypeOK, WorkerPC
<1>13. CASE StatusUnknown
  <2>1. SaveAt("save_error") /\ "save_error" \in SavePC
    BY <1>13 DEF StatusUnknown, Raise, SavePC
  <2>2. QED
    BY <1>13, <2>1, SaveAtTypes DEF StatusUnknown, Raise, TypeOK
<1>14. CASE FailureRefreshed
  <2>1. SaveAt("save_result") /\ "save_result" \in SavePC
    BY <1>14 DEF FailureRefreshed, SavePC
  <2>2. state' \in [Job -> State]
    BY <1>14 DEF FailureRefreshed, TypeOK, State, TERMINAL
  <2>3. QED
    BY <1>14, <2>1, <2>2, SaveAtTypes DEF FailureRefreshed, TypeOK
<1>15. CASE Verified
  <2>1. SaveAt("save_result") /\ "save_result" \in SavePC
    BY <1>15 DEF Verified, SavePC
  <2>2. state' \in [Job -> State]
    <3>1. PICK verdict \in TERMINAL : state' = [state EXCEPT ![cur] = verdict]
      BY <1>15 DEF Verified
    <3>2. verdict \in State /\ state \in [Job -> State]
      BY DEF State, TypeOK
    <3>3. QED
      BY <3>1, <3>2
  <2>3. QED
    BY <1>15, <2>1, <2>2, SaveAtTypes DEF Verified, TypeOK
<1>16. CASE VerificationUnclear
  <2>1. SaveAt("save_error") /\ "save_error" \in SavePC
    BY <1>16 DEF VerificationUnclear, Raise, SavePC
  <2>2. QED
    BY <1>16, <2>1, SaveAtTypes DEF VerificationUnclear, Raise, TypeOK
<1>17. CASE Wake
  BY <1>17 DEF Wake, TypeOK, WorkerPC
<1>18. CASE Reboot
  <2>1. faults \in [Fault -> Nat] /\ "reboot" \in Fault /\ Fail("reboot")
    BY <1>18 DEF Reboot, TypeOK, Fault
  <2>2. faults' \in [Fault -> Nat]
    BY <2>1, FailTypes
  <2>3. remote' \in [Job -> Remote]
    BY <1>18 DEF Reboot, Remote
  <2>4. QED
    BY <1>18, <2>2, <2>3 DEF Reboot, TypeOK
<1>19. CASE Stop
  <2>1. disk' \in [list : Seq(Job), state : [Job -> State]]
    BY <1>19, WritingShows DEF Stop, TypeOK
  <2>2. faults' \in [Fault -> Nat]
    <3>1. faults \in [Fault -> Nat] /\ "restart" \in Fault /\ Fail("restart")
      BY <1>19 DEF Stop, TypeOK, Fault
    <3>2. QED
      BY <3>1, FailTypes
  <2>3. jobs' \in Seq(Job) /\ saving' \in Seq(Job) /\ previous' \in Seq(Job)
    BY <1>19 DEF Stop
  <2>4. QED
    BY <1>19, <2>1, <2>2, <2>3 DEF Stop, TypeOK, Writer, WorkerPC, State
<1>20. CASE Load
  BY <1>20 DEF Load, TypeOK, WorkerPC
<1>21. ASSUME NEW j \in Job, Admit(j)  PROVE TypeOK'
  <2>1. remote' \in [Job -> Remote]
    BY <1>21 DEF Admit, TypeOK, Remote, Working
  <2>2. wire' \subseteq Job /\ late' \subseteq Job
    BY <1>21 DEF Admit, Arrives, TypeOK
  <2>3. QED
    BY <1>21, <2>1, <2>2 DEF Admit, TypeOK
<1>22. ASSUME NEW j \in Job, ScriptBegins(j)  PROVE TypeOK'
  <2>1. remote' \in [Job -> Remote]
    BY <1>22 DEF ScriptBegins, TypeOK, Remote, Working
  <2>2. runs' \in [Job -> Nat]
    BY <1>22 DEF ScriptBegins, TypeOK
  <2>3. QED
    BY <1>22, <2>1, <2>2 DEF ScriptBegins, TypeOK
<1>23. ASSUME NEW j \in Job, ScriptPulled(j)  PROVE TypeOK'
  <2>1. remote' \in [Job -> Remote]
    BY <1>23 DEF ScriptPulled, TypeOK, Remote, Working
  <2>2. QED
    BY <1>23, <2>1 DEF ScriptPulled, TypeOK
<1>24. ASSUME NEW j \in Job, ScriptEnds(j)  PROVE TypeOK'
  <2>1. remote' \in [Job -> Remote]
    BY <1>24 DEF ScriptEnds, TypeOK, Remote
  <2>2. QED
    BY <1>24, <2>1 DEF ScriptEnds, TypeOK
<1>25. CASE UNCHANGED vars
  BY <1>25 DEF vars, TypeOK
<1>26. QED
  BY <1>1, <1>2, <1>3, <1>4, <1>5, <1>6, <1>7, <1>8, <1>9, <1>10, <1>11, <1>12,
     <1>13, <1>14, <1>15, <1>16, <1>17, <1>18, <1>19, <1>20, <1>21, <1>22, <1>23, <1>24, <1>25
     DEF Next, Worker, Script

\* Every step keeps the worker's bookkeeping.
LEMMA WorkerStep ==
    ASSUME TypeOK, WorkerWaits, [Next]_vars
    PROVE  WorkerWaits'
<1> USE QueueAssumption DEF memory, server
<1>1. ASSUME NEW new \in Batches, Enqueue(new)  PROVE WorkerWaits'
  <2>1. pc \notin SavePC => saving' = <<>>
    <3>1. ASSUME pc \notin SavePC, BatchActive, saving = jobs  PROVE FALSE
      BY <3>1 DEF WorkerWaits, BatchActive
    <3>2. QED
      BY <1>1, <3>1 DEF Enqueue, WorkerWaits
  <2>2. QED
    BY <1>1, <2>1 DEF Enqueue, EnterStore, Enqueueing, InStore, TypeOK, WorkerWaits, Writer
<1>2. CASE EnqueueSaved
  BY <1>2 DEF EnqueueSaved, LeaveStore, Started, WorkerWaits, InStore, SavePC
<1>3. CASE EnqueueRaises
  BY <1>3 DEF EnqueueRaises, LeaveStore, Enqueueing, InStore, WorkerWaits
<1>4. CASE Pick
  BY <1>4 DEF Pick, SaveAt, EnterStore, SendLaunch, TypeOK, WorkerWaits, InStore, SavePC
<1>5. CASE NothingLeft
  BY <1>5 DEF NothingLeft, WorkerWaits, InStore, SavePC
<1>6. CASE WorkerSaved
  BY <1>6 DEF WorkerSaved, LeaveStore, AfterSave, WorkerWaits, InStore, SavePC
<1>7. CASE WorkerSaveRaises
  BY <1>7 DEF WorkerSaveRaises, LeaveStore, RejoinStore, WorkerWaits, InStore, SavePC
<1>8. CASE LaunchReplied
  BY <1>8 DEF LaunchReplied, WorkerWaits, InStore, SavePC
<1>9. CASE LaunchFails
  BY <1>9 DEF LaunchFails, Raise, SaveAt, EnterStore, WorkerWaits, InStore, SavePC
<1>10. CASE StatusWorking
  BY <1>10 DEF StatusWorking, SaveAt, EnterStore, WorkerWaits, InStore, SavePC
<1>11. CASE StatusVerifying
  BY <1>11 DEF StatusVerifying, SaveAt, EnterStore, WorkerWaits, InStore, SavePC
<1>12. CASE StatusFailed
  BY <1>12 DEF StatusFailed, WorkerWaits, InStore, SavePC
<1>13. CASE StatusUnknown
  BY <1>13 DEF StatusUnknown, Raise, SaveAt, EnterStore, WorkerWaits, InStore, SavePC
<1>14. CASE FailureRefreshed
  BY <1>14 DEF FailureRefreshed, SaveAt, EnterStore, WorkerWaits, InStore, SavePC
<1>15. CASE Verified
  BY <1>15 DEF Verified, SaveAt, EnterStore, WorkerWaits, InStore, SavePC
<1>16. CASE VerificationUnclear
  BY <1>16 DEF VerificationUnclear, Raise, SaveAt, EnterStore, WorkerWaits, InStore, SavePC
<1>17. CASE Wake
  BY <1>17 DEF Wake, WorkerWaits, InStore, SavePC
<1>18. CASE Reboot
  BY <1>18 DEF Reboot, WorkerWaits, InStore
<1>19. CASE Stop
  BY <1>19 DEF Stop, WorkerWaits, InStore, SavePC
<1>20. CASE Load
  BY <1>20 DEF Load, WorkerWaits, InStore, SavePC
<1>21. ASSUME NEW j \in Job, Admit(j)  PROVE WorkerWaits'
  BY <1>21 DEF Admit, WorkerWaits, InStore
<1>22. ASSUME NEW j \in Job, ScriptBegins(j)  PROVE WorkerWaits'
  BY <1>22 DEF ScriptBegins, WorkerWaits, InStore
<1>23. ASSUME NEW j \in Job, ScriptPulled(j)  PROVE WorkerWaits'
  BY <1>23 DEF ScriptPulled, WorkerWaits, InStore
<1>24. ASSUME NEW j \in Job, ScriptEnds(j)  PROVE WorkerWaits'
  BY <1>24 DEF ScriptEnds, WorkerWaits, InStore
<1>25. CASE UNCHANGED vars
  BY <1>25 DEF vars, WorkerWaits, InStore
<1>26. QED
  BY <1>1, <1>2, <1>3, <1>4, <1>5, <1>6, <1>7, <1>8, <1>9, <1>10, <1>11, <1>12,
     <1>13, <1>14, <1>15, <1>16, <1>17, <1>18, <1>19, <1>20, <1>21, <1>22, <1>23, <1>24, <1>25
     DEF Next, Worker, Script

\* The initial state is well typed.
LEMMA TypeInit ==
    ASSUME Init
    PROVE  TypeOK
<1>1. disk \in [list : Seq(Job), state : [Job -> State]]
  <2>1. <<>> \in Seq(Job) /\ state \in [Job -> State]
    BY DEF Init, State
  <2>2. QED
    BY <2>1, SnapshotShows DEF Init
<1>2. jobs \in Seq(Job) /\ saving \in Seq(Job) /\ previous \in Seq(Job)
  BY DEF Init
<1>3. /\ state \in [Job -> State] /\ remote \in [Job -> Remote]
      /\ runs \in [Job -> Nat] /\ faults \in [Fault -> Nat]
  BY DEF Init, State, Remote
<1>4. QED
  BY <1>1, <1>2, <1>3 DEF Init, TypeOK, WorkerPC, Writer

\* At first there is no worker.
LEMMA WorkerInit ==
    ASSUME Init
    PROVE  WorkerWaits
  BY DEF Init, WorkerWaits, InStore, SavePC

-----------------------------------------------------------------------------
(* Only drawn job ids occur                                                *)

\* Lists, the worker, the network and the server know only ids that were drawn.
Known ==
    /\ Range(jobs) \subseteq used /\ Range(saving) \subseteq used
    /\ Range(previous) \subseteq used /\ Range(disk.list) \subseteq used
    /\ cur \in used \cup {NoJob}
    /\ wire \cup late \subseteq used
    /\ \A j \in Job \ used : remote[j] = "absent"

\* No step brings up an id that was not drawn.
LEMMA KnownStep ==
    ASSUME TypeOK, WorkerWaits, Known, [Next]_vars
    PROVE  Known'
<1> USE QueueAssumption DEF memory, server
<1>1. ASSUME NEW new \in Batches, Enqueue(new)  PROVE Known'
  <2>1. new \in Seq(Job) /\ Range(jobs \o new) \subseteq used \cup Range(new)
    BY RangeOfConcat DEF TypeOK, Known
  <2>2. QED
    BY <1>1, <2>1 DEF Enqueue, Known
<1>2. CASE EnqueueSaved
  <2>1. Range(disk'.list) \subseteq used
    BY <1>2, SnapshotShows DEF EnqueueSaved, TypeOK, Known
  <2>2. QED
    BY <1>2, <2>1 DEF EnqueueSaved, Known, Range
<1>3. CASE EnqueueRaises
  <2>1. Range(disk'.list) \subseteq used
    BY <1>3, WritingShows DEF EnqueueRaises, Known
  <2>2. QED
    BY <1>3, <2>1 DEF EnqueueRaises, Known, Range
<1>4. CASE Pick
  <2>1. PICK i \in DOMAIN jobs :
          /\ cur' = jobs[i]
          /\ saving' \in {saving, jobs}
          /\ wire' \in {wire, wire \cup {jobs[i]}}
    BY <1>4 DEF Pick, SaveAt, SendLaunch
  <2>2. jobs[i] \in Range(jobs)
    BY RangeOfList DEF TypeOK
  <2>3. QED
    BY <1>4, <2>1, <2>2 DEF Pick, Known
<1>5. CASE NothingLeft
  BY <1>5 DEF NothingLeft, Known
<1>6. CASE WorkerSaved
  <2>1. Range(disk'.list) \subseteq used
    BY <1>6, SnapshotShows DEF WorkerSaved, TypeOK, Known
  <2>2. Range(saving') = {}
    BY <1>6 DEF WorkerSaved, Range
  <2>3. wire' \subseteq used
    BY <1>6 DEF WorkerSaved, WorkerWaits, Known
  <2>4. QED
    BY <1>6, <2>1, <2>2, <2>3 DEF WorkerSaved, Known
<1>7. CASE WorkerSaveRaises
  <2>1. Range(disk'.list) \subseteq used
    BY <1>7, SnapshotShows DEF WorkerSaveRaises, TypeOK, Known
  <2>2. Range(saving') \subseteq used /\ cur' \in used \cup {NoJob}
    BY <1>7 DEF WorkerSaveRaises, Known, Range
  <2>3. QED
    BY <1>7, <2>1, <2>2 DEF WorkerSaveRaises, Known
<1>8. CASE LaunchReplied
  BY <1>8 DEF LaunchReplied, Known
<1>9. CASE LaunchFails
  BY <1>9 DEF LaunchFails, Raise, SaveAt, Known
<1>10. CASE StatusWorking
  BY <1>10 DEF StatusWorking, SaveAt, Known
<1>11. CASE StatusVerifying
  BY <1>11 DEF StatusVerifying, SaveAt, Known
<1>12. CASE StatusFailed
  BY <1>12 DEF StatusFailed, Known
<1>13. CASE StatusUnknown
  BY <1>13 DEF StatusUnknown, Raise, SaveAt, Known
<1>14. CASE FailureRefreshed
  BY <1>14 DEF FailureRefreshed, SaveAt, Known
<1>15. CASE Verified
  BY <1>15 DEF Verified, SaveAt, Known
<1>16. CASE VerificationUnclear
  BY <1>16 DEF VerificationUnclear, Raise, SaveAt, Known
<1>17. CASE Wake
  BY <1>17 DEF Wake, Known
<1>18. CASE Reboot
  BY <1>18 DEF Reboot, Known
<1>19. CASE Stop
  <2>1. Range(disk'.list) \subseteq used
    BY <1>19, WritingShows DEF Stop, Known
  <2>2. QED
    BY <1>19, <2>1 DEF Stop, Known, Range
<1>20. CASE Load
  BY <1>20 DEF Load, Known
<1>21. ASSUME NEW j \in Job, Admit(j)  PROVE Known'
  BY <1>21 DEF Admit, Arrives, Known
<1>22. ASSUME NEW j \in Job, ScriptBegins(j)  PROVE Known'
  BY <1>22 DEF ScriptBegins, Known
<1>23. ASSUME NEW j \in Job, ScriptPulled(j)  PROVE Known'
  BY <1>23 DEF ScriptPulled, Known
<1>24. ASSUME NEW j \in Job, ScriptEnds(j)  PROVE Known'
  BY <1>24 DEF ScriptEnds, Known
<1>25. CASE UNCHANGED vars
  BY <1>25 DEF vars, Known
<1>26. QED
  BY <1>1, <1>2, <1>3, <1>4, <1>5, <1>6, <1>7, <1>8, <1>9, <1>10, <1>11, <1>12,
     <1>13, <1>14, <1>15, <1>16, <1>17, <1>18, <1>19, <1>20, <1>21, <1>22, <1>23, <1>24, <1>25
     DEF Next, Worker, Script

-----------------------------------------------------------------------------
(* The launch intent                                                       *)

\* The worker waits for something about a job it has not finished.
Attending == {"save_intent", "launch", "status", "refresh_failed", "save_verifying", "refresh"}

\* IntentBeforeLaunch is inductive with two facts: the job in hand has left the
\* state queued, and outside of a save of the intent the file is not behind.
IntentInv ==
    /\ pc \in Attending => state[cur] \in ACTIVE \ {"queued"}
    /\ pc \notin {"none", "save_intent", "save_error"} =>
         \A j \in Job : disk.state[j] = "queued" => state[j] = "queued"
    /\ IntentBeforeLaunch

\* No step breaks the launch intent.
LEMMA IntentStep ==
    ASSUME TypeOK, WorkerWaits, Known, IntentInv, [Next]_vars
    PROVE  IntentInv'
<1> USE QueueAssumption DEF memory, server
<1>1. ASSUME NEW new \in Batches, Enqueue(new)  PROVE IntentInv'
  <2>1. \A j \in used : state'[j] = state[j]
    BY <1>1, RangeOfList DEF Enqueue, TypeOK, Range
  <2>2. \A j \in Job : state'[j] \in {state[j], "queued"}
    BY <1>1 DEF Enqueue
  <2>3. pc \in Attending => cur \in used
    BY DEF Attending, WorkerWaits, Known
  <2>4. IntentBeforeLaunch'
    BY <1>1, <2>1 DEF Enqueue, IntentInv, IntentBeforeLaunch, Known
  <2>5. QED
    BY <1>1, <2>1, <2>2, <2>3, <2>4 DEF Enqueue, IntentInv
<1>2. CASE EnqueueSaved
  <2>1. \A j \in Job : disk'.state[j] \in {state[j], "none"}
    BY <1>2, SnapshotShows DEF EnqueueSaved, TypeOK
  <2>2. pc' \in Attending => pc \in Attending
    BY <1>2 DEF EnqueueSaved, Started, Attending
  <2>3. QED
    BY <1>2, <2>1, <2>2 DEF EnqueueSaved, IntentInv, IntentBeforeLaunch
<1>3. CASE EnqueueRaises
  <2>1. \A j \in Job : disk'.state[j] \in {disk.state[j], state[j], "none"}
    BY <1>3, WritingShows DEF EnqueueRaises
  <2>2. QED
    BY <1>3, <2>1 DEF EnqueueRaises, IntentInv, IntentBeforeLaunch
<1>4. CASE Pick
  <2>1. PICK i \in DOMAIN jobs :
          /\ Active(jobs[i])
          /\ cur' = jobs[i]
          /\ \/ /\ state[jobs[i]] = "queued"
                /\ state' = [state EXCEPT ![jobs[i]] = "preparing"]
                /\ pc' = "save_intent"
                /\ UNCHANGED wire
             \/ /\ state[jobs[i]] = "preparing"
                /\ pc' = "launch"
                /\ wire' = wire \cup {jobs[i]}
                /\ UNCHANGED state
             \/ /\ state[jobs[i]] \notin {"queued", "preparing"}
                /\ pc' = "status"
                /\ UNCHANGED <<state, wire>>
    BY <1>4 DEF Pick, SaveAt, SendLaunch
  <2>2. jobs[i] \in Job
    BY RangeOfList DEF TypeOK
  <2>3. pc = "pick" /\ UNCHANGED <<disk, late, remote>>
    BY <1>4 DEF Pick
  <2>4. \A j \in Job : disk.state[j] = "queued" => state[j] = "queued"
    BY <2>3 DEF IntentInv
  <2>5. QED
    BY <2>1, <2>2, <2>3, <2>4 DEF IntentInv, IntentBeforeLaunch, Active, ACTIVE, TypeOK
<1>5. CASE NothingLeft
  BY <1>5 DEF NothingLeft, IntentInv, IntentBeforeLaunch, Attending
<1>6. CASE WorkerSaved
  <2>1. \A j \in Job : disk'.state[j] \in {state[j], "none"}
    BY <1>6, SnapshotShows DEF WorkerSaved, TypeOK
  <2>2. pc \in SavePC
    BY <1>6 DEF WorkerSaved, WorkerWaits, InStore
  <2>3. pc' \in Attending => pc \in Attending
    BY <1>6 DEF WorkerSaved, AfterSave, Attending
  <2>4. pc = "save_intent" => state[cur] # "queued" /\ cur \in Job
    BY <2>2 DEF IntentInv, Attending, WorkerWaits
  <2>5. QED
    BY <1>6, <2>1, <2>3, <2>4 DEF WorkerSaved, IntentInv, IntentBeforeLaunch
<1>7. CASE WorkerSaveRaises
  <2>1. \A j \in Job : disk'.state[j] \in {disk.state[j], state[j], "none"}
    BY <1>7, SnapshotShows DEF WorkerSaveRaises, TypeOK
  <2>2. pc' \in {"none", "save_error"} /\ UNCHANGED <<state, wire, late, remote>>
    BY <1>7 DEF WorkerSaveRaises
  <2>3. QED
    BY <2>1, <2>2 DEF IntentInv, IntentBeforeLaunch, Attending
<1>8. CASE LaunchReplied
  BY <1>8 DEF LaunchReplied, IntentInv, IntentBeforeLaunch, Attending
<1>9. CASE LaunchFails
  BY <1>9 DEF LaunchFails, Raise, IntentInv, IntentBeforeLaunch, Attending
<1>10. CASE StatusWorking
  BY <1>10 DEF StatusWorking, SaveAt, Running, IntentInv, IntentBeforeLaunch, Attending, Working
<1>11. CASE StatusVerifying
  BY <1>11 DEF StatusVerifying, IntentInv, IntentBeforeLaunch, Attending, ACTIVE
<1>12. CASE StatusFailed
  BY <1>12 DEF StatusFailed, IntentInv, IntentBeforeLaunch, Attending
<1>13. CASE StatusUnknown
  BY <1>13 DEF StatusUnknown, Raise, IntentInv, IntentBeforeLaunch, Attending
<1>14. CASE FailureRefreshed
  BY <1>14 DEF FailureRefreshed, SaveAt, IntentInv, IntentBeforeLaunch, Attending
<1>15. CASE Verified
  BY <1>15 DEF Verified, SaveAt, IntentInv, IntentBeforeLaunch, Attending, TERMINAL
<1>16. CASE VerificationUnclear
  BY <1>16 DEF VerificationUnclear, Raise, IntentInv, IntentBeforeLaunch, Attending
<1>17. CASE Wake
  BY <1>17 DEF Wake, IntentInv, IntentBeforeLaunch, Attending
<1>18. CASE Reboot
  BY <1>18 DEF Reboot, IntentInv, IntentBeforeLaunch
<1>19. CASE Stop
  <2>1. \A j \in Job : disk'.state[j] \in {disk.state[j], state[j], "none"}
    BY <1>19, WritingShows DEF Stop
  <2>2. QED
    BY <1>19, <2>1 DEF Stop, IntentInv, IntentBeforeLaunch, Attending
<1>20. CASE Load
  BY <1>20 DEF Load, IntentInv, IntentBeforeLaunch, Attending
<1>21. ASSUME NEW j \in Job, Admit(j)  PROVE IntentInv'
  BY <1>21 DEF Admit, Arrives, IntentInv, IntentBeforeLaunch
<1>22. ASSUME NEW j \in Job, ScriptBegins(j)  PROVE IntentInv'
  BY <1>22 DEF ScriptBegins, IntentInv, IntentBeforeLaunch
<1>23. ASSUME NEW j \in Job, ScriptPulled(j)  PROVE IntentInv'
  BY <1>23 DEF ScriptPulled, IntentInv, IntentBeforeLaunch
<1>24. ASSUME NEW j \in Job, ScriptEnds(j)  PROVE IntentInv'
  BY <1>24 DEF ScriptEnds, IntentInv, IntentBeforeLaunch
<1>25. CASE UNCHANGED vars
  BY <1>25 DEF vars, IntentInv, IntentBeforeLaunch
<1>26. QED
  BY <1>1, <1>2, <1>3, <1>4, <1>5, <1>6, <1>7, <1>8, <1>9, <1>10, <1>11, <1>12,
     <1>13, <1>14, <1>15, <1>16, <1>17, <1>18, <1>19, <1>20, <1>21, <1>22, <1>23, <1>24, <1>25
     DEF Next, Worker, Script

-----------------------------------------------------------------------------
(* One start per boot                                                      *)

\* A job without a started script has used up no start of this boot.
OnceInv ==
    \A j \in Job : runs[j] <= faults["reboot"] + IF remote[j] \in {"absent", "preparing"} THEN 0 ELSE 1

\* No step starts a script twice in one boot.
LEMMA OnceStep ==
    ASSUME TypeOK, OnceInv, [Next]_vars
    PROVE  OnceInv'
<1> USE QueueAssumption DEF memory, server
<1>1. ASSUME NEW new \in Batches, Enqueue(new)  PROVE OnceInv'
  BY <1>1 DEF Enqueue, OnceInv
<1>2. CASE EnqueueSaved
  BY <1>2 DEF EnqueueSaved, OnceInv
<1>3. CASE EnqueueRaises
  BY <1>3 DEF EnqueueRaises, Fail, OnceInv
<1>4. CASE Pick
  BY <1>4 DEF Pick, OnceInv
<1>5. CASE NothingLeft
  BY <1>5 DEF NothingLeft, OnceInv
<1>6. CASE WorkerSaved
  BY <1>6 DEF WorkerSaved, OnceInv
<1>7. CASE WorkerSaveRaises
  BY <1>7 DEF WorkerSaveRaises, Fail, OnceInv
<1>8. CASE LaunchReplied
  BY <1>8 DEF LaunchReplied, OnceInv
<1>9. CASE LaunchFails
  BY <1>9 DEF LaunchFails, Raise, OnceInv
<1>10. CASE StatusWorking
  BY <1>10 DEF StatusWorking, OnceInv
<1>11. CASE StatusVerifying
  BY <1>11 DEF StatusVerifying, OnceInv
<1>12. CASE StatusFailed
  BY <1>12 DEF StatusFailed, OnceInv
<1>13. CASE StatusUnknown
  BY <1>13 DEF StatusUnknown, Raise, OnceInv
<1>14. CASE FailureRefreshed
  BY <1>14 DEF FailureRefreshed, OnceInv
<1>15. CASE Verified
  BY <1>15 DEF Verified, OnceInv
<1>16. CASE VerificationUnclear
  BY <1>16 DEF VerificationUnclear, Raise, OnceInv
<1>17. CASE Wake
  BY <1>17 DEF Wake, OnceInv
<1>18. CASE Reboot
  BY <1>18 DEF Reboot, Fail, OnceInv, TypeOK, Remote, Working, Fault
<1>19. CASE Stop
  BY <1>19 DEF Stop, Fail, OnceInv
<1>20. CASE Load
  BY <1>20 DEF Load, OnceInv
<1>21. ASSUME NEW j \in Job, Admit(j)  PROVE OnceInv'
  BY <1>21 DEF Admit, OnceInv
<1>22. ASSUME NEW j \in Job, ScriptBegins(j)  PROVE OnceInv'
  <2>1. runs'[j] = runs[j] + 1 /\ \A i \in Job \ {j} : runs'[i] = runs[i] /\ remote'[i] = remote[i]
    BY <1>22 DEF ScriptBegins, TypeOK
  <2>2. remote[j] = "preparing" /\ remote'[j] \in {"pulling", "updating"} /\ UNCHANGED faults
    BY <1>22 DEF ScriptBegins, TypeOK
  <2>3. runs[j] <= faults["reboot"] /\ runs[j] \in Nat /\ faults["reboot"] \in Nat
    BY <2>2 DEF OnceInv, TypeOK, Fault
  <2>4. QED
    BY <2>1, <2>2, <2>3 DEF OnceInv
<1>23. ASSUME NEW j \in Job, ScriptPulled(j)  PROVE OnceInv'
  BY <1>23 DEF ScriptPulled, OnceInv
<1>24. ASSUME NEW j \in Job, ScriptEnds(j)  PROVE OnceInv'
  BY <1>24 DEF ScriptEnds, OnceInv
<1>25. CASE UNCHANGED vars
  BY <1>25 DEF vars, OnceInv
<1>26. QED
  BY <1>1, <1>2, <1>3, <1>4, <1>5, <1>6, <1>7, <1>8, <1>9, <1>10, <1>11, <1>12,
     <1>13, <1>14, <1>15, <1>16, <1>17, <1>18, <1>19, <1>20, <1>21, <1>22, <1>23, <1>24, <1>25
     DEF Next, Worker, Script

-----------------------------------------------------------------------------
(* Serial order and merging                                                *)

\* No two jobs of a list update the same target.
Distinct(list) == \A i, k \in DOMAIN list : i # k => TargetOf[list[i]] # TargetOf[list[k]]

\* Moving a job that has left the queue keeps any list in order.
LEMMA MoveKeepsOrder ==
    ASSUME NEW list \in Seq(Job), NEW st \in [Job -> State], NEW j \in Job, NEW s \in State,
           InOrder(list, st), st[j] \in ACTIVE \ {"queued"}
    PROVE  InOrder(list, [st EXCEPT ![j] = s])
  BY DEF InOrder

\* Taking the first active job keeps a list of distinct jobs in order.
LEMMA FirstKeepsOrder ==
    ASSUME NEW list \in Seq(Job), NEW st \in [Job -> State], NEW i \in DOMAIN list,
           InOrder(list, st), Distinct(list), st[list[i]] = "queued",
           \A k \in 1..(i - 1) : st[list[k]] \notin ACTIVE
    PROVE  InOrder(list, [st EXCEPT ![list[i]] = "preparing"])
  <1> DEFINE new == [st EXCEPT ![list[i]] = "preparing"]
  <1>1. \A k \in DOMAIN list : k # i => new[list[k]] = st[list[k]]
    BY DEF Distinct
  <1>2. SUFFICES ASSUME NEW h \in DOMAIN list, NEW k \in DOMAIN list, h < k, new[list[h]] \in ACTIVE
                 PROVE  new[list[k]] = "queued"
    BY DEF InOrder
  <1>3. CASE h < i
    BY <1>1, <1>2, <1>3
  <1>4. CASE h >= i
    <2>1. h # i => new[list[h]] = st[list[h]]
      BY <1>1
    <2>2. st[list[h]] \in ACTIVE
      BY <1>2, <2>1 DEF ACTIVE
    <2>3. st[list[k]] = "queued" /\ k # i
      BY <1>2, <1>4, <2>2 DEF InOrder
    <2>4. QED
      BY <1>1, <2>3
  <1>5. QED
    BY <1>3, <1>4

\* Queueing new jobs of other targets at the end keeps a list in order.
LEMMA AppendKeepsOrder ==
    ASSUME NEW list \in Seq(Job), NEW new \in Seq(Job), NEW st \in [Job -> State],
           InOrder(list, st), Distinct(list), Distinct(new),
           \A i \in DOMAIN list, k \in DOMAIN new : TargetOf[list[i]] # TargetOf[new[k]]
    PROVE  LET all == list \o new
               then == [j \in Job |-> IF j \in Range(new) THEN "queued" ELSE st[j]]
           IN  InOrder(all, then) /\ Distinct(all)
  <1> DEFINE all == list \o new
             then == [j \in Job |-> IF j \in Range(new) THEN "queued" ELSE st[j]]
  <1>1. /\ DOMAIN all = 1..(Len(list) + Len(new))
        /\ DOMAIN list = 1..Len(list) /\ DOMAIN new = 1..Len(new)
        /\ \A i \in DOMAIN list : all[i] = list[i]
        /\ \A i \in DOMAIN all : i > Len(list) =>
             i - Len(list) \in DOMAIN new /\ all[i] = new[i - Len(list)]
    OBVIOUS
  <1>2. Distinct(all)
    <2>1. SUFFICES ASSUME NEW i \in DOMAIN all, NEW k \in DOMAIN all, i < k
                   PROVE  TargetOf[all[i]] # TargetOf[all[k]]
      BY <1>1 DEF Distinct
    <2>2. CASE k <= Len(list)
      BY <1>1, <2>1, <2>2 DEF Distinct
    <2>3. CASE i <= Len(list) /\ k > Len(list)
      BY <1>1, <2>1, <2>3
    <2>4. CASE i > Len(list)
      BY <1>1, <2>1, <2>4 DEF Distinct
    <2>5. QED
      BY <1>1, <2>1, <2>2, <2>3, <2>4
  <1>3. ASSUME NEW i \in DOMAIN all, NEW k \in DOMAIN all, i < k, then[all[i]] \in ACTIVE
        PROVE  then[all[k]] = "queued"
    <2>1. CASE k > Len(list)
      <3>1. all[k] \in Range(new) /\ all[k] \in Job
        BY <1>1, <2>1, RangeOfList
      <3>2. QED
        BY <3>1
    <2>2. CASE k <= Len(list)
      <3>1. i \in DOMAIN list /\ k \in DOMAIN list
        BY <1>1, <1>3, <2>2
      <3>2. \A h \in DOMAIN list : list[h] \in Job /\ list[h] \notin Range(new)
        BY RangeOfList DEF Range
      <3>3. then[all[i]] = st[list[i]] /\ then[all[k]] = st[list[k]]
        BY <1>1, <3>1, <3>2
      <3>4. QED
        BY <1>3, <3>1, <3>3 DEF InOrder
    <2>3. QED
      BY <1>1, <2>1, <2>2
  <1>4. QED
    BY <1>2, <1>3 DEF InOrder

\* A snapshot of a list is in order when the list is.
LEMMA SnapshotInOrder ==
    ASSUME NEW list \in Seq(Job), state \in [Job -> State], InOrder(list, state)
    PROVE  InOrder(Snapshot(list).list, Snapshot(list).state)
  <1>1. /\ Snapshot(list).list = list
        /\ \A i \in DOMAIN list : Snapshot(list).state[list[i]] = state[list[i]]
    BY SnapshotShows, RangeOfList
  <1>2. QED
    BY <1>1 DEF InOrder

\* Every list the queue handles is in order and free of repeated targets.  While
\* an enqueue waits for the Store, the list it would put back is a beginning of
\* the present one or wholly worked off.
OrderInv ==
    /\ InOrder(jobs, state) /\ InOrder(saving, state) /\ InOrder(previous, state)
    /\ InOrder(disk.list, disk.state)
    /\ Distinct(jobs) /\ Distinct(saving) /\ Distinct(previous) /\ Distinct(disk.list)
    /\ ~Enqueueing => previous = <<>>
    /\ Enqueueing => \/ /\ Len(previous) <= Len(jobs)
                        /\ \A i \in DOMAIN previous : previous[i] = jobs[i]
                     \/ \A i \in DOMAIN previous : ~Active(previous[i])

\* No step takes a job out of turn.
LEMMA OrderStep ==
    ASSUME TypeOK, WorkerWaits, Known, IntentInv, OrderInv, [Next]_vars
    PROVE  OrderInv'
<1> USE QueueAssumption DEF memory, server
<1>1. ASSUME NEW new \in Batches, Enqueue(new)  PROVE OrderInv'
  <2> DEFINE S == Range(new)
  <2>1. /\ new \in Seq(Job) /\ S \subseteq Job /\ Distinct(new)
        /\ S \cap used = {}
    BY <1>1, RangeOfList DEF Enqueue, Distinct, Range
  <2>2. state' = [j \in Job |-> IF j \in S THEN "queued" ELSE state[j]]
    BY <1>1 DEF Enqueue
  <2>3. InOrder(saving, state') /\ InOrder(jobs, state')
    <3>1. ASSUME NEW list \in Seq(Job), InOrder(list, state), Range(list) \subseteq used
          PROVE  InOrder(list, state')
      <4>1. \A i \in DOMAIN list : list[i] \in Job /\ list[i] \notin S
        BY <2>1, <3>1, RangeOfList
      <4>2. \A i \in DOMAIN list : state'[list[i]] = state[list[i]]
        BY <2>2, <4>1
      <4>3. QED
        BY <3>1, <4>2 DEF InOrder
    <3>2. QED
      BY <3>1 DEF OrderInv, Known, TypeOK
  <2>4. InOrder(jobs', state') /\ Distinct(jobs')
    <3>1. CASE BatchActive
      <4>1. \A i \in DOMAIN jobs, k \in DOMAIN new : TargetOf[jobs[i]] # TargetOf[new[k]]
        BY <1>1, <3>1 DEF Enqueue, Merged
      <4>2. jobs' = jobs \o new
        BY <1>1, <3>1 DEF Enqueue
      <4>3. jobs \in Seq(Job) /\ state \in [Job -> State] /\ InOrder(jobs, state) /\ Distinct(jobs)
        BY DEF OrderInv, TypeOK
      <4>4. /\ InOrder(jobs \o new, [j \in Job |-> IF j \in Range(new) THEN "queued" ELSE state[j]])
            /\ Distinct(jobs \o new)
        BY <2>1, <4>1, <4>3, AppendKeepsOrder
      <4>5. QED
        BY <2>2, <4>2, <4>4
    <3>2. CASE ~BatchActive
      <4>1. jobs' = new /\ \A i \in DOMAIN new : state'[new[i]] = "queued"
        BY <1>1, <2>1, <2>2, <3>2, RangeOfList DEF Enqueue
      <4>2. QED
        BY <2>1, <4>1 DEF InOrder
    <3>3. QED
      BY <3>1, <3>2
  <2>5. /\ previous' = jobs /\ saving' \in {saving, jobs'} /\ UNCHANGED disk
        /\ Enqueueing'
    BY <1>1 DEF Enqueue, EnterStore, Enqueueing, InStore
  <2>6. \/ /\ Len(jobs) <= Len(jobs')
           /\ \A i \in DOMAIN jobs : jobs[i] = jobs'[i]
        \/ \A i \in DOMAIN jobs : state'[jobs[i]] \notin ACTIVE
    <3>1. CASE BatchActive
      <4>1. jobs \in Seq(Job) /\ new \in Seq(Job) /\ jobs' = jobs \o new
        BY <1>1, <2>1, <3>1 DEF Enqueue, TypeOK
      <4>2. QED
        BY <4>1
    <3>2. CASE ~BatchActive
      <4>1. \A i \in DOMAIN jobs : jobs[i] \in Job /\ jobs[i] \in used
        BY RangeOfList DEF Known, TypeOK
      <4>2. QED
        BY <2>1, <2>2, <3>2, <4>1 DEF BatchActive, Active
    <3>3. QED
      BY <3>1, <3>2
  <2>7. QED
    BY <2>3, <2>4, <2>5, <2>6 DEF OrderInv, Active
<1>2. CASE EnqueueSaved
  <2>1. InOrder(disk'.list, disk'.state) /\ disk'.list = jobs
    BY <1>2, SnapshotInOrder, SnapshotShows DEF EnqueueSaved, OrderInv, TypeOK
  <2>2. ~Enqueueing'
    BY <1>2 DEF EnqueueSaved, LeaveStore, Enqueueing, InStore, WorkerWaits
  <2>3. previous' = <<>> /\ UNCHANGED <<jobs, state, saving>>
    BY <1>2 DEF EnqueueSaved
  <2>4. QED
    BY <2>1, <2>2, <2>3 DEF OrderInv, InOrder, Distinct
<1>3. CASE EnqueueRaises
  <2>1. InOrder(disk'.list, disk'.state) /\ Distinct(disk'.list)
    <3>1. CASE disk' = disk
      BY <3>1 DEF OrderInv
    <3>2. CASE disk' \in Writing
      BY <3>2, WritingShows, SnapshotInOrder DEF OrderInv, TypeOK
    <3>3. QED
      BY <1>3, <3>1, <3>2 DEF EnqueueRaises
  <2>2. ~Enqueueing'
    BY <1>3 DEF EnqueueRaises, LeaveStore, Enqueueing, InStore, WorkerWaits
  <2>3. jobs' = previous /\ previous' = <<>> /\ UNCHANGED <<state, saving>>
    BY <1>3 DEF EnqueueRaises
  <2>4. QED
    BY <2>1, <2>2, <2>3 DEF OrderInv, InOrder, Distinct
<1>4. CASE Pick
  <2>1. PICK i \in DOMAIN jobs :
          /\ Active(jobs[i])
          /\ \A k \in 1..(i - 1) : ~Active(jobs[k])
          /\ \/ /\ state[jobs[i]] = "queued"
                /\ state' = [state EXCEPT ![jobs[i]] = "preparing"]
                /\ saving' = jobs
             \/ UNCHANGED <<state, saving>>
    BY <1>4 DEF Pick, SaveAt
  <2>2. saving = <<>> /\ UNCHANGED <<jobs, previous, disk>>
    BY <1>4 DEF Pick, WorkerWaits, SavePC
  <2>3. Enqueueing' <=> Enqueueing
    BY <1>4 DEF Pick, SaveAt, EnterStore, Enqueueing, InStore, WorkerWaits, SavePC, TypeOK, Writer
  <2>4. CASE UNCHANGED <<state, saving>>
    BY <2>2, <2>3, <2>4 DEF OrderInv, Active
  <2>5. CASE /\ state[jobs[i]] = "queued" /\ saving' = jobs
             /\ state' = [state EXCEPT ![jobs[i]] = "preparing"]
    <3>1. jobs[i] \in Job
      BY RangeOfList DEF TypeOK
    <3>2. InOrder(jobs, state')
      BY <2>1, <2>5, FirstKeepsOrder DEF OrderInv, TypeOK, Active
    <3>3. CASE \A k \in DOMAIN previous : ~Active(previous[k])
      <4>1. \A k \in DOMAIN previous : previous[k] # jobs[i] /\ previous[k] \in Job
        BY <2>1, <3>3, RangeOfList DEF TypeOK
      <4>2. \A k \in DOMAIN previous : state'[previous[k]] = state[previous[k]]
        BY <2>5, <4>1 DEF TypeOK
      <4>3. InOrder(previous, state')
        BY <4>2 DEF OrderInv, InOrder
      <4>4. QED
        BY <2>2, <2>3, <2>5, <3>2, <3>3, <4>2, <4>3 DEF OrderInv, Active
    <3>4. CASE /\ Len(previous) <= Len(jobs)
               /\ \A k \in DOMAIN previous : previous[k] = jobs[k]
      <4>1. DOMAIN previous \subseteq DOMAIN jobs
        BY <3>4 DEF TypeOK
      <4>2. InOrder(previous, state')
        BY <3>2, <3>4, <4>1 DEF InOrder
      <4>3. QED
        BY <2>2, <2>3, <2>5, <3>2, <3>4, <4>2 DEF OrderInv
    <3>5. QED
      BY <3>3, <3>4 DEF OrderInv
  <2>6. QED
    BY <2>1, <2>4, <2>5
<1>5. CASE NothingLeft
  BY <1>5 DEF NothingLeft, OrderInv, Enqueueing, InStore, Active
<1>6. CASE WorkerSaved
  <2>1. InOrder(disk'.list, disk'.state) /\ disk'.list = saving
    BY <1>6, SnapshotInOrder, SnapshotShows DEF WorkerSaved, OrderInv, TypeOK
  <2>2. Enqueueing' <=> Enqueueing
    BY <1>6 DEF WorkerSaved, LeaveStore, Enqueueing, InStore
  <2>3. saving' = <<>> /\ UNCHANGED <<jobs, state, previous>>
    BY <1>6 DEF WorkerSaved
  <2>4. QED
    BY <2>1, <2>2, <2>3 DEF OrderInv, InOrder, Distinct, Active
<1>7. CASE WorkerSaveRaises
  <2>1. InOrder(disk'.list, disk'.state) /\ Distinct(disk'.list)
    <3>1. CASE disk' = disk
      BY <3>1 DEF OrderInv
    <3>2. CASE disk' = Snapshot(saving)
      <4>1. saving \in Seq(Job) /\ state \in [Job -> State] /\ InOrder(saving, state) /\ Distinct(saving)
        BY DEF OrderInv, TypeOK
      <4>2. QED
        BY <3>2, <4>1, SnapshotInOrder, SnapshotShows
    <3>3. QED
      BY <1>7, <3>1, <3>2 DEF WorkerSaveRaises
  <2>2. Enqueueing' <=> Enqueueing
    BY <1>7 DEF WorkerSaveRaises, LeaveStore, RejoinStore, Enqueueing, InStore
  <2>3. saving' \in {<<>>, jobs} /\ UNCHANGED <<jobs, state, previous>>
    BY <1>7 DEF WorkerSaveRaises
  <2>4. QED
    BY <2>1, <2>2, <2>3 DEF OrderInv, InOrder, Distinct, Active
<1>8. CASE LaunchReplied
  BY <1>8 DEF LaunchReplied, OrderInv, Enqueueing, InStore, Active
<1>9. CASE LaunchFails
  <2>1. saving' = jobs /\ UNCHANGED <<jobs, state, previous, disk>>
    BY <1>9 DEF LaunchFails, Raise, SaveAt
  <2>2. Enqueueing' <=> Enqueueing
    BY <1>9 DEF LaunchFails, Raise, SaveAt, EnterStore, Enqueueing, InStore, WorkerWaits, SavePC, TypeOK, Writer
  <2>3. QED
    BY <2>1, <2>2 DEF OrderInv, Active
<1>10. CASE StatusWorking
  <2>1. cur \in Job /\ state[cur] \in ACTIVE \ {"queued"}
    BY <1>10 DEF StatusWorking, WorkerWaits, IntentInv, Attending
  <2>2. PICK s \in State : state' = [state EXCEPT ![cur] = s]
    BY <1>10 DEF StatusWorking, Running, Working, State, ACTIVE
  <2>3. /\ InOrder(jobs, state') /\ InOrder(previous, state')
    BY <2>1, <2>2, MoveKeepsOrder DEF OrderInv, TypeOK
  <2>4. saving' = jobs /\ UNCHANGED <<jobs, previous, disk>>
    BY <1>10 DEF StatusWorking, SaveAt
  <2>5. Enqueueing' <=> Enqueueing
    BY <1>10 DEF StatusWorking, SaveAt, EnterStore, Enqueueing, InStore, WorkerWaits, SavePC, TypeOK, Writer
  <2>6. \A i \in DOMAIN previous : ~Active(previous[i]) => ~Active(previous[i])'
    BY <2>1, <2>2, <2>4 DEF Active
  <2>7. QED
    BY <2>3, <2>4, <2>5, <2>6 DEF OrderInv
<1>11. CASE StatusVerifying
  <2>1. cur \in Job /\ state[cur] \in ACTIVE \ {"queued"}
    BY <1>11 DEF StatusVerifying, WorkerWaits, IntentInv, Attending
  <2>2. PICK s \in State : state' = [state EXCEPT ![cur] = s]
    BY <1>11 DEF StatusVerifying, State, ACTIVE
  <2>3. /\ InOrder(jobs, state') /\ InOrder(previous, state')
    BY <2>1, <2>2, MoveKeepsOrder DEF OrderInv, TypeOK
  <2>4. saving' = jobs /\ UNCHANGED <<jobs, previous, disk>>
    BY <1>11 DEF StatusVerifying, SaveAt
  <2>5. Enqueueing' <=> Enqueueing
    BY <1>11 DEF StatusVerifying, SaveAt, EnterStore, Enqueueing, InStore, WorkerWaits, SavePC, TypeOK, Writer
  <2>6. \A i \in DOMAIN previous : ~Active(previous[i]) => ~Active(previous[i])'
    BY <2>1, <2>2, <2>4 DEF Active
  <2>7. QED
    BY <2>3, <2>4, <2>5, <2>6 DEF OrderInv
<1>12. CASE StatusFailed
  BY <1>12 DEF StatusFailed, OrderInv, Enqueueing, InStore, Active
<1>13. CASE StatusUnknown
  <2>1. saving' = jobs /\ UNCHANGED <<jobs, state, previous, disk>>
    BY <1>13 DEF StatusUnknown, Raise, SaveAt
  <2>2. Enqueueing' <=> Enqueueing
    BY <1>13 DEF StatusUnknown, Raise, SaveAt, EnterStore, Enqueueing, InStore, WorkerWaits, SavePC, TypeOK, Writer
  <2>3. QED
    BY <2>1, <2>2 DEF OrderInv, Active
<1>14. CASE FailureRefreshed
  <2>1. cur \in Job /\ state[cur] \in ACTIVE \ {"queued"}
    BY <1>14 DEF FailureRefreshed, WorkerWaits, IntentInv, Attending
  <2>2. PICK s \in State : state' = [state EXCEPT ![cur] = s]
    BY <1>14 DEF FailureRefreshed, State, TERMINAL
  <2>3. /\ InOrder(jobs, state') /\ InOrder(previous, state')
    BY <2>1, <2>2, MoveKeepsOrder DEF OrderInv, TypeOK
  <2>4. saving' = jobs /\ UNCHANGED <<jobs, previous, disk>>
    BY <1>14 DEF FailureRefreshed, SaveAt
  <2>5. Enqueueing' <=> Enqueueing
    BY <1>14 DEF FailureRefreshed, SaveAt, EnterStore, Enqueueing, InStore, WorkerWaits, SavePC, TypeOK, Writer
  <2>6. \A i \in DOMAIN previous : ~Active(previous[i]) => ~Active(previous[i])'
    BY <2>1, <2>2, <2>4 DEF Active
  <2>7. QED
    BY <2>3, <2>4, <2>5, <2>6 DEF OrderInv
<1>15. CASE Verified
  <2>1. cur \in Job /\ state[cur] \in ACTIVE \ {"queued"}
    BY <1>15 DEF Verified, WorkerWaits, IntentInv, Attending
  <2>2. PICK s \in State : state' = [state EXCEPT ![cur] = s]
    BY <1>15 DEF Verified, State
  <2>3. /\ InOrder(jobs, state') /\ InOrder(previous, state')
    BY <2>1, <2>2, MoveKeepsOrder DEF OrderInv, TypeOK
  <2>4. saving' = jobs /\ UNCHANGED <<jobs, previous, disk>>
    BY <1>15 DEF Verified, SaveAt
  <2>5. Enqueueing' <=> Enqueueing
    BY <1>15 DEF Verified, SaveAt, EnterStore, Enqueueing, InStore, WorkerWaits, SavePC, TypeOK, Writer
  <2>6. \A i \in DOMAIN previous : ~Active(previous[i]) => ~Active(previous[i])'
    BY <2>1, <2>2, <2>4 DEF Active
  <2>7. QED
    BY <2>3, <2>4, <2>5, <2>6 DEF OrderInv
<1>16. CASE VerificationUnclear
  <2>1. saving' = jobs /\ UNCHANGED <<jobs, state, previous, disk>>
    BY <1>16 DEF VerificationUnclear, Raise, SaveAt
  <2>2. Enqueueing' <=> Enqueueing
    BY <1>16 DEF VerificationUnclear, Raise, SaveAt, EnterStore, Enqueueing, InStore, WorkerWaits, SavePC, TypeOK, Writer
  <2>3. QED
    BY <2>1, <2>2 DEF OrderInv, Active
<1>17. CASE Wake
  BY <1>17 DEF Wake, OrderInv, Enqueueing, InStore, Active
<1>18. CASE Reboot
  BY <1>18 DEF Reboot, OrderInv, Enqueueing, InStore, Active
<1>19. CASE Stop
  <2>1. InOrder(disk'.list, disk'.state) /\ Distinct(disk'.list)
    <3>1. CASE disk' = disk
      BY <3>1 DEF OrderInv
    <3>2. CASE disk' \in Writing
      BY <3>2, WritingShows, SnapshotInOrder DEF OrderInv, TypeOK
    <3>3. QED
      BY <1>19, <3>1, <3>2 DEF Stop
  <2>2. ~Enqueueing'
    BY <1>19 DEF Stop, Enqueueing, InStore
  <2>3. jobs' = <<>> /\ previous' = <<>> /\ saving' = <<>>
    BY <1>19 DEF Stop
  <2>4. QED
    BY <2>1, <2>2, <2>3 DEF OrderInv, InOrder, Distinct
<1>20. CASE Load
  <2>1. saving = <<>> /\ previous = <<>> /\ ~Enqueueing
    BY <1>20 DEF Load, WorkerWaits, Enqueueing, InStore
  <2>2. /\ jobs' = disk.list /\ state' = disk.state /\ ~Enqueueing'
        /\ UNCHANGED <<disk, saving, previous>>
    BY <1>20, <2>1 DEF Load, Enqueueing, InStore
  <2>3. QED
    BY <2>1, <2>2 DEF OrderInv, InOrder
<1>21. ASSUME NEW j \in Job, Admit(j)  PROVE OrderInv'
  BY <1>21 DEF Admit, OrderInv, Enqueueing, InStore, Active
<1>22. ASSUME NEW j \in Job, ScriptBegins(j)  PROVE OrderInv'
  BY <1>22 DEF ScriptBegins, OrderInv, Enqueueing, InStore, Active
<1>23. ASSUME NEW j \in Job, ScriptPulled(j)  PROVE OrderInv'
  BY <1>23 DEF ScriptPulled, OrderInv, Enqueueing, InStore, Active
<1>24. ASSUME NEW j \in Job, ScriptEnds(j)  PROVE OrderInv'
  BY <1>24 DEF ScriptEnds, OrderInv, Enqueueing, InStore, Active
<1>25. CASE UNCHANGED vars
  BY <1>25 DEF vars, OrderInv, Enqueueing, InStore, Active
<1>26. QED
  BY <1>1, <1>2, <1>3, <1>4, <1>5, <1>6, <1>7, <1>8, <1>9, <1>10, <1>11, <1>12,
     <1>13, <1>14, <1>15, <1>16, <1>17, <1>18, <1>19, <1>20, <1>21, <1>22, <1>23, <1>24, <1>25
     DEF Next, Worker, Script

-----------------------------------------------------------------------------
(* The invariants together                                                 *)

\* The inductive invariant of the queue.
QueueInv == TypeOK /\ WorkerWaits /\ Known /\ IntentInv /\ OnceInv /\ OrderInv

\* QueueInv holds from the start.
LEMMA QueueInit ==
    ASSUME Init
    PROVE  QueueInv
<1>1. TypeOK /\ WorkerWaits
  BY TypeInit, WorkerInit
<1>2. /\ jobs = <<>> /\ saving = <<>> /\ previous = <<>> /\ disk.list = <<>>
      /\ \A j \in Job : disk.state[j] = "none"
  BY DEF Init, Snapshot
<1>3. Known
  BY <1>2 DEF Init, Known, Range
<1>4. IntentInv
  BY <1>2 DEF Init, IntentInv, IntentBeforeLaunch, Attending
<1>5. OnceInv
  BY DEF Init, OnceInv, Fault
<1>6. OrderInv
  BY <1>2 DEF OrderInv, InOrder, Distinct
<1>7. QED
  BY <1>1, <1>3, <1>4, <1>5, <1>6 DEF QueueInv

\* QueueInv holds in every reachable state.
LEMMA QueueSafe == Spec => []QueueInv
<1>1. QueueInv /\ [Next]_vars => QueueInv'
  BY TypeStep, WorkerStep, KnownStep, IntentStep, OnceStep, OrderStep DEF QueueInv
<1>2. QED
  BY QueueInit, <1>1, PTL DEF Spec

\* Every variable keeps its type.
THEOREM TypeCorrect == Spec => []TypeOK
<1>1. QueueInv => TypeOK
  BY DEF QueueInv
<1>2. QED
  BY <1>1, QueueSafe, PTL

\* Jobs are worked off one at a time and in order, in memory and in the file
\* that a reload reads (UpdateQueue.run takes the first active job).
THEOREM SerialInOrder == Spec => []SerialBatch
<1>1. QueueInv => SerialBatch
  BY DEF QueueInv, OrderInv, SerialBatch
<1>2. QED
  BY <1>1, QueueSafe, PTL

\* UpdateQueue.enqueue never leaves two jobs for one target in a batch, whatever
\* saves fail and whenever the integration is stopped.
THEOREM RequestsMerged == Spec => []NoDuplicateTarget
<1>1. QueueInv => NoDuplicateTarget
  BY DEF QueueInv, OrderInv, Distinct, NoDuplicateTarget
<1>2. QED
  BY <1>1, QueueSafe, PTL

\* No launch command leaves Home Assistant for a job that the file still shows
\* as queued: the intent is durable first.
THEOREM IntentIsDurable == Spec => []IntentBeforeLaunch
<1>1. QueueInv => IntentBeforeLaunch
  BY DEF QueueInv, IntentInv
<1>2. QED
  BY <1>1, QueueSafe, PTL

\* The launch command, however often it is sent again, starts an update once
\* between two boots of the server.
THEOREM LaunchIsIdempotent == Spec => []OncePerBoot
<1>1. QueueInv => OncePerBoot
  BY DEF QueueInv, OnceInv, OncePerBoot, TypeOK, Fault
<1>2. QED
  BY <1>1, QueueSafe, PTL

=============================================================================
