--------------------------- MODULE RuntimeProofs ---------------------------
(***************************************************************************)
(* Proofs about Runtime, for any number of presses, releases, reloads and  *)
(* requests whose save raises.                                             *)
(***************************************************************************)
EXTENDS Runtime, TLAPS

-----------------------------------------------------------------------------
(* The inductive invariant                                                 *)

\* A press holds the lock of the present set-up or of an earlier one.
Earlier == \A p \in Press : presses[p] <= runtime

\* What a check has listed was installed then, and versions only grow.
Grows ==
    /\ installed <= latest
    /\ \A c \in Check : checks[c].listed <= installed

\* While an update is under way, nothing says that the newest image runs unless
\* it has run since the request: neither the server nor what the checks show.
HonestJob ==
    job.state \in Active /\ (installed = latest \/ (shown.latest # Unknown /\ ~Outdated)) => job.current

\* The same of an update that was taken out of the list, which no check is
\* compared for until it is back.
HonestDropped == \A d \in dropped : installed = latest => d.current

\* What enqueue would put back was judged rightly.
HonestBefore == before.state = "completed" => before.current

Honest == HonestJob /\ HonestDropped /\ HonestBefore

IInv == TypeOK /\ Earlier /\ Exclusive /\ Grows /\ Honest /\ CompletedWasCurrent

\* It holds at the start.
LEMMA InvInit == Init => IInv
<1> SUFFICES ASSUME Init  PROVE IInv
  OBVIOUS
<1> USE RuntimeAssumption DEF Init, NoPress, NoCheck, Nothing, Unknown, NoJob
<1>1. TypeOK
  <2>1. 1 \in Version
    BY DEF Version
  <2>2. presses \in [Press -> 0..(MaxReloads + 1)]
    OBVIOUS
  <2>3. /\ checks \in [Check -> [step : {"idle", "waiting", "listing", "asking"}, listed : Seen]]
        /\ checks["worker"] = NoCheck
    BY DEF Check, Seen
  <2>4. shown \in [installed : Seen, latest : Seen]
    BY DEF Seen
  <2>5. {success, cooling, saving, unsaved} \subseteq BOOLEAN
    OBVIOUS
  <2>6. /\ job \in Job /\ before \in Job /\ before.state \notin Active /\ job.state # "awaiting"
        /\ dropped \subseteq {d \in Job : d.state \in {"queued", "preparing", "working"}}
    BY DEF Job, Active
  <2>7. runtime \in 1..(MaxReloads + 1) /\ installed \in Version /\ latest \in Version /\ ~saving
    BY <2>1
  <2>8. QED
    BY <2>2, <2>3, <2>4, <2>5, <2>6, <2>7 DEF TypeOK
<1>2. Earlier /\ Exclusive
  BY DEF Earlier, Exclusive
<1>3. Grows /\ Honest /\ CompletedWasCurrent
  BY DEF Grows, Honest, HonestJob, HonestDropped, HonestBefore, CompletedWasCurrent, Check, Active
<1>4. QED
  BY <1>1, <1>2, <1>3 DEF IInv

-----------------------------------------------------------------------------
(* Type correctness                                                        *)

\* What jobs, the queue and the rest are, in parts.
QueueTyped ==
    /\ job \in Job /\ before \in Job /\ before.state \notin Active
    /\ dropped \subseteq {d \in Job : d.state \in {"queued", "preparing", "working"}}
    /\ saving \in BOOLEAN /\ unsaved \in BOOLEAN
    /\ saving => job.state \in {"queued", "preparing"}

RestTyped ==
    /\ runtime \in 1..(MaxReloads + 1)
    /\ presses \in [Press -> 0..(MaxReloads + 1)]
    /\ checks \in [Check -> [step : {"idle", "waiting", "listing", "asking"}, listed : Seen]]
    /\ shown \in [installed : Seen, latest : Seen]
    /\ success \in BOOLEAN /\ cooling \in BOOLEAN
    /\ installed \in Version /\ latest \in Version

Awaited == job.state = "awaiting" <=> checks["worker"] # NoCheck

LEMMA TypeParts == TypeOK <=> QueueTyped /\ RestTyped /\ Awaited
  BY DEF TypeOK, QueueTyped, RestTyped, Awaited

\* A reload makes a job of the list's, which waits for no check; it is the old
\* one at most at another step, the one before, or one that had been dropped.
LEMMA RereadJob ==
    ASSUME QueueTyped, Reread
    PROVE  /\ job' \in Job /\ job'.state # "awaiting"
           /\ dropped' \subseteq {d \in Job : d.state \in {"queued", "preparing", "working"}}
           /\ unsaved' \in BOOLEAN
           /\ \/ job' \in dropped
              \/ job' = before
              \/ /\ job'.current = job.current
                 /\ job'.state = job.state \/ {job.state, job'.state} \subseteq Active
           /\ \A d \in dropped' : d \in dropped \/ (d.current = job.current /\ job.state \in Active)
<1> USE DEF QueueTyped, Job, Active, Terminal
<1>1. CASE /\ job' \in Loaded
           /\ dropped' = Running(dropped) \cup (IF saving /\ job' # job THEN {[job EXCEPT !.state = "queued"]} ELSE {})
           /\ unsaved' = (saving /\ job' # job)
  <2>1. CASE saving
    BY <1>1, <2>1 DEF Loaded, Running
  <2>2. CASE ~saving
    <3>1. dropped' = Running(dropped) /\ unsaved' = FALSE
      BY <1>1, <2>2
    <3>2. job' \in {job, [job EXCEPT !.state = "ended"]} /\ (job' = job => job.state \notin {"awaiting", "judging"})
                                                        /\ (job' # job => job.state \in {"awaiting", "judging"})
      BY <1>1, <2>2 DEF Loaded
    <3>3. dropped' \subseteq dropped /\ unsaved' \in BOOLEAN
      BY <3>1 DEF Running
    <3>4. CASE job' = job
      <4>1. job'.state \notin {"awaiting", "judging"} /\ job' \in Job
        BY <3>2, <3>4
      <4>2. job'.current = job.current /\ job'.state = job.state
        BY <3>4
      <4>3. \A d \in dropped' : d \in dropped
        BY <3>3
      <4>4. dropped' \subseteq {d \in Job : d.state \in {"queued", "preparing", "working"}}
        BY <3>3
      <4>5. QED
        BY <3>3, <4>1, <4>2, <4>3, <4>4
    <3>5. CASE job' # job
      <4>1. job' = [job EXCEPT !.state = "ended"] /\ job.state \in {"awaiting", "judging"}
        BY <3>2, <3>5
      <4>2. job' \in Job /\ job'.state = "ended" /\ job'.current = job.current
        BY <4>1
      <4>3. QED
        BY <3>3, <4>1, <4>2
    <3>6. QED
      BY <3>4, <3>5
  <2>3. QED
    BY <2>1, <2>2
<1>2. CASE /\ unsaved
           /\ \E d \in dropped : job' = d /\ dropped' = Running(dropped \ {d})
           /\ unsaved' = FALSE
  BY <1>2 DEF Running
<1>3. QED
  BY <1>1, <1>2 DEF Reread

\* Every step of the worker and of enqueue keeps the queue's types.
LEMMA QueueStep ==
    ASSUME QueueTyped, Request \/ Saved \/ SaveRaises \/ Pick \/ Launch \/ LaunchDropped \/ Recreated
                       \/ ScriptEnds \/ ScriptFails \/ DroppedEnds \/ Judge \/ Unsure
    PROVE  QueueTyped' /\ (job'.state = "awaiting" <=> job.state = "awaiting") /\ UNCHANGED checks
<1> USE DEF QueueTyped, Job, Active, Terminal, NoJob
<1>1. CASE Request
  BY <1>1 DEF Request
<1>2. CASE Saved \/ SaveRaises
  <2>1. CASE Saved
    BY <2>1 DEF Saved, Running
  <2>2. CASE SaveRaises
    <3>1. job' = before /\ before' = NoJob /\ saving' = FALSE /\ unsaved' = TRUE /\ dropped' = dropped \cup {job} /\ saving
          /\ UNCHANGED checks
      BY <2>2 DEF SaveRaises
    <3>2. QED
      BY <3>1
  <2>3. QED
    BY <1>2, <2>1, <2>2
<1>3. CASE LaunchDropped \/ DroppedEnds
  BY <1>3 DEF LaunchDropped, DroppedEnds
<1>4. CASE Recreated
  <2>1. \A j \in Job : Notes(j) \in Job /\ Notes(j).state = j.state
    BY DEF Notes
  <2>2. QED
    BY <1>4, <2>1 DEF Recreated
<1>5. CASE Pick \/ Launch \/ ScriptEnds \/ ScriptFails \/ Judge \/ Unsure
  <2>1. PICK s \in {"preparing", "working", "ended", "failed", "completed"} :
           To(s) /\ (saving => s = "preparing") /\ job.state # "awaiting"
    BY <1>5 DEF Pick, Launch, ScriptEnds, ScriptFails, Judge, Unsure
  <2>2. QED
    BY <2>1 DEF To, Turns
<1>6. QED
  BY <1>1, <1>2, <1>3, <1>4, <1>5

\* Every step keeps every variable's type.
LEMMA TypeStep ==
    ASSUME TypeOK, Grows, [Next]_vars
    PROVE  TypeOK'
<1>0. QueueTyped /\ RestTyped /\ Awaited
  BY TypeParts
<1> SUFFICES QueueTyped' /\ RestTyped' /\ Awaited'
  BY TypeParts, PTL
<1> USE <1>0, RuntimeAssumption
<1>1. ASSUME NEW p \in Press, PressAction(p) \/ EndAction(p)  PROVE QueueTyped' /\ RestTyped' /\ Awaited'
  BY <1>1 DEF PressAction, EndAction, NoPress, QueueTyped, RestTyped, Awaited, queue
<1>2. CASE Request \/ Saved \/ SaveRaises \/ Pick \/ Launch \/ LaunchDropped \/ Recreated
           \/ ScriptEnds \/ ScriptFails \/ DroppedEnds \/ Judge \/ Unsure
  <2>1. QueueTyped' /\ (job'.state = "awaiting" <=> job.state = "awaiting") /\ UNCHANGED checks
    BY <1>2, QueueStep
  <2>2. UNCHANGED <<runtime, presses, shown, success, cooling, latest>> /\ installed' \in installed..latest
    <3>1. CASE Recreated
      BY <3>1 DEF Recreated
    <3>2. CASE ~Recreated
      <4>1. UNCHANGED <<runtime, presses, shown, success, cooling, latest, installed>>
        BY <1>2, <3>2 DEF Request, Saved, SaveRaises, Pick, Launch, LaunchDropped, ScriptEnds, ScriptFails, DroppedEnds,
                          Judge, Unsure, To
      <4>2. installed \in installed..latest
        BY DEF Version, RestTyped, Grows
      <4>3. QED
        BY <4>1, <4>2
    <3>3. QED
      BY <3>1, <3>2
  <2>3. installed' \in Version
    BY <2>2 DEF RestTyped, Version
  <2>4. QED
    BY <2>1, <2>2, <2>3 DEF RestTyped, Awaited
<1>3. CASE TimedCheck \/ PressCheck
  BY <1>3 DEF TimedCheck, PressCheck, Begin, rest, queue, QueueTyped, RestTyped, Awaited, Check, Seen, NoCheck
<1>4. ASSUME NEW c \in Check, TakeLock(c) \/ Listed(c)  PROVE QueueTyped' /\ RestTyped' /\ Awaited'
  <2>1. UNCHANGED <<runtime, presses, job, saving, before, dropped, unsaved, shown, success, cooling, installed, latest>>
    BY <1>4 DEF TakeLock, Listed, rest, queue
  <2>2. checks' \in [Check -> [step : {"idle", "waiting", "listing", "asking"}, listed : Seen]]
    BY <1>4 DEF TakeLock, Listed, RestTyped, Seen
  <2>3. checks'["worker"] # NoCheck <=> checks["worker"] # NoCheck
    BY <1>4 DEF TakeLock, Listed, RestTyped, NoCheck, Check
  <2>4. QED
    BY <2>1, <2>2, <2>3 DEF QueueTyped, RestTyped, Awaited
<1>5. ASSUME NEW c \in Check, Answered(c) \/ Unanswered(c) \/ CheckFails(c)  PROVE QueueTyped' /\ RestTyped' /\ Awaited'
  <2>1. /\ UNCHANGED <<runtime, presses, saving, before, dropped, unsaved, installed, latest>>
        /\ cooling' \in BOOLEAN /\ success' \in BOOLEAN /\ checks[c] # NoCheck
    <3>1. cooling' \in BOOLEAN /\ success' \in BOOLEAN
      BY <1>5 DEF Answered, Unanswered, Publish, CheckFails, Leave
    <3>2. checks[c] # NoCheck
      BY <1>5 DEF Answered, Unanswered, Publish, CheckFails, NoCheck
    <3>3. UNCHANGED <<runtime, presses, saving, before, dropped, unsaved, installed, latest>>
      BY <1>5 DEF Answered, Unanswered, Publish, CheckFails, Leave
    <3>4. QED
      BY <3>1, <3>2, <3>3
  <2>2. checks' = [checks EXCEPT ![c] = NoCheck] /\ IF c = "worker" THEN Turns("judging") ELSE job' = job
    BY <1>5 DEF Answered, Unanswered, Publish, CheckFails, Leave
  <2>3. shown' \in [installed : Seen, latest : Seen]
    BY <1>5 DEF Answered, Unanswered, Publish, CheckFails, Nothing, RestTyped, Seen, Unknown
  <2>4. checks' \in [Check -> [step : {"idle", "waiting", "listing", "asking"}, listed : Seen]]
    BY <2>2 DEF RestTyped, NoCheck, Seen
  <2>5. RestTyped'
    BY <2>1, <2>3, <2>4 DEF RestTyped
  <2>6. CASE c = "worker"
    <3>1. job.state = "awaiting" /\ job' = [state |-> "judging", current |-> job.current] /\ checks'["worker"] = NoCheck
      BY <2>1, <2>2, <2>6 DEF Turns, Awaited, RestTyped, QueueTyped, Job
    <3>2. QED
      BY <2>1, <2>5, <3>1 DEF QueueTyped, Awaited, Job, Active
  <2>7. CASE c # "worker"
    <3>1. job' = job /\ checks'["worker"] = checks["worker"]
      BY <2>2, <2>7 DEF RestTyped, Check
    <3>2. QED
      BY <2>1, <2>5, <3>1 DEF QueueTyped, Awaited
  <2>8. QED
    BY <2>6, <2>7
<1>6. CASE Verify
  <2>1. RestTyped' /\ UNCHANGED <<saving, before, dropped, unsaved>>
    BY <1>6 DEF Verify, Begin, RestTyped, Check
  <2>2. \/ job' = [state |-> "judging", current |-> job.current] /\ checks' = checks
        \/ /\ job' = [state |-> "awaiting", current |-> job.current]
           /\ checks' = [checks EXCEPT !["worker"].step = "waiting"]
    BY <1>6 DEF Verify, Turns, Begin, QueueTyped, Job
  <2>3. job.state = "ended"
    BY <1>6 DEF Verify
  <2>4. QED
    BY <2>1, <2>2, <2>3 DEF QueueTyped, RestTyped, Awaited, Job, Active, Terminal, NoCheck, Check
<1>7. CASE CoolDown \/ Release
  <2>1. UNCHANGED <<runtime, presses, queue, checks, shown, success, installed>> /\ cooling' \in BOOLEAN /\ latest' \in Version
    <3>1. CASE CoolDown
      BY <3>1 DEF CoolDown, rest, RestTyped
    <3>2. CASE Release
      <4>1. UNCHANGED <<runtime, presses, queue, checks, shown, success, installed, cooling>>
        BY <3>2 DEF Release, rest
      <4>2. latest' \in Version
        BY <3>2 DEF Release, RestTyped, Version
      <4>3. QED
        BY <4>1, <4>2 DEF RestTyped
    <3>3. QED
      BY <1>7, <3>1, <3>2
  <2>2. QED
    BY <2>1 DEF QueueTyped, RestTyped, Awaited, queue
<1>8. CASE Reload
  <2>1. /\ runtime' = runtime + 1 /\ runtime <= MaxReloads /\ before' = NoJob /\ saving' = FALSE
        /\ success' = TRUE /\ cooling' = FALSE
        /\ UNCHANGED <<presses, installed, latest>>
    BY <1>8 DEF Reload
  <2>2. shown' \in [installed : Seen, latest : Seen]
    BY <1>8 DEF Reload, Nothing, Seen
  <2>3. /\ checks' \in [Check -> [step : {"idle", "waiting", "listing", "asking"}, listed : Seen]]
        /\ checks'["worker"] = NoCheck
    BY <1>8 DEF Reload, NoCheck, Seen, Check
  <2>4. /\ job' \in Job /\ job'.state # "awaiting" /\ unsaved' \in BOOLEAN
        /\ dropped' \subseteq {d \in Job : d.state \in {"queued", "preparing", "working"}}
    BY <1>8, RereadJob DEF Reload
  <2>5. QueueTyped'
    BY <2>1, <2>4 DEF QueueTyped, NoJob, Job, Active
  <2>6. RestTyped'
    <3>1. runtime' \in 1..(MaxReloads + 1)
      BY <2>1 DEF RestTyped
    <3>2. success' \in BOOLEAN /\ cooling' \in BOOLEAN
      BY <2>1
    <3>3. presses' \in [Press -> 0..(MaxReloads + 1)] /\ installed' \in Version /\ latest' \in Version
      BY <2>1 DEF RestTyped
    <3>4. QED
      BY <2>2, <2>3, <3>1, <3>2, <3>3 DEF RestTyped
  <2>7. QED
    BY <2>3, <2>4, <2>5, <2>6 DEF Awaited
<1>9. CASE UNCHANGED vars
  BY <1>9 DEF vars, rest, queue, QueueTyped, RestTyped, Awaited
<1>10. QED
  BY <1>1, <1>2, <1>3, <1>4, <1>5, <1>6, <1>7, <1>8, <1>9 DEF Next, CheckStep

-----------------------------------------------------------------------------
(* Exclusion                                                               *)

\* A step that begins no press and no runtime, and makes no update active, keeps
\* the exclusion.
LEMMA Quiet ==
    ASSUME Earlier, Exclusive, UNCHANGED <<runtime, presses>>, job'.state \in Active => job.state \in Active
    PROVE  Earlier' /\ Exclusive'
  BY DEF Earlier, Exclusive

\* No step lets an action and a listed update, or two actions, be under way
\* together.
LEMMA ExclusiveStep ==
    ASSUME TypeOK, Earlier, Exclusive, [Next]_vars
    PROVE  Earlier' /\ Exclusive'
<1>1. ASSUME NEW p \in Press, PressAction(p)  PROVE Earlier' /\ Exclusive'
  BY <1>1 DEF TypeOK, PressAction, Earlier, Exclusive, Idle, Locked, queue
<1>2. ASSUME NEW p \in Press, EndAction(p)  PROVE Earlier' /\ Exclusive'
  BY <1>2 DEF TypeOK, EndAction, NoPress, Earlier, Exclusive, queue
<1>3. CASE Request
  BY <1>3 DEF Request, Locked, Earlier, Exclusive
<1>4. CASE Saved \/ SaveRaises \/ LaunchDropped \/ DroppedEnds
  <2>1. UNCHANGED <<runtime, presses>> /\ (job'.state \in Active => job.state \in Active)
    BY <1>4 DEF TypeOK, Saved, SaveRaises, LaunchDropped, DroppedEnds
  <2>2. QED
    BY <2>1, Quiet
<1>5. CASE Recreated
  <2>1. UNCHANGED <<runtime, presses>> /\ job'.state = job.state
    BY <1>5 DEF TypeOK, Recreated, Notes, Job
  <2>2. QED
    BY <2>1, Quiet
<1>6. CASE Pick \/ Launch \/ ScriptEnds \/ ScriptFails \/ Verify \/ Judge \/ Unsure
  <2>1. UNCHANGED <<runtime, presses>> /\ job.state \in Active
    BY <1>6 DEF Pick, Launch, ScriptEnds, ScriptFails, Verify, Judge, Unsure, To, Active
  <2>2. QED
    BY <2>1, Quiet
<1>7. CASE TimedCheck \/ PressCheck \/ CoolDown \/ Release
  <2>1. UNCHANGED <<runtime, presses, job>>
    BY <1>7 DEF TimedCheck, PressCheck, CoolDown, Release, rest, queue
  <2>2. QED
    BY <2>1, Quiet
<1>8. ASSUME NEW c \in Check, TakeLock(c) \/ Listed(c)  PROVE Earlier' /\ Exclusive'
  <2>1. UNCHANGED <<runtime, presses, job>>
    BY <1>8 DEF TakeLock, Listed, rest, queue
  <2>2. QED
    BY <2>1, Quiet
<1>9. ASSUME NEW c \in Check, Answered(c) \/ Unanswered(c) \/ CheckFails(c)  PROVE Earlier' /\ Exclusive'
  <2>1. UNCHANGED <<runtime, presses>> /\ (job' # job => c = "worker") /\ checks[c] # NoCheck
    BY <1>9 DEF Answered, Unanswered, Publish, CheckFails, Leave, NoCheck
  <2>2. job' # job => job.state \in Active
    BY <2>1 DEF TypeOK, Active
  <2>3. QED
    BY <2>1, <2>2, Quiet
<1>10. CASE Reload
  <2>1. presses' = presses /\ runtime' = runtime + 1
    BY <1>10 DEF Reload
  <2>2. \A p \in Press : presses'[p] < runtime'
    BY <2>1 DEF TypeOK, Earlier
  <2>3. QED
    BY <2>1, <2>2 DEF TypeOK, Earlier, Exclusive
<1>11. CASE UNCHANGED vars
  BY <1>11, Quiet DEF vars, rest, queue
<1>12. QED
  BY <1>1, <1>2, <1>3, <1>4, <1>5, <1>6, <1>7, <1>8, <1>9, <1>10, <1>11 DEF Next, CheckStep

-----------------------------------------------------------------------------
(* The verdict                                                             *)

\* Versions only grow, and a check lists no newer one than the container has.
LEMMA GrowsStep ==
    ASSUME TypeOK, Grows, [Next]_vars
    PROVE  Grows'
<1> USE DEF TypeOK, Grows, Version, Seen, Unknown, NoCheck, Check
<1>1. CASE UNCHANGED <<checks, installed, latest>>
  BY <1>1
<1>2. CASE Recreated
  BY <1>2 DEF Recreated
<1>3. CASE Release
  BY <1>3 DEF Release
<1>4. CASE Reload
  BY <1>4 DEF Reload
<1>5. ASSUME NEW c \in Check, Begin(c), UNCHANGED <<installed, latest>>  PROVE Grows'
  BY <1>5 DEF Begin
<1>6. ASSUME NEW c \in Check, CheckStep(c)  PROVE Grows'
  BY <1>6 DEF CheckStep, TakeLock, Listed, Answered, Unanswered, Publish, CheckFails, Leave, rest
<1>7. QED
  BY <1>1, <1>2, <1>3, <1>4, <1>5, <1>6
     DEF Next, PressAction, EndAction, Request, Saved, SaveRaises, Pick, Launch, LaunchDropped, ScriptEnds, ScriptFails,
         DroppedEnds, To, TimedCheck, PressCheck, Verify, Judge, Unsure, CoolDown, rest, vars

\* A job that stays as active and as current as it was, beside unchanged
\* versions and checks.
LEMMA Steady ==
    ASSUME Honest, CompletedWasCurrent, UNCHANGED <<dropped, before, shown, installed, latest>>,
           job.current => job'.current, job'.state \in Active => job.state \in Active,
           job'.state = "completed" => job.state = "completed"
    PROVE  Honest' /\ CompletedWasCurrent'
  BY DEF Honest, HonestJob, HonestDropped, HonestBefore, CompletedWasCurrent, Outdated

\* A new verdict rests on what a check has shown, and that on what has run.
LEMMA HonestStep ==
    ASSUME TypeOK, Grows, Honest, CompletedWasCurrent, [Next]_vars
    PROVE  Honest' /\ CompletedWasCurrent'
<1>0. job \in Job /\ before \in Job /\ dropped \subseteq Job /\ before.state \notin Active
  BY DEF TypeOK
<1>1. ASSUME NEW p \in Press, PressAction(p) \/ EndAction(p)  PROVE Honest' /\ CompletedWasCurrent'
  <2>1. UNCHANGED <<job, dropped, before, shown, installed, latest>>
    BY <1>1 DEF PressAction, EndAction, queue
  <2>2. QED
    BY <2>1, Steady
<1>2. CASE Request
  <2>1. /\ job' = [state |-> "queued", current |-> installed = latest] /\ before' = job /\ Outdated
        /\ UNCHANGED <<dropped, shown, installed, latest>>
    BY <1>2 DEF Request
  <2>2. job'.current = (installed = latest) /\ job'.state = "queued" /\ Outdated'
    BY <2>1 DEF Outdated
  <2>3. HonestJob'
    BY <2>1, <2>2 DEF HonestJob
  <2>4. QED
    BY <2>1, <2>2, <2>3 DEF Honest, HonestDropped, HonestBefore, CompletedWasCurrent
<1>3. CASE Saved
  <2>1. UNCHANGED <<job, shown, installed, latest>> /\ before' = NoJob /\ dropped' \subseteq dropped
    BY <1>3 DEF Saved, Running
  <2>2. QED
    BY <2>1 DEF Honest, HonestJob, HonestDropped, HonestBefore, CompletedWasCurrent, Outdated, NoJob
<1>4. CASE SaveRaises
  <2>1. /\ job' = before /\ before' = NoJob /\ dropped' = dropped \cup {job} /\ job.state \in Active
        /\ UNCHANGED <<shown, installed, latest>>
    BY <1>4 DEF SaveRaises, TypeOK, Active
  <2>2. installed = latest => job.current
    BY <2>1 DEF Honest, HonestJob
  <2>3. HonestDropped'
    BY <2>1, <2>2 DEF Honest, HonestDropped
  <2>4. HonestJob' /\ CompletedWasCurrent' /\ HonestBefore'
    BY <1>0, <2>1 DEF Honest, HonestJob, HonestBefore, CompletedWasCurrent, NoJob
  <2>5. QED
    BY <2>3, <2>4 DEF Honest
<1>5. CASE LaunchDropped \/ DroppedEnds
  <2>1. UNCHANGED <<job, before, shown, installed, latest>>
    BY <1>5 DEF LaunchDropped, DroppedEnds
  <2>2. \A d \in dropped' : \E b \in dropped : d.current = b.current
    BY <1>0, <1>5 DEF LaunchDropped, DroppedEnds, Job
  <2>3. HonestDropped'
    BY <2>1, <2>2 DEF Honest, HonestDropped
  <2>4. QED
    BY <2>1, <2>3 DEF Honest, HonestJob, HonestBefore, CompletedWasCurrent, Outdated
<1>6. CASE Recreated
  <2>1. /\ job' = Notes(job) /\ dropped' = {Notes(d) : d \in dropped}
        /\ UNCHANGED <<before, shown, latest>>
    BY <1>6 DEF Recreated
  <2>2. \A j \in Job : /\ Notes(j).state = j.state /\ (j.current => Notes(j).current)
                       /\ j.state \in Active /\ installed' = latest => Notes(j).current
    BY DEF Notes, Job
  <2>3. job'.state = job.state /\ (job.current => job'.current) /\ (job.state \in Active /\ installed' = latest => job'.current)
    BY <1>0, <2>1, <2>2
  <2>4. HonestJob'
    BY <2>1, <2>3 DEF Honest, HonestJob, Outdated
  <2>5. HonestDropped'
    <3>1. \A d \in dropped : d.state \in Active
      BY DEF TypeOK, Active
    <3>2. QED
      BY <1>0, <2>1, <2>2, <3>1 DEF HonestDropped
  <2>6. QED
    BY <2>1, <2>3, <2>4, <2>5 DEF Honest, HonestBefore, CompletedWasCurrent
<1>7. CASE Pick \/ Launch \/ ScriptEnds \/ Unsure
  <2>1. PICK s \in Active : To(s) /\ job.state \in Active /\ s # "failed" /\ s # "completed"
    BY <1>7 DEF Pick, Launch, ScriptEnds, Unsure, Active
  <2>2. job' = [state |-> s, current |-> job.current] /\ UNCHANGED <<dropped, before, shown, installed, latest>>
    BY <1>0, <2>1 DEF To, Turns, Job
  <2>3. job'.state = s /\ job'.current = job.current
    BY <2>2
  <2>4. QED
    BY <2>1, <2>2, <2>3, Steady
<1>8. CASE ScriptFails \/ Judge
  <2>1. /\ job'.state \in {"failed", "completed"} /\ UNCHANGED <<dropped, before, shown, installed, latest>>
        /\ job'.state = "completed" => job.state \in Active /\ shown.latest # Unknown /\ ~Outdated /\ job'.current = job.current
    BY <1>0, <1>8 DEF ScriptFails, Judge, To, Turns, Active, Job
  <2>2. job'.state \notin Active
    BY <2>1 DEF Active
  <2>3. CompletedWasCurrent'
    BY <2>1 DEF Honest, HonestJob, CompletedWasCurrent
  <2>4. QED
    BY <2>1, <2>2, <2>3 DEF Honest, HonestJob, HonestDropped, HonestBefore
<1>9. CASE TimedCheck \/ PressCheck \/ CoolDown
  <2>1. UNCHANGED <<job, dropped, before, shown, installed, latest>>
    BY <1>9 DEF TimedCheck, PressCheck, CoolDown, rest, queue
  <2>2. QED
    BY <2>1, Steady
<1>10. ASSUME NEW c \in Check, TakeLock(c) \/ Listed(c)  PROVE Honest' /\ CompletedWasCurrent'
  <2>1. UNCHANGED <<job, dropped, before, shown, installed, latest>>
    BY <1>10 DEF TakeLock, Listed, rest, queue
  <2>2. QED
    BY <2>1, Steady
<1>11. ASSUME NEW c \in Check, Answered(c) \/ Unanswered(c) \/ CheckFails(c)  PROVE Honest' /\ CompletedWasCurrent'
  <2>1. /\ UNCHANGED <<dropped, before, installed, latest>> /\ checks[c] # NoCheck
        /\ IF c = "worker" THEN Turns("judging") ELSE job' = job
        /\ shown' \in {shown, Nothing, [installed |-> checks[c].listed, latest |-> latest]}
    BY <1>11 DEF Answered, Unanswered, Publish, CheckFails, Leave, NoCheck
  <2>2. c = "worker" => job.state = "awaiting"
    BY <2>1 DEF TypeOK
  <2>3. job'.current = job.current /\ (job'.state = job.state \/ (job.state \in Active /\ job'.state = "judging"))
    BY <1>0, <2>1, <2>2 DEF Turns, Job, Active
  <2>4. shown'.latest # Unknown /\ ~Outdated' => (shown.latest # Unknown /\ ~Outdated) \/ installed = latest
    <3>1. checks[c].listed \in Seen /\ installed \in Version /\ latest \in Version
          /\ checks[c].listed <= installed /\ installed <= latest
      BY DEF Grows, TypeOK
    <3>2. CASE shown' = shown
      BY <3>2 DEF Outdated
    <3>3. CASE shown' = Nothing
      BY <3>3 DEF Nothing
    <3>4. CASE shown' = [installed |-> checks[c].listed, latest |-> latest]
      BY <3>1, <3>4 DEF Outdated, Version, Seen, Unknown
    <3>5. QED
      BY <2>1, <3>2, <3>3, <3>4
  <2>5. job'.state \in Active => job.state \in Active
    BY <2>3
  <2>6. HonestJob'
    BY <2>1, <2>3, <2>4, <2>5 DEF Honest, HonestJob
  <2>7. job'.state = "completed" => job.state = "completed"
    BY <2>3
  <2>8. QED
    BY <2>1, <2>3, <2>6, <2>7 DEF Honest, HonestDropped, HonestBefore, CompletedWasCurrent
<1>12. CASE Verify
  <2>1. /\ job.state = "ended" /\ UNCHANGED <<dropped, before, shown, installed, latest>>
        /\ Turns("judging") \/ Turns("awaiting")
    BY <1>12 DEF Verify
  <2>2. job'.current = job.current /\ job'.state \in {"judging", "awaiting"} /\ job.state \in Active
    BY <1>0, <2>1 DEF Turns, Job, Active
  <2>3. QED
    BY <2>1, <2>2, Steady
<1>13. CASE Release
  <2>1. installed < latest' /\ UNCHANGED <<job, dropped, before, shown, installed>>
    BY <1>13 DEF Release, rest, queue, Grows, Version, TypeOK
  <2>2. installed' # latest'
    BY <2>1 DEF TypeOK, Version, Release
  <2>3. QED
    BY <2>1, <2>2 DEF Honest, HonestJob, HonestDropped, HonestBefore, CompletedWasCurrent, Outdated
<1>14. CASE Reload
  <2>1. /\ UNCHANGED <<installed, latest>> /\ shown' = Nothing /\ before' = NoJob /\ Reread
    BY <1>14 DEF Reload
  <2>2. QueueTyped
    BY TypeParts
  <2>3. /\ job' \in dropped \/ job' = before
           \/ (job'.current = job.current /\ (job'.state = job.state \/ (job.state \in Active /\ job'.state \in Active)))
        /\ \A d \in dropped' : d \in dropped \/ (d.current = job.current /\ job.state \in Active)
    BY <2>1, <2>2, RereadJob
  <2>4. HonestDropped'
    BY <2>1, <2>3 DEF Honest, HonestJob, HonestDropped
  <2>5. shown'.latest = Unknown /\ HonestBefore'
    BY <2>1 DEF Nothing, NoJob, HonestBefore
  <2>6. HonestJob' /\ CompletedWasCurrent'
    <3>1. CASE job' \in dropped
      <4>1. job'.state # "completed" /\ (installed = latest => job'.current)
        BY <3>1 DEF TypeOK, Honest, HonestDropped
      <4>2. QED
        BY <2>1, <2>5, <4>1 DEF HonestJob, CompletedWasCurrent
    <3>2. CASE job' = before
      BY <1>0, <3>2 DEF Honest, HonestJob, HonestBefore, CompletedWasCurrent
    <3>3. CASE job'.current = job.current /\ (job'.state = job.state \/ (job.state \in Active /\ job'.state \in Active))
      <4>1. job'.state \in Active => job.state \in Active
        BY <3>3
      <4>2. job'.state = "completed" => job.state = "completed"
        BY <3>3 DEF Active
      <4>3. HonestJob'
        BY <2>1, <2>5, <3>3, <4>1 DEF Honest, HonestJob
      <4>4. QED
        BY <3>3, <4>2, <4>3 DEF CompletedWasCurrent
    <3>4. QED
      BY <2>3, <3>1, <3>2, <3>3
  <2>7. QED
    BY <2>4, <2>5, <2>6 DEF Honest
<1>15. CASE UNCHANGED vars
  BY <1>15, Steady DEF vars, rest, queue
<1>16. QED
  BY <1>1, <1>2, <1>3, <1>4, <1>5, <1>6, <1>7, <1>8, <1>9, <1>10, <1>11, <1>12, <1>13, <1>14, <1>15
     DEF Next, CheckStep

-----------------------------------------------------------------------------
(* The theorems                                                            *)

\* Every state of every behaviour has the invariant.
LEMMA InvInductive == Spec => []IInv
<1>1. IInv /\ [Next]_vars => IInv'
  BY TypeStep, ExclusiveStep, GrowsStep, HonestStep DEF IInv
<1>2. QED
  BY <1>1, InvInit, PTL DEF Spec

\* Types are kept, and the worker waits for one check of its own.
THEOREM TypeCorrect == Spec => []TypeOK
<1>1. IInv => TypeOK
  BY DEF IInv
<1>2. QED
  BY <1>1, InvInductive, PTL

\* In one set-up of the entry an action and an update the queue lists, or two
\* actions, are never under way together.
THEOREM OneAtATime == Spec => []Exclusive
<1>1. IInv => Exclusive
  BY DEF IInv
<1>2. QED
  BY <1>1, InvInductive, PTL

\* The container of an update that is called completed has run the newest image
\* at some time since the request.
THEOREM CompletedRightly == Spec => []CompletedWasCurrent
<1>1. IInv => CompletedWasCurrent
  BY DEF IInv
<1>2. QED
  BY <1>1, InvInductive, PTL

=============================================================================
