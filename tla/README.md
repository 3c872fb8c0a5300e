# Verification of the Unraid SSH integration

TLA+ models of `custom_components/unraid_ssh`, a Home Assistant integration that
polls an Unraid server over SSH, shows its stacks, containers, machines and
disks as entities, and runs updates and power actions on it. The models are
written from the Python code (paths below are relative to
`src/custom_components/unraid_ssh/`); `PROJECT.json` lists every run, every
theorem, every hazard, and the lines each definition stands for.

    tlc -workers 2 -config QueueFaults.cfg MCUpdateQueue     # a run
    tlapm UpdateQueueProofs.tla                               # the proofs

## The system

The integration lives in one asyncio event loop: between two `await`s a
coroutine is never interrupted, and everything hard happens at the `await`s.

| Component | State it keeps | Operations | What makes it correct | Modules |
|---|---|---|---|---|
| Update queue (`update_queue.py`, `actions.py`) | the job list, its copy in a Store file, a worker task; on the server a directory and a status file per job | `enqueue`, `run`, `load`, `close`; the launch and status commands; the update script | jobs run one at a time, in order, each once; a crash at any `await` neither loses nor repeats one; every job ends | UpdateQueue, SerialJobs |
| Registry cleanup (`prune.py`, `migration.py`, `entity.track_new`) | entity and device registry, grace clocks, discovery's `known` | a poll's listeners, adding and taking down an entity, manual deletion, reload | nothing that exists is removed, what is gone is, and what returns is rebuilt | Prune, Identity |
| Picture cache (`icon_cache.py`) | maps name → source (desired, pending, inflight, finished), the pictures shown, the directory | `schedule`, two workers, tidying, `async_shutdown`, removal | a shown file exists; no stale result; no leftover; no lost poll | IconCache |
| Config flow (`config_flow.py`) | the key a dialog has fetched and shown, the entry's data | user, key, reauth, reconfigure | the key that is trusted is the one that was shown, and belongs to its server; no server twice, but for answers that come after the entry was moved | ConfigFlow |
| Poll coordinators (`coordinator.py`) | the snapshot, due times of the probe groups, the last inventory sample | poll, update check | a skipped group revives nothing from before a failed attempt; checks do not overlap | Polls, Runtime |
| Server actions (`button.py`, `server_actions.py`) | a lock per runtime | `async_press` | one at a time, never beside an update the queue lists, judged by fresh values | Polls, Runtime |
| Entry lifecycle (`__init__.py`) | the runtime object | setup, unload, reload, remove | what was begun before a reload does no harm after it | Runtime, and the restarts of UpdateQueue, Prune and IconCache |
| Snapshot model (`model.py`) | none | `merge_stacks`, `container_identity`, … | a project belongs to one stack; identities are unique but for one case, and last | Identity |
| Collectors (`collect*.py`) | none between polls | the probes of a poll and the frame of its answer | the poll ends in time; only whole outputs are read | Probes |
| Parsers (`parse.py`, `telemetry.py`, `inventory.py`, `icons.py`) | none; rates compare with the last snapshot | text to records | a rate is what was used; the picture of a stack is steady | Rates, Pictures |
| SSH (`ssh.py`), platforms (`sensor.py`, …) | none between calls | one connection per command; entities that read the snapshot | – | in the modules of their callers |

How they interact: a poll of the coordinator ends in one synchronous pass over
its listeners: reconcile devices, prune, schedule pictures, discover new
entities. The queue calls both coordinators to verify an update. A server
action looks at the queue, and the queue's `enqueue` looks at the lock of the
server actions. A reload closes queue and cache and builds new ones.

Hard in this code, and the reason for these models: calls that await a save or
an SSH reply while others change the same list; a launch command whose answer
is lost, or which arrives after its caller gave up; a restart of Home Assistant
or a reboot of the server between any two steps; polls that overlap and end in
any order; a comparison with data that may be older than what it is to confirm;
executor writes that cannot be cancelled; polls in which some sections are
unreadable and look like an empty server; dialogs that stay open while servers
and entries change; counters that wrap or start anew.

## Modules

### UpdateQueue and SerialJobs

One module for the queue, the Store, the SSH command and the script, because
its properties are about all four. State and code:

- `jobs`, `state`: `UpdateQueue.jobs` and the `"state"` of the job dicts. Jobs
  are ids; the dicts' other fields do not influence control.
- `pc`, `cur`, `saving`: where `run` awaits, its `job`, and the list object it
  handed to the Store. `previous`: the list `enqueue` would put back.
- `holder`, `waiter`: the Store's write lock. The Store belongs to Home
  Assistant and is modelled from its use: one writer at a time, and the data are
  read when the write begins, not when it is asked for — so `disk'` is the state
  of *then*. At most two coroutines ever save (the queue's own lock admits one
  `enqueue`).
- `wire`, `late`: launch commands under way whose call still waits, and those
  that outlived it (timeout, lost connection, restart).
- `remote`: the status file, `"absent"` without a directory. `runs` counts the
  starts of a job's update command (history).

A step reaches from one `await` to the next: `Enqueue` (115–147), `EnqueueSaved`
or `EnqueueRaises` (147–152), `Pick` (the loop's head up to the first `await`),
`WorkerSaved`/`WorkerSaveRaises`, `LaunchReplied`/`LaunchFails`, the four
outcomes of `cat status`, `FailureRefreshed`, `Verified`/`VerificationUnclear`,
`Wake`. The server moves by `Admit` (the `mkdir` of `launch_command`), the steps
of the script, and `Reboot`, which empties `/run`. `Stop`/`Load` are a reload
or the death of Home Assistant, and the next start. The verdict of the
verification is left open here; Runtime is about it.

`SerialJobs` is what the queue promises: a saved line of jobs, run one at a
time, each once, in order. `ImplementsSerialJobs` maps the saved list to the
line and the status files to its run states.

### Prune

`folders`, `running`, `units` (standalone containers, machines, disks) and
`bare` (disks without a filesystem) are the server and change freely. A poll
(`Poll(failed)`) sees it through `View`, in which a failed section yields
nothing, as `build_snapshot` has it. In the same step it creates devices
(`Ensured`), removes outdated entities (`Outdated`), sets the clocks (`Clocks`),
removes vacant devices, and discovers (`Track`). `Expected` is
`expected_keys`, what must not be removed; `Plan` is what the platforms build,
which is less: a bare disk has no capacity to show. The table `EntityTable` and
the choice of its *first* matching row are those of
`_ENTITY_SECTIONS`/`_sections`. Adding an entity and its removal callback are
tasks of their own (`Added`, `TakenDown`); the user's deletion of a device is
`DeleteDevice`. Clocks are kept as ages, `Grace` stands for `STALE_GRACE`.
A stack has one container here, which is up exactly when the stack is; its
folder name may differ from its project name, the case `stack_key` exists for.
A standalone container has a device of its own (`prune.py:138-140`), although
`docs/entwicklung.md` still speaks of one that they share.
`absent` is history: how long no readable poll has seen the owner.

### IconCache

`desired`, `pending`, `inflight`, `finished`, `pictures` are the maps of the
class, with `Absent` for a missing key and `Gone` for `(None, None)`. `at` says
where each of the worker tasks awaits. `Turn` is the head of `_work`'s loop,
run in the step that ends the previous name. Images stand for their hashes, so
two names may share a file. `_files_lock` is held exactly while a worker is
`writing` or `cleaning`. `Shutdown` cancels, `Cancelled` is the exception at
each `await` (an executor call is waited for), `ShutDown` is the end of the
gather, after which `RemoveFiles` or `Restart` may follow; `Restart` is also
possible at any time, as the death of the process. `littered` is history: the
last tidying failed. `Spared` is an executor call that raises while its worker
is being cancelled: `_executor` awaits it in its `except`, so its `OSError` or
`ValueError` takes the place of the cancellation and the worker goes on to tidy
up; the gather waits for that too.

### ConfigFlow

A dialog is a record of its step and the attributes of its flow object: the
address, the unique id it has set, the key it fetched, the key it tests, and
`shown`, the key whose fingerprint stands in its form. Steps named after a form
wait for the user; `fetching`, `testing`, `asking`, `trying`, `offering`,
`confirming` wait for the server. A test with a pinned key passes only while
the server offers that key (`Passes`); it may always fail. `Taken` is
`async_set_unique_id` with `_abort_if_unique_id_configured`, which belongs to
Home Assistant and looks at other dialogs and at the entries; `Reauth` is
opened by Home Assistant once per entry, `Remove` closes the dialogs about the
entry.

Nothing in `config_flow.py` or in Home Assistant serialises the dialogs, so any
number of them await an answer at once, about one entry too. The code looks at
an entry before an `await` (`config_flow.py:254-274`) and writes it after
(`:291`, `:211`), and does not look again. History: `proven` in an entry, the
address and key last tested together; `held` in a dialog, the entry's key when
its form was submitted; `overtaken`, in a dialog that another one moved the entry
since, in an entry that such a late answer wrote it. What the code then does:

- a dialog that trusts a new key and is overtaken by a move leaves the new
  address with the key of the old one;
- a dialog that tests the entry's own address, which needs no check that it is
  free, and is overtaken by a move while a third adds a server there, moves the
  entry back: two entries have one address.

`KeyOfItsServer` and `OneEntryPerServer` name exactly these late answers by
`overtaken`, and say that nothing else leads there. The first also says without
exception that a stored key has passed a test.

### Polls

The coordinator of one server and the polls of a pressed server action, which
overlap: Home Assistant does not serialise `_async_update_data`. A group is a
set of sections that have one cadence; `due` are the deadlines of
`_probe_due`, `data` says of which groups the snapshot has a value, `inv`
is `_inventory_state`. `Start` is everything up to the `await` (deadlines move
when a poll is sent), `Sampled` the moment the server runs it, `Arrives`,
`Lost`, `SetupFails` the ends. `Previous` is looked up when the answer is there,
not when the poll began. `Judge` is the button's look at the snapshot, in the
step its own poll ends. History: `recent` (sampled since the press), `rested`
(time since a group was asked for), `good` and `answered` (see below).

An inventory group (`Inv`) whose attempt was lost or failed is forgotten:
`invalidate_inventory` keeps the failed sample aside, and `good` says whether
the attempt that ended last was read. Groups of the dashboard (`Dash`) have no
sample of their own: an *answered* poll without the section clears them, a
*lost* one leaves the value from before in the snapshot. That is not shown while
`last_update_success` is false, but the next poll that succeeds and skips the
group shows it again. `NoRevival` therefore compares inventory groups with
`good` and dashboard groups with `answered`; the second is the weaker promise,
about the attempt that was answered last, and the only one the code keeps. The
fallback for a snapshot without an inventory sample (`coordinator.py:159-161`)
is unreachable.

A server action needs what `Needed` lists: a start of the array needs the pools
too, unless the array has listed no slot of a pool (`server_actions.py:41-42`;
`slots`, drawn with the answer).

### Runtime

One set-up of the entry in the view of one container: the lock of the server
actions (`presses`), the container's latest update in the list (`job`), the checks
of `UpdateCoordinator` with their lock and the debouncer, and what the check
published (`shown`). A check lists images first (`Listed`) and asks the registry
later (`Answered`), so it can be overtaken by the update and by a release.
`Verify` is `async_request_refresh`: during a cooldown it returns at once and
the comparison uses what is there. The container is recreated (`Recreated`) some
time before its script ends. `Reload` makes a new lock, coordinator and queue;
presses go on with the objects they began with.

The list has a job before its save is awaited (`saving`), and the worker may pick
it meanwhile. When the save raises (`SaveRaises`), the list is what it was
`before`; a job the worker had picked is in `dropped` and is launched all the same,
while the queue looks idle. A failed write may have reached the file
(`unsaved`), so a reload may find the job again. `MaxDropped` bounds the dropped
jobs that are still heard of.

Seen here and not claimed: exclusion does not cover a dropped job, which is the
same departure as QueueRollback; it does not hold *across* a reload, since the
new runtime has a new lock and the action that is still under way holds the old
one (the repository's `README.md:226-227` speaks of a lock per runtime); and the
comparison may use data from before the update and call a good update failed
(`docs/entwicklung.md:82-83` only promises a renewed comparison for
"abgeschlossen"). The other direction is excluded: `CompletedWasCurrent` says that
a container called completed ran the newest image at *some* time since its update
was asked for. It does not say that its own script put it there, nor that this was
after the script's end: the comparison may rest on a check that began before.

### Identity

`MatchProjects`, `MergeStacks`, `StackKey`, `Status`, `KeyOf` are the functions
of `model.py` for folders, compose projects and container labels; a poll
renames (`Reconciled`), removes (`Kept`) and registers (`Added`) the entities,
of which one role per container stands for all. `record` maps a registered
entity to the container its options name, the memory that keeps a container
that lost its labels from becoming a second entity. Removal may come at any
poll at which an entity is stale, whatever its grace period.

Names may clash: folders may be alike by either rule, and a project may be called
like a folder, its own or another one. `IdentityAssumption` only types the
constants. What then holds is what `NameBeforePath` and `Distinct` say. A project
goes to a folder that is named after it by compose's rule if there is one, else by
Unraid's, unless that folder has the project of its other name. Two stacks have
one name only as folders that compose's rule makes alike; every lookup by name
finds the first of them (`FindStack`). And two stacks, and through them two
containers, have one key only if a project without a folder is called like the
folder of another stack (`Clash`): duplicates are looked for within a project
(`model.py:543`), while `docs/entwicklung.md:30-31` says that containers whose
identities collide get no entity. Of containers that share a key the model takes a
fixed one for "the first".

A container entity is judged as soon as Docker could be read (`prune.py:40`), so a
poll without the folders removes the entities of a stack that is there (the run
PruneBlind). `KeepsItsPlace` says that only a poll without the section that shows
the stack does so.

`StartsOnce` is about stacks compose does not list while it can be read, with an
Unraid name of their own (`NamedAlone`). Three cases are outside it: with compose
alone unreadable, a running project that was named by hand looks off; an exited
project named by hand is started under Unraid's name; and a project without a
folder but with files vanishes after `down`, the trapdoor that the docstring at
`model.py:436-447` means to exclude. And a container that loses its labels between
discovery and `async_added_to_hass` leaves no record.

### Probes, Rates, Pictures

- `Probes`: the launcher of `build_state_command` (slots, groups, budgets,
  `timeout -k`), and `split_output` on an answer that is cut off anywhere. A probe
  ends by itself with status 0 (`whole`) or another one (`faulty`), or is ended. Time
  is counted in ticks; what the shell itself does takes none, and a probe that
  is ended always costs its kill grace as well.
- `Rates`: one counter of the server, sampled by polls of which some are lost,
  lack the section, or lack the section that tells the boot; `passed` and
  `spent` are history, what a right rate would be. The processor as a whole and a
  machine's own sensor have no boot to compare with; over a reboot their rate is a
  guess (`Guessed`), which the property leaves out. Counters that decrease
  without a restart (iowait) and devices that are exchanged are not in it.
- `Pictures`: `parse_stack_services` and `select_stack_icon` for one stack;
  between two polls one container or the files change, and a poll lacks the
  sections in `missing` ("docker" stands for containers or pictures, without either
  of which `schedule` returns at once). `schedule` does not look at the other
  sections (`icon_cache.py:106`). Without the folders the stack has no files, and is
  there at most as the project its containers name (`Unfoldered`, if that is called
  like the folder: `OwnKey`). Without the projects it has the name compose's rule
  gives its folder, and its containers only if they are labelled so (`OwnName`).
  `StackKeepsPicture` is about the polls in between that were not so hindered.

`SnapshotParts` composes these three and Identity, states the properties of all
four and their assumptions. They share no state, so a behaviour is about one of
them at a time: the others stay in their initial state. `MCSnapshot` gives the
constants values for TLC.

Loops over a list (`_match_projects`, `split_output`, the order of services, the
sums of times) are recursive functions on numbers here and not folds, because
the proofs below are about them.

## Runs

| Run | Question | Bounds |
|---|---|---|
| QueueFaults | Are order, merging, durable intent and single admission kept when saves fail, HA stops and the server reboots? | 3 jobs, 2 of one target; one failing save of a request, one restart, one reboot, no failing save of the worker |
| QueueRestarts | Does the queue implement `SerialJobs`, run scripts one after the other and none for a finished job, and keep sight of admitted jobs? | the same jobs; no failing request and no reboot (see below); two restarts, two failing saves of the worker |
| QueueLive | Does every saved job end? | 2 jobs, 2 restarts |
| Prune | Is anything removed that exists, or too early? Do registry, devices and discovery fit together? | one stack with differing names; Docker, compose or all three sections unreadable; grace of two ticks; one reload |
| PruneLive | Is what is gone removed, is what stays (re)built? | one standalone container, one disk that loses its filesystem; Docker or disks unreadable; grace of one tick; one reload |
| Icons | Do shown files exist, is the directory clean at rest, is no poll lost and nothing late published? | two names, three sources, two images, two workers |
| ConfigFlow | Is the stored key the one shown, tested with its address, and each server configured once? | two servers, keys and entries, two dialogs, used again and again |
| Polls | Does a skipped group stay forgotten, is a command judged by fresh values, are cadences kept, does everything come back? | array (every poll), pools (one tick), users (two ticks); two polls at once |
| Runtime | Do actions and updates exclude each other, is "completed" true, does the comparison end? | two presses, three images, one reload, one dropped job at a time |
| Snapshot | Are projects, stacks and containers told apart and entities kept; does a poll end in time with whole outputs; are rates real; is a picture steady? | two folders that compose's rule makes alike, three projects, one called like a folder, two containers, five combinations of unreadable sections; six probes in two groups, two slots; counters over two boots; two services and up to three containers of the stack |
| QueueRollback, PruneBlind | see below | the least that shows it |

Why the bounds suffice. Two jobs of one target and one of another are the least
that can show merging, order and a second script; each fault interrupts one
step, and one or two of them reach every pair of steps that could meet. In
Prune a second stack would only add independent entities; the names that differ
are what couples sections, and a machine behaves like a disk that is never bare,
so `Vm` is empty. The picture cache needs two names for two workers, two images
to tell replacing from sharing, and no other bound: its state is finite. Two
dialogs that come back for ever are one that adds and one that moves, two that
move one entry, or one that trusts again beside either; two entries are the least
to coincide, and the theorems have any number. Two polls can end in either order;
a third would repeat one of them. Three images let a release overtake both an
update and the check behind it. Two folders that one rule tells apart and the
other does not, a project called like a folder, and files that lie in each other's
place make all three matching rules disagree; two containers can have one identity.
The sixth probe and the second group exist so that a hanging probe can delay both a
neighbour and a later group. The counters' bounds let a counter wrap, go round once and pass its old value
after a boot. The theorems below say the same without
bounds for the safety properties.

`CHECK_DEADLOCK FALSE` stands in the queue's runs, since the queue rests when all
requests are done, and in Snapshot, where a poll that was read is the end of a
behaviour.

Two runs show where the code departs from what its own texts say:

- **QueueRollback** (`OneScriptAtATime`). `enqueue` extends the list, awaits the
  save and puts the old list back when it raises (`update_queue.py:150`).
  Meanwhile the worker may have picked one of the new jobs. No list has it then,
  but it is launched, and the next request runs a second script beside it.
- **PruneBlind** (`RemovedOnlyWhenGone`). While only the `stacks` section fails, a
  running stack is known by its project name, its members answer to no expected
  key, and since `container_` entities are judged on Docker alone they are
  removed after the grace period. `update_all_stack_` entities share the fate:
  their id starts with `update_`, a prefix of the container row.

Also read from the code, without a run of its own: a reboot empties `/run`, so a
job still in `preparing`, whose reply was lost, is launched a second time (only
once per boot is claimed). The save in the `except` branch of `run` may raise as
well; the worker's task then ends with active jobs, which nobody observes until
the next request or reload. A failed read of a picture publishes the fallback of
an unsettled source; if the next poll goes back to the source settled before,
nothing is pending and the fallback stays. `force_stop_vm_` (`button.py:209`) is
in no row of `_ENTITY_SECTIONS`, so the button of a deleted machine is never
removed (`FollowsServer` fails for it). After a failing setup between the queue's
load and the platforms (`__init__.py:73`) the first worker would go on beside that
of the retry.

## Fairness

Two runs need strong fairness, QueueLive and Runtime.

- QueueLive: the loop runs every coroutine that can run and scripts end (weak
  fairness). Of the commands sent again and again one arrives, one reply comes
  back and one verification is conclusive (strong fairness): `run` retries for
  ever, every ten seconds, so that is what the code needs of the network.
  Requests, faults and restarts are not fair. There is no reboot in QueueLive:
  after one, a job past `preparing` has no status file any more and stays active,
  which `docs/entwicklung.md` states as intended.
- PruneLive: polls with all sections readable keep coming, time passes, and
  tasks and callbacks are run (weak). Failing polls may come between.
- Polls (`Recovers`): the timer starts polls, time passes, the server runs what
  was sent, and every poll ends because the connection has a timeout (weak). How
  polls end is open until `calm`.
- Runtime (`Judged`): checks end, the cooldown passes and the worker goes on
  (weak); of the checks the worker asks for, and of its comparisons, one succeeds
  some time (strong), since it comes back for ever. A press need not end.

The runs of IconCache, ConfigFlow and Snapshot check safety only.

## Proofs

All theorems hold for every value of the constants; besides the named assumptions
of the modules (`QueueAssumption`, `PollsAssumption`, …) each needs only what its
line says.

| Module | Theorems | Needs |
|---|---|---|
| UpdateQueueProofs | `TypeCorrect`, `SerialInOrder` (`SerialBatch`), `RequestsMerged` (`NoDuplicateTarget`), `IntentIsDurable` (`IntentBeforeLaunch`), `LaunchIsIdempotent` (`OncePerBoot`) | any number of any fault |
| QueueOrderProofs | `ScriptsTakeTurns` (`ScriptsInOrder`), `AdmittedIsKept` (`AdmittedStaysSaved`), `QueueIsSerial` (`ImplementsSerialJobs`) | `Reliable`: no failing save of a request, no reboot |
| PruneProofs | `TypeCorrect`, `RegistryFits` (`RegistryHolds`), `RemovesRightly` (`RemovedRightly`) | the last: `FoldersWithDocker`, folders are only unreadable together with Docker (PruneBlind shows why) |
| IconCacheProofs | `TypeCorrect`, `FilesAgree` (`FilesMatch`), `TasksAgree` (`WorkersMatch`), `LateIsLost` (`NothingLate`) | – |
| ConfigFlowProofs | `TypeCorrect`, `KeysTested` (`KeyOfItsServer`), `ServersDistinct` (`OneEntryPerServer`), `TrustShown` (`TrustsWhatWasShown`) | – |
| PollsProofs | `TypeCorrect`, `NothingRevived` (`NoRevival`), `VerdictFresh` (`FreshVerdict`), `ProbesSpaced` (`Spaced`) | – |
| RuntimeProofs | `TypeCorrect`, `OneAtATime` (`Exclusive`), `CompletedRightly` (`CompletedWasCurrent`) | – |
| SnapshotProofs | `SnapshotType` (`TypeOK`), `NamesComeFirst` (`NameBeforePath`), `NoTwoAlike` (`Distinct`), `StackStartsOnce` (`StartsOnce`), `NoAliasEver` (`NoAlias`), `PlaceKept` (`KeepsItsPlace`) | – |
| | `RatesReal` (`RatesAreReal`), `ProbesInTime` (`WholeInTime`), `PictureKept` (`StackKeepsPicture`) | – |

Hardly any of these properties is inductive alone. The invariants, and why they
are needed:

- `QueueInv` adds `WorkerWaits` (whether the worker is inside the Store follows
  from where it waits, and it has a job in hand whenever it waits for something),
  `Known` (every id in a list, on the wire or on the server was drawn),
  `IntentInv` (the job in hand has left `queued`, and except while the intent is
  being saved the file is not behind the memory), `OnceInv` (a job whose script
  has not begun has used up no start of this boot), and `OrderInv` (order and
  distinct targets hold also of `saving` and `previous`, the lists a late write or
  a failed request brings back; `previous` is a beginning of the present list or
  wholly worked off). So a rollback never breaks the order, although it does
  break `OneScriptAtATime`.
- `TurnsInv` adds, where nothing is rolled back, that a live job (the server may
  run it or has it begun) is listed as active, in memory (`LiveListed`) and in the
  file a restart would read (`FileFits`); `Aligned` covers the one moment at which
  the worker saves a list that is no longer the present one, `HasBegun` that the
  file has every job the queue has begun with. With the order, two live scripts
  would be two jobs out of turn.
- `LineInv` is for the refinement: a result means that the script is over
  (`Finished`), the present list continues the saved line or succeeds one that is
  worked off (`Joined`), and the superseded list of the worker is the one in the
  file already (`NothingLost`). Writing the file is then `Accept`, `Renew` or a
  stutter, `Admit` is `Start`, the end of a script is `Finish`.
- Prune: `adding` and `leaving` are disjoint (`Apart`); `ClocksHonest`: an entity
  is absent at least as long as its clock has run, so the clock needs no history.
- IconCache: the keys of `inflight` are the names workers are at, one each
  (`Owned`); one holds the lock, and the tidier spares what is shown (`Locked`);
  whoever ends last leaves a clean directory (`Cleaned`); as long as there is work
  there is a task (`Attended`), after the shutdown none (`Over`).
- ConfigFlow: an address that a dialog has claimed is no entry's, but one
  that was moved back to it, and no other dialog's; what is tested is the entry's address with the key in the form or the
  one held, unless the dialog was overtaken (`DialogsFit`); stored keys were tested,
  and with their address unless the entry was overtaken (`EntriesSound`).
- Polls: deadline and time since the last attempt make up the period (`Clocks`);
  what may be carried over was read by the attempt that ended last (`Carried`);
  every poll asks for the array, and that of a press is sampled after it
  (`Asked`). `Flags` are types.
- Runtime: versions only grow, also in what a check has listed (`Grows`); while an
  update is under way nothing, neither the server nor what the checks show, says
  that the newest image runs unless it has run since the request (`Honest`).

- Identity: `TypeOK` is inductive, and the rest follows from what the operators
  compute. Folders may have one name, so what the passes of `_match_projects` do is
  said by folder: a pass keeps what was claimed, gives a project to one folder, and
  leaves none of its candidates unclaimed while their folder is free (`Fits`,
  `Ruled`, `Resolved`, `ResolvingMore`, `Matched`). From it follow when names and keys
  of stacks agree (`StacksDiffer`, `KeysDiffer`, both up to `Clash`), and what a poll
  renames, keeps and adds (`Reconciling`, `Keeping`, `Adding`).
- Rates: `MeterInv` ties the counter to the last sample of the same boot and
  owner: it has grown by what was used since (`Followed`), and an energy counter
  that had no time to go round has at most wrapped once (`Wrapped`). Where a kind
  of counter has no boot of its own, the sample always had one.
- Probes: `PlanOK` (the clock within the deadline, the deadline within the budgets
  so far), `JobsOK` (what runs ends by then, in as many slots as there are),
  `WholeOK` (what ended by itself was within its cap), and `CalmOK`, the scheduling
  argument: if fewer probes hang than there are slots, each calm probe starts no
  later than if it had waited for every calm one before it. `ReadToTheEnd` is
  the invariant of `split_output`: after the pair of markers of a probe exactly
  the whole probes up to it are read.
- Pictures: `WallInv`: the order names every service that has a label (`OrderFits`),
  and after a poll that could read folders, containers and pictures the picture is
  the one `select_stack_icon` chooses of the containers it could join. The first
  pictured container of a service is carried to the first one by any map that keeps
  its containers and their order (`PictureStays`). `StackSteady`: the service the
  picture is of is the first with one, so equal containers up to it have the same
  first one.

The proofs are laid out alike: a step lemma per conjunct with a step per action,
one lemma that joins them, and for action properties one more lemma.

Induction. The library's induction theorems are about operators, which the
provers do not instantiate. SnapshotProofs therefore begins with induction over
*sets* of numbers: `LeastElement` (from the well-foundedness of inclusion on finite
sets), `SetInduction`, `BoundedInduction`, and `RecursionExists` (a function that is
defined by recursion to the number before exists). With these, what a recursive
function on numbers computes is proved for lists of any length.

Only model-checked: everything under fairness (`EveryJobEnds`, `FollowsServer`,
`Recovers`, `Judged`), since liveness is out of the prover's reach, and
`RemovedRightly` for combinations of sections other than `FoldersWithDocker`. The two
runs that show a departure (QueueRollback, PruneBlind) have nothing to prove.

## Not modelled

`PROJECT.json` gives each component's reason. In short: the text of shell
commands, the conversion of their output into records, and the attributes, names
and icons of entities are data without control; `const.py` are constants, and
connections have no state between commands. Inside the modelled parts:

- the moves of entities between devices and the merging of duplicate legacy
  entities (`migration.py`), the key pair and the options form of the config flow,
  a picture cache without its HTTP route, the removal of an entry other than its
  pictures, and a setup that fails after the queue was loaded (`__init__.py:73`);
- wall-clock jumps: all clocks count ticks that pass;
- which values forbid which server action (`server_actions.py`): the verdict is
  open in Polls, which is about the age of the values;
- restart and force-stop buttons of containers and machines: one command and a
  request for a poll, without state.

## Plan

1. Done: UpdateQueue with SerialJobs, Prune, IconCache; ConfigFlow, Polls, Runtime;
   Identity, Probes, Rates, Pictures in one instance; proofs of every safety
   property that a passing run checks, and the refinement of SerialJobs.
2. Next: the registry as an abstract specification ("the server's things and
   those of the last grace period") that Prune implements, with its proof; the
   moves of entities between devices (`migration.py`) beside Prune.
3. Then: the guards of `server_actions.py` against a reference table; Runtime with
   a setup that fails half-way.
