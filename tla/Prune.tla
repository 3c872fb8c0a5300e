------------------------------- MODULE Prune -------------------------------
(***************************************************************************)
(* Which entities and devices Home Assistant keeps of a server whose       *)
(* stacks, containers and machines come and go: prune.py, the discovery of *)
(* new entities (entity.track_new), and the devices that migration.py      *)
(* ensures, driven by polls of which single sections may be unreadable.    *)
(* Standalone containers, machines and disks are single units: each has a  *)
(* device of its own and is told of by one section.                        *)
(*                                                                         *)
(* All listeners of a poll run in one step of the event loop; adding an    *)
(* entity and taking a removed one down are tasks of their own.            *)
(***************************************************************************)
EXTENDS Naturals, FiniteSets

CONSTANTS
    Stack,      \* compose stacks, named by the basename of their folder
    ProjectOf,  \* the compose project name of each stack
    Loose,      \* standalone containers
    Vm,         \* virtual machines
    Disk,       \* disks of the array and the pools
    Shape,      \* the unique-id prefixes looked at
    Failures,   \* the sets of sections that can be unreadable in a poll
    Grace,      \* STALE_GRACE in ticks
    MaxReloads  \* bound: reloads of the integration

Key == Stack \cup {ProjectOf[s] : s \in Stack}

ContainerShape == {"container_", "restart_container_"}
StackShape     == {"stack_", "restart_stack_", "update_all_stack_"}
VmShape        == {"vm_", "restart_vm_", "force_stop_vm_"}
Capacity       == {"disk_usage_", "disk_total_", "disk_used_", "disk_free_"}
DiskShape      == Capacity \cup {"disk_temp_", "disk_status_"}
Trio           == {"docker", "compose", "stacks"}

Unit        == Loose \cup Vm \cup Disk
OfUnit(u)   == CASE u \in Loose -> "loose" [] u \in Vm -> "vm" [] u \in Disk -> "disk"
Telling(of) == CASE of = "stack" -> Trio [] of = "loose" -> {"docker"} [] of = "vm" -> {"vms"} [] of = "disk" -> {"disks"}

\* A name is made of one kind of thing: the code keeps them apart by prefixes.
ASSUME PruneAssumption ==
    /\ Loose \cap Vm = {} /\ Loose \cap Disk = {} /\ Vm \cap Disk = {}
    /\ Shape \subseteq ContainerShape \cup StackShape \cup VmShape \cup DiskShape
    /\ {} \in Failures /\ Failures \subseteq SUBSET (Trio \cup {"vms", "disks"})
    /\ Grace \in Nat \ {0} /\ MaxReloads \in Nat

Member == [shape : Shape \cap ContainerShape, of : {"member"}, id : Key]
Single == [shape : Shape \cap ContainerShape, of : {"loose"}, id : Loose]
OfStack == [shape : Shape \cap StackShape, of : {"stack"}, id : Key]
OfVm    == [shape : Shape \cap VmShape, of : {"vm"}, id : Vm]
OfDisk  == [shape : Shape \cap DiskShape, of : {"disk"}, id : Disk]
Entity  == Member \cup Single \cup OfStack \cup OfVm \cup OfDisk

Device == [of : {"stack"}, id : Key] \cup {[of |-> OfUnit(u), id |-> u] : u \in Unit}

VARIABLES
    folders,   \* server: stacks with a compose.manager folder
    running,   \* server: stacks that are up, with their container
    units,     \* server: standalone containers, machines and disks
    bare,      \* server: disks without a filesystem at the moment
    snapshot,  \* coordinator.data
    ok,        \* coordinator.last_update_success
    registry,  \* the entity registry
    devices,   \* the device registry
    stale,     \* runtime.stale_since, as the age of each clock in ticks
    known,     \* track_new's `known`
    adding,    \* entities on their way into the registry
    leaving,   \* entities removed from the registry, not yet taken down
    absent,    \* ticks since a readable poll last saw the owner (history)
    reloads    \* reloads so far

server  == <<folders, running, units, bare>>
objects == <<known, adding, leaving>>
vars    == <<server, snapshot, ok, registry, devices, stale, objects, absent, reloads>>

-----------------------------------------------------------------------------
(* What a poll sees                                                        *)

Seen(section, things, failed) == IF section \in failed THEN {} ELSE things

\* build_snapshot: an unreadable section yields nothing.
View(failed) ==
    [folders  |-> Seen("stacks", folders, failed),
     projects |-> Seen("compose", running, failed),
     members  |-> Seen("docker", running, failed),
     units    |-> {u \in units : Telling(OfUnit(u)) \cap failed = {}},
     bare     |-> Seen("disks", bare, failed),
     failed   |-> failed]

Snapshot == [folders : SUBSET Stack, projects : SUBSET Stack, members : SUBSET Stack,
             units : SUBSET Unit, bare : SUBSET Disk, failed : Failures]

\* The stacks by key: folders, projects without one, and labels without either
\* (an unmatched folder goes by its own name, which need not be the project's).
StackKeys(n) ==
    n.folders
    \cup {ProjectOf[s] : s \in n.projects \ n.folders}
    \cup {ProjectOf[s] : s \in {m \in n.members \ n.projects : m \notin n.folders \/ ProjectOf[m] # m}}

Readable(n) == Trio \cap n.failed = {}

\* stack_key of a stack that has one of these folders or none.
KeyOf(s, there) == IF s \in there THEN s ELSE ProjectOf[s]

\* The canonical keys of the containers that belong to a stack.
MemberKeys(n) ==
    IF Readable(n) THEN {KeyOf(s, n.folders) : s \in n.members} ELSE {}

\* Mutation of Expected: a key is only expected with a value to show.
ExpectedShown(n) ==
    {e \in Member : e.id \in MemberKeys(n)} \cup {e \in OfStack : e.id \in StackKeys(n)}
    \cup {e \in Single \cup OfVm \cup OfDisk : e.id \in n.units \ n.bare}

\* expected_keys
Expected(n) ==
    {e \in Member : e.id \in MemberKeys(n)} \cup {e \in OfStack : e.id \in StackKeys(n)}
    \cup {e \in Single \cup OfVm \cup OfDisk : e.id \in n.units}

\* The expected ones that a platform builds an entity for: a capacity only of a
\* disk that has one now.
Plan(n) ==
    {e \in Expected(n) :
        /\ e.of = "stack" =>
              /\ Readable(n)
              /\ e.shape = "restart_stack_" => \E s \in n.projects : e.id = KeyOf(s, n.folders)
        /\ e.shape \in Capacity => e.id \notin n.bare}

-----------------------------------------------------------------------------
(* Judging                                                                 *)

\* The prefixes of the table that a unique id of this shape starts with.
StartsWith(shape) == {shape} \cup (IF shape = "update_all_stack_" THEN {"update_"} ELSE {})

\* _ENTITY_SECTIONS, as far as it is about these shapes.
EntityTable ==
    << [prefixes |-> {"container_", "update_", "restart_container_"}, sections |-> {"docker"}],
       [prefixes |-> {"stack_", "restart_stack_", "update_all_stack_"}, sections |-> Trio],
       [prefixes |-> {"vm_", "restart_vm_"}, sections |-> {"vms"}],
       [prefixes |-> DiskShape, sections |-> {"disks"}] >>

Rows(shape) == {i \in DOMAIN EntityTable : EntityTable[i].prefixes \cap StartsWith(shape) # {}}

\* The sections of the first row that matches.
Sections(shape) ==
    UNION {EntityTable[i].sections : i \in {k \in Rows(shape) : \A h \in Rows(shape) : k <= h}}

\* _container_still_owned
StillOwned(e, n) ==
    \/ e.of = "member" /\ e.id \in StackKeys(n)
    \/ e.of = "loose" /\ e.id \in n.units

Blind(e, n) == Sections(e.shape) \cap n.failed # {}

\* Registered, not expected, of a known shape, and nobody's.
Candidate(e, n) ==
    /\ e \notin Expected(n)
    /\ Rows(e.shape) # {}
    /\ Blind(e, n) \/ ~StillOwned(e, n)

Age(e) == IF e \in DOMAIN stale THEN stale[e] ELSE 0

Outdated(n) == {e \in registry : Candidate(e, n) /\ ~Blind(e, n) /\ Age(e) >= Grace}

\* Mutation of Clocks: a clock once started is never dropped.
ClocksKept(n) ==
    [e \in {x \in registry \ Outdated(n) :
              x \in DOMAIN stale \/ (Candidate(x, n) /\ ~Blind(x, n))} |-> Age(e)]

\* The clocks after a poll; unreadable sections neither start nor stop one.
Clocks(n) ==
    [e \in {x \in registry \ Outdated(n) :
              Candidate(x, n) /\ (Blind(x, n) => x \in DOMAIN stale)} |-> Age(e)]

-----------------------------------------------------------------------------
(* Devices                                                                 *)

DeviceOf(e) == [of |-> IF e.of = "member" THEN "stack" ELSE e.of, id |-> e.id]

DeviceSections(d) == Telling(d.of)

\* The devices this snapshot accounts for.
Accounted(n) == {d \in Device : d.id \in IF d.of = "stack" THEN StackKeys(n) ELSE n.units}

\* async_reconcile_devices: those it creates.
Ensured(n) == {d \in Accounted(n) : d.of = "stack" => Readable(n)}

\* can_remove_device
CanRemove(d, n) == d \notin Accounted(n) /\ DeviceSections(d) \cap n.failed = {}

\* Mutation of Vacant: nobody asks whether entities point at the device.
VacantUnasked(d, entities) == TRUE

Vacant(d, entities) == \A e \in entities : DeviceOf(e) # d

-----------------------------------------------------------------------------
(* What is really there: a stack as long as it has a folder or runs        *)

There(d) ==
    IF d.of = "stack" THEN \E s \in folders \cup running : d.id = KeyOf(s, folders) ELSE d.id \in units

\* A poll that reads every section that tells of the owner, and the owner is there.
Noticed(d, failed) == There(d) /\ DeviceSections(d) \cap failed = {}

-----------------------------------------------------------------------------
(* Steps of Home Assistant                                                 *)

\* track_new: build what is planned and not known yet.
Track(n, gone, before) ==
    LET fresh == Plan(n) \ before
    IN  /\ known' = before \cup fresh
        /\ adding' = (adding \cap before) \cup fresh
        /\ leaving' = (leaving \cup (gone \ adding)) \cap before

\* A successful poll: reconcile, prune, then the platforms' discovery.
Poll(failed) ==
    LET n    == View(failed)
        gone == Outdated(n)
        rest == registry \ gone
    IN  /\ snapshot' = n
        /\ ok' = TRUE
        /\ registry' = rest
        /\ stale' = Clocks(n)
        /\ devices' = {d \in devices \cup Ensured(n) : ~(Vacant(d, rest) /\ CanRemove(d, n))}
        /\ Track(n, gone, known)
        /\ absent' = [e \in Entity |-> IF Noticed(DeviceOf(e), failed) THEN 0 ELSE absent[e]]
        /\ UNCHANGED <<server, reloads>>

\* A poll without an answer: the data stay, only discovery runs.
PollFails ==
    /\ ok
    /\ ok' = FALSE
    /\ Track(snapshot, {}, known)
    /\ UNCHANGED <<server, snapshot, registry, devices, stale, absent, reloads>>

\* The integration is reloaded: the first poll is not judged, clocks start anew.
Reload(failed) ==
    LET n == View(failed)
    IN  /\ reloads < MaxReloads
        /\ reloads' = reloads + 1
        /\ snapshot' = n
        /\ ok' = TRUE
        /\ stale' = << >>
        /\ devices' = devices \cup Ensured(n)
        /\ Track(n, {}, {})
        /\ UNCHANGED <<server, registry, absent>>

Added(e) ==
    /\ e \in adding
    /\ adding' = adding \ {e}
    /\ registry' = registry \cup {e}
    /\ devices' = devices \cup {DeviceOf(e)}
    /\ UNCHANGED <<server, snapshot, ok, stale, known, leaving, absent, reloads>>

\* Mutation of TakenDown: the key stays known.
TakenDownSilently(e) ==
    /\ e \in leaving
    /\ leaving' = leaving \ {e}
    /\ UNCHANGED <<server, snapshot, ok, registry, devices, stale, known, adding, absent, reloads>>

\* Mutation of TakenDown: the removal is reported twice.
TakenDownTwice(e) ==
    /\ e \in leaving
    /\ known' = known \ {e}
    /\ UNCHANGED <<server, snapshot, ok, registry, devices, stale, adding, leaving, absent, reloads>>

\* The entity's async_on_remove callback forgets the key.
TakenDown(e) ==
    /\ e \in leaving
    /\ leaving' = leaving \ {e}
    /\ known' = known \ {e}
    /\ UNCHANGED <<server, snapshot, ok, registry, devices, stale, adding, absent, reloads>>

\* The user deletes a device that async_remove_config_entry_device lets go.
DeleteDevice(d) ==
    LET gone == {e \in registry : DeviceOf(e) = d}
    IN  /\ d \in devices
        /\ CanRemove(d, snapshot)
        /\ devices' = devices \ {d}
        /\ registry' = registry \ gone
        /\ leaving' = leaving \cup ((gone \ adding) \cap known)
        /\ UNCHANGED <<server, snapshot, ok, stale, known, adding, absent, reloads>>

-----------------------------------------------------------------------------
(* The server and the clock                                                *)

Toggle(set, x) == IF x \in set THEN set \ {x} ELSE set \cup {x}

Changes ==
    /\ \/ /\ \E s \in Stack : folders' = Toggle(folders, s)
          /\ UNCHANGED <<running, units, bare>>
       \/ /\ \E s \in Stack : running' = Toggle(running, s)
          /\ UNCHANGED <<folders, units, bare>>
       \/ /\ \E u \in Unit : units' = Toggle(units, u)
          /\ UNCHANGED <<folders, running, bare>>
       \/ /\ \E d \in units \cap Disk : bare' = Toggle(bare, d)
          /\ UNCHANGED <<folders, running, units>>
    /\ UNCHANGED <<snapshot, ok, registry, devices, stale, objects, absent, reloads>>

Older(age) == IF age < Grace THEN age + 1 ELSE age

Tick ==
    /\ stale' = [e \in DOMAIN stale |-> Older(stale[e])]
    /\ absent' = [e \in Entity |-> Older(absent[e])]
    /\ UNCHANGED <<server, snapshot, ok, registry, devices, objects, reloads>>

-----------------------------------------------------------------------------

\* A first setup, on a server with everything.
Init ==
    /\ folders = Stack /\ running = Stack /\ units = Unit /\ bare = {}
    /\ snapshot = View({})
    /\ ok = TRUE
    /\ registry = {}
    /\ devices = Ensured(snapshot)
    /\ stale = << >>
    /\ known = Plan(snapshot) /\ adding = Plan(snapshot) /\ leaving = {}
    /\ absent = [e \in Entity |-> 0]
    /\ reloads = 0

Next ==
    \/ \E failed \in Failures : Poll(failed)
    \/ \E failed \in Failures : Reload(failed)
    \/ PollFails
    \/ \E e \in Entity : Added(e) \/ TakenDown(e)
    \/ \E d \in Device : DeleteDevice(d)
    \/ Changes
    \/ Tick

Spec == Init /\ [][Next]_vars

(* Time passes, polls with every section readable keep coming, and the     *)
(* event loop runs its tasks.                                              *)
Fairness ==
    /\ WF_vars(Tick)
    /\ WF_vars(Poll({}))
    /\ \A e \in Entity : WF_vars(Added(e)) /\ WF_vars(TakenDown(e))

FairSpec == Spec /\ Fairness

-----------------------------------------------------------------------------
(* Properties                                                              *)

\* Every variable keeps its type; a clock runs only for a registered entity
\* that some poll missed.
TypeOK ==
    /\ folders \subseteq Stack /\ running \subseteq Stack /\ units \subseteq Unit /\ bare \subseteq Disk
    /\ snapshot \in Snapshot
    /\ ok \in BOOLEAN
    /\ registry \subseteq Entity
    /\ devices \subseteq Device
    /\ DOMAIN stale \subseteq Entity /\ \A e \in DOMAIN stale : stale[e] \in 0..Grace
    /\ adding \subseteq known /\ leaving \subseteq known /\ known \subseteq Entity
    /\ absent \in [Entity -> 0..Grace]
    /\ reloads \in 0..MaxReloads

Polls == \E failed \in Failures : Poll(failed)

\* A poll removes an entity only when what it stands for is gone from the
\* server; a stack that is down is not gone, and neither are its members.
RemovedOnlyWhenGone ==
    [][\A e \in registry \ registry' : Polls => ~There(DeviceOf(e))]_vars

\* ... and only when no readable poll of the whole grace period saw it, however
\* often it came and went, sections failed or the integration was reloaded.
GraceKept ==
    [][\A e \in registry \ registry' : Polls => absent[e] >= Grace]_vars

\* A poll removes a device only when what it stands for is gone.
DeviceRemovedOnlyWhenGone ==
    [][\A d \in devices \ devices' : Polls => ~There(d)]_vars

\* No entity is left without its device, by a poll or by the user's deletion.
EntitiesHaveDevices == \A e \in registry : DeviceOf(e) \in devices

\* A key discovery will not build again has an entity, or is about to get or
\* lose one: whatever went away can come back.
KnownIsBacked == known \subseteq adding \cup leaving \cup registry

\* What there is fits together: devices under the entities, entities behind the
\* keys (entity.py:296).
RegistryHolds == EntitiesHaveDevices /\ KnownIsBacked

\* Whatever a poll removes, entity or device, is gone from the server, and an
\* entity's owner has been for the whole grace period (prune.py:183).
RemovedRightly == RemovedOnlyWhenGone /\ GraceKept /\ DeviceRemovedOnlyWhenGone

\* An entity whose owner stays away is removed in the end.
GoneForGood == \A e \in Entity : <>[]~There(DeviceOf(e)) => <>[](e \notin registry)

\* What is there to stay has its entity in the end, also one that was removed
\* before, by a poll or by hand.
ComesBack ==
    \A e \in Entity : <>[](There(DeviceOf(e)) /\ running = Stack /\ e.id \notin bare) => <>[](e \in registry)

\* The registry follows the server in the end, in both directions (prune.py:48).
FollowsServer == GoneForGood /\ ComesBack

=============================================================================
