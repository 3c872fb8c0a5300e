---------------------------- MODULE PruneProofs ----------------------------
(***************************************************************************)
(* Proofs about Prune, for any stacks, containers, machines and disks, any *)
(* grace period and any combination of sections that cannot be read, as    *)
(* far as a theorem does not restrict it.                                  *)
(***************************************************************************)
EXTENDS Prune, TLAPS

-----------------------------------------------------------------------------
(* What the tables say                                                     *)

\* The entities of one kind are judged by one section at least, and by none
\* that does not tell of their owner; a button without a row never is.
LEMMA SectionsOfEntity ==
    ASSUME NEW e \in Entity, Rows(e.shape) # {}
    PROVE  /\ Sections(e.shape) \subseteq Telling(DeviceOf(e).of)
           /\ e.of \in {"member", "loose", "stack"} => "docker" \in Sections(e.shape)
           /\ e.of = "vm" => "vms" \in Sections(e.shape)
           /\ e.of = "disk" => "disks" \in Sections(e.shape)
<1>1. DOMAIN EntityTable = {1, 2, 3, 4}
  BY DEF EntityTable
<1>2. /\ EntityTable[1] = [prefixes |-> {"container_", "update_", "restart_container_"}, sections |-> {"docker"}]
      /\ EntityTable[2] = [prefixes |-> {"stack_", "restart_stack_", "update_all_stack_"}, sections |-> Trio]
      /\ EntityTable[3] = [prefixes |-> {"vm_", "restart_vm_"}, sections |-> {"vms"}]
      /\ EntityTable[4] = [prefixes |-> DiskShape, sections |-> {"disks"}]
  BY DEF EntityTable
<1> DEFINE first(i) == i \in Rows(e.shape) /\ \A h \in Rows(e.shape) : i <= h
<1>3. ASSUME NEW i \in {1, 2, 3, 4}, first(i)
      PROVE  Sections(e.shape) = EntityTable[i].sections
  <2>1. {k \in Rows(e.shape) : \A h \in Rows(e.shape) : k <= h} = {i}
    BY <1>1, <1>3 DEF Rows
  <2>2. {EntityTable[k].sections : k \in {i}} = {EntityTable[i].sections}
    OBVIOUS
  <2>3. QED
    BY <2>1, <2>2 DEF Sections
<1>4. \A i \in {1, 2, 3, 4} : i \in Rows(e.shape) <=> EntityTable[i].prefixes \cap StartsWith(e.shape) # {}
  BY <1>1 DEF Rows
<1>5. CASE e \in Member \cup Single \/ (e \in OfStack /\ e.shape = "update_all_stack_")
  <2>1. 1 \in Rows(e.shape)
    BY <1>2, <1>4, <1>5 DEF Member, Single, ContainerShape, StartsWith
  <2>2. Sections(e.shape) = {"docker"}
    BY <1>1, <1>2, <1>3, <2>1 DEF Rows
  <2>3. QED
    BY <1>5, <2>2 DEF Member, Single, OfStack, DeviceOf, Telling, Trio
<1>6. CASE e \in OfStack /\ e.shape # "update_all_stack_"
  <2>1. 1 \notin Rows(e.shape) /\ 2 \in Rows(e.shape)
    BY <1>2, <1>4, <1>6 DEF OfStack, StackShape, StartsWith
  <2>2. Sections(e.shape) = Trio
    BY <1>1, <1>2, <1>3, <2>1 DEF Rows
  <2>3. QED
    BY <1>6, <2>2 DEF OfStack, DeviceOf, Telling, Trio
<1>7. CASE e \in OfVm
  <2>1. 1 \notin Rows(e.shape) /\ 2 \notin Rows(e.shape) /\ 4 \notin Rows(e.shape)
    BY <1>2, <1>4, <1>7 DEF OfVm, VmShape, DiskShape, Capacity, StartsWith
  <2>2. Sections(e.shape) = {"vms"}
    BY <1>1, <1>2, <1>3, <2>1 DEF Rows
  <2>3. QED
    BY <1>7, <2>2 DEF OfVm, DeviceOf, Telling, Trio
<1>8. CASE e \in OfDisk
  <2>1. 1 \notin Rows(e.shape) /\ 2 \notin Rows(e.shape) /\ 3 \notin Rows(e.shape)
    BY <1>2, <1>4, <1>8 DEF OfDisk, DiskShape, Capacity, StartsWith
  <2>2. Sections(e.shape) = {"disks"}
    BY <1>1, <1>2, <1>3, <2>1 DEF Rows
  <2>3. QED
    BY <1>8, <2>2 DEF OfDisk, DeviceOf, Telling, Trio
<1>9. QED
  BY <1>5, <1>6, <1>7, <1>8 DEF Entity

-----------------------------------------------------------------------------
(* The inductive invariant                                                 *)

\* An entity is not added and taken down at once.
Apart == adding \cap leaving = {}

IInv == TypeOK /\ Apart /\ RegistryHolds

\* What a poll sees and plans is typed.
LEMMA ViewType ==
    ASSUME TypeOK, NEW failed \in Failures
    PROVE  View(failed) \in Snapshot
  BY DEF TypeOK, View, Seen, Snapshot

LEMMA PlanType ==
    ASSUME NEW n
    PROVE  Plan(n) \subseteq Entity /\ Ensured(n) \subseteq Device
  BY DEF Plan, Expected, Entity, Ensured, Accounted

\* An entity has a device.
LEMMA DeviceType ==
    ASSUME NEW e \in Entity
    PROVE  DeviceOf(e) \in Device
<1>1. CASE e \in Member \cup OfStack
  BY <1>1 DEF DeviceOf, Device, Member, OfStack
<1>2. CASE e \in Single \cup OfVm \cup OfDisk
  <2>1. e.id \in Unit /\ OfUnit(e.id) = e.of /\ e.of # "member"
    BY <1>2, PruneAssumption DEF Single, OfVm, OfDisk, Unit, OfUnit
  <2>2. QED
    BY <2>1 DEF DeviceOf, Device
<1>3. QED
  BY <1>1, <1>2 DEF Entity

\* The first setup.
LEMMA InvInit == Init => IInv
<1> SUFFICES ASSUME Init  PROVE IInv
  OBVIOUS
<1>1. snapshot \in Snapshot
  BY PruneAssumption DEF Init, View, Seen, Snapshot
<1>2. TypeOK
  BY <1>1, PlanType, PruneAssumption DEF Init, TypeOK
<1>3. Apart /\ RegistryHolds
  BY DEF Init, Apart, RegistryHolds, EntitiesHaveDevices, KnownIsBacked
<1>4. QED
  BY <1>2, <1>3 DEF IInv

-----------------------------------------------------------------------------
(* Discovery                                                               *)

\* What discovery makes of the entities that are known, added and taken down.
LEMMA TrackKeeps ==
    ASSUME IInv, NEW n, NEW gone, NEW before \in {known, {}}, Track(n, gone, before)
    PROVE  /\ known' \subseteq Entity /\ adding' \subseteq known' /\ leaving' \subseteq known'
           /\ Apart'
           /\ before = known => known' \subseteq adding' \cup leaving' \cup (registry \ gone)
           /\ before = {} => known' \subseteq adding'
<1>1. known \subseteq Entity /\ Plan(n) \subseteq Entity
  BY PlanType DEF IInv, TypeOK
<1>2. known' \subseteq Entity /\ adding' \subseteq known' /\ leaving' \subseteq known'
  BY <1>1 DEF Track
<1>3. Apart'
  BY DEF Track, IInv, Apart
<1>4. known \subseteq adding \cup leaving \cup registry
  BY DEF IInv, RegistryHolds, KnownIsBacked
<1>5. QED
  BY <1>2, <1>3, <1>4 DEF Track

\* The age of a clock.
LEMMA AgeType ==
    ASSUME TypeOK, NEW e
    PROVE  Age(e) \in 0..Grace
  BY PruneAssumption DEF TypeOK, Age

LEMMA PollKeeps ==
    ASSUME IInv, NEW failed \in Failures, Poll(failed)
    PROVE  IInv'
<1> DEFINE n    == View(failed)
           gone == Outdated(n)
<1>1. /\ Track(n, gone, known) /\ snapshot' = n /\ ok' = TRUE /\ registry' = registry \ gone
      /\ stale' = Clocks(n) /\ UNCHANGED <<server, reloads>>
      /\ devices' = {d \in devices \cup Ensured(n) : ~(Vacant(d, registry') /\ CanRemove(d, n))}
      /\ absent' = [e \in Entity |-> IF Noticed(DeviceOf(e), failed) THEN 0 ELSE absent[e]]
  BY DEF Poll
<1> HIDE DEF gone
<1>2. n \in Snapshot
  BY ViewType DEF IInv
<1> HIDE DEF n
<1>3. /\ known' \subseteq Entity /\ adding' \subseteq known' /\ leaving' \subseteq known' /\ Apart'
      /\ known' \subseteq adding' \cup leaving' \cup (registry \ gone)
  BY <1>1, TrackKeeps
<1>4. registry' \subseteq Entity /\ devices' \subseteq Device
  BY <1>1, PlanType DEF IInv, TypeOK
<1>5. DOMAIN stale' \subseteq Entity /\ \A e \in DOMAIN stale' : stale'[e] \in 0..Grace
  BY <1>1, AgeType DEF IInv, TypeOK, Clocks
<1>6. absent' \in [Entity -> 0..Grace]
  BY <1>1, PruneAssumption DEF IInv, TypeOK
<1>7. \A e \in registry' : DeviceOf(e) \in devices'
  BY <1>1 DEF IInv, RegistryHolds, EntitiesHaveDevices, Vacant
<1>8. TypeOK'
  BY <1>1, <1>2, <1>3, <1>4, <1>5, <1>6 DEF IInv, TypeOK, server
<1>9. RegistryHolds'
  BY <1>1, <1>3, <1>7 DEF RegistryHolds, EntitiesHaveDevices, KnownIsBacked
<1>10. QED
  BY <1>3, <1>8, <1>9 DEF IInv

LEMMA ReloadKeeps ==
    ASSUME IInv, NEW failed \in Failures, Reload(failed)
    PROVE  IInv'
<1> DEFINE n == View(failed)
<1>1. /\ Track(n, {}, {}) /\ snapshot' = n /\ ok' = TRUE /\ stale' = << >>
      /\ devices' = devices \cup Ensured(n) /\ UNCHANGED <<server, registry, absent>>
      /\ reloads < MaxReloads /\ reloads' = reloads + 1
  BY DEF Reload
<1>2. n \in Snapshot
  BY ViewType DEF IInv
<1> HIDE DEF n
<1>3. /\ known' \subseteq Entity /\ adding' \subseteq known' /\ leaving' \subseteq known' /\ Apart'
      /\ known' \subseteq adding'
  BY <1>1, TrackKeeps
<1>4. devices' \subseteq Device /\ DOMAIN stale' = {}
  BY <1>1, PlanType DEF IInv, TypeOK
<1>5. reloads' \in 0..MaxReloads
  BY <1>1, PruneAssumption DEF IInv, TypeOK
<1>6. TypeOK'
  BY <1>1, <1>2, <1>3, <1>4, <1>5 DEF IInv, TypeOK, server
<1>7. RegistryHolds'
  BY <1>1, <1>3 DEF IInv, RegistryHolds, EntitiesHaveDevices, KnownIsBacked
<1>8. QED
  BY <1>3, <1>6, <1>7 DEF IInv

-----------------------------------------------------------------------------
(* The other steps                                                         *)

LEMMA OthersKeep ==
    ASSUME IInv, Next, ~(\E failed \in Failures : Poll(failed) \/ Reload(failed))
    PROVE  IInv'
<1> USE DEF IInv
<1>1. CASE PollFails
  <2>1. /\ known' \subseteq Entity /\ adding' \subseteq known' /\ leaving' \subseteq known' /\ Apart'
        /\ known' \subseteq adding' \cup leaving' \cup (registry \ {})
    BY <1>1, TrackKeeps DEF PollFails
  <2>2. QED
    BY <1>1, <2>1 DEF PollFails, TypeOK, RegistryHolds, EntitiesHaveDevices, KnownIsBacked, server
<1>2. ASSUME NEW e \in Entity, Added(e)
      PROVE  IInv'
  BY <1>2, DeviceType DEF Added, TypeOK, Apart, RegistryHolds, EntitiesHaveDevices, KnownIsBacked, server
<1>3. ASSUME NEW e \in Entity, TakenDown(e)
      PROVE  IInv'
  BY <1>3 DEF TakenDown, TypeOK, Apart, RegistryHolds, EntitiesHaveDevices, KnownIsBacked, server
<1>4. ASSUME NEW d \in Device, DeleteDevice(d)
      PROVE  IInv'
  BY <1>4 DEF DeleteDevice, TypeOK, Apart, RegistryHolds, EntitiesHaveDevices, KnownIsBacked, server
<1>5. CASE Changes
  <2>1. folders' \subseteq Stack /\ running' \subseteq Stack /\ units' \subseteq Unit /\ bare' \subseteq Disk
    BY <1>5 DEF Changes, Toggle, TypeOK
  <2>2. QED
    BY <1>5, <2>1 DEF Changes, TypeOK, Apart, RegistryHolds, EntitiesHaveDevices, KnownIsBacked, objects
<1>6. CASE Tick
  <2>1. \A age \in 0..Grace : Older(age) \in 0..Grace
    BY PruneAssumption DEF Older
  <2>2. /\ DOMAIN stale' \subseteq Entity /\ \A e \in DOMAIN stale' : stale'[e] \in 0..Grace
        /\ absent' \in [Entity -> 0..Grace]
    BY <1>6, <2>1 DEF Tick, TypeOK
  <2>3. QED
    BY <1>6, <2>2 DEF Tick, TypeOK, Apart, RegistryHolds, EntitiesHaveDevices, KnownIsBacked, objects, server
<1>7. QED
  BY <1>1, <1>2, <1>3, <1>4, <1>5, <1>6 DEF Next

LEMMA InvStep ==
    ASSUME IInv, [Next]_vars
    PROVE  IInv'
<1>1. CASE UNCHANGED vars
  BY <1>1 DEF vars, server, objects, IInv, TypeOK, Apart, RegistryHolds, EntitiesHaveDevices, KnownIsBacked
<1>2. QED
  BY <1>1, PollKeeps, ReloadKeeps, OthersKeep

LEMMA InvInductive == Spec => []IInv
  BY InvInit, InvStep, PTL DEF Spec

-----------------------------------------------------------------------------
(* What is removed                                                         *)

\* Where the folders cannot be read, Docker cannot either.
FoldersWithDocker == \A failed \in Failures : "stacks" \in failed => "docker" \in failed

\* No clock is ahead of the time its owner has been out of sight.
ClocksHonest == \A e \in DOMAIN stale : stale[e] <= absent[e]

\* A poll that can read what the entities of a kind are judged by sees what is
\* there of this kind.
LEMMA ThereIsSeen ==
    ASSUME FoldersWithDocker, NEW failed \in Failures, NEW d \in Device, There(d),
           d.of = "stack" => "docker" \notin failed,
           d.of # "stack" => Telling(d.of) \cap failed = {}
    PROVE  d \in Accounted(View(failed))
<1> DEFINE n == View(failed)
<1>1. CASE d.of = "stack"
  <2>1. n.folders = folders /\ n.members = running
    BY <1>1 DEF FoldersWithDocker, View, Seen
  <2>2. PICK s \in folders \cup running : d.id = KeyOf(s, folders)
    BY <1>1 DEF There
  <2>3. d.id \in StackKeys(n)
    <3>1. CASE s \in folders
      BY <2>1, <2>2, <3>1 DEF StackKeys, KeyOf
    <3>2. CASE s \notin folders
      <4>1. d.id = ProjectOf[s] /\ s \in running
        BY <2>2, <3>2 DEF KeyOf
      <4>2. CASE s \in n.projects
        BY <2>1, <3>2, <4>1, <4>2 DEF StackKeys
      <4>3. CASE s \notin n.projects
        <5>1. s \in {m \in n.members \ n.projects : m \notin n.folders \/ ProjectOf[m] # m}
          BY <2>1, <3>2, <4>1, <4>3
        <5>2. QED
          BY <4>1, <5>1 DEF StackKeys
      <4>4. QED
        BY <4>2, <4>3
    <3>3. QED
      BY <3>1, <3>2
  <2>4. QED
    BY <1>1, <2>3 DEF Accounted
<1>2. CASE d.of # "stack"
  <2>1. d.id \in units /\ d.of = OfUnit(d.id)
    BY <1>2 DEF There, Device
  <2>2. d.id \in n.units
    BY <1>2, <2>1 DEF View
  <2>3. QED
    BY <1>2, <2>2 DEF Accounted
<1>3. QED
  BY <1>1, <1>2

\* What is judged outdated is gone.
LEMMA OutdatedIsGone ==
    ASSUME FoldersWithDocker, NEW failed \in Failures, NEW e \in Entity,
           Candidate(e, View(failed)), ~Blind(e, View(failed))
    PROVE  ~There(DeviceOf(e))
<1> DEFINE n == View(failed)
<1>1. e \notin Expected(n) /\ ~StillOwned(e, n) /\ Rows(e.shape) # {} /\ Sections(e.shape) \cap failed = {}
  BY DEF Candidate, Blind, View
<1>2. DeviceOf(e) \in Device
  BY DeviceType
<1>3. CASE e \in Member \cup OfStack
  <2>1. DeviceOf(e).of = "stack" /\ DeviceOf(e).id = e.id /\ e.of \in {"member", "stack"}
    BY <1>3 DEF DeviceOf, Member, OfStack
  <2>2. "docker" \notin failed
    BY <1>1, <2>1, SectionsOfEntity
  <2>3. e.id \notin StackKeys(n)
    BY <1>1, <1>3 DEF Expected, StillOwned, Member
  <2>4. QED
    BY <1>2, <2>1, <2>2, <2>3, ThereIsSeen DEF Accounted
<1>4. CASE e \in Single \cup OfVm \cup OfDisk
  <2>1. DeviceOf(e).of = e.of /\ DeviceOf(e).id = e.id /\ e.of \in {"loose", "vm", "disk"}
    BY <1>4 DEF DeviceOf, Single, OfVm, OfDisk
  <2>2. Telling(e.of) \cap failed = {}
    BY <1>1, <2>1, SectionsOfEntity DEF Telling
  <2>3. e.id \notin n.units
    BY <1>1, <1>4 DEF Expected
  <2>4. QED
    BY <1>2, <2>1, <2>2, <2>3, ThereIsSeen DEF Accounted
<1>5. QED
  BY <1>3, <1>4 DEF Entity

\* A poll that notices the owner leaves no clock running.
LEMMA ClocksPoll ==
    ASSUME FoldersWithDocker, TypeOK, ClocksHonest, NEW failed \in Failures, Poll(failed)
    PROVE  ClocksHonest'
<1> DEFINE n == View(failed)
<1> SUFFICES ASSUME NEW e \in DOMAIN stale'
             PROVE  stale'[e] <= absent'[e]
  BY DEF ClocksHonest
<1>1. e \in registry /\ Candidate(e, n) /\ stale'[e] = Age(e)
  BY DEF Poll, Clocks
<1>2. e \in Entity /\ absent[e] \in 0..Grace
  BY <1>1 DEF TypeOK
<1>3. ~Noticed(DeviceOf(e), failed)
  <2>1. SUFFICES ASSUME Noticed(DeviceOf(e), failed)  PROVE FALSE
    OBVIOUS
  <2>2. There(DeviceOf(e)) /\ Telling(DeviceOf(e).of) \cap failed = {}
    BY <2>1 DEF Noticed, DeviceSections
  <2>3. Sections(e.shape) \subseteq Telling(DeviceOf(e).of)
    BY <1>1, <1>2, SectionsOfEntity DEF Candidate
  <2>4. ~Blind(e, n)
    BY <2>2, <2>3 DEF Blind, View
  <2>5. QED
    BY <1>1, <1>2, <2>2, <2>4, OutdatedIsGone
<1>4. absent'[e] = absent[e]
  BY <1>2, <1>3 DEF Poll
<1>5. QED
  BY <1>1, <1>2, <1>4, PruneAssumption DEF Age, ClocksHonest

LEMMA ClocksStep ==
    ASSUME FoldersWithDocker, IInv, ClocksHonest, [Next]_vars
    PROVE  ClocksHonest'
<1>1. ASSUME NEW failed \in Failures, Reload(failed)
      PROVE  ClocksHonest'
  BY <1>1 DEF Reload, ClocksHonest
<1>2. CASE Tick
  <2>1. \A e \in DOMAIN stale : e \in Entity /\ stale[e] \in 0..Grace /\ absent[e] \in 0..Grace
    BY DEF IInv, TypeOK
  <2>2. QED
    BY <1>2, <2>1, PruneAssumption DEF Tick, ClocksHonest, Older
<1>3. CASE UNCHANGED <<stale, absent>>
  BY <1>3 DEF ClocksHonest
<1>4. PollFails \/ Changes \/ UNCHANGED vars => UNCHANGED <<stale, absent>>
  BY DEF PollFails, Changes, vars
<1>5. ASSUME NEW e \in Entity, Added(e) \/ TakenDown(e)
      PROVE  UNCHANGED <<stale, absent>>
  BY <1>5 DEF Added, TakenDown
<1>6. ASSUME NEW d \in Device, DeleteDevice(d)
      PROVE  UNCHANGED <<stale, absent>>
  BY <1>6 DEF DeleteDevice
<1>7. QED
  BY <1>1, <1>2, <1>3, <1>4, <1>5, <1>6, ClocksPoll DEF Next, IInv

\* A removal by a poll, of an entity or a device.
RemovalStep ==
    /\ \A e \in registry \ registry' : Polls => ~There(DeviceOf(e))
    /\ \A e \in registry \ registry' : Polls => absent[e] >= Grace
    /\ \A d \in devices \ devices' : Polls => ~There(d)

LEMMA RemovalLemma ==
    ASSUME FoldersWithDocker, IInv, ClocksHonest, NEW failed \in Failures, Poll(failed)
    PROVE  RemovalStep
<1> DEFINE n == View(failed)
<1>1. ASSUME NEW e \in registry \ registry'
      PROVE  ~There(DeviceOf(e)) /\ absent[e] >= Grace
  <2>1. e \in Entity /\ Candidate(e, n) /\ ~Blind(e, n) /\ Age(e) >= Grace
    BY <1>1 DEF Poll, Outdated, IInv, TypeOK
  <2>2. ~There(DeviceOf(e))
    BY <2>1, OutdatedIsGone
  <2>3. e \in DOMAIN stale /\ stale[e] \in 0..Grace /\ absent[e] \in 0..Grace
    BY <2>1, PruneAssumption DEF Age, IInv, TypeOK
  <2>4. absent[e] >= Grace
    BY <2>1, <2>3, PruneAssumption DEF Age, ClocksHonest
  <2>5. QED
    BY <2>2, <2>4
<1>2. ASSUME NEW d \in devices \ devices'
      PROVE  ~There(d)
  <2>1. CanRemove(d, n) /\ d \in Device
    BY <1>2 DEF Poll, IInv, TypeOK
  <2>2. d \notin Accounted(n) /\ Telling(d.of) \cap failed = {}
    BY <2>1 DEF CanRemove, DeviceSections, View
  <2>3. d.of = "stack" => "docker" \notin failed
    BY <2>2 DEF Telling, Trio
  <2>4. QED
    BY <2>1, <2>2, <2>3, ThereIsSeen
<1>3. QED
  BY <1>1, <1>2 DEF RemovalStep

-----------------------------------------------------------------------------
(* Theorems                                                                *)

\* Every variable keeps its type.
THEOREM TypeCorrect == Spec => []TypeOK
<1>1. IInv => TypeOK
  BY DEF IInv
<1>2. QED
  BY <1>1, InvInductive, PTL

\* No entity is without its device and no known key without its entity, however
\* polls, removals, additions, deletions and reloads interleave.
THEOREM RegistryFits == Spec => []RegistryHolds
<1>1. IInv => RegistryHolds
  BY DEF IInv
<1>2. QED
  BY <1>1, InvInductive, PTL

\* Unless a poll can read Docker but not the folders, it removes nothing that
\* exists, and nothing that a readable poll of the grace period has seen.
THEOREM RemovesRightly ==
    ASSUME FoldersWithDocker
    PROVE  Spec => RemovedRightly
<1>1. Init => ClocksHonest
  BY DEF Init, ClocksHonest
<1>2. IInv /\ ClocksHonest /\ [Next]_vars => ClocksHonest'
  BY ClocksStep
<1>3. IInv /\ ClocksHonest /\ [Next]_vars => [RemovalStep]_vars
  BY RemovalLemma DEF RemovalStep, Polls
<1>4. Spec => [][RemovalStep]_vars
  BY <1>1, <1>2, <1>3, InvInductive, PTL DEF Spec
<1>5. RemovalStep <=> /\ \A e \in registry \ registry' : Polls => ~There(DeviceOf(e))
                      /\ \A e \in registry \ registry' : Polls => absent[e] >= Grace
                      /\ \A d \in devices \ devices' : Polls => ~There(d)
  BY DEF RemovalStep
<1>6. QED
  BY <1>4, <1>5, PTL DEF RemovedRightly, RemovedOnlyWhenGone, GraceKept, DeviceRemovedOnlyWhenGone

=============================================================================
