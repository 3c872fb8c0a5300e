----------------------------- MODULE Identity -----------------------------
(***************************************************************************)
(* Which stack a container belongs to and which entity is its own: how a   *)
(* poll joins Compose Manager folders, compose projects and container      *)
(* labels (model.merge_stacks), and how the entity registry follows        *)
(* (migration.py, entity.can_register_container, prune.py), while folders, *)
(* projects and labels come and go and sections cannot be read.            *)
(*                                                                         *)
(* One role stands for all entities of a container.  A poll and what it    *)
(* registers and removes are one step; Prune has the steps in between.     *)
(* Of containers that share a key, a fixed one is the first that is found. *)
(***************************************************************************)
EXTENDS Naturals, Sequences, Functions

CONSTANTS
    Folders,      \* the Compose Manager folders in the order they are listed
    ComposeName,  \* folder -> its name by compose's rule; names may be alike
    UnraidName,   \* folder -> the project name Unraid starts it under
    Project,      \* names of compose projects, also such as folders have
    Place,        \* project -> the folder its config files are in, or None
    Service,      \* services with a replica number
    Container,    \* Docker names
    Label,        \* the compose labels a container can show
    Failures,     \* the sets of sections that can be unreadable together
    None

Folder == Range(Folders)

ASSUME IdentityAssumption ==
    /\ ComposeName \in [Folder -> Project] /\ UnraidName \in [Folder -> Project]
    /\ Folders \in Seq(Folder)
    /\ Place \in [Project -> Folder \cup {None}]
    /\ Failures \subseteq SUBSET {"docker", "compose", "stacks"}
    /\ None \notin Folder \cup Project \cup Service \cup Container

VARIABLES
    folders,  \* the folders there are
    projects, \* the projects compose lists
    labels,   \* container -> its compose labels
    record    \* registered entity -> the container its options name, or None

vars == <<folders, projects, labels, record>>

\* Without a project, standalone; without a service or replica number,
\* incompletely labelled.
AnyLabel == [project : Project, service : Service \cup {None}] \cup [project : {None}, service : {None}]

\* An entity is known by its container's name or by stack and service.
Composed == [stack : Folder \cup Project, service : Service]
Key == Container \cup Composed

ASSUME KeyAssumption == Label \subseteq AnyLabel /\ Container \cap Composed = {}

-----------------------------------------------------------------------------
(* Joining folders, projects and containers                                *)

\* What a poll can read of the server.
Read(failed) ==
    [dirs   |-> IF "stacks" \in failed THEN {} ELSE folders,
     up     |-> IF "compose" \in failed THEN {} ELSE projects,
     labels |-> IF "docker" \in failed THEN <<>> ELSE labels]

Claim(matched, f, candidates) ==
    IF f \in DOMAIN matched \/ candidates \subseteq Range(matched) THEN matched
    ELSE [g \in DOMAIN matched \cup {f} |->
             IF g = f THEN CHOOSE p \in candidates \ Range(matched) : TRUE ELSE matched[g]]

\* One rule, applied to the folders in their order.
Resolve(n, candidates, matched) ==
    LET upTo[i \in 0..Len(Folders)] ==
            IF i = 0 THEN matched
            ELSE IF Folders[i] \in n.dirs THEN Claim(upTo[i - 1], Folders[i], candidates[Folders[i]])
            ELSE upTo[i - 1]
    IN  upTo[Len(Folders)]

ByName(derive, n, matched) == Resolve(n, [f \in Folder |-> {derive[f]} \cap n.up], matched)

ByPath(n, matched) == Resolve(n, [f \in Folder |-> {p \in n.up : Place[p] = f}], matched)

\* Mutation of MatchProjects: config files are looked at before Unraid's name.
MatchByPath(n) == ByName(UnraidName, n, ByPath(n, ByName(ComposeName, n, <<>>)))

\* _match_projects: each rule for all folders before the next.
MatchProjects(n) == ByPath(n, ByName(UnraidName, n, ByName(ComposeName, n, <<>>)))

\* A stack without a folder.
Named(n, p) == [name |-> p, folder |-> None, present |-> p \in n.up]

\* That of a folder, with its project if it has one.
OfFolder(n, matched, f) ==
    [name |-> IF f \in DOMAIN matched THEN matched[f] ELSE ComposeName[f],
     folder |-> f, present |-> f \in DOMAIN matched]

\* Mutation of MergeStacks: a project is also a stack of its own.
MergeStacksTwice(n) ==
    LET labelled == {n.labels[c].project : c \in DOMAIN n.labels} \ {None}
    IN  {OfFolder(n, MatchProjects(n), f) : f \in n.dirs} \cup {Named(n, p) : p \in n.up \cup labelled}

\* merge_stacks: folders, then projects without one, then labels without either.
MergeStacks(n) ==
    LET ofFolders == {OfFolder(n, MatchProjects(n), f) : f \in n.dirs}
        labelled  == {n.labels[c].project : c \in DOMAIN n.labels} \ {None}
        taken     == {s.name : s \in ofFolders}
    IN  ofFolders \cup {Named(n, p) : p \in (n.up \cup labelled) \ taken}

\* build_snapshot, of what could be read.
Built(n, failed) == [labels |-> n.labels, stacks |-> MergeStacks(n), failed |-> failed]

Snapshot(failed) == Built(Read(failed), failed)

\* Of stacks with one name, which all have folders, that of the first folder.
FindStack(n, p) ==
    LET same      == {s \in n.stacks : s.name = p}
        turn(s)   == {i \in DOMAIN Folders : Folders[i] = s.folder}
    IN  CHOOSE s \in same : \A t \in same \ {s} : \A j \in turn(t) : \E i \in turn(s) : i <= j

StackKey(s) == IF s.folder # None THEN s.folder ELSE s.name

-----------------------------------------------------------------------------
(* The identity of a container                                             *)

\* container_assignment_complete
Complete(n, c) == n.labels[c].project = None \/ n.failed = {}

Alike(n, c) == {d \in DOMAIN n.labels \ {c} : n.labels[d] = n.labels[c]}

\* container_identity
Status(n, c) ==
    CASE n.labels[c].project = None -> "stable"
      [] n.labels[c].project # None /\ (n.labels[c].service = None \/ n.failed # {}) -> "legacy"
      [] OTHER -> IF Alike(n, c) # {} THEN "ambiguous" ELSE "stable"

Canonical(n, c) == n.labels[c].project # None /\ Status(n, c) = "stable"

KeyOf(n, c) ==
    IF Canonical(n, c)
    THEN [stack |-> StackKey(FindStack(n, n.labels[c].project)), service |-> n.labels[c].service]
    ELSE c

\* current_container: which containers an entity with this key stands for.
Represented(n, k) == {c \in DOMAIN n.labels : KeyOf(n, c) = k}

\* expected_keys: every container of the snapshot has its keys.
Expected(n) == {KeyOf(n, c) : c \in DOMAIN n.labels}

-----------------------------------------------------------------------------
(* What a command goes to                                                  *)

\* Its config files are known: compose lists it, running or not.
HasFiles(s) == s.present

\* stack_switchable: a stack that could not be started again has no switch.
Switchable(s) == s.folder # None \/ HasFiles(s)

\* Mutation of StartedAs: under the name the stack has in the snapshot.
StartedAsShown(s) == s.name

\* stack_up_cmd
StartedAs(s) == IF s.folder # None THEN UnraidName[s.folder] ELSE s.name

\* container_updatable: compose updates a service with the files it was
\* started from.
Installable(n, c) ==
    n.labels[c].service # None => HasFiles(FindStack(n, n.labels[c].project))

\* What a poll finds when a stack has been switched on.
AfterStart(failed, s) == Built([Read(failed) EXCEPT !.up = @ \cup {StartedAs(s)}], failed)

-----------------------------------------------------------------------------
(* A poll                                                                  *)

\* Mutation of Regressed: the registry is not asked.
NeverRegressed(n, c, options) == FALSE

\* container_identity_regressed: an entity is on record as this container's.
Regressed(n, c, options) ==
    ~Canonical(n, c) /\ \E k \in DOMAIN options : options[k] = c

\* async_reconcile_devices: what goes by a name is renamed when the container
\* has an identity, unless there is an entity of that identity.
Renamed(n) ==
    LET known == {c \in DOMAIN n.labels \cap DOMAIN record : Canonical(n, c) /\ KeyOf(n, c) \notin DOMAIN record}
    IN  {c \in known : c = CHOOSE d \in known : KeyOf(n, d) = KeyOf(n, c)}

Reconciled(n) ==
    LET moved == [c \in Renamed(n) |-> KeyOf(n, c)]
        keys  == (DOMAIN record \ Renamed(n)) \cup Range(moved)
        owner(k) == {c \in Represented(n, k) : Canonical(n, c)}
    IN  [k \in keys |-> IF owner(k) # {} THEN CHOOSE c \in owner(k) : TRUE ELSE record[k]]

\* Mutation of Stale: what is not there is removed.
StaleAtOnce(n, options) == DOMAIN options \ Expected(n)

\* async_prune_stale: nobody expects it, its stack or container is gone.  Only
\* Docker has to be readable for that, also where a stack decides.
Stale(n, options) ==
    {k \in DOMAIN options \ Expected(n) :
        /\ "docker" \notin n.failed
        /\ IF k \in Composed THEN \A s \in n.stacks : StackKey(s) # k.stack
                             ELSE k \notin DOMAIN n.labels}

\* can_register_container
Registrable(n, options) ==
    {c \in DOMAIN n.labels : /\ Complete(n, c) /\ Status(n, c) # "ambiguous"
                             /\ ~Regressed(n, c, options)}

\* What is left when `gone`, whose grace period is over, are removed.
Kept(n, options) ==
    {Restrict(options, DOMAIN options \ gone) : gone \in SUBSET Stale(n, options)}

\* Mutation of Recorded: any project is an identity.
RecordedLoosely(n, c) == IF n.labels[c].project # None THEN c ELSE None

\* remember_container_identity
Recorded(n, c) == IF Canonical(n, c) THEN c ELSE None

\* The platforms register who is new.
Added(n, kept) ==
    LET new       == {c \in Registrable(n, kept) : KeyOf(n, c) \notin DOMAIN kept}
        member(k) == CHOOSE c \in new : KeyOf(n, c) = k
    IN  [k \in DOMAIN kept \cup {KeyOf(n, c) : c \in new} |->
            IF k \in DOMAIN kept THEN kept[k] ELSE Recorded(n, member(k))]

\* The reload that precedes some polls changes nothing: all evidence is in the
\* registry.
Poll(failed) ==
    /\ \E n \in {Snapshot(failed)} : \E kept \in Kept(n, Reconciled(n)) : record' = Added(n, kept)
    /\ UNCHANGED <<folders, projects, labels>>

-----------------------------------------------------------------------------
(* The server                                                              *)

FolderChanges(f) ==
    /\ folders' = IF f \in folders THEN folders \ {f} ELSE folders \cup {f}
    /\ UNCHANGED <<projects, labels, record>>

ProjectChanges(p) ==
    /\ projects' = IF p \in projects THEN projects \ {p} ELSE projects \cup {p}
    /\ UNCHANGED <<folders, labels, record>>

\* Created, recreated, or shown with other labels.
Labelled(c) ==
    /\ \E l \in Label : labels' = [d \in DOMAIN labels \cup {c} |-> IF d = c THEN l ELSE labels[d]]
    /\ UNCHANGED <<folders, projects, record>>

Removed(c) ==
    /\ c \in DOMAIN labels
    /\ labels' = Restrict(labels, DOMAIN labels \ {c})
    /\ UNCHANGED <<folders, projects, record>>

\* Entities named after their container are left from before version 0.4.0.
Init ==
    /\ folders = {} /\ projects = {} /\ labels = <<>>
    /\ \E legacy \in SUBSET Container : record = [c \in legacy |-> None]

Next ==
    \/ \E failed \in Failures : Poll(failed)
    \/ \E f \in Folder : FolderChanges(f)
    \/ \E p \in Project : ProjectChanges(p)
    \/ \E c \in Container : Labelled(c) \/ Removed(c)

Spec == Init /\ [][Next]_vars

-----------------------------------------------------------------------------
(* Properties                                                              *)

\* Every variable keeps its type.
TypeOK ==
    /\ folders \in SUBSET Folder
    /\ projects \in SUBSET Project
    /\ DOMAIN labels \in SUBSET Container /\ \A c \in DOMAIN labels : labels[c] \in Label
    /\ DOMAIN record \in SUBSET Key /\ \A k \in DOMAIN record : record[k] \in Container \cup {None}
    /\ \A k \in DOMAIN record : k \in Container => record[k] = None

\* A project is given to one folder at most, and to one that is named after it
\* if there is any: by compose's rule, or else by Unraid's, unless that folder
\* has the project of its other name.  Neither the order of the folders nor the
\* place of its files lets another folder have it, also when names are alike
\* (model.py:105).
NameBeforePath ==
    \A failed \in Failures :
        LET n          == Read(failed)
            matched    == MatchProjects(n)
            compose(p) == {f \in n.dirs : ComposeName[f] = p}
            unraid(p)  == {f \in n.dirs : /\ UnraidName[f] = p
                                          /\ f \in DOMAIN matched => matched[f] # ComposeName[f]}
            heirs(p)   == IF compose(p) # {} THEN compose(p) ELSE unraid(p)
        IN
        /\ \A f, g \in DOMAIN matched : matched[f] = matched[g] => f = g
        /\ \A p \in n.up : heirs(p) # {} => \E f \in heirs(p) \cap DOMAIN matched : matched[f] = p

\* A project without a folder is named like the folder of another stack.
Clash(s, t) == \E x, y \in {s, t} : x.folder # None /\ y.folder = None /\ y.name = x.folder

\* Whichever sections could be read: two stacks share a name only as folders
\* that compose's rule names alike, and two stacks or containers share a key
\* only if a project without a folder is named like the folder of the other
\* stack, which then has another name.  Otherwise an action never reaches
\* another container than the entity's (model.py:536).  In that one case it
\* does: duplicates are looked for within a project only (model.py:543).
Distinct ==
    \A failed \in Failures :
        LET n == Snapshot(failed)
            stack(c) == FindStack(n, n.labels[c].project)
        IN  /\ \A s, t \in n.stacks : s # t /\ s.name = t.name =>
                  {s.folder, t.folder} \subseteq Folder /\ ComposeName[s.folder] = ComposeName[t.folder]
            /\ \A s, t \in n.stacks : s # t /\ StackKey(s) = StackKey(t) => Clash(s, t)
            /\ \A c \in DOMAIN n.labels : \A d \in Represented(n, KeyOf(n, c)) \ {c} :
                  Clash(stack(c), stack(d))

\* No other folder has the name that Unraid starts this one under.
NamedAlone(f) == \A g \in folders \ {f} : UnraidName[f] \notin {ComposeName[g], UnraidName[g]}

\* A stack that compose does not list and that is switched on runs as the
\* project that Unraid's own button would start: the next poll finds it under
\* its old key, its services can be updated again, and it has no other stack's
\* project.  This needs a name of its own and the section with the projects;
\* without that a stack that runs under another name looks as if it were down
\* (actions.py:107).
StartsOnce ==
    \A failed \in {x \in Failures : "compose" \notin x} :
        LET n == Snapshot(failed)
        IN  \A s \in {t \in n.stacks : Switchable(t) /\ ~HasFiles(t) /\ NamedAlone(t.folder)} :
              LET after == AfterStart(failed, s)
              IN  /\ [name |-> UnraidName[s.folder], folder |-> s.folder, present |-> TRUE] \in after.stacks
                  /\ \A t \in n.stacks \ {s} : HasFiles(t) => t \in after.stacks
                  /\ \A c \in DOMAIN n.labels :
                        n.labels[c].project = UnraidName[s.folder] => Installable(after, c)

\* A container with a recorded compose identity does not get an entity named
\* after it when labels are lost or sections fail, whatever was registered,
\* renamed and removed before (entity.py:111).
NoAlias ==
    [][\A c \in Container :
          c \in DOMAIN record' \ DOMAIN record
          => \A k \in DOMAIN record' : record'[k] # c]_vars

\* A poll removes an entity that goes by a stack, while that stack is there,
\* only if it could not read the section that shows the stack: its folder, or
\* for a stack without one its project.  A container that is gone or unlabelled
\* for a while finds its entity again, unless the folders cannot be read in the
\* meantime (prune.py:40, 82).
KeepsItsPlace ==
    [][\A k \in (Composed \cap DOMAIN record) \ DOMAIN record' :
          \A s \in {t \in Snapshot({}).stacks : StackKey(t) = k.stack}, failed \in Failures :
              Poll(failed) => (IF s.folder # None THEN "stacks" ELSE "compose") \in failed]_vars

=============================================================================
