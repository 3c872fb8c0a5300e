------------------------------ MODULE Pictures ------------------------------
(***************************************************************************)
(* Where the picture of one stack comes from: a stack has none of its own, *)
(* so it shows that of its first service with one (icons.py), in the order *)
(* of its compose files (parse.parse_stack_services), while containers are *)
(* started, removed and recreated, files are edited or broken, and polls   *)
(* lack some sections: without the folders the stack is at most one that   *)
(* is named after its containers, and without the projects it may look as  *)
(* if it had none.  IconCache has what follows from the choice.            *)
(***************************************************************************)
EXTENDS Naturals, Sequences, SequencesExt

CONSTANTS
    Service,  \* the services of the stack
    File,     \* what a compose file can say: entries in their order
    Kind,     \* what docker and the cache can say of a container's picture
    OwnName,  \* its project is called what compose's rule makes of its name
    OwnKey,   \* its project is called like its folder
    Failures, \* the sections that can be unreadable together
    MaxListed, \* bound: containers of the stack
    Nothing   \* no reading, no label, no picture

Url   == "url"
Blank == "blank"  \* a label that is empty or no usable URL
Said == {Nothing, Blank, Url}

Entry   == [service : Service, label : Said]
Picture == [of : Service, from : {"file", Url, "label"}]

\* Assumed where this module is instantiated.
PicturesAssumption ==
    /\ Nothing \notin {Url, Blank, "file"} /\ Nothing \notin Picture
    /\ Kind \subseteq [cached : BOOLEAN, label : Said]
    /\ File \subseteq Seq(Entry)
    /\ {OwnName, OwnKey} \subseteq BOOLEAN /\ MaxListed \in Nat
    /\ \A f \in File : \A i, j \in DOMAIN f : f[i].service = f[j].service => i = j

VARIABLES
    listing,   \* the containers in the order docker lists them, newest first
    services,  \* the last reading of the compose files
    shown,     \* the source of the stack's picture
    missing    \* the sections the last poll could not read

vars == <<listing, services, shown, missing>>

-----------------------------------------------------------------------------
(* The compose files                                                       *)

Named(file) == {file[i].service : i \in DOMAIN file}

\* _icon_label
LabelIn(file, s) ==
    IF s \in Named(file) THEN file[CHOOSE i \in DOMAIN file : file[i].service = s].label ELSE Nothing

\* The services of the main file, then those that only the override adds.
Order(main, override) ==
    LET upTo[i \in 0..Len(override)] ==
            IF i = 0 THEN [j \in 1..Len(main) |-> main[j].service]
            ELSE IF override[i].service \in Named(main) THEN upTo[i - 1]
            ELSE Append(upTo[i - 1], override[i].service)
    IN  upTo[Len(override)]

\* parse_stack_services: the override's label wins, also when it is blank.
Parsed(main, override) ==
    LET label(s) == IF LabelIn(override, s) # Nothing THEN LabelIn(override, s) ELSE LabelIn(main, s)
    IN  [order |-> Order(main, override),
         icons |-> {s \in Named(main) \cup Named(override) : label(s) = Url}]

-----------------------------------------------------------------------------
(* The choice                                                              *)

\* select_icon: the cache of the server, then the container's own label.
SelectIcon(k) == CASE k.cached -> "file" [] ~k.cached /\ k.label = Url -> Url [] OTHER -> Nothing

\* The first of these containers with a picture, in docker's order.
FirstOf(members, at) ==
    LET pictured == {i \in at : SelectIcon(members[i].kind) # Nothing}
        first    == members[Min(pictured)]
    IN  IF pictured = {} THEN Nothing ELSE [of |-> first.service, from |-> SelectIcon(first.kind)]

OwnPicture(members) == FirstOf(members, DOMAIN members)

\* A service's container has the first word, its label in the files the last.
ServicePicture(members, read, s) ==
    LET own == FirstOf(members, {i \in DOMAIN members : members[i].service = s})
    IN  IF own = Nothing /\ s \in read.icons THEN [of |-> s, from |-> "label"] ELSE own

\* Of the first service with one.
ListedPicture(members, read) ==
    LET pictured == {k \in DOMAIN read.order : ServicePicture(members, read, read.order[k]) # Nothing}
    IN  IF pictured = {} THEN Nothing ELSE ServicePicture(members, read, read.order[Min(pictured)])

Either(picture, other) == IF picture # Nothing THEN picture ELSE other

\* Mutation of SelectStackIcon: containers come before services.
SelectStackIconRunning(members, read) ==
    Either(OwnPicture(members), IF read = Nothing THEN Nothing ELSE ListedPicture(members, read))

\* select_stack_icon: services in order, then containers the files do not list.
SelectStackIcon(members, read) ==
    Either(IF read = Nothing THEN Nothing ELSE ListedPicture(members, read), OwnPicture(members))

-----------------------------------------------------------------------------
(* Polls                                                                   *)

\* merge_stacks: with its project unlisted, the folder is looked for under its
\* compose name, and its containers only if they are labelled with that.
Members == IF "compose" \in missing' /\ ~OwnName THEN <<>> ELSE listing'

\* Without its folder it has no files, and is there as what containers are
\* labelled with.
Unfoldered == IF OwnKey THEN listing' ELSE <<>>

\* schedule: a poll that could not read pictures or containers ("docker")
\* changes nothing.
Scheduled ==
    \/ "docker" \in missing' /\ UNCHANGED shown
    \/ missing' \cap {"docker", "stacks"} = {} /\ shown' = SelectStackIcon(Members, services')
    \/ missing' \cap {"docker", "stacks"} = {"stacks"} /\ shown' = SelectStackIcon(Unfoldered, Nothing)

\* A container is removed, recreated or changed, or created; a service may have
\* several.
Relisted ==
    \/ listing' = listing
    \/ \E i \in DOMAIN listing : listing' = RemoveAt(listing, i)
    \/ \E i \in DOMAIN listing, k \in Kind :
          listing' = <<[service |-> listing[i].service, kind |-> k]>> \o RemoveAt(listing, i)
    \/ /\ Len(listing) < MaxListed
       /\ \E s \in Service, k \in Kind : listing' = <<[service |-> s, kind |-> k]>> \o listing

\* A file with an error, or none: nothing is known of this stack.
Reread == services' \in {Nothing} \cup {Parsed(main, override) : main, override \in File}

\* Between two polls containers change or files; the section with the files may
\* also be missing or useless, and the last reading stays.
Poll ==
    \/ Relisted /\ services' = services
    \/ listing' = listing /\ Reread

Next == missing' \in Failures /\ Poll /\ Scheduled

Init == listing = <<>> /\ services = Nothing /\ shown = Nothing /\ missing = {"docker"}

Spec == Init /\ [][Next]_vars

-----------------------------------------------------------------------------
(* Properties                                                              *)

\* The stack is shown by its folder.
Folded(unread) == unread \cap {"docker", "stacks"} = {}

\* A stack with a picture in its compose files shows one, up or down, whenever
\* containers, pictures and folders could be read.
Labelled ==
    Folded(missing) /\ services # Nothing /\ services.icons # {} => shown # Nothing

\* Its containers are known to be its own.
Joined(unread) == Folded(unread) /\ ("compose" \in unread => OwnName)

At(members, s) == {i \in DOMAIN members : members[i].service = s}

\* The same containers of a service, in the same order.
Untouched(s) ==
    \E to \in [At(listing, s) -> At(listing', s)] :
        /\ \A i \in At(listing, s) : listing'[to[i]] = listing[i]
        /\ \A i, j \in At(listing, s) : i < j => to[i] < to[j]
        /\ \A k \in At(listing', s) : \E i \in At(listing, s) : to[i] = k

\* What decides is the compose order: nothing that is created, recreated or
\* removed behind the deciding service changes the picture from one poll to the
\* next, if both could join the containers to the stack.
Steady ==
    [][Joined(missing) /\ Joined(missing') /\ services' = services /\ services # Nothing /\ shown # Nothing
       => \A i \in DOMAIN services.order :
             services.order[i] = shown.of /\ (\A j \in 1..i : Untouched(services.order[j]))
             => shown' = shown]_vars

=============================================================================
