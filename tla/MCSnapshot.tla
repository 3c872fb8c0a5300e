----------------------------- MODULE MCSnapshot -----------------------------
(***************************************************************************)
(* The answer to a poll, for TLC.  `net` is a folder of one name; `web`    *)
(* has a name file, and compose's rule makes of it the name of the other   *)
(* folder, as bridge is made of _bridge, but Unraid does not.  There may   *)
(* also be a project that is called like the folder `web`.  The projects'  *)
(* files lie in the folder that is not theirs by name.  Two slots run two  *)
(* groups of probes.  The project of the stack with the picture is called  *)
(* like its folder, which has another name.                                *)
(***************************************************************************)
EXTENDS SnapshotParts, SequencesExt, TLC

CONSTANTS net, web, plain, line, app, c1, c2

MCFolders     == <<net, web>>
MCComposeName == (net :> plain) @@ (web :> plain)
MCUnraidName  == (net :> plain) @@ (web :> line)
MCProject     == {plain, line, web}
MCPlace       == (plain :> web) @@ (line :> net) @@ (web :> net)
MCService     == {app}
MCContainer   == {c1, c2}
MCLabel       == [project : {line, web}, service : {app}]
                   \cup [project : {line, None}, service : {None}]
MCFailures    == {{}, {"docker"}, {"compose"}, {"stacks"}, {"compose", "stacks"}}

\* A probe is fast, takes most of its allowance, or hangs.
MCGroups == <<<<"cpu", "power", "vms", "stats">>, <<"smart", "pools">>>>
MCBudget == <<6, 4>>
MCCap    == [p \in ToSet(FlattenSeq(MCGroups)) |-> IF p = "stats" THEN 3 ELSE 2]
MCNeed   == [p \in ToSet(FlattenSeq(MCGroups)) |-> IF p \in {"smart", "pools"} THEN {1, 9} ELSE {1, 2, 9}]

\* A service that only the override adds, or that no file lists.
MCListed == {app, web}
MCFile ==
    {<<>>} \cup {<<[service |-> app, label |-> l]>> : l \in {None, "blank", "url"}}
        \cup {<<[service |-> web, label |-> "url"], [service |-> app, label |-> None]>>}

MCPictureKind == [cached : {FALSE}, label : {None, "url"}] \cup [cached : {TRUE}, label : {None}]

=============================================================================
