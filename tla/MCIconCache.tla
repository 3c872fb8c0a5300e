---------------------------- MODULE MCIconCache ----------------------------
(***************************************************************************)
(* Instance of IconCache for TLC: a picture copied from a file, with and   *)
(* without a label URL to fall back on, or no picture at all.              *)
(***************************************************************************)
EXTENDS IconCache, TLC

MCSource   == {Gone, "file", "file or label"}
MCCopied   == {"file", "file or label"}
MCFallback == [s \in MCSource |-> IF s = "file or label" THEN "url" ELSE NoPicture]

CONSTANTS plex, media, png, svg
MCName  == {plex, media}
MCImage == {png, svg}

\* The two tasks run the same code, a name is just a key, an image a hash.
Symmetry == Permutations(Worker) \cup Permutations(Name) \cup Permutations(Image)

=============================================================================
