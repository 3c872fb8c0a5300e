--------------------------- MODULE MCUpdateQueue ---------------------------
(***************************************************************************)
(* Instance of UpdateQueue for TLC: two containers, one of them a compose  *)
(* service, and the requests "update one" and "update all".                *)
(***************************************************************************)
EXTENDS UpdateQueue, TLC

CONSTANTS
    a1, a2,   \* jobs that update the template container
    b1        \* the job that updates the compose service

MCJob      == {a1, a2, b1}
MCTarget   == {"template", "service"}
MCTargetOf == (a1 :> "template") @@ (a2 :> "template") @@ (b1 :> "service")
MCCompose  == {"service"}
MCBatches  == {<<a1>>, <<a2>>, <<b1>>}
              \cup {<<a1, b1>>, <<a2, b1>>, <<b1, a1>>, <<b1, a2>>}

\* For liveness: one job per target.
LiveJob      == {a1, b1}
LiveTargetOf == (a1 :> "template") @@ (b1 :> "service")
LiveBatches  == {<<a1>>, <<b1>>, <<a1, b1>>, <<b1, a1>>}

\* The two jobs of one target are interchangeable.
SameTarget == Permutations({a1, a2})

=============================================================================
