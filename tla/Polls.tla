------------------------------- MODULE Polls -------------------------------
(***************************************************************************)
(* The polls of one server (UnraidCoordinator) and the guarded command of  *)
(* a server action button, which polls before it sends.                    *)
(*                                                                         *)
(* Every poll asks for some groups of sections: those without a period     *)
(* always, the others when their deadline has passed.  Home Assistant does *)
(* not serialise polls, so the scheduled one, a requested one and the      *)
(* button's may be under way together and end in any order.  A poll is     *)
(* sent, the server runs it, and its answer arrives, with or without each  *)
(* of the sections it was asked for, or is lost.  A group either has a     *)
(* value or has none; what the values say is left open.                    *)
(***************************************************************************)
EXTENDS Integers, FiniteSets

CONSTANTS
    Dash,    \* groups of the snapshot and its dashboard: Array, Pools, ...
    Inv,     \* groups of the device inventory: users, USB, mapping, Coral
    Array,   \* the array's state
    Pools,   \* which devices the pools consist of
    Period,  \* group -> ticks between two attempts, 0 for every poll
    Poll     \* polls under way at once

Group == Dash \cup Inv
Timed == {g \in Group : Period[g] > 0}

ASSUME PollsAssumption ==
    /\ Array \in Dash /\ Pools \in Dash \ {Array} /\ Dash \cap Inv = {}
    /\ Period \in [Group -> Nat] /\ Period[Array] = 0

VARIABLES
    calm,     \* from now on no answer is lost and no section fails
    due,      \* group -> ticks until its deadline
    polls,    \* poll -> how far it is and what it asks for
    up,       \* the first poll has succeeded: the entry is set up
    success,  \* last_update_success
    data,     \* the groups the snapshot has a value of
    fresh,    \* its pools were asked for in the poll the snapshot comes from
    inv,      \* the groups _inventory_state has a value of
    press,    \* the press of a server action button
    \* History:
    recent,   \* the groups whose value in `data` was sampled since the press
    rested,   \* group -> ticks since it was last asked for, up to its period
    good,     \* groups of the inventory whose attempt that ended last was read
    answered  \* groups of the dashboard whose attempt answered last was read

vars == <<calm, due, polls, up, success, data, fresh, inv, press, recent, rested, good, answered>>

\* `late` is history as well: the server ran it since the press.
Idle      == [step |-> "idle", asked |-> {}, mine |-> FALSE, late |-> FALSE]
\* `slots`: the array the command was judged on lists slots of pools.
Unpressed == [step |-> "none", action |-> "none", slots |-> FALSE]

-----------------------------------------------------------------------------
(* A poll starts                                                           *)

Due == {g \in Group : due[g] = 0}

\* Mutation of Advance: the deadline only moves when the answer is there.
AdvanceLater(asked) == due
\* Mutation of Advance: every poll moves every deadline.
AdvanceAll(asked) == Period

\* Deadlines move for what is asked for, whatever comes of it.
Advance(asked) == [g \in Group |-> IF g \in asked THEN Period[g] ELSE due[g]]

\* Up to the command's await; the command names the groups.
Start(p, asked, mine) ==
    /\ polls[p] = Idle
    /\ due' = Advance(asked)
    /\ rested' = [g \in Group |-> IF g \in asked THEN 0 ELSE rested[g]]
    /\ polls' = [polls EXCEPT ![p] = [Idle EXCEPT !.step = "sent", !.asked = asked, !.mine = mine]]
    /\ UNCHANGED <<calm, up, success, data, fresh, inv, recent, good, answered>>

\* The timer's poll, and the one after a switch or button was used.
Scheduled(p) ==
    /\ up \/ \A q \in Poll : polls[q] = Idle
    /\ Start(p, Due, FALSE)
    /\ UNCHANGED press

Forced(action) == IF action = "start" THEN {Pools} ELSE {}

\* The button's own; a start of the array asks for the pools off their cadence.
Press(p, action) ==
    /\ up /\ press = Unpressed
    /\ Start(p, Due \cup Forced(action), TRUE)
    /\ press' = [Unpressed EXCEPT !.step = "polling", !.action = action]

\* The server runs the command.
Sampled(p) ==
    /\ polls[p].step = "sent"
    /\ polls' = [polls EXCEPT ![p].step = "sampled", ![p].late = press # Unpressed]
    /\ UNCHANGED <<calm, due, up, success, data, fresh, inv, press, recent, rested, good, answered>>

-----------------------------------------------------------------------------
(* It ends                                                                 *)

\* Mutation of Previous: the carried inventory is that of the last snapshot.
PreviousShown == data

\* Looked up when the answer is there, not when the poll began.
Previous == (data \ Inv) \cup inv

\* A group that was asked for is read or missing, another is carried over.
Merge(previous, asked, read) == (previous \ asked) \cup read

\* The groups a command rests on; without slots of pools an array starts on
\* what the array says.
Needed(action, slots) == {Array} \cup (IF action = "start" /\ slots THEN {Pools} ELSE {})

\* What the values say is left open: they may always forbid the command.
Permits(action, slots) ==
    /\ Needed(action, slots) \subseteq data'
    /\ Pools \in Needed(action, slots) => fresh'

\* Mutation of Judge: whatever is known is good enough.
JudgeAnyway(p) ==
    \/ ~polls[p].mine /\ UNCHANGED press
    \/ polls[p].mine /\ press' = Unpressed
    \/ /\ polls[p].mine
       /\ \E slots \in BOOLEAN :
             /\ Permits(press.action, slots)
             /\ press' = [press EXCEPT !.step = "sent", !.slots = slots]

\* The button looks at the snapshot in the same step its own poll ends in.
Judge(p) ==
    \/ ~polls[p].mine /\ UNCHANGED press
    \/ polls[p].mine /\ press' = Unpressed
    \/ /\ polls[p].mine /\ success'
       /\ \E slots \in BOOLEAN :
             /\ Permits(press.action, slots)
             /\ press' = [press EXCEPT !.step = "sent", !.slots = slots]

\* Without a press nothing counts as sampled since.
Remember(p, now) ==
    /\ polls' = [q \in Poll |-> IF q = p THEN Idle
                                ELSE [polls[q] EXCEPT !.late = @ /\ press' # Unpressed]]
    /\ recent' = IF press' = Unpressed THEN {} ELSE now

Arrives(p) ==
    LET asked == polls[p].asked IN
    /\ polls[p].step = "sampled"
    /\ \E read \in SUBSET asked :
          /\ calm => read = asked
          /\ data' = Merge(Previous, asked, read)
          /\ inv' = data' \cap Inv
          /\ fresh' = (Pools \in asked)
          /\ success' = TRUE
          /\ Judge(p)
          /\ Remember(p, Merge(recent, asked, IF polls[p].late THEN read ELSE {}))
          /\ good' = Merge(good, asked, read) \cap Timed \cap Inv
          /\ answered' = Merge(answered, asked, read) \cap Timed \cap Dash
    /\ up' = TRUE
    /\ UNCHANGED <<calm, due, rested>>

\* No connection, a refused key or login, or an answer without its end.  The
\* inventory loses what was asked for, the snapshot keeps what it shows.
Lost(p) ==
    LET asked == polls[p].asked IN
    /\ up /\ ~calm
    /\ polls[p] # Idle
    /\ success' = FALSE
    /\ inv' = Merge(inv, asked, {})
    /\ UNCHANGED <<data, fresh>>
    /\ Judge(p)
    /\ Remember(p, recent)
    /\ good' = Merge(good, asked, {})
    /\ UNCHANGED <<calm, due, up, rested, answered>>

\* A lost first poll ends the setup, and the next one has a coordinator of its
\* own.
SetupFails(p) ==
    /\ ~up /\ ~calm
    /\ polls[p] # Idle
    /\ due' = [g \in Group |-> 0]
    /\ polls' = [q \in Poll |-> Idle]
    /\ rested' = Period
    /\ UNCHANGED <<calm, up, success, data, fresh, inv, press, recent, good, answered>>

\* The command has run or its outcome is unknown; it is not sent again.
Finished ==
    /\ press.step = "sent"
    /\ press' = Unpressed
    /\ recent' = {}
    /\ polls' = [p \in Poll |-> [polls[p] EXCEPT !.late = FALSE]]
    /\ UNCHANGED <<calm, due, up, success, data, fresh, inv, rested, good, answered>>

-----------------------------------------------------------------------------

\* Mutation of Tick: a deadline that has passed keeps running.
TickOn ==
    /\ due' = [g \in Group |-> due[g] - 1]
    /\ rested' = [g \in Group |-> IF rested[g] < Period[g] THEN rested[g] + 1 ELSE rested[g]]
    /\ UNCHANGED <<calm, polls, up, success, data, fresh, inv, press, recent, good, answered>>

Tick ==
    /\ Due # Group
    /\ due' = [g \in Group |-> IF due[g] > 0 THEN due[g] - 1 ELSE 0]
    /\ rested' = [g \in Group |-> IF rested[g] < Period[g] THEN rested[g] + 1 ELSE rested[g]]
    /\ UNCHANGED <<calm, polls, up, success, data, fresh, inv, press, recent, good, answered>>

Calms ==
    /\ ~calm
    /\ calm' = TRUE
    /\ UNCHANGED <<due, polls, up, success, data, fresh, inv, press, recent, rested, good, answered>>

Init ==
    /\ calm = FALSE
    /\ due = [g \in Group |-> 0]
    /\ polls = [p \in Poll |-> Idle]
    /\ up = FALSE /\ success = TRUE
    /\ data = {} /\ fresh = FALSE /\ inv = {}
    /\ press = Unpressed
    /\ recent = {} /\ rested = Period /\ good = {} /\ answered = {}

Ends(p) == Arrives(p) \/ Lost(p) \/ SetupFails(p)

Next ==
    \/ \E p \in Poll : Scheduled(p) \/ Sampled(p) \/ Ends(p)
    \/ \E p \in Poll, action \in {"start", "other"} : Press(p, action)
    \/ Finished \/ Tick \/ Calms

\* The timer goes off, time passes, and every poll ends: the connection has a
\* timeout.
Fairness ==
    /\ WF_vars(Tick)
    /\ \A p \in Poll : WF_vars(Sampled(p)) /\ WF_vars(Ends(p))
    /\ WF_vars(\E p \in Poll : Scheduled(p))

Spec == Init /\ [][Next]_vars /\ Fairness

-----------------------------------------------------------------------------
(* Properties                                                              *)

\* Every variable keeps its type, and a press waits for one poll of its own.
TypeOK ==
    /\ {calm, up, success, fresh} \subseteq BOOLEAN
    /\ due \in [Group -> Nat] /\ rested \in [Group -> Nat]
    /\ \A g \in Group : due[g] <= Period[g] /\ rested[g] <= Period[g]
    /\ polls \in [Poll -> [step : {"idle", "sent", "sampled"}, asked : SUBSET Group,
                           mine : BOOLEAN, late : BOOLEAN]]
    /\ data \in SUBSET Group /\ inv \in SUBSET Inv
    /\ recent \in SUBSET Group /\ good \in SUBSET (Timed \cap Inv) /\ answered \in SUBSET (Timed \cap Dash)
    /\ press \in [step : {"none", "polling", "sent"}, action : {"none", "start", "other"},
                 slots : BOOLEAN]
    /\ \A p, q \in Poll : polls[p].mine /\ polls[q].mine => p = q
    /\ press.step = "polling" <=> \E p \in Poll : polls[p].mine

\* What a poll shows has not failed since: a poll that skips a group does not
\* bring back what was read before a failed attempt, although that poll may
\* have begun before the attempt ended.  Of the inventory not even what was
\* read before an attempt that was lost comes back (coordinator.py:133); the
\* groups of the dashboard have no such sample of their own, so there only an
\* answer without the group takes its value away.
NoRevival ==
    up /\ success => /\ data \cap Timed \cap Inv \subseteq good
                     /\ data \cap Timed \cap Dash \subseteq answered

\* A command is only sent on values the server was asked for since the press:
\* neither the snapshot before the press nor pools from an earlier poll
\* decide, whatever polls end in between (button.py:181, coordinator.py:113).
\* A start of the array needs the pools unless the array lists no slot of one.
FreshVerdict ==
    [][press.step = "polling" /\ press'.step = "sent"
       => Needed(press'.action, press'.slots) \subseteq recent']_vars

\* Failing probes are not retried on the cadence of the polls: nobody but a
\* start of the array asks for a group before its period is over
\* (coordinator.py:120).
Spaced ==
    [][\A p \in Poll, g \in Group :
          polls[p] = Idle /\ g \in polls'[p].asked /\ rested[g] < Period[g]
          => polls'[p].mine /\ g \in Forced(press'.action)]_vars

\* Once answers come in whole again, every group is shown again, however the
\* deadlines stood.
Recovers == calm ~> data = Group

=============================================================================
