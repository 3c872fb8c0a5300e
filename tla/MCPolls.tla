------------------------------ MODULE MCPolls ------------------------------
(***************************************************************************)
(* Instance of Polls for TLC: the array, the pools and the users, and two  *)
(* polls at once.                                                          *)
(***************************************************************************)
EXTENDS Polls

CONSTANTS array, pools, users, p1, p2

MCDash   == {array, pools}
MCInv    == {users}
MCPeriod == [g \in MCDash \cup MCInv |-> IF g = users THEN 2 ELSE IF g = pools THEN 1 ELSE 0]
MCPoll   == {p1, p2}

=============================================================================
