----------------------------- MODULE SerialJobs -----------------------------
(***************************************************************************)
(* What the update queue promises, without saying how: a saved line of     *)
(* jobs, of which the server runs one at a time, each once, in order.      *)
(***************************************************************************)
EXTENDS Sequences, Functions

CONSTANT Job

VARIABLES
    line,  \* the jobs that have been accepted, in order
    run    \* what the server did for each job

Idle(j) == run[j] = "idle"
Over(j) == run[j] = "over"

\* Jobs that may join the line: never run and not in it yet.
Fresh(new) == \A i \in DOMAIN new : Idle(new[i]) /\ new[i] \notin Range(line)

Init == line = <<>> /\ run = [j \in Job |-> "idle"]

\* New jobs join the end of the line.
Accept ==
    \E n \in DOMAIN line' \cup {0} :
        LET new == SubSeq(line', n + 1, Len(line'))
        IN  /\ SubSeq(line', 1, n) = line
            /\ new # <<>> /\ Fresh(new)
            /\ UNCHANGED run

\* When everything in the line is over, a new line replaces it.
Renew ==
    /\ \A i \in DOMAIN line : Over(line[i])
    /\ line' # <<>> /\ Fresh(line')
    /\ UNCHANGED run

\* A job starts when every job before it is over and no other job runs.
Start(j) ==
    /\ \E i \in DOMAIN line :
          /\ line[i] = j
          /\ \A k \in 1..(i - 1) : Over(line[k])
    /\ Idle(j)
    /\ \A k \in Job : run[k] # "busy"
    /\ run' = [run EXCEPT ![j] = "busy"]
    /\ UNCHANGED line

Finish(j) ==
    /\ run[j] = "busy"
    /\ run' = [run EXCEPT ![j] = "over"]
    /\ UNCHANGED line

Next == Accept \/ Renew \/ \E j \in Job : Start(j) \/ Finish(j)

Spec == Init /\ [][Next]_<<line, run>>

=============================================================================
