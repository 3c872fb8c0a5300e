------------------------------- MODULE Probes -------------------------------
(***************************************************************************)
(* The scheduler that runs the probes of one poll on the server            *)
(* (build_state_command) and the reading of its answer (split_output).     *)
(*                                                                         *)
(* Probes run in groups, one group after the other, each with a budget of  *)
(* its own.  A probe starts when a slot is free; `timeout` ends it when    *)
(* its allowance is used up and kills its process group a grace later.     *)
(* The answer lists the probes in order, each with its output and status,  *)
(* and may arrive cut off anywhere.  What the shell does between two       *)
(* probes takes no time.                                                   *)
(***************************************************************************)
EXTENDS Integers, Sequences, SequencesExt

CONSTANTS
    Groups,  \* the groups, each a sequence of probes
    Budget,  \* group -> the time it may take
    Cap,     \* probe -> its allowance at most
    Need,    \* probe -> the times it may take if nothing ends it
    Grace,   \* from the end of an allowance to the kill
    Slots,   \* probes at once
    None

Probe == UNION {Range(Groups[g]) : g \in DOMAIN Groups}
Order == FlattenSeq(Groups)

\* Assumed where this module is instantiated.
ProbesAssumption ==
    /\ Groups \in Seq(Seq(Probe)) \ {<<>>} /\ IsInjective(Order)
    /\ {None, "end"} \cap Probe = {} /\ None # "end" /\ None \notin BOOLEAN
    /\ Budget \in [DOMAIN Groups -> Nat] /\ Grace \in Nat /\ Slots \in Nat \ {0}
    /\ Cap \in [Probe -> Nat \ {0}] /\ Need \in [Probe -> SUBSET (Nat \ {0})]

VARIABLES
    step,      \* "idle", "running", "read", "truncated"
    group,     \* the group that runs
    launched,  \* how many of its probes were started or skipped
    clock,     \* time since the poll began
    deadline,  \* of the group
    need,      \* probe -> the time it takes if nothing ends it
    jobs,      \* running probe -> when it ends, by itself or by the kill
    whole,     \* the probes that ended by themselves with status 0
    faulty,    \* those that ended by themselves with another status
    sections   \* the probes whose output was read

vars == <<step, group, launched, clock, deadline, need, jobs, whole, faulty, sections>>

Init ==
    /\ step = "idle" /\ group = 1 /\ launched = 0 /\ clock = 0 /\ deadline = Budget[1]
    /\ need = <<>> /\ jobs = <<>> /\ whole = {} /\ faulty = {} /\ sections = {}

-----------------------------------------------------------------------------
(* The server                                                              *)

Begin ==
    /\ step = "idle" /\ step' = "running"
    /\ need' \in {n \in [Probe -> UNION Range(Need)] : \A p \in Probe : n[p] \in Need[p]}
    /\ UNCHANGED <<group, launched, clock, deadline, jobs, whole, faulty, sections>>

\* What is left for a probe that starts now.
Remaining == deadline - clock - Grace

SlotFree  == Cardinality(DOMAIN jobs) < Slots
Launching == step = "running" /\ launched < Len(Groups[group])

\* Starts the next probe, or skips it when no time is left.
Launch ==
    /\ Launching /\ SlotFree
    /\ launched' = launched + 1
    /\ LET p       == Groups[group][launched + 1]
           allowed == Min({Remaining, Cap[p]})
           end     == IF need[p] <= allowed THEN need[p] ELSE allowed + Grace
       IN  jobs' = IF Remaining <= 0 THEN jobs
                   ELSE [q \in DOMAIN jobs \cup {p} |->
                            IF q = p THEN [ends |-> clock + end, ok |-> need[p] <= allowed] ELSE jobs[q]]
    /\ UNCHANGED <<step, group, clock, deadline, need, whole, faulty, sections>>

\* The launcher waits for any of them when all slots are taken, and for each of
\* them when it has launched the last.  A probe may also fail by itself.
JobEnds(p) ==
    /\ ~(Launching /\ SlotFree)
    /\ \A q \in DOMAIN jobs : jobs[p].ends <= jobs[q].ends
    /\ clock' = jobs[p].ends
    /\ jobs' = Restrict(jobs, DOMAIN jobs \ {p})
    /\ \/ jobs[p].ok /\ whole' = whole \cup {p} /\ UNCHANGED faulty
       \/ jobs[p].ok /\ faulty' = faulty \cup {p} /\ UNCHANGED whole
       \/ ~jobs[p].ok /\ UNCHANGED <<whole, faulty>>
    /\ UNCHANGED <<step, group, launched, deadline, need, sections>>

\* The output of the group is written, the next one starts.
NextGroup ==
    /\ step = "running" /\ ~Launching /\ jobs = <<>> /\ group < Len(Groups)
    /\ group' = group + 1 /\ launched' = 0 /\ deadline' = clock + Budget[group + 1]
    /\ UNCHANGED <<step, clock, need, jobs, whole, faulty, sections>>

-----------------------------------------------------------------------------
(* The answer                                                              *)

\* Every probe between two markers, the second with its status, and a last
\* marker at the end.  A probe that was skipped has no output.
Markers == 2 * Len(Order) + 1

Answer(i) ==
    IF i = Markers THEN [name |-> "end", status |-> None]
    ELSE LET p == Order[(i + 1) \div 2]
         IN  [name |-> p, status |-> IF i % 2 = 1 THEN None ELSE p \in whole]

\* Mutation of Marker: whatever the status, the output is used.
MarkerAnyStatus(read, m) ==
    [current  |-> IF m.status = None THEN m.name ELSE None,
     sections |-> IF m.status = None THEN read.sections ELSE read.sections \cup {m.name}]

\* A status closes the section that is open, and discards it unless it is 0; a
\* name without one opens the next.
Marker(read, m) ==
    IF m.status = None
    THEN [current  |-> m.name,
          sections |-> IF read.current = None THEN read.sections ELSE read.sections \cup {read.current}]
    ELSE [current  |-> None,
          sections |-> IF read.current = m.name /\ m.status THEN read.sections \cup {m.name}
                       ELSE read.sections \ {m.name}]

\* split_output, on the first n markers.
SplitOutput(n) ==
    LET upTo[i \in 0..n] ==
            IF i = 0 THEN [current |-> None, sections |-> {}] ELSE Marker(upTo[i - 1], Answer(i))
    IN  upTo[n]

Read(n) ==
    /\ step = "running" /\ ~Launching /\ jobs = <<>> /\ group = Len(Groups)
    /\ \E read \in {SplitOutput(n)} :
          IF read.current = "end" THEN step' = "read" /\ sections' = read.sections
          ELSE step' = "truncated" /\ UNCHANGED sections
    /\ UNCHANGED <<group, launched, clock, deadline, need, jobs, whole, faulty>>

Next ==
    \/ Begin \/ Launch \/ NextGroup
    \/ \E p \in DOMAIN jobs : JobEnds(p)
    \/ \E n \in 0..Markers : Read(n)

Spec == Init /\ [][Next]_vars

-----------------------------------------------------------------------------
(* Properties                                                              *)

\* What the groups up to this one may take together.
Allowance[g \in 0..Len(Groups)] == IF g = 0 THEN 0 ELSE Allowance[g - 1] + Budget[g]

\* However long probes take, a group is over within its budget, kills included,
\* and no more probes run at once than there are slots: the poll ends before its
\* own timeout (collect.py:240).
Bounded ==
    /\ clock <= deadline
    /\ deadline <= Allowance[group]
    /\ Cardinality(DOMAIN jobs) <= Slots

Hanging(times, g) == {p \in Range(Groups[g]) : times[p] > Cap[p]}
Calm(times, g)    == Range(Groups[g]) \ Hanging(times, g)

\* What the first n probes of a group take that do not hang.
CalmTime(times, g, n) ==
    LET upTo[i \in 0..Len(Groups[g])] ==
            IF i = 0 THEN 0
            ELSE upTo[i - 1] + IF Groups[g][i] \in Calm(times, g) THEN times[Groups[g][i]] ELSE 0
    IN  upTo[n]

\* Fewer hanging probes than slots leave one slot to the others: if those fit
\* into the budget one after the other, each of them ends by itself.
Unhindered(times, g) ==
    /\ Cardinality(Hanging(times, g)) < Slots
    /\ CalmTime(times, g, Len(Groups[g])) <= Budget[g] - Grace

\* What is read are exactly the probes that ended by themselves with status 0,
\* never half of an output, and hanging probes cost no other one its result: as
\* long as they leave a slot and the rest fits into the budget, every other one
\* is read or has failed by itself (collect.py:225).
OnlyWhole ==
    step = "read" =>
        /\ sections = whole
        /\ \A p \in whole : need[p] <= Cap[p]
        /\ \A g \in DOMAIN Groups : Unhindered(need, g) => Calm(need, g) \subseteq sections \cup faulty

=============================================================================
