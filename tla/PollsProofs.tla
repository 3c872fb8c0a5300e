---------------------------- MODULE PollsProofs ----------------------------
(***************************************************************************)
(* Proofs about Polls, for any groups, periods and number of polls under   *)
(* way at once.                                                            *)
(***************************************************************************)
EXTENDS Polls, TLAPS

-----------------------------------------------------------------------------
(* The inductive invariant                                                 *)

PressType == [step : {"none", "polling", "sent"}, action : {"none", "start", "other"}, slots : BOOLEAN]
PollType == [step : {"idle", "sent", "sampled"}, asked : SUBSET Group, mine : BOOLEAN, late : BOOLEAN]

\* What a deadline and the time since the last attempt have in common.
Clocks ==
    /\ due \in [Group -> Nat] /\ rested \in [Group -> Nat]
    /\ \A g \in Group : due[g] + rested[g] = Period[g]

\* Values that may be carried over have been read by the attempt that ended
\* last, those of the dashboard by the one that was answered last; and a
\* snapshot after a success carries no other inventory.
Carried ==
    /\ data \in SUBSET Group /\ inv \in SUBSET Inv
    /\ good \in SUBSET (Timed \cap Inv) /\ answered \in SUBSET (Timed \cap Dash)
    /\ (data \ Inv) \cap Timed \subseteq answered
    /\ inv \cap Timed \subseteq good
    /\ success => data \cap Inv = inv

\* A poll asks for the array, and the button's one for all it needs; its press
\* waits for it, so the server runs it after the press.
Asked ==
    /\ polls \in [Poll -> PollType]
    /\ press \in PressType
    /\ \A p \in Poll : polls[p].step # "idle" => Array \in polls[p].asked
    /\ \A p, q \in Poll : polls[p].mine /\ polls[q].mine => p = q
    /\ press.step = "polling" <=> \E p \in Poll : polls[p].mine
    /\ ~up => press = Unpressed
    /\ \A p \in Poll : polls[p].mine /\ polls[p].step = "sampled" => polls[p].late

Flags ==
    /\ {calm, up, success, fresh} \subseteq BOOLEAN
    /\ recent \in SUBSET Group

IInv == Clocks /\ Carried /\ Asked /\ Flags

\* It implies what is to be proved.
LEMMA InvImplies == IInv => TypeOK /\ NoRevival
<1> SUFFICES ASSUME IInv  PROVE TypeOK /\ NoRevival
  OBVIOUS
<1>1. \A g \in Group : due[g] <= Period[g] /\ rested[g] <= Period[g]
  BY PollsAssumption DEF IInv, Clocks
<1>2. TypeOK
  BY <1>1 DEF IInv, Clocks, Carried, Asked, Flags, TypeOK, PollType, PressType
<1>3. NoRevival
  BY PollsAssumption DEF IInv, Carried, NoRevival, Group
<1>4. QED
  BY <1>2, <1>3

\* It holds at the start.
LEMMA InvInit == Init => IInv
<1> SUFFICES ASSUME Init  PROVE IInv
  OBVIOUS
<1> USE PollsAssumption DEF Init
<1>1. Clocks
  BY DEF Clocks
<1>2. Carried
  BY DEF Carried
<1>3. Asked
  BY DEF Asked, PollType, PressType, Idle, Unpressed
<1>4. Flags
  BY DEF Flags
<1>5. QED
  BY <1>1, <1>2, <1>3, <1>4 DEF IInv

-----------------------------------------------------------------------------
(* Deadlines                                                               *)

\* The array's state is due for every poll.
LEMMA ArrayDue == Clocks => Array \in Due
  BY PollsAssumption DEF Clocks, Due, Group

\* A poll that starts moves the deadlines of what it asks for.
LEMMA StartClocks ==
    ASSUME Clocks, NEW p \in Poll, NEW asked \in SUBSET Group, NEW mine \in BOOLEAN, Start(p, asked, mine)
    PROVE  Clocks'
<1>1. due' \in [Group -> Nat] /\ rested' \in [Group -> Nat]
  BY PollsAssumption DEF Start, Advance, Clocks
<1>2. ASSUME NEW g \in Group  PROVE due'[g] + rested'[g] = Period[g]
  BY PollsAssumption DEF Start, Advance, Clocks
<1>3. QED
  BY <1>1, <1>2 DEF Clocks

\* Time takes from the deadline what it adds to the rest.
LEMMA TickClocks ==
    ASSUME Clocks, Tick
    PROVE  Clocks'
<1>1. ASSUME NEW g \in Group
      PROVE  due'[g] \in Nat /\ rested'[g] \in Nat /\ due'[g] + rested'[g] = Period[g]
  <2>1. /\ due[g] \in Nat /\ rested[g] \in Nat /\ Period[g] \in Nat /\ due[g] + rested[g] = Period[g]
        /\ due'[g] = IF due[g] > 0 THEN due[g] - 1 ELSE 0
        /\ rested'[g] = IF rested[g] < Period[g] THEN rested[g] + 1 ELSE rested[g]
    BY PollsAssumption DEF Tick, Clocks
  <2>2. QED
    BY <2>1
<1>2. due' = [g \in Group |-> due'[g]] /\ rested' = [g \in Group |-> rested'[g]]
  BY DEF Tick
<1>3. QED
  BY <1>1, <1>2 DEF Clocks

\* Every step keeps deadlines and rests together.
LEMMA ClocksStep ==
    ASSUME Clocks, [Next]_vars
    PROVE  Clocks'
<1>1. ASSUME NEW p \in Poll, Scheduled(p)  PROVE Clocks'
  BY <1>1, StartClocks DEF Scheduled, Due
<1>2. ASSUME NEW p \in Poll, NEW action \in {"start", "other"}, Press(p, action)  PROVE Clocks'
  <2>1. Due \cup Forced(action) \in SUBSET Group
    BY PollsAssumption DEF Due, Forced, Group
  <2>2. QED
    BY <1>2, <2>1, StartClocks DEF Press
<1>3. ASSUME NEW p \in Poll, SetupFails(p)  PROVE Clocks'
  BY <1>3, PollsAssumption DEF SetupFails, Clocks
<1>4. CASE UNCHANGED <<due, rested>>
  BY <1>4 DEF Clocks
<1>5. QED
  BY <1>1, <1>2, <1>3, <1>4, TickClocks
     DEF Next, Ends, Sampled, Arrives, Lost, Finished, Calms, vars

-----------------------------------------------------------------------------
(* What is carried over                                                    *)

\* An answer that arrives.
LEMMA ArrivesCarried ==
    ASSUME Carried, NEW p \in Poll, polls[p].asked \in SUBSET Group, Arrives(p)
    PROVE  Carried'
<1> DEFINE asked == polls[p].asked
<1>1. PICK read \in SUBSET asked :
          /\ data' = Merge(Previous, asked, read)
          /\ inv' = data' \cap Inv
          /\ good' = Merge(good, asked, read) \cap Timed \cap Inv
          /\ answered' = Merge(answered, asked, read) \cap Timed \cap Dash
  BY DEF Arrives
<1>2. /\ Previous \in SUBSET Group
      /\ Previous \cap Timed \cap Inv \subseteq good
      /\ Previous \cap Timed \cap Dash \subseteq answered
  BY PollsAssumption DEF Carried, Previous, Group
<1> HIDE DEF asked
<1>3. data' \in SUBSET Group /\ inv' \in SUBSET Inv
  <2>1. asked \in SUBSET Group
    BY DEF asked
  <2>2. QED
    BY <1>1, <1>2, <2>1 DEF Merge
<1>4. good' \in SUBSET (Timed \cap Inv) /\ answered' \in SUBSET (Timed \cap Dash)
  BY <1>1
<1>5. inv' \cap Timed \subseteq good'
  BY <1>1, <1>2 DEF Merge
<1>6. (data' \ Inv) \cap Timed \subseteq answered'
  BY <1>1, <1>2, <1>3 DEF Merge, Group
<1>7. QED
  BY <1>1, <1>3, <1>4, <1>5, <1>6 DEF Carried

\* An answer that is lost.
LEMMA LostCarried ==
    ASSUME Carried, NEW p \in Poll, Lost(p)
    PROVE  Carried'
<1> DEFINE asked == polls[p].asked
<1>1. data' = data /\ inv' = inv \ asked /\ good' = good \ asked /\ answered' = answered /\ success' = FALSE
  BY DEF Lost, Merge
<1> HIDE DEF asked
<1>2. QED
  BY <1>1 DEF Carried

\* Every step keeps what may be carried over.
LEMMA CarriedStep ==
    ASSUME Carried, Asked, [Next]_vars
    PROVE  Carried'
<1>1. ASSUME NEW p \in Poll, Arrives(p)  PROVE Carried'
  <2>1. polls[p].asked \in SUBSET Group
    BY DEF Asked, PollType
  <2>2. QED
    BY <1>1, <2>1, ArrivesCarried
<1>2. CASE UNCHANGED <<data, inv, good, answered, success>>
  BY <1>2 DEF Carried
<1>3. QED
  BY <1>1, <1>2, LostCarried
     DEF Next, Ends, Scheduled, Press, Start, Sampled, SetupFails, Finished, Tick, Calms, vars

-----------------------------------------------------------------------------
(* Polls and the press                                                     *)

\* What a poll looks like that has just been sent.
LEMMA StartedPoll ==
    ASSUME polls \in [Poll -> PollType], NEW p \in Poll, NEW asked \in SUBSET Group, NEW mine \in BOOLEAN,
           Start(p, asked, mine)
    PROVE  /\ polls' \in [Poll -> PollType]
           /\ polls'[p].step = "sent" /\ polls'[p].asked = asked /\ polls'[p].mine = mine
           /\ \A q \in Poll : q # p => polls'[q] = polls[q]
<1> DEFINE new == [Idle EXCEPT !.step = "sent", !.asked = asked, !.mine = mine]
<1>1. polls' = [polls EXCEPT ![p] = new]
  BY DEF Start
<1>2. new \in PollType /\ new.step = "sent" /\ new.asked = asked /\ new.mine = mine
  BY DEF Idle, PollType
<1> HIDE DEF new
<1>3. QED
  BY <1>1, <1>2

\* A poll that starts, with a press or without.
LEMMA StartAsked ==
    ASSUME Clocks, Asked, NEW p \in Poll, NEW asked \in SUBSET Group, Due \subseteq asked, NEW mine \in BOOLEAN,
           Start(p, asked, mine), mine => up /\ press = Unpressed,
           IF mine THEN press' \in [step : {"polling"}, action : {"start", "other"}, slots : {FALSE}] ELSE press' = press
    PROVE  Asked'
<1>1. polls[p] = Idle /\ up' = up
  BY DEF Start
<1>2. /\ polls' \in [Poll -> PollType]
      /\ polls'[p].step = "sent" /\ polls'[p].asked = asked /\ polls'[p].mine = mine
      /\ \A q \in Poll : q # p => polls'[q] = polls[q]
  <2>1. polls \in [Poll -> PollType]
    BY DEF Asked
  <2>2. QED
    BY <2>1, StartedPoll
<1>3. Array \in asked
  BY ArrayDue
<1>4. mine => \A q \in Poll : ~polls[q].mine
  BY DEF Asked, Unpressed
<1>5. ~polls[p].mine
  BY <1>1 DEF Idle
<1>6. QED
  BY <1>1, <1>2, <1>3, <1>4, <1>5 DEF Asked, PressType, Unpressed

\* The server runs a command.
LEMMA SampledAsked ==
    ASSUME Asked, NEW p \in Poll, Sampled(p)
    PROVE  Asked'
<1> DEFINE new == [polls[p] EXCEPT !.step = "sampled", !.late = press # Unpressed]
<1>1. polls' = [polls EXCEPT ![p] = new] /\ polls[p].step = "sent" /\ UNCHANGED <<press, up>>
  BY DEF Sampled
<1>2. polls[p] \in PollType /\ polls[p] # Idle
  BY <1>1 DEF Asked, Idle
<1>3. /\ new \in PollType /\ new.step = "sampled" /\ new.asked = polls[p].asked /\ new.mine = polls[p].mine
      /\ new.late = (press # Unpressed)
  BY <1>2 DEF PollType
<1> HIDE DEF new
<1>4. /\ polls' \in [Poll -> PollType] /\ polls'[p] = new
      /\ \A q \in Poll : q # p => polls'[q] = polls[q]
  BY <1>1, <1>3 DEF Asked
<1>5. polls[p].mine => press # Unpressed
  BY DEF Asked, Unpressed
<1>6. Array \in new.asked
  BY <1>1, <1>3 DEF Asked
<1>7. QED
  BY <1>1, <1>3, <1>4, <1>5, <1>6 DEF Asked

\* With the button's poll the press goes on or is over.
LEMMA JudgedPress ==
    ASSUME press \in PressType, NEW p \in Poll, Judge(p)
    PROVE  /\ press' \in PressType
           /\ \/ ~polls[p].mine /\ press' = press
              \/ polls[p].mine /\ press' = Unpressed
              \/ /\ polls[p].mine /\ success' /\ press'.step = "sent"
                 /\ Permits(press'.action, press'.slots)
<1>1. CASE ~polls[p].mine /\ press' = press
  BY <1>1
<1>2. CASE polls[p].mine /\ press' = Unpressed
  BY <1>2 DEF Unpressed, PressType
<1>3. ASSUME polls[p].mine, success', NEW slots \in BOOLEAN, Permits(press.action, slots),
             press' = [press EXCEPT !.step = "sent", !.slots = slots]
      PROVE  press' \in PressType /\ press'.step = "sent" /\ Permits(press'.action, press'.slots)
  <2>1. press' \in PressType /\ press'.step = "sent" /\ press'.action = press.action /\ press'.slots = slots
    BY <1>3 DEF PressType
  <2>2. QED
    BY <1>3, <2>1
<1>4. QED
  BY <1>1, <1>2, <1>3 DEF Judge

\* A poll ends, and with the button's one the press goes on or is over.
LEMMA EndAsked ==
    ASSUME Asked, NEW p \in Poll, up' = up \/ up' = TRUE, press # Unpressed => up, Judge(p),
           polls' = [q \in Poll |-> IF q = p THEN Idle
                                    ELSE [polls[q] EXCEPT !.late = @ /\ press' # Unpressed]]
    PROVE  Asked'
<1>0. /\ press' \in PressType
      /\ \/ ~polls[p].mine /\ press' = press
         \/ polls[p].mine /\ press' = Unpressed
         \/ polls[p].mine /\ press'.step = "sent"
  BY JudgedPress DEF Asked
<1>1. ASSUME NEW q \in Poll, q # p
      PROVE  /\ polls'[q] \in PollType /\ polls'[q].step = polls[q].step
             /\ polls'[q].asked = polls[q].asked /\ polls'[q].mine = polls[q].mine
             /\ polls'[q].late = (polls[q].late /\ press' # Unpressed)
  <2> DEFINE new == [polls[q] EXCEPT !.late = @ /\ press' # Unpressed]
  <2>1. polls'[q] = new /\ polls[q] \in PollType
    BY <1>1 DEF Asked
  <2>2. new \in PollType /\ new.step = polls[q].step /\ new.asked = polls[q].asked /\ new.mine = polls[q].mine
        /\ new.late = (polls[q].late /\ press' # Unpressed)
    BY <2>1 DEF PollType
  <2>3. QED
    BY <2>1, <2>2
<1>2. polls'[p] = Idle /\ Idle \in PollType /\ ~Idle.mine /\ Idle.step = "idle"
  BY DEF Idle, PollType
<1>3. polls' \in [Poll -> PollType]
  BY <1>1, <1>2
<1>4. press' \in PressType
  BY <1>0
<1>5. polls[p].mine => \A q \in Poll : q # p => ~polls'[q].mine
  BY <1>1 DEF Asked
<1>6. polls[p].mine => up /\ press'.step # "polling"
  BY <1>0 DEF Asked, Unpressed
<1>7. ~up' => press' = Unpressed
  <2>1. ~up' => ~up
    OBVIOUS
  <2>2. ~up => ~polls[p].mine /\ press = Unpressed
    BY <1>6 DEF Asked
  <2>3. QED
    BY <1>0, <2>1, <2>2
<1>8. press'.step = "polling" <=> \E q \in Poll : polls'[q].mine
  BY <1>0, <1>1, <1>2, <1>5, <1>6 DEF Asked
<1>9. \A q \in Poll : polls'[q].mine /\ polls'[q].step = "sampled" => polls'[q].late
  <2> SUFFICES ASSUME NEW q \in Poll, polls'[q].mine, polls'[q].step = "sampled"
               PROVE  polls'[q].late
    OBVIOUS
  <2>1. q # p /\ press'.step = "polling"
    BY <1>2, <1>8
  <2>2. press' # Unpressed
    BY <2>1 DEF Unpressed
  <2>3. polls[q].late
    BY <1>1, <2>1 DEF Asked
  <2>4. polls'[q].late = (polls[q].late /\ press' # Unpressed)
    BY <1>1, <2>1
  <2>5. QED
    BY <2>2, <2>3, <2>4
<1>10. QED
  BY <1>1, <1>2, <1>3, <1>4, <1>7, <1>8, <1>9 DEF Asked

\* Every step keeps them together.
LEMMA AskedStep ==
    ASSUME Clocks, Asked, Flags, [Next]_vars
    PROVE  Asked'
<1>1. ASSUME NEW p \in Poll, Scheduled(p)  PROVE Asked'
  BY <1>1, StartAsked DEF Scheduled, Due
<1>2. ASSUME NEW p \in Poll, NEW action \in {"start", "other"}, Press(p, action)  PROVE Asked'
  <2>1. Due \cup Forced(action) \in SUBSET Group
    BY PollsAssumption DEF Due, Forced, Group
  <2>2. QED
    BY <1>2, <2>1, StartAsked DEF Press, Unpressed
<1>3. ASSUME NEW p \in Poll, Arrives(p) \/ Lost(p)  PROVE Asked'
  <2>1. Judge(p)
    BY <1>3 DEF Arrives, Lost
  <2>2. polls' = [q \in Poll |-> IF q = p THEN Idle
                                 ELSE [polls[q] EXCEPT !.late = @ /\ press' # Unpressed]]
    BY <1>3 DEF Arrives, Lost, Remember
  <2>3. (up' = up \/ up' = TRUE) /\ (press # Unpressed => up)
    BY <1>3 DEF Arrives, Lost, Asked
  <2>4. QED
    BY <2>1, <2>2, <2>3, EndAsked
<1>4. ASSUME NEW p \in Poll, SetupFails(p)  PROVE Asked'
  BY <1>4 DEF SetupFails, Asked, Idle, Unpressed, PollType
<1>5. CASE Finished
  <2>1. \A p \in Poll : ~polls[p].mine
    BY <1>5 DEF Finished, Asked
  <2>2. ASSUME NEW p \in Poll
        PROVE  /\ polls'[p] \in PollType /\ polls'[p].step = polls[p].step /\ polls'[p].asked = polls[p].asked
               /\ polls'[p].mine = polls[p].mine
    BY <1>5 DEF Finished, Asked, PollType, Idle
  <2>3. polls' \in [Poll -> PollType]
    BY <1>5, <2>2 DEF Finished
  <2>4. press' = Unpressed /\ up' = up
    BY <1>5 DEF Finished
  <2>5. QED
    BY <2>1, <2>2, <2>3, <2>4 DEF Asked, PressType, Unpressed
<1>6. CASE UNCHANGED <<polls, press, up>>
  BY <1>6 DEF Asked
<1>7. QED
  BY <1>1, <1>2, <1>3, <1>4, <1>5, <1>6, SampledAsked DEF Next, Ends, Tick, Calms, vars

\* Flags keep their type.
LEMMA FlagsStep ==
    ASSUME Asked, Flags, [Next]_vars
    PROVE  Flags'
<1>1. ASSUME NEW p \in Poll, Arrives(p)  PROVE Flags'
  <2>1. polls[p].asked \in SUBSET Group
    BY DEF Asked, PollType
  <2>2. {calm', up', success', fresh'} \subseteq BOOLEAN
    BY <1>1 DEF Arrives, Flags
  <2>3. recent' \in SUBSET Group
    BY <1>1, <2>1 DEF Arrives, Remember, Merge, Flags
  <2>4. QED
    BY <2>2, <2>3 DEF Flags
<1>2. ASSUME NEW p \in Poll, Lost(p)  PROVE Flags'
  BY <1>2 DEF Lost, Remember, Flags
<1>3. CASE Finished \/ Calms
  BY <1>3 DEF Finished, Calms, Flags
<1>4. CASE UNCHANGED <<calm, up, success, fresh, recent>>
  BY <1>4 DEF Flags
<1>5. QED
  BY <1>1, <1>2, <1>3, <1>4
     DEF Next, Ends, Scheduled, Press, Start, Sampled, SetupFails, Tick, vars

-----------------------------------------------------------------------------
(* What steps may never do                                                 *)

\* The command that is sent rests on values from after the press.
FreshStep ==
    press.step = "polling" /\ press'.step = "sent"
    => Needed(press'.action, press'.slots) \subseteq recent'

LEMMA FreshLemma ==
    ASSUME IInv, [Next]_vars
    PROVE  FreshStep
<1> SUFFICES ASSUME press.step = "polling", press'.step = "sent"
             PROVE  Needed(press'.action, press'.slots) \subseteq recent'
  BY DEF FreshStep
<1>1. PICK p \in Poll : Arrives(p) /\ polls[p].mine
  <2>1. ASSUME NEW p \in Poll, Lost(p)  PROVE FALSE
    BY <2>1, JudgedPress DEF IInv, Asked, Lost, Unpressed
  <2>2. ASSUME NEW p \in Poll, Arrives(p)  PROVE polls[p].mine
    BY <2>2 DEF Arrives, Judge
  <2>3. CASE \E p \in Poll, action \in {"start", "other"} : Press(p, action)
    BY <2>3 DEF Press, Unpressed
  <2>4. CASE Finished
    BY <2>4 DEF Finished, Unpressed
  <2>5. CASE UNCHANGED press
    BY <2>5
  <2>6. QED
    BY <2>1, <2>2, <2>3, <2>4, <2>5 DEF Next, Ends, Scheduled, Sampled, SetupFails, Tick, Calms, vars
<1> DEFINE asked == polls[p].asked
<1>2. polls[p].step = "sampled" /\ polls[p].late /\ Array \in asked
  BY <1>1 DEF Arrives, IInv, Asked, Idle
<1>3. PICK read \in SUBSET asked :
          /\ data' = Merge(Previous, asked, read)
          /\ fresh' = (Pools \in asked)
          /\ Judge(p)
          /\ recent' = IF press' = Unpressed THEN {}
                       ELSE Merge(recent, asked, IF polls[p].late THEN read ELSE {})
  BY <1>1 DEF Arrives, Remember
<1>4. press' # Unpressed
  BY DEF Unpressed
<1>5. Permits(press'.action, press'.slots)
  BY <1>1, <1>3, <1>4, JudgedPress DEF IInv, Asked
<1>6. recent' = (recent \ asked) \cup read /\ data' = (Previous \ asked) \cup read
  BY <1>2, <1>3, <1>4 DEF Merge
<1>7. Array \in read
  BY <1>2, <1>5, <1>6 DEF Permits, Needed
<1>8. Pools \in Needed(press'.action, press'.slots) => Pools \in read
  BY <1>3, <1>5, <1>6 DEF Permits
<1>9. QED
  BY <1>6, <1>7, <1>8 DEF Needed

\* A group is asked for before its period is over by a start of the array only.
SpacedStep ==
    \A p \in Poll, g \in Group :
        polls[p] = Idle /\ g \in polls'[p].asked /\ rested[g] < Period[g]
        => polls'[p].mine /\ g \in Forced(press'.action)

LEMMA SpacedLemma ==
    ASSUME IInv, [Next]_vars
    PROVE  SpacedStep
<1> SUFFICES ASSUME NEW p \in Poll, NEW g \in Group,
                    polls[p] = Idle, g \in polls'[p].asked, rested[g] < Period[g]
             PROVE  polls'[p].mine /\ g \in Forced(press'.action)
  BY DEF SpacedStep
<1>1. g \notin Due
  BY PollsAssumption DEF IInv, Clocks, Due
<1>2. polls \in [Poll -> PollType] /\ polls[p].asked = {} /\ polls[p].step = "idle"
  BY DEF IInv, Asked, Idle
<1>3. ASSUME NEW q \in Poll, NEW asked \in SUBSET Group, NEW mine \in BOOLEAN, Start(q, asked, mine)
      PROVE  q = p /\ g \in asked /\ polls'[p].mine = mine
  BY <1>2, <1>3, StartedPoll
<1>4. ASSUME NEW q \in Poll, Scheduled(q)  PROVE FALSE
  BY <1>1, <1>3, <1>4 DEF Scheduled, Due
<1>5. ASSUME NEW q \in Poll, NEW action \in {"start", "other"}, Press(q, action)
      PROVE  polls'[p].mine /\ g \in Forced(press'.action)
  <2>1. g \in Due \cup Forced(action) /\ polls'[p].mine /\ press'.action = action
    <3>1. Due \cup Forced(action) \in SUBSET Group
      BY PollsAssumption DEF Due, Forced, Group
    <3>2. QED
      BY <1>3, <1>5, <3>1 DEF Press, Unpressed
  <2>2. QED
    BY <1>1, <2>1
<1>6. ASSUME polls'[p].asked = {}  PROVE FALSE
  BY <1>6
<1>7. ASSUME NEW q \in Poll, Sampled(q)  PROVE FALSE
  BY <1>2, <1>7 DEF Sampled
<1>8. ASSUME NEW q \in Poll, Arrives(q) \/ Lost(q)  PROVE FALSE
  <2>1. polls'[p] = Idle \/ polls'[p] = [polls[p] EXCEPT !.late = @ /\ press' # Unpressed]
    BY <1>8 DEF Arrives, Lost, Remember
  <2>2. polls'[p].asked = {}
    BY <1>2, <2>1 DEF Idle
  <2>3. QED
    BY <1>6, <2>2
<1>9. ASSUME NEW q \in Poll, SetupFails(q)  PROVE FALSE
  BY <1>9 DEF SetupFails, Idle
<1>10. CASE Finished
  <2>1. polls'[p] = [polls[p] EXCEPT !.late = FALSE]
    BY <1>10 DEF Finished
  <2>2. polls'[p].asked = {}
    BY <1>2, <2>1 DEF Idle
  <2>3. QED
    BY <1>6, <2>2
<1>11. CASE UNCHANGED polls
  BY <1>2, <1>11
<1>12. QED
  BY <1>4, <1>5, <1>7, <1>8, <1>9, <1>10, <1>11 DEF Next, Ends, Tick, Calms, vars

-----------------------------------------------------------------------------
(* The theorems                                                            *)

\* Every state of every behaviour has the invariant.
LEMMA InvInductive == Spec => []IInv
<1>1. IInv /\ [Next]_vars => IInv'
  BY ClocksStep, CarriedStep, AskedStep, FlagsStep DEF IInv
<1>2. QED
  BY <1>1, InvInit, PTL DEF Spec

\* Types are kept, and a press waits for one poll of its own.
THEOREM TypeCorrect == Spec => []TypeOK
  BY InvInductive, InvImplies, PTL

\* A poll that skips a group does not revive a value that has failed since, of
\* the inventory not even one whose newer attempt was lost.
THEOREM NothingRevived == Spec => []NoRevival
  BY InvInductive, InvImplies, PTL

\* A command is sent on values that the server was asked for since the press.
THEOREM VerdictFresh == Spec => FreshVerdict
<1>1. IInv /\ [Next]_vars => [FreshStep]_vars
  BY FreshLemma
<1>2. QED
  BY <1>1, InvInductive, PTL DEF Spec, FreshVerdict, FreshStep

\* Nobody but a start of the array asks for a group before its period is over.
THEOREM ProbesSpaced == Spec => Spaced
<1>1. IInv /\ [Next]_vars => [SpacedStep]_vars
  BY SpacedLemma
<1>2. QED
  BY <1>1, InvInductive, PTL DEF Spec, Spaced, SpacedStep

=============================================================================
