------------------------ MODULE FollowUpSequenceProofs ------------------------
(***************************************************************************)
(* The follow-up sequence, for any leads, overlapping runs, blueprints and *)
(* faults.  SequenceInv is inductive, and with it no step is skipped.      *)
(* CountInv, on top of it, counts the runs that are at work on a lead: a   *)
(* step is given once and no faster than its delays allow, a lead leaves   *)
(* when its steps are done, and a reply ends its sequence.                 *)
(***************************************************************************)
EXTENDS FollowUpSequence, Counting, FiniteSetTheorems, TLAPS

USE FollowUpAssumption

-----------------------------------------------------------------------------
(* What the records hold.                                                   *)

Counts == [Leads -> [StepNumbers -> Nat]]
Tallies == [elapsed : Nat, repeats : Nat, replied : BOOLEAN, crossed : BOOLEAN]

\* An event takes one from its budget, and there are budgets for known events only.
LEMMA Spent == ASSUME TypeOK, NEW kind \in EventKinds, Spend(kind)
               PROVE  budget' \in [EventKinds -> Nat]
BY DEF TypeOK, Spend

\* A count per lead and step stays one when an entry is raised.
LEMMA Counted == ASSUME NEW h \in Counts, NEW l \in Leads, NEW k \in StepNumbers
                 PROVE  [h EXCEPT ![l][k] = @ + 1] \in Counts
BY DEF Counts

\* A run that has read nothing is a run.
LEMMA IdleIsRun == IdleRun \in RunStates /\ Unread \in [Leads -> 0..Nil]
BY DEF IdleRun, RunStates, RunPC, Unread, Nil, NoPlan

\* A run that is done with a lead works on none, and keeps the counters it is given.
LEMMA DoneIsRun ==
  ASSUME TypeOK, NEW r \in Runs, NEW l \in Leads, NEW seen \in [Leads -> 0..Nil]
  PROVE  /\ DoneWith(r, l, seen) \in RunStates
         /\ DoneWith(r, l, seen).pc \notin Working
         /\ DoneWith(r, l, seen).lead = Nobody
         /\ DoneWith(r, l, seen).seen \in {seen, Unread}
<1>1. run[r].todo \ {l} \in SUBSET Leads
  BY DEF TypeOK, RunStates
<1> QED BY <1>1, IdleIsRun DEF DoneWith, IdleRun, RunStates, RunPC, Working, Saved

\* The step a run takes next is a step number, or none.
LEMMA NextStepNumber == ASSUME TypeOK, NEW r \in Runs, NEW l \in Leads
                        PROVE  NextStep(r, l) \in 1..(MaxStep + 1)
<1>1. run[r].seen[l] \in 0..(MaxStep + 1) /\ row[l].step \in 0..MaxStep
  BY DEF TypeOK, RunStates, Rows, Nil
<1> QED BY <1>1 DEF NextStep, Nil

\* A step the sequence has carries a step number.
LEMMA StepsAreNumbers == ASSUME TypeOK, NEW k \in Nat, HasStep(k)
                         PROVE  k \in StepNumbers
<1>1. DOMAIN plan.steps \subseteq StepNumbers
  BY DEF TypeOK
<1> QED BY <1>1 DEF HasStep, StepNumbers

-----------------------------------------------------------------------------
(* The order of the steps.                                                  *)

Order == NoStepSkipped /\ SeenWasReached /\ RunsInOrder

\* Only runs and the counters of leads matter to it.
LEMMA OrderFrame ==
  ASSUME Order, UNCHANGED <<issued, run>>, \A l \in Leads : row'[l].step = row[l].step
  PROVE  Order'
BY DEF Order, NoStepSkipped, SeenWasReached, RunsInOrder, Given

\* Before the next step of a lead every step has been given.
LEMMA ReachedSoFar ==
  ASSUME TypeOK, Order, NEW r \in Runs, NEW l \in Leads,
         NEW k \in StepNumbers, k < NextStep(r, l)
  PROVE  Given(l, k)
<1>1. run[r].seen[l] \in 0..(MaxStep + 1) /\ row[l].step \in 0..MaxStep
  BY DEF TypeOK, RunStates, Rows, Nil
<1>2. CASE run[r].seen[l] = Nil
  BY <1>1, <1>2 DEF NextStep, Order, NoStepSkipped, StepNumbers, Nil
<1>3. CASE run[r].seen[l] # Nil
  BY <1>1, <1>3 DEF NextStep, Order, SeenWasReached, StepNumbers
<1> QED BY <1>2, <1>3

\* A run that moves without saving a step: its session forgets, or holds what it held.
LEMMA OrderMoves ==
  ASSUME TypeOK, Order, NEW r \in Runs, NEW x, Move(r, x),
         UNCHANGED issued, \A l \in Leads : row'[l].step = row[l].step,
         x.pc \notin Working,
         \A l \in Leads : x.seen[l] \in {Nil, run[r].seen[l], row[l].step}
  PROVE  Order'
<1>1. NoStepSkipped'
  BY DEF Order, NoStepSkipped, Given
<1>2. \A q \in Runs : run'[q] = IF q = r THEN x ELSE run[q]
  BY DEF Move, TypeOK
<1>3. SeenWasReached'
  BY <1>2 DEF Order, SeenWasReached, NoStepSkipped, Given
<1>4. RunsInOrder'
  BY <1>2 DEF Order, RunsInOrder, Given
<1> QED BY <1>1, <1>3, <1>4 DEF Order

-----------------------------------------------------------------------------
(* follow_up_sequence_task.                                                 *)

\* A new run reads the counters of the leads that are due.
LEMMA BeginRunKeeps ==
  ASSUME SequenceInv, NEW r \in Runs, BeginRun(r)
  PROVE  SequenceInv'
<1> DEFINE seen == [l \in Leads |-> IF l \in DueLeads THEN row[l].step ELSE Nil]
           x == [IdleRun EXCEPT !.pc = "scan", !.todo = DueLeads, !.seen = seen]
<1>1. x \in RunStates
  <2>1. seen \in [Leads -> 0..Nil]
    BY DEF SequenceInv, TypeOK, Rows, Nil
  <2> QED BY <2>1, IdleIsRun DEF IdleRun, RunStates, RunPC, DueLeads
<1>2. run' = [run EXCEPT ![r] = x]
  BY DEF BeginRun, Move
<1>3. TypeOK'
  <2>1. budget' \in [EventKinds -> Nat]
    BY Spent DEF BeginRun, SequenceInv, TypeOK, EventKinds
  <2>2. run' \in [Runs -> RunStates]
    BY <1>1, <1>2 DEF SequenceInv, TypeOK
  <2>3. tally' \in [Leads -> Tallies]
    <3>1. ASSUME NEW l \in Leads PROVE Cardinality({q \in Active : Holds(q, l)}) \in Nat
      BY FS_Subset, FS_CardinalityType DEF Active
    <3>2. tally \in [Leads -> Tallies]
      BY DEF SequenceInv, TypeOK, Tallies
    <3>3. ASSUME NEW l \in Leads, NEW n \in Nat
          PROVE  [tally[l] EXCEPT !.repeats = @ + n] \in Tallies
      BY <3>2 DEF Tallies
    <3> QED BY <3>1, <3>2, <3>3 DEF BeginRun
  <2> QED BY <2>1, <2>2, <2>3 DEF BeginRun, tasks, history, SequenceInv, TypeOK, Tallies
<1>4. Order'
  <2>1. x.pc \notin Working /\ x.seen = seen
    BY DEF IdleRun, Working, Saved
  <2>2. Move(r, x) /\ UNCHANGED <<issued, row>>
    BY <1>2 DEF Move, BeginRun, history
  <2>3. \A l \in Leads : x.seen[l] \in {Nil, run[r].seen[l], row[l].step}
    BY <2>1
  <2> HIDE DEF x
  <2> QED BY <2>1, <2>2, <2>3, OrderMoves DEF SequenceInv, Order
<1>5. OpenedWasSent' /\ OptOutStopsSequence'
  <2>1. x.lead = Nobody
    BY DEF IdleRun
  <2>2. Nobody \notin suppressed
    BY DEF SequenceInv, TypeOK
  <2> QED
    BY <1>2, <2>1, <2>2 DEF BeginRun, SequenceInv, TypeOK, OpenedWasSent, OptOutStopsSequence
<1> QED BY <1>3, <1>4, <1>5 DEF SequenceInv, Order

\* A run puts a lead aside: the steps it has given stay as they are.
LEMMA PutAside ==
  ASSUME SequenceInv, NEW r \in Runs, NEW l \in Leads, NEW seen \in {Unread, run[r].seen},
         Move(r, DoneWith(r, l, seen)),
         UNCHANGED <<suppressed, mail, issued>>, TypeOK',
         \A i \in Leads : row'[i].step = row[i].step
  PROVE  SequenceInv'
<1> DEFINE x == DoneWith(r, l, seen)
<1>1. seen \in [Leads -> 0..Nil]
  BY IdleIsRun DEF SequenceInv, TypeOK, RunStates
<1>2. x.pc \notin Working /\ x.lead = Nobody /\ x.seen \in {seen, Unread}
  BY <1>1, DoneIsRun DEF SequenceInv
<1> HIDE DEF x
<1>3. Order'
  BY <1>2, OrderMoves DEF x, SequenceInv, Order, Unread
<1>4. OptOutStopsSequence'
  <2>1. run' = [run EXCEPT ![r] = x] /\ Nobody \notin suppressed
    BY DEF x, Move, SequenceInv, TypeOK
  <2> QED BY <1>2, <2>1 DEF SequenceInv, TypeOK, OptOutStopsSequence
<1> QED BY <1>3, <1>4 DEF SequenceInv, Order, OpenedWasSent

\* What a run does to the types: it moves to a state of a run, and the row of its
\* lead stays a row.
LEMMA PutAsideTyped ==
  ASSUME TypeOK, NEW r \in Runs, NEW l \in Leads, NEW seen \in {Unread, run[r].seen},
         Move(r, DoneWith(r, l, seen))
  PROVE  run' \in [Runs -> RunStates]
<1>1. seen \in [Leads -> 0..Nil]
  BY IdleIsRun DEF TypeOK, RunStates
<1>2. DoneWith(r, l, seen) \in RunStates
  BY <1>1, DoneIsRun
<1> QED BY <1>2 DEF Move, TypeOK

\* A suppressed lead leaves the sequence; its step does not move.
LEMMA SkipSuppressedKeeps ==
  ASSUME SequenceInv, NEW r \in Runs, NEW l \in Leads, SkipSuppressed(r, l)
  PROVE  SequenceInv'
<1>1. row' = [row EXCEPT ![l] = Stopped(row[l])] /\ row[l] \in Rows
  BY DEF SkipSuppressed, SequenceInv, TypeOK
<1>2. Stopped(row[l]) \in Rows /\ Stopped(row[l]).step = row[l].step
  BY <1>1 DEF Stopped, Rows
<1>3. TypeOK'
  BY <1>1, <1>2, PutAsideTyped DEF SkipSuppressed, tasks, history, SequenceInv, TypeOK
<1> QED BY <1>1, <1>2, <1>3, PutAside DEF SkipSuppressed, history, SequenceInv, TypeOK

\* A lead with no step left leaves the sequence; its step does not move.
LEMMA EndSequenceKeeps ==
  ASSUME SequenceInv, NEW r \in Runs, NEW l \in Leads, EndSequence(r, l)
  PROVE  SequenceInv'
<1> DEFINE x == [row[l] EXCEPT !.due = "none"]
<1>1. row' = [row EXCEPT ![l] = x] /\ row[l] \in Rows
  BY DEF EndSequence, SequenceInv, TypeOK
<1>2. x \in Rows /\ x.step = row[l].step
  BY <1>1 DEF Rows
<1> HIDE DEF x
<1>3. TypeOK'
  <2>1. run' \in [Runs -> RunStates]
    BY PutAsideTyped DEF EndSequence, SequenceInv
  <2>2. row' \in [Leads -> Rows]
    BY <1>1, <1>2 DEF SequenceInv, TypeOK
  <2> QED BY <2>1, <2>2 DEF EndSequence, tasks, history, SequenceInv, TypeOK
<1> QED BY <1>1, <1>2, <1>3, PutAside DEF EndSequence, history, SequenceInv, TypeOK

\* A lead without a sent cold email is passed over.
LEMMA NothingToFollowKeeps ==
  ASSUME SequenceInv, NEW r \in Runs, NEW l \in Leads, NothingToFollow(r, l)
  PROVE  SequenceInv'
<1>1. TypeOK'
  BY PutAsideTyped DEF NothingToFollow, tasks, history, SequenceInv, TypeOK
<1> QED BY <1>1, PutAside DEF NothingToFollow, history, SequenceInv

\* The step is the one after all that were given.
LEMMA StartStepKeeps ==
  ASSUME SequenceInv, NEW r \in Runs, NEW l \in Leads, StartStep(r, l)
  PROVE  SequenceInv'
<1> DEFINE k == NextStep(r, l)
           x == [run[r] EXCEPT !.pc = IF Channel(k) = "email" THEN "drafting" ELSE "touching",
                   !.lead = l, !.step = k, !.plan = IF Legacy THEN NoPlan ELSE plan.version]
<1>1. k \in StepNumbers
  BY NextStepNumber, StepsAreNumbers DEF StartStep, SequenceInv
<1>2. run' = [run EXCEPT ![r] = x] /\ l \notin suppressed
  BY DEF StartStep, Move, Checked
<1>3. /\ x \in RunStates /\ x.pc \in Working \ Saved
      /\ x.lead = l /\ x.step = k /\ x.seen = run[r].seen
  <2>1. run[r] \in RunStates /\ k \in 0..MaxStep
    BY <1>1 DEF SequenceInv, TypeOK, StepNumbers
  <2>2. (IF Legacy THEN NoPlan ELSE plan.version) \in Nat
    BY DEF SequenceInv, TypeOK, NoPlan
  <2> HIDE DEF k
  <2> QED BY <2>1, <2>2 DEF RunStates, RunPC, Working, Saved
<1> HIDE DEF x
<1>4. TypeOK'
  <2>1. run' \in [Runs -> RunStates]
    BY <1>2, <1>3 DEF SequenceInv, TypeOK
  <2> QED BY <2>1 DEF StartStep, tasks, history, SequenceInv, TypeOK
<1>5. Order'
  <2>1. \A i \in StepNumbers : i < k => Given(l, i)
    BY ReachedSoFar DEF SequenceInv, Order
  <2> HIDE DEF k
  <2>2. \A q \in Runs : run'[q] = IF q = r THEN x ELSE run[q]
    BY <1>2 DEF SequenceInv, TypeOK
  <2>3. issued' = issued /\ row' = row
    BY DEF StartStep, history
  <2>4. RunsInOrder'
    BY <1>1, <1>3, <2>1, <2>2, <2>3 DEF SequenceInv, RunsInOrder, Given
  <2>5. SeenWasReached' /\ NoStepSkipped'
    BY <1>3, <2>2, <2>3 DEF SequenceInv, SeenWasReached, NoStepSkipped, Given
  <2> QED BY <2>4, <2>5 DEF Order
<1>6. OptOutStopsSequence' /\ OpenedWasSent'
  BY <1>2, <1>3 DEF StartStep, SequenceInv, TypeOK, OptOutStopsSequence, OpenedWasSent
<1> QED BY <1>4, <1>5, <1>6 DEF SequenceInv, Order

\* The draft fails: the run goes on with the next lead.
LEMMA DraftFailsKeeps ==
  ASSUME SequenceInv, NEW r \in Runs, DraftFails(r)
  PROVE  SequenceInv'
<1>1. run[r].lead \in Leads
  BY DEF DraftFails, SequenceInv, RunsInOrder, Working
<1>2. Move(r, DoneWith(r, run[r].lead, run[r].seen))
  BY DEF DraftFails, NotDrafted
<1>3. TypeOK'
  <2>1. budget' \in [EventKinds -> Nat]
    BY Spent DEF DraftFails, SequenceInv, EventKinds
  <2> QED BY <1>1, <1>2, <2>1, PutAsideTyped DEF DraftFails, tasks, history, SequenceInv, TypeOK
<1> QED BY <1>1, <1>2, <1>3, PutAside DEF DraftFails, history, SequenceInv

\* A run that works goes on in its place: only its step may have been given by it.
LEMMA GoesOn ==
  ASSUME SequenceInv, NEW r \in Runs, NEW x \in RunStates, Move(r, x),
         run[r].pc \in Working, x.pc \in Saved,
         x.lead = run[r].lead, x.step = run[r].step, x.late = run[r].late,
         x.seen \in {run[r].seen, Unread},
         \A l \in Leads, k \in StepNumbers : Given(l, k) => Given(l, k)',
         \A l \in Leads, k \in StepNumbers :
           Given(l, k)' => Given(l, k) \/ (l = run[r].lead /\ k = run[r].step),
         issued'[run[r].lead][run[r].step] > 0,
         UNCHANGED <<row, suppressed>>
  PROVE  /\ run' \in [Runs -> RunStates]
         /\ Order'
         /\ OptOutStopsSequence'
<1>1. /\ run[r].lead \in Leads /\ run[r].step \in StepNumbers
      /\ \A k \in StepNumbers : k < run[r].step => Given(run[r].lead, k)
  BY DEF SequenceInv, RunsInOrder
<1>2. run' = [run EXCEPT ![r] = x] /\ run \in [Runs -> RunStates]
  BY DEF Move, SequenceInv, TypeOK
<1>3. run' \in [Runs -> RunStates] /\ \A q \in Runs : run'[q] = IF q = r THEN x ELSE run[q]
  BY <1>2
<1>4. NoStepSkipped'
  <2>1. SUFFICES ASSUME NEW l \in Leads, NEW k \in StepNumbers,
                        k <= row[l].step \/ \E i \in StepNumbers : i > k /\ Given(l, i)'
                 PROVE  Given(l, k)'
    BY DEF NoStepSkipped, Given
  <2>2. CASE k <= row[l].step
    BY <2>2 DEF SequenceInv, NoStepSkipped
  <2>3. ASSUME NEW i \in StepNumbers, i > k, Given(l, i)' PROVE Given(l, k)'
    <3>1. CASE Given(l, i)
      BY <3>1, <2>3 DEF SequenceInv, NoStepSkipped
    <3>2. CASE l = run[r].lead /\ i = run[r].step
      BY <3>2, <2>3, <1>1
    <3> QED BY <2>3, <3>1, <3>2
  <2> QED BY <2>1, <2>2, <2>3
<1>5. SeenWasReached'
  BY <1>3 DEF SequenceInv, SeenWasReached, Unread
<1>6. RunsInOrder'
  <2>1. SUFFICES ASSUME NEW q \in Runs, run'[q].pc \in Working
                 PROVE  /\ run'[q].lead \in Leads /\ run'[q].step \in StepNumbers
                        /\ \A k \in StepNumbers : k < run'[q].step => issued'[run'[q].lead][k] > 0
                        /\ run'[q].pc \in Saved => issued'[run'[q].lead][run'[q].step] > 0
    BY DEF RunsInOrder, Given
  <2>2. CASE q = r
    BY <1>1, <1>3, <2>2 DEF Given
  <2>3. CASE q # r
    <3>1. /\ run[q].lead \in Leads /\ run[q].step \in StepNumbers
          /\ \A k \in StepNumbers : k < run[q].step => Given(run[q].lead, k)
          /\ run[q].pc \in Saved => Given(run[q].lead, run[q].step)
      BY <1>3, <2>1, <2>3 DEF SequenceInv, RunsInOrder
    <3>2. run'[q] = run[q]
      BY <1>3, <2>3
    <3> QED BY <3>1, <3>2 DEF Given
  <2> QED BY <2>2, <2>3
<1>7. OptOutStopsSequence'
  BY <1>3 DEF SequenceInv, OptOutStopsSequence
<1> QED BY <1>3, <1>4, <1>5, <1>6, <1>7 DEF Order

\* The draft of the next step is saved: the run takes the lead to that step.
LEMMA SaveStepKeeps ==
  ASSUME SequenceInv, NEW r \in Runs, NEW flagged \in BOOLEAN, SaveStep(r, flagged)
  PROVE  SequenceInv'
<1> DEFINE l == run[r].lead
           to == IF run[r].pc = "touching" THEN "posting" ELSE IF flagged THEN "record" ELSE "mailing"
           x == [run[r] EXCEPT !.pc = to, !.seen = Unread]
<1>1. run[r].pc \in Working /\ run[r] \in RunStates
  BY DEF SaveStep, Working, SequenceInv, TypeOK
<1>2. l \in Leads /\ run[r].step \in StepNumbers
  BY <1>1 DEF SequenceInv, RunsInOrder
<1>3. /\ x \in RunStates /\ x.pc \in Saved
      /\ x.lead = run[r].lead /\ x.step = run[r].step /\ x.late = run[r].late /\ x.seen = Unread
  BY <1>1, IdleIsRun DEF RunStates, RunPC, Saved
<1>4. Move(r, x)
  BY DEF SaveStep
<1> HIDE DEF x
<1>5. issued \in Counts /\ issued' = [issued EXCEPT ![l][run[r].step] = @ + 1]
  BY DEF SequenceInv, TypeOK, Counts, SaveStep
<1>6. issued' \in Counts
  BY <1>2, <1>5, Counted
<1>7. /\ \A i \in Leads, k \in StepNumbers : Given(i, k) => Given(i, k)'
      /\ \A i \in Leads, k \in StepNumbers :
           Given(i, k)' => Given(i, k) \/ (i = l /\ k = run[r].step)
      /\ issued'[l][run[r].step] > 0
  <2>1. \A i \in Leads, k \in StepNumbers :
          issued'[i][k] = issued[i][k] + IF i = l /\ k = run[r].step THEN 1 ELSE 0
    BY <1>2, <1>5 DEF Counts
  <2> QED BY <1>2, <1>5, <2>1 DEF Given, Counts
<1>8. run' \in [Runs -> RunStates] /\ Order' /\ OptOutStopsSequence'
  BY <1>1, <1>3, <1>4, <1>7, GoesOn DEF SaveStep
<1>9. mail' \in [Leads -> Mails] /\ OpenedWasSent'
  <2>1. mail[l] \in Mails
    BY <1>2 DEF SequenceInv, TypeOK
  <2>2. [mail[l] EXCEPT !.held = @ + 1] \in Mails
    BY <2>1 DEF Mails
  <2>3. mail' \in [Leads -> Mails]
    BY <1>2, <2>2 DEF SaveStep, SequenceInv, TypeOK
  <2>4. \A i \in Leads : mail'[i].sent = mail[i].sent /\ mail'[i].opening = mail[i].opening
    BY <1>2 DEF SaveStep, SequenceInv, TypeOK, Mails
  <2> QED BY <2>3, <2>4 DEF SequenceInv, OpenedWasSent
<1>10. TypeOK'
  BY <1>6, <1>8, <1>9 DEF SaveStep, tasks, SequenceInv, TypeOK, Counts
<1> QED BY <1>8, <1>9, <1>10 DEF SequenceInv, Order

\* A saved step is published: nothing new is given.
LEMMA PublishedOrder ==
  ASSUME SequenceInv, NEW r \in Runs, run[r].pc \in Saved,
         Move(r, [run[r] EXCEPT !.pc = "record"]), UNCHANGED <<row, suppressed, issued>>
  PROVE  /\ run' \in [Runs -> RunStates]
         /\ Order'
         /\ OptOutStopsSequence'
<1> DEFINE x == [run[r] EXCEPT !.pc = "record"]
<1>1. run[r] \in RunStates /\ run[r].pc \in Working
  BY DEF SequenceInv, TypeOK, Working
<1>2. /\ x \in RunStates /\ x.pc \in Saved
      /\ x.lead = run[r].lead /\ x.step = run[r].step /\ x.late = run[r].late
      /\ x.seen = run[r].seen
  BY <1>1 DEF RunStates, RunPC, Saved
<1> HIDE DEF x
<1>3. /\ issued'[run[r].lead][run[r].step] > 0
      /\ \A l \in Leads, k \in StepNumbers : Given(l, k)' <=> Given(l, k)
  BY <1>1 DEF SequenceInv, RunsInOrder, Given
<1> QED BY <1>1, <1>2, <1>3, GoesOn DEF x

\* The email of the saved step is in the outbox.
LEMMA PublishEmailKeeps ==
  ASSUME SequenceInv, NEW r \in Runs, PublishEmail(r)
  PROVE  SequenceInv'
<1> DEFINE l == run[r].lead
<1>1. run[r].pc \in Saved /\ l \in Leads
  BY DEF PublishEmail, Saved, SequenceInv, RunsInOrder, Working
<1>2. run' \in [Runs -> RunStates] /\ Order' /\ OptOutStopsSequence'
  BY <1>1, PublishedOrder DEF PublishEmail, history
<1>3. mail' \in [Leads -> Mails] /\ OpenedWasSent'
  <2>1. mail[l] \in Mails
    BY <1>1 DEF SequenceInv, TypeOK
  <2>2. [mail[l] EXCEPT !.outbox = @ + 1] \in Mails
    BY <2>1 DEF Mails
  <2>3. mail' \in [Leads -> Mails]
    BY <1>1, <2>2 DEF PublishEmail, SequenceInv, TypeOK
  <2>4. \A i \in Leads : mail'[i].sent = mail[i].sent /\ mail'[i].opening = mail[i].opening
    BY <1>1 DEF PublishEmail, SequenceInv, TypeOK, Mails
  <2> QED BY <2>3, <2>4 DEF SequenceInv, OpenedWasSent
<1>4. TypeOK'
  BY <1>2, <1>3 DEF PublishEmail, tasks, history, SequenceInv, TypeOK
<1> QED BY <1>2, <1>3, <1>4 DEF SequenceInv, Order

\* The touchpoint of the saved step is in the broker.
LEMMA PublishTouchpointKeeps ==
  ASSUME SequenceInv, NEW r \in Runs, PublishTouchpoint(r)
  PROVE  SequenceInv'
<1> DEFINE j == [lead |-> run[r].lead, step |-> run[r].step, try |-> 0]
<1>1. run[r].pc \in Saved /\ run[r].lead \in Leads /\ run[r].step \in StepNumbers
  BY DEF PublishTouchpoint, Saved, SequenceInv, RunsInOrder, Working
<1>2. j \in Jobs
  BY <1>1 DEF Jobs
<1> HIDE DEF j
<1>3. run' \in [Runs -> RunStates] /\ Order' /\ OptOutStopsSequence'
  BY <1>1, PublishedOrder DEF PublishTouchpoint, history
<1>4. ready' \in [Jobs -> Nat]
  BY <1>2 DEF j, PublishTouchpoint, Published, SequenceInv, TypeOK
<1>5. TypeOK' /\ OpenedWasSent'
  BY <1>3, <1>4 DEF PublishTouchpoint, history, SequenceInv, TypeOK, OpenedWasSent
<1> QED BY <1>3, <1>5 DEF SequenceInv, Order

\* The counter of the lead becomes the number of a step it has been given.
LEMMA RecordStepKeeps ==
  ASSUME SequenceInv, NEW r \in Runs, RecordStep(r)
  PROVE  SequenceInv'
<1> DEFINE l == run[r].lead
           k == run[r].step
           x == DoneWith(r, l, Unread)
<1>1. /\ l \in Leads /\ k \in StepNumbers /\ Given(l, k)
      /\ \A i \in StepNumbers : i < k => Given(l, i)
  BY DEF RecordStep, SequenceInv, RunsInOrder, Working, Saved
<1>2. /\ x \in RunStates /\ x.pc \notin Working /\ x.lead = Nobody /\ x.seen = Unread
  BY <1>1, IdleIsRun, DoneIsRun DEF SequenceInv
<1>3. run' = [run EXCEPT ![r] = x] /\ run \in [Runs -> RunStates]
  BY DEF RecordStep, Move, SequenceInv, TypeOK
<1> HIDE DEF x
<1>4. run' \in [Runs -> RunStates] /\ \A q \in Runs : run'[q] = IF q = r THEN x ELSE run[q]
  BY <1>2, <1>3
<1>5. PICK due \in {"none", "later"} :
        row' = [row EXCEPT ![l] = [row[l] EXCEPT !.step = k, !.due = due]]
  BY DEF RecordStep, Recorded
<1>6. /\ row \in [Leads -> Rows] /\ [row[l] EXCEPT !.step = k, !.due = due] \in Rows
      /\ [row[l] EXCEPT !.step = k, !.due = due].step = k
  <2>1. row \in [Leads -> Rows] /\ row[l] \in Rows /\ k \in 0..MaxStep
    BY <1>1 DEF SequenceInv, TypeOK, StepNumbers
  <2> QED BY <2>1 DEF Rows
<1>7. /\ row' \in [Leads -> Rows]
      /\ \A i \in Leads : row'[i].step = IF i = l THEN k ELSE row[i].step
  BY <1>1, <1>5, <1>6
<1>8. UNCHANGED <<issued, suppressed, mail>>
  BY DEF RecordStep, history
<1>9. NoStepSkipped'
  <2>1. ASSUME NEW i \in Leads, NEW n \in StepNumbers, n <= row'[i].step PROVE Given(i, n)
    BY <1>1, <1>7, <2>1 DEF SequenceInv, NoStepSkipped, StepNumbers
  <2> QED BY <1>8, <2>1 DEF SequenceInv, NoStepSkipped, Given
<1>10. SeenWasReached' /\ RunsInOrder'
  BY <1>2, <1>4, <1>8 DEF SequenceInv, SeenWasReached, RunsInOrder, Given, Unread
<1>11. OptOutStopsSequence' /\ OpenedWasSent'
  BY <1>2, <1>4, <1>8 DEF SequenceInv, TypeOK, OptOutStopsSequence, OpenedWasSent
<1>12. TypeOK'
  BY <1>4, <1>7 DEF RecordStep, tasks, history, SequenceInv, TypeOK
<1> QED BY <1>9, <1>10, <1>11, <1>12 DEF SequenceInv

\* A run that dies holds nothing.
LEMMA AbortKeeps ==
  ASSUME SequenceInv, NEW r \in Runs, AbortRun(r), budget' \in [EventKinds -> Nat]
  PROVE  SequenceInv'
<1>1. run' \in [Runs -> RunStates] /\ \A q \in Runs : run'[q] = IF q = r THEN IdleRun ELSE run[q]
  BY IdleIsRun DEF AbortRun, Move, SequenceInv, TypeOK
<1>2. tally' \in [Leads -> Tallies]
  <2>1. tally \in [Leads -> Tallies]
    BY DEF SequenceInv, TypeOK, Tallies
  <2>2. ASSUME NEW l \in Leads PROVE [tally[l] EXCEPT !.repeats = @ + 1] \in Tallies
    BY <2>1 DEF Tallies
  <2> QED BY <2>1, <2>2 DEF AbortRun
<1>3. TypeOK'
  BY <1>1, <1>2 DEF AbortRun, tasks, history, SequenceInv, TypeOK, Tallies
<1>4. Order'
  <2>1. /\ Move(r, IdleRun) /\ UNCHANGED <<issued, row>>
        /\ IdleRun.pc \notin Working /\ IdleRun.seen = Unread
    BY DEF AbortRun, history, IdleRun, Working, Saved
  <2> QED BY <2>1, OrderMoves DEF SequenceInv, Order, Unread
<1>5. OptOutStopsSequence' /\ OpenedWasSent'
  <2>1. IdleRun.lead = Nobody /\ Nobody \notin suppressed
    BY DEF IdleRun, SequenceInv, TypeOK
  <2> QED BY <1>1, <2>1 DEF AbortRun, SequenceInv, OptOutStopsSequence, OpenedWasSent
<1> QED BY <1>3, <1>4, <1>5 DEF SequenceInv, Order

\* A run that dies, or whose commit fails, leaves the lead where it was last committed.
LEMMA RunDiesKeeps ==
  ASSUME SequenceInv, NEW r \in Runs, RecordAborts(r) \/ RunCrash(r)
  PROVE  SequenceInv'
<1>1. AbortRun(r)
  BY DEF RecordAborts, RunCrash
<1>2. budget' \in [EventKinds -> Nat]
  BY Spent DEF RecordAborts, RunCrash, SequenceInv, TypeOK, EventKinds
<1> QED BY <1>1, <1>2, AbortKeeps

-----------------------------------------------------------------------------
(* What happens outside the runs.                                           *)

\* Nothing but the types is at stake where runs, steps and opt-outs are left alone.
LEMMA Outside ==
  ASSUME SequenceInv, TypeOK', OpenedWasSent', UNCHANGED <<issued, run, suppressed>>,
         \A l \in Leads : row'[l].step = row[l].step
  PROVE  SequenceInv'
<1>1. Order'
  BY OrderFrame DEF SequenceInv, Order
<1> QED BY <1>1 DEF SequenceInv, Order, OptOutStopsSequence

\* The tasks of touchpoints and what the webhook gets.
TouchTyped == /\ ready \in [Jobs -> Nat] /\ posted \in [Jobs -> Nat]
              /\ touched \in Counts /\ again \in Counts
              /\ budget \in [EventKinds -> Nat]

\* A step of a touchpoint task moves neither rows nor runs.
LEMMA TouchpointKeeps ==
  ASSUME SequenceInv, UNCHANGED others, TouchTyped'
  PROVE  SequenceInv'
<1>1. TypeOK' /\ OpenedWasSent'
  BY DEF others, TouchTyped, Counts, SequenceInv, TypeOK, OpenedWasSent
<1> QED BY <1>1, Outside DEF others

\* Touchpoint tasks come and go, and touch leads, within their types.
LEMMA TouchpointFacts ==
  ASSUME SequenceInv, NEW j \in Jobs
  PROVE  /\ TouchTyped
         /\ j.lead \in Leads /\ j.step \in StepNumbers
         /\ [ready EXCEPT ![j] = @ + 1] \in [Jobs -> Nat]
         /\ ready[j] > 0 => Drop(j) \in [Jobs -> Nat]
         /\ [touched EXCEPT ![j.lead][j.step] = @ + 1] \in Counts
         /\ [again EXCEPT ![j.lead][j.step] = @ + 1] \in Counts
<1>1. TouchTyped
  BY DEF TouchTyped, Counts, SequenceInv, TypeOK
<1>2. j.lead \in Leads /\ j.step \in StepNumbers
  BY DEF Jobs
<1>3. [ready EXCEPT ![j] = @ + 1] \in [Jobs -> Nat]
  BY <1>1 DEF TouchTyped
<1>4. ready[j] > 0 => Drop(j) \in [Jobs -> Nat]
  BY <1>1 DEF TouchTyped, Drop
<1>5. /\ [touched EXCEPT ![j.lead][j.step] = @ + 1] \in Counts
      /\ [again EXCEPT ![j.lead][j.step] = @ + 1] \in Counts
  BY <1>1, <1>2, Counted DEF TouchTyped
<1> QED BY <1>1, <1>2, <1>3, <1>4, <1>5

\* A retried touchpoint task goes back to the broker with its next attempt.
LEMMA RetriedTask ==
  ASSUME SequenceInv, NEW j \in Jobs, ready[j] > 0, j.try < MaxRetries
  PROVE  [Drop(j) EXCEPT ![[j EXCEPT !.try = @ + 1]] = @ + 1] \in [Jobs -> Nat]
<1>1. [j EXCEPT !.try = @ + 1] \in Jobs
  BY DEF Jobs
<1>2. Drop(j) \in [Jobs -> Nat]
  BY TouchpointFacts
<1> QED BY <1>1, <1>2

\* Every step of the touchpoint tasks, with their crashes and retries.
LEMMA TouchpointsKeep ==
  ASSUME SequenceInv, NEW j \in Jobs,
         \/ PostTouchpoint(j) \/ CommitTouchpoint(j) \/ FailTouchpoint(j)
         \/ TouchpointCrash(j) \/ Redeliver(j)
         \/ \E done \in BOOLEAN : RetryTouchpoint(j, done)
  PROVE  SequenceInv'
<1>1. ASSUME NEW kind \in EventKinds, Spend(kind) PROVE budget' \in [EventKinds -> Nat]
  BY <1>1, Spent DEF SequenceInv
<1>2. /\ TouchTyped
      /\ Published(j) \in [Jobs -> Nat] /\ (ready[j] > 0 => Drop(j) \in [Jobs -> Nat])
      /\ Accepted(j) => touched' \in Counts
      /\ Disturbed(j) => again' \in Counts
  BY TouchpointFacts DEF Published, Accepted, Disturbed
<1>3. CASE PostTouchpoint(j)
  <2>1. [posted EXCEPT ![j] = @ + 1] \in [Jobs -> Nat]
    BY <1>2 DEF TouchTyped
  <2>2. TouchTyped'
    BY <1>2, <1>3, <2>1 DEF PostTouchpoint, TouchTyped
  <2> QED BY <1>3, <2>2, TouchpointKeeps DEF PostTouchpoint
<1>4. ASSUME posted[j] > 0 PROVE [posted EXCEPT ![j] = @ - 1] \in [Jobs -> Nat]
  BY <1>2, <1>4 DEF TouchTyped
<1>5. CASE CommitTouchpoint(j)
  <2>1. TouchTyped'
    BY <1>2, <1>4, <1>5 DEF CommitTouchpoint, TouchTyped
  <2> QED BY <1>5, <2>1, TouchpointKeeps DEF CommitTouchpoint
<1>6. CASE FailTouchpoint(j)
  <2>1. budget' \in [EventKinds -> Nat]
    BY <1>1, <1>6 DEF FailTouchpoint, EventKinds
  <2>2. TouchTyped'
    BY <1>2, <1>6, <2>1 DEF FailTouchpoint, TouchTyped
  <2> QED BY <1>6, <2>2, TouchpointKeeps DEF FailTouchpoint
<1>7. CASE TouchpointCrash(j)
  <2>1. budget' \in [EventKinds -> Nat]
    BY <1>1, <1>7 DEF TouchpointCrash, EventKinds
  <2>2. TouchTyped'
    BY <1>2, <1>4, <1>7, <2>1 DEF TouchpointCrash, TouchTyped
  <2> QED BY <1>7, <2>2, TouchpointKeeps DEF TouchpointCrash
<1>8. CASE Redeliver(j)
  <2>1. budget' \in [EventKinds -> Nat]
    BY <1>1, <1>8 DEF Redeliver, EventKinds
  <2>2. TouchTyped'
    BY <1>2, <1>8, <2>1 DEF Redeliver, TouchTyped
  <2> QED BY <1>8, <2>2, TouchpointKeeps DEF Redeliver
<1>9. ASSUME NEW done \in BOOLEAN, RetryTouchpoint(j, done) PROVE SequenceInv'
  <2>1. budget' \in [EventKinds -> Nat]
    BY <1>1, <1>9 DEF RetryTouchpoint, EventKinds
  <2>2. ready' \in [Jobs -> Nat]
    BY <1>2, <1>9, RetriedTask DEF RetryTouchpoint
  <2>3. TouchTyped'
    BY <1>2, <1>9, <2>1, <2>2 DEF RetryTouchpoint, TouchTyped
  <2> QED BY <1>9, <2>3, TouchpointKeeps DEF RetryTouchpoint
<1> QED BY <1>3, <1>5, <1>6, <1>7, <1>8, <1>9

-----------------------------------------------------------------------------
(* Dates, emails, opens, replies and opt-outs.                              *)

\* Time passes: a date that was ahead is reached.
LEMMA ElapseKeeps == ASSUME SequenceInv, NEW l \in Leads, Elapse(l) PROVE SequenceInv'
<1> DEFINE x == [row[l] EXCEPT !.due = "now"]
           t == [tally[l] EXCEPT !.elapsed = @ + 1]
<1>1. row[l] \in Rows /\ tally[l] \in Tallies
  BY DEF SequenceInv, TypeOK, Tallies
<1>2. x \in Rows /\ x.step = row[l].step /\ t \in Tallies
  BY <1>1 DEF Rows, Tallies
<1>3. row' = [row EXCEPT ![l] = x] /\ tally' = [tally EXCEPT ![l] = t]
  BY DEF Elapse
<1> HIDE DEF x, t
<1>4. TypeOK' /\ OpenedWasSent' /\ \A i \in Leads : row'[i].step = row[i].step
  <2>1. row' \in [Leads -> Rows] /\ \A i \in Leads : row'[i].step = row[i].step
    BY <1>2, <1>3 DEF SequenceInv, TypeOK
  <2>2. tally' \in [Leads -> Tallies]
    BY <1>2, <1>3 DEF SequenceInv, TypeOK, Tallies
  <2> QED BY <2>1, <2>2 DEF Elapse, tasks, history, SequenceInv, TypeOK, Tallies, OpenedWasSent
<1> QED BY <1>4, Outside DEF Elapse, history

\* An action of the mail system: some record of emails, some status of the lead.
LEMMA MailKeeps ==
  ASSUME SequenceInv, NEW l \in Leads, NEW m \in Mails, mail' = [mail EXCEPT ![l] = m],
         m.opening # "no" => m.sent > 0,
         NEW s \in Followed \cup {"replied", "opted_out"},
         row' = [row EXCEPT ![l].status = s] \/ row' = row,
         UNCHANGED <<plan, suppressed, run, tasks, history, tally>>,
         budget' \in [EventKinds -> Nat]
  PROVE  SequenceInv'
<1>1. row' \in [Leads -> Rows] /\ \A i \in Leads : row'[i].step = row[i].step
  <2>1. row \in [Leads -> Rows] /\ row[l] \in Rows
    BY DEF SequenceInv, TypeOK
  <2>2. [row[l] EXCEPT !.status = s] \in Rows /\ [row[l] EXCEPT !.status = s].step = row[l].step
    BY <2>1 DEF Rows
  <2> QED BY <2>1, <2>2
<1>2. TypeOK' /\ OpenedWasSent'
  BY <1>1 DEF tasks, history, SequenceInv, TypeOK, OpenedWasSent
<1> QED BY <1>1, <1>2, Outside DEF history

\* A mail leaves the outbox: it is sent, or its lead turns out to be suppressed.
LEMMA DeliverKeeps == ASSUME SequenceInv, NEW l \in Leads, Deliver(l) PROVE SequenceInv'
<1> DEFINE out == l \in suppressed
           m0 == [mail[l] EXCEPT !.outbox = @ - 1]
           m == [m0 EXCEPT !.sent = IF out THEN @ ELSE @ + 1]
           s == IF out THEN "opted_out" ELSE "sent"
<1>1. mail[l] \in Mails /\ mail[l].outbox > 0 /\ (mail[l].opening # "no" => mail[l].sent > 0)
  BY DEF Deliver, SequenceInv, TypeOK, OpenedWasSent
<1>2. m \in Mails /\ (m.opening # "no" => m.sent > 0)
  <2>1. /\ mail[l].sent \in Nat /\ mail[l].held \in Nat /\ mail[l].outbox \in Nat
        /\ mail[l].opening \in {"no", "sent", "other"}
    BY <1>1 DEF Mails
  <2>2. m0 \in Mails /\ m0.sent = mail[l].sent /\ m0.held = mail[l].held
        /\ m0.outbox = mail[l].outbox - 1 /\ m0.opening = mail[l].opening
    BY <1>1, <2>1 DEF Mails
  <2> HIDE DEF m0
  <2> QED BY <1>1, <2>1, <2>2 DEF Mails
<1>3. s \in Followed \cup {"replied", "opted_out"}
  BY DEF Followed
<1>4. mail' = [mail EXCEPT ![l] = m] /\ row' = [row EXCEPT ![l].status = s]
  BY DEF Deliver
<1> HIDE DEF m, s
<1> QED BY <1>2, <1>3, <1>4, MailKeeps DEF Deliver, SequenceInv, TypeOK

\* The server refuses a mail of the outbox.
LEMMA DeliveryRefusedKeeps ==
  ASSUME SequenceInv, NEW l \in Leads, DeliveryRefused(l)
  PROVE  SequenceInv'
<1> DEFINE m == [mail[l] EXCEPT !.outbox = @ - 1]
<1>1. mail[l] \in Mails /\ mail[l].outbox > 0 /\ (mail[l].opening # "no" => mail[l].sent > 0)
  BY DEF DeliveryRefused, SequenceInv, TypeOK, OpenedWasSent
<1>2. m \in Mails /\ (m.opening # "no" => m.sent > 0)
  <2>1. /\ mail[l].sent \in Nat /\ mail[l].held \in Nat /\ mail[l].outbox \in Nat
        /\ mail[l].opening \in {"no", "sent", "other"}
    BY <1>1 DEF Mails
  <2> QED BY <1>1, <2>1 DEF Mails
<1>3. budget' \in [EventKinds -> Nat] /\ mail' = [mail EXCEPT ![l] = m]
  BY Spent DEF DeliveryRefused, SequenceInv, EventKinds
<1> HIDE DEF m
<1> QED BY <1>2, <1>3, MailKeeps DEF DeliveryRefused

\* A mail that was sent bounces.
LEMMA ReportBounceKeeps ==
  ASSUME SequenceInv, NEW l \in Leads, ReportBounce(l)
  PROVE  SequenceInv'
<1> DEFINE m == [mail[l] EXCEPT !.sent = @ - 1]
<1>1. mail[l] \in Mails /\ mail[l].sent > IF mail[l].opening = "no" THEN 0 ELSE 1
  BY DEF ReportBounce, SequenceInv, TypeOK
<1>2. m \in Mails /\ (m.opening # "no" => m.sent > 0)
  <2>1. /\ mail[l].sent \in Nat /\ mail[l].held \in Nat /\ mail[l].outbox \in Nat
        /\ mail[l].opening \in {"no", "sent", "other"}
    BY <1>1 DEF Mails
  <2> QED BY <1>1, <2>1 DEF Mails
<1>3. budget' \in [EventKinds -> Nat] /\ mail' = [mail EXCEPT ![l] = m]
  BY Spent DEF ReportBounce, SequenceInv, EventKinds
<1>4. row[l].status \in Followed \cup {"replied", "opted_out"}
  BY DEF SequenceInv, TypeOK, Rows
<1> HIDE DEF m
<1> QED BY <1>2, <1>3, <1>4, MailKeeps DEF ReportBounce

\* A human clears a mail that was held for review.
LEMMA ReleaseHeldKeeps ==
  ASSUME SequenceInv, NEW l \in Leads, ReleaseHeld(l)
  PROVE  SequenceInv'
<1> DEFINE m0 == [mail[l] EXCEPT !.outbox = @ + 1]
           m == [m0 EXCEPT !.held = @ - 1]
<1>1. mail[l] \in Mails /\ mail[l].held > 0 /\ (mail[l].opening # "no" => mail[l].sent > 0)
  BY DEF ReleaseHeld, SequenceInv, TypeOK, OpenedWasSent
<1>2. m \in Mails /\ (m.opening # "no" => m.sent > 0)
  <2>1. /\ mail[l].sent \in Nat /\ mail[l].held \in Nat /\ mail[l].outbox \in Nat
        /\ mail[l].opening \in {"no", "sent", "other"}
    BY <1>1 DEF Mails
  <2>2. m0 \in Mails /\ m0.sent = mail[l].sent /\ m0.held = mail[l].held
        /\ m0.outbox = mail[l].outbox + 1 /\ m0.opening = mail[l].opening
    BY <1>1, <2>1 DEF Mails
  <2> HIDE DEF m0
  <2> QED BY <1>1, <2>1, <2>2 DEF Mails
<1>3. mail' = [mail EXCEPT ![l] = m]
  BY DEF ReleaseHeld
<1> HIDE DEF m
<1> QED BY <1>2, <1>3, MailKeeps DEF ReleaseHeld, SequenceInv, TypeOK

\* The pixel is fetched: the lead is read.
LEMMA LoadOpenKeeps == ASSUME SequenceInv, NEW l \in Leads, LoadOpen(l) PROVE SequenceInv'
<1> DEFINE m == [mail[l] EXCEPT !.opening = IF row[l].status = "sent" THEN "sent" ELSE "other"]
<1>1. mail[l] \in Mails /\ mail[l].sent > 0
  BY DEF LoadOpen, Openable, SequenceInv, TypeOK
<1>2. m \in Mails /\ (m.opening # "no" => m.sent > 0)
  <2>1. /\ mail[l].sent \in Nat /\ mail[l].held \in Nat /\ mail[l].outbox \in Nat
        /\ mail[l].opening \in {"no", "sent", "other"}
    BY <1>1 DEF Mails
  <2> QED BY <1>1, <2>1 DEF Mails
<1>3. mail' = [mail EXCEPT ![l] = m]
  BY DEF LoadOpen
<1> HIDE DEF m
<1> QED BY <1>2, <1>3, MailKeeps DEF LoadOpen, SequenceInv, TypeOK

\* The opening is written, from the lead as it was read.
LEMMA TrackOpenKeeps == ASSUME SequenceInv, NEW l \in Leads, TrackOpen(l) PROVE SequenceInv'
<1> DEFINE m0 == [mail[l] EXCEPT !.opening = "no"]
           m == [m0 EXCEPT !.sent = @ - 1]
<1>1. mail[l] \in Mails /\ mail[l].sent > 0
  BY DEF TrackOpen, SequenceInv, TypeOK, OpenedWasSent
<1>2. m \in Mails /\ m.opening = "no"
  <2>1. /\ mail[l].sent \in Nat /\ mail[l].held \in Nat /\ mail[l].outbox \in Nat
        /\ mail[l].opening \in {"no", "sent", "other"}
    BY <1>1 DEF Mails
  <2>2. m0 \in Mails /\ m0.sent = mail[l].sent /\ m0.held = mail[l].held
        /\ m0.outbox = mail[l].outbox /\ m0.opening = "no"
    BY <1>1, <2>1 DEF Mails
  <2> HIDE DEF m0
  <2> QED BY <1>1, <2>1, <2>2 DEF Mails
<1>3. mail' = [mail EXCEPT ![l] = m]
  BY DEF TrackOpen
<1>4. row' = [row EXCEPT ![l].status = "opened"] \/ row' = row
  BY DEF TrackOpen
<1> HIDE DEF m
<1> QED BY <1>2, <1>3, <1>4, MailKeeps DEF TrackOpen, Followed, SequenceInv, TypeOK

\* A reply takes the lead out of the sequence, at the step it has reached.
LEMMA ReplyKeeps == ASSUME SequenceInv, NEW l \in Leads, Reply(l) PROVE SequenceInv'
<1> DEFINE x == [row[l] EXCEPT !.status = "replied"]
<1>1. row[l] \in Rows /\ tally \in [Leads -> Tallies]
  BY DEF SequenceInv, TypeOK, Tallies
<1>2. x \in Rows /\ x.step = row[l].step
  BY <1>1 DEF Rows
<1>3. tally' \in [Leads -> Tallies]
  <2>1. UnderWay(l) \in BOOLEAN
    BY DEF UnderWay
  <2>2. [tally[l] EXCEPT !.replied = TRUE, !.crossed = UnderWay(l)] \in Tallies
    BY <1>1, <2>1 DEF Tallies
  <2>3. tally' = [tally EXCEPT ![l] = [tally[l] EXCEPT !.replied = TRUE, !.crossed = UnderWay(l)]]
    BY DEF Reply
  <2> QED BY <1>1, <2>2, <2>3
<1>4. row' = [row EXCEPT ![l] = x] /\ budget' \in [EventKinds -> Nat]
  BY Spent DEF Reply, SequenceInv, EventKinds
<1> HIDE DEF x
<1>5. TypeOK' /\ OpenedWasSent' /\ \A i \in Leads : row'[i].step = row[i].step
  <2>1. row' \in [Leads -> Rows] /\ \A i \in Leads : row'[i].step = row[i].step
    BY <1>2, <1>3, <1>4 DEF SequenceInv, TypeOK
  <2>2. tally' \in [Leads -> Tallies]
    BY <1>2, <1>3, <1>4 DEF SequenceInv, TypeOK, Tallies
  <2> QED BY <1>4, <2>1, <2>2 DEF Reply, tasks, history, SequenceInv, TypeOK, Tallies, OpenedWasSent
<1> QED BY <1>5, Outside DEF Reply, history

\* A run that works on the lead is late from now on.
LEMMA OptOutKeeps ==
  ASSUME SequenceInv, NEW l \in Leads, NEW x \in Rows, x.step = row[l].step, OptOut(l, x)
  PROVE  SequenceInv'
<1>1. ASSUME NEW r \in Runs
      PROVE  /\ run'[r] \in RunStates
             /\ run'[r].pc = run[r].pc /\ run'[r].lead = run[r].lead
             /\ run'[r].step = run[r].step /\ run'[r].seen = run[r].seen
             /\ run'[r].late <=> (run[r].late \/ run[r].lead = l)
  <2>1. run[r] \in RunStates
    BY DEF SequenceInv, TypeOK
  <2>2. run'[r] = [run[r] EXCEPT !.late = @ \/ run[r].lead = l]
    BY DEF OptOut
  <2>3. (run[r].late \/ run[r].lead = l) \in BOOLEAN
    OBVIOUS
  <2> QED BY <2>1, <2>2, <2>3 DEF RunStates
<1>2. run' \in [Runs -> RunStates]
  BY <1>1 DEF OptOut
<1>3. row' \in [Leads -> Rows] /\ \A i \in Leads : row'[i].step = row[i].step
  BY DEF OptOut, SequenceInv, TypeOK
<1>4. TypeOK' /\ OpenedWasSent'
  BY <1>2, <1>3, Spent DEF OptOut, tasks, history, EventKinds, SequenceInv, TypeOK, OpenedWasSent
<1>5. Order'
  BY <1>1, <1>3 DEF OptOut, history, SequenceInv, Order, NoStepSkipped, SeenWasReached,
     RunsInOrder, Given
<1>6. OptOutStopsSequence'
  BY <1>1 DEF OptOut, SequenceInv, OptOutStopsSequence
<1> QED BY <1>4, <1>5, <1>6 DEF SequenceInv, Order

\* By the link, by a reply or by the list: an opt-out keeps the step.
LEMMA AnyOptOutKeeps == ASSUME SequenceInv, NEW l \in Leads, AnyOptOut(l) PROVE SequenceInv'
<1>1. row[l] \in Rows
  BY DEF SequenceInv, TypeOK
<1>2. /\ [row[l] EXCEPT !.status = "opted_out", !.due = "none"] \in Rows
      /\ [row[l] EXCEPT !.status = "opted_out"] \in Rows
      /\ [row[l] EXCEPT !.status = "opted_out", !.due = "none"].step = row[l].step
      /\ [row[l] EXCEPT !.status = "opted_out"].step = row[l].step
  BY <1>1 DEF Rows
<1> QED BY <1>1, <1>2, OptOutKeeps DEF AnyOptOut

\* The steps of the campaign are replaced: runs read the new ones from then on.
LEMMA ReplaceSequenceKeeps ==
  ASSUME SequenceInv, NEW p \in Plans, ReplaceSequence(p)
  PROVE  SequenceInv'
<1>1. TypeOK' /\ OpenedWasSent'
  BY Spent DEF ReplaceSequence, tasks, history, EventKinds, NoPlan, SequenceInv, TypeOK,
     OpenedWasSent
<1> QED BY <1>1, Outside DEF ReplaceSequence, history

-----------------------------------------------------------------------------
(* The theorems.                                                            *)

\* After the cold email nothing has been given and nothing is under way.
LEMMA InitSequence == Init => SequenceInv
<1> SUFFICES ASSUME Init PROVE SequenceInv
  OBVIOUS
<1>1. row \in [Leads -> Rows] /\ mail \in [Leads -> Mails] /\ tally \in [Leads -> Tallies]
  BY DEF Init, Rows, Mails, Tallies, Followed
<1>2. TypeOK
  BY <1>1, IdleIsRun DEF Init, TypeOK, NoSteps, NoPlan, Tallies
<1>3. Order
  BY DEF Init, Order, NoStepSkipped, SeenWasReached, RunsInOrder, Given, NoSteps, IdleRun,
     Unread, StepNumbers, Working, Saved
<1>4. OpenedWasSent /\ OptOutStopsSequence
  BY DEF Init, OpenedWasSent, OptOutStopsSequence
<1> QED BY <1>2, <1>3, <1>4 DEF SequenceInv, Order

\* Every step keeps the invariant.
LEMMA NextKeeps == SequenceInv /\ [Next]_vars => SequenceInv'
<1> SUFFICES ASSUME SequenceInv, [Next]_vars PROVE SequenceInv'
  OBVIOUS
<1>1. ASSUME NEW r \in Runs, RunStep(r) PROVE SequenceInv'
  BY <1>1, BeginRunKeeps, SkipSuppressedKeeps, EndSequenceKeeps, NothingToFollowKeeps,
     StartStepKeeps, SaveStepKeeps, PublishEmailKeeps, PublishTouchpointKeeps,
     RecordStepKeeps, RunDiesKeeps DEF RunStep
<1>2. ASSUME NEW j \in Jobs, PostTouchpoint(j) \/ CommitTouchpoint(j) PROVE SequenceInv'
  BY <1>2, TouchpointsKeep
<1>3. ASSUME NEW l \in Leads,
             Elapse(l) \/ Deliver(l) \/ ReleaseHeld(l) \/ LoadOpen(l) \/ TrackOpen(l)
      PROVE  SequenceInv'
  BY <1>3, ElapseKeeps, DeliverKeeps, ReleaseHeldKeeps, LoadOpenKeeps, TrackOpenKeeps
<1>4. CASE Disturbance
  BY <1>4, DraftFailsKeeps, RunDiesKeeps, TouchpointsKeep, DeliveryRefusedKeeps,
     ReportBounceKeeps, ReplyKeeps,
     AnyOptOutKeeps, ReplaceSequenceKeeps DEF Disturbance
<1>5. CASE UNCHANGED vars
  BY <1>5 DEF vars, tasks, history, SequenceInv, TypeOK, NoStepSkipped, SeenWasReached,
     RunsInOrder, Given, OpenedWasSent, OptOutStopsSequence
<1> QED BY <1>1, <1>2, <1>3, <1>4, <1>5 DEF Next

\* The steps of the sequence are kept in order whatever runs overlap, crash or lose
\* their blueprint: the inductive invariant holds in every state.
THEOREM SequenceInvariant == Spec => []SequenceInv
BY InitSequence, NextKeeps, PTL DEF Spec

\* No lead is ever given a step without every step before it.
THEOREM StepsComeInOrder == Spec => []NoStepSkipped
<1>1. SequenceInv => NoStepSkipped
  BY DEF SequenceInv
<1> QED BY <1>1, SequenceInvariant, PTL

\* A run works on a lead of the suppression list only if it had asked the list
\* before the entry was added.
THEOREM OptOutIsAsked == Spec => []OptOutStopsSequence
<1>1. SequenceInv => OptOutStopsSequence
  BY DEF SequenceInv
<1> QED BY <1>1, SequenceInvariant, PTL

-----------------------------------------------------------------------------
(* What one lead sees of a step.  The runs that hold a lead are going to     *)
(* give it some step, their level; a step of the sequence changes who holds  *)
(* the lead by one run at most, and the counts follow from how.              *)

Holders(l) == {r \in Runs : Holds(r, l)}

\* The step of l run r has saved and not recorded, and the one it is at or will take.
GivesTo(r, l) == run[r].lead = l /\ run[r].pc \in Saved
Level(r, l) == IF run[r].lead = l THEN run[r].step ELSE NextStep(r, l)

\* A run that is not at work works on no lead, and an idle one has none to do.
IdleIsFree ==
  \A r \in Runs : /\ run[r].pc \notin Working => run[r].lead = Nobody
                  /\ run[r].pc = "idle" => run[r].todo = {}

Sequence == SequenceInv /\ IdleIsFree

\* To l, run r is what it was: at most its session reads the counter anew.
KeptRun(r, l) ==
  /\ Holds(r, l)' <=> Holds(r, l)
  /\ GivesTo(r, l)' <=> GivesTo(r, l)
  /\ Level(r, l)' = Level(r, l) \/ (~GivesTo(r, l) /\ Level(r, l)' = 1 + row'[l].step)
KeptBut(r, l) == \A q \in Runs \ {r} : KeptRun(q, l)

\* What the counts of l keep, and its row.
SameCounts(l) == issued'[l] = issued[l] /\ tally'[l].elapsed = tally[l].elapsed
SameRepeats(l) == tally'[l].repeats = tally[l].repeats
SameStep(l) == row'[l].step = row[l].step

\* No run takes it up or puts it down; its date may come, which is counted.
Still(l) ==
  /\ \A q \in Runs : KeptRun(q, l)
  /\ SameRepeats(l) /\ SameStep(l) /\ issued'[l] = issued[l]
  /\ \/ tally'[l].elapsed = tally[l].elapsed /\ (row'[l].due = "now" => row[l].due = "now")
     \/ tally'[l].elapsed = tally[l].elapsed + 1

\* Run r finds it due, beside the runs that hold it already.
Joins(r, l) ==
  /\ KeptBut(r, l) /\ SameCounts(l) /\ SameStep(l)
  /\ ~Holds(r, l) /\ Holds(r, l)' /\ ~GivesTo(r, l)'
  /\ Level(r, l)' = 1 + row[l].step
  /\ l \in DueLeads
  /\ tally'[l].repeats = tally[l].repeats + Cardinality(Holders(l))

\* Run r is done with it, or dies, without having saved a step.
Leaves(r, l) ==
  /\ KeptBut(r, l) /\ SameCounts(l) /\ SameRepeats(l) /\ SameStep(l)
  /\ Holds(r, l) /\ ~Holds(r, l)' /\ ~GivesTo(r, l)

\* Run r commits the row of its step.
Saves(r, l) ==
  /\ KeptBut(r, l) /\ SameRepeats(l) /\ SameStep(l)
  /\ tally'[l].elapsed = tally[l].elapsed
  /\ Holds(r, l) /\ Holds(r, l)' /\ ~GivesTo(r, l) /\ GivesTo(r, l)'
  /\ Level(r, l) \in StepNumbers /\ Level(r, l)' = Level(r, l)
  /\ issued'[l][Level(r, l)] = issued[l][Level(r, l)] + 1
  /\ \A k \in StepNumbers \ {Level(r, l)} : issued'[l][k] = issued[l][k]

\* Run r records the step it has saved: no date is due then.
Records(r, l) ==
  /\ KeptBut(r, l) /\ SameCounts(l) /\ SameRepeats(l)
  /\ Holds(r, l) /\ ~Holds(r, l)' /\ GivesTo(r, l)
  /\ row'[l].step = Level(r, l) /\ row'[l].due # "now"

\* Run r ends between the row of its step and the record: it will be taken again.
Aborts(r, l) ==
  /\ KeptBut(r, l) /\ SameCounts(l) /\ SameStep(l)
  /\ Holds(r, l) /\ ~Holds(r, l)' /\ GivesTo(r, l)
  /\ tally'[l].repeats = tally[l].repeats + 1

Event(l) ==
  \/ Still(l)
  \/ \E r \in Runs : Joins(r, l) \/ Leaves(r, l) \/ Saves(r, l) \/ Records(r, l) \/ Aborts(r, l)

\* A run that does not move is to every lead what it was.
LEMMA OthersKept ==
  ASSUME NEW r \in Runs, NEW x, Move(r, x), TypeOK, NEW l \in Leads
  PROVE  KeptBut(r, l) /\ run'[r] = x
<1>1. \A q \in Runs : run'[q] = IF q = r THEN x ELSE run[q]
  BY DEF Move, TypeOK
<1>2. ASSUME NEW q \in Runs, run'[q] = run[q]  PROVE KeptRun(q, l)
  <2>1. (Holds(q, l)' <=> Holds(q, l)) /\ (GivesTo(q, l)' <=> GivesTo(q, l))
    BY <1>2 DEF Holds, GivesTo
  <2>2. Level(q, l)' = Level(q, l) \/ (~GivesTo(q, l) /\ Level(q, l)' = 1 + row'[l].step)
    BY <1>2 DEF Level, NextStep, GivesTo
  <2> QED BY <2>1, <2>2 DEF KeptRun
<1> QED BY <1>1, <1>2 DEF KeptBut
\* A run that is done with lead l0 puts it down; the leads it has left to do see
\* nothing of it.
LEMMA PutsDown ==
  ASSUME Sequence, NEW r \in Runs, NEW l0 \in Leads, run[r].lead \in {l0, Nobody},
         NEW seen \in {Unread, run[r].seen}, Move(r, DoneWith(r, l0, seen))
  PROVE  /\ IdleIsFree'
         /\ \A l \in Leads : KeptBut(r, l)
         /\ \A l \in Leads \ {l0} : KeptRun(r, l)
         /\ ~Holds(r, l0)'
<1> DEFINE x == DoneWith(r, l0, seen)
<1>1. /\ x.lead = Nobody /\ x.pc \in {"idle", "scan"} /\ x.todo = run[r].todo \ {l0}
      /\ x.pc = "idle" => x.todo = {}
      /\ x.seen \in {seen, Unread}
  BY DEF DoneWith, IdleRun
<1>2. Nobody \notin Leads
  OBVIOUS
<1> HIDE DEF x
<1>3. (\A l \in Leads : KeptBut(r, l)) /\ run'[r] = x
  BY OthersKept DEF x, Sequence, SequenceInv
<1>4. IdleIsFree'
  <2>1. \A q \in Runs : run'[q] = IF q = r THEN x ELSE run[q]
    BY DEF x, Move, Sequence, SequenceInv, TypeOK
  <2> QED BY <1>1, <2>1 DEF Sequence, IdleIsFree
<1>5. ASSUME NEW l \in Leads \ {l0}  PROVE KeptRun(r, l)
  <2>1. ~GivesTo(r, l) /\ ~GivesTo(r, l)' /\ Level(r, l) = NextStep(r, l)
    BY <1>1, <1>2, <1>3 DEF GivesTo, Level
  <2>2. Holds(r, l)' <=> Holds(r, l)
    BY <1>1, <1>2, <1>3 DEF Holds
  <2>3. Level(r, l)' = IF x.seen[l] = Nil THEN 1 + row'[l].step ELSE 1 + x.seen[l]
    BY <1>1, <1>2, <1>3 DEF Level, NextStep
  <2>4. Level(r, l)' \in {NextStep(r, l), 1 + row'[l].step}
    BY <1>1, <2>3 DEF NextStep, Unread
  <2> QED BY <2>1, <2>2, <2>4 DEF KeptRun
<1>6. ~Holds(r, l0)'
  BY <1>1, <1>2, <1>3 DEF Holds
<1> QED BY <1>3, <1>4, <1>5, <1>6

\* A run that moves on with the leads it has: only the one whose row it saves sees it.
LEMMA MovesOn ==
  ASSUME Sequence, NEW r \in Runs, NEW x, Move(r, x), x.pc \in Working,
         x.todo = run[r].todo, x.lead \in Leads, Holds(r, x.lead),
         run[r].lead \in {x.lead, Nobody},
         x.seen \in {run[r].seen, Unread}
  PROVE  /\ IdleIsFree'
         /\ \A l \in Leads : KeptBut(r, l)
         /\ \A l \in Leads \ {x.lead} : KeptRun(r, l)
         /\ Holds(r, x.lead)' /\ Level(r, x.lead)' = x.step
         /\ GivesTo(r, x.lead)' <=> x.pc \in Saved
<1>1. Nobody \notin Leads
  OBVIOUS
<1>2. (\A l \in Leads : KeptBut(r, l)) /\ run'[r] = x
  BY OthersKept DEF Sequence, SequenceInv
<1>3. IdleIsFree'
  <2>1. \A q \in Runs : run'[q] = IF q = r THEN x ELSE run[q]
    BY DEF Move, Sequence, SequenceInv, TypeOK
  <2> QED BY <2>1 DEF Sequence, IdleIsFree, Working, Saved
<1>4. ASSUME NEW l \in Leads \ {x.lead}  PROVE KeptRun(r, l)
  <2>1. ~GivesTo(r, l) /\ ~GivesTo(r, l)' /\ Level(r, l) = NextStep(r, l)
    BY <1>1, <1>2 DEF GivesTo, Level
  <2>2. Holds(r, l)' <=> Holds(r, l)
    BY <1>1, <1>2 DEF Holds
  <2>3. Level(r, l)' = IF x.seen[l] = Nil THEN 1 + row'[l].step ELSE 1 + x.seen[l]
    BY <1>1, <1>2 DEF Level, NextStep
  <2>4. Level(r, l)' \in {NextStep(r, l), 1 + row'[l].step}
    BY <2>3 DEF NextStep, Unread
  <2> QED BY <2>1, <2>2, <2>4 DEF KeptRun
<1>5. Holds(r, x.lead)' /\ Level(r, x.lead)' = x.step /\ (GivesTo(r, x.lead)' <=> x.pc \in Saved)
  BY <1>2 DEF Holds, Level, GivesTo
<1> QED BY <1>2, <1>3, <1>4, <1>5
-----------------------------------------------------------------------------
(* Every step is such an event for every lead.                              *)

\* A run is done with a lead of which it has not saved a step.
LEMMA PassesOver ==
  ASSUME Sequence, NEW r \in Runs, NEW l0 \in Leads, run[r].lead \in {l0, Nobody},
         NEW seen \in {Unread, run[r].seen}, Move(r, DoneWith(r, l0, seen)),
         Holds(r, l0), ~GivesTo(r, l0), UNCHANGED <<issued, tally>>,
         SameStep(l0), \A l \in Leads \ {l0} : row'[l] = row[l]
  PROVE  IdleIsFree' /\ \A l \in Leads : Event(l)
<1>1. IdleIsFree' /\ Leaves(r, l0)
  BY PutsDown DEF Leaves, SameCounts, SameRepeats
<1>2. ASSUME NEW l \in Leads \ {l0}  PROVE Still(l)
  <2>1. \A q \in Runs : KeptRun(q, l)
    BY PutsDown DEF KeptBut
  <2> QED BY <2>1 DEF Still, SameRepeats, SameStep
<1> QED BY <1>1, <1>2 DEF Event

\* A run that looks for its next lead works on none.
LEMMA ScanIsFree == ASSUME Sequence, NEW r \in Runs, run[r].pc \in {"idle", "scan"}
                    PROVE  run[r].lead = Nobody
<1>1. run[r].pc \notin Working
  BY DEF Working, Saved
<1> QED BY <1>1 DEF Sequence, IdleIsFree

\* The steps that pass over a lead: it is suppressed, or has no further step, or
\* nothing to follow up on.
LEMMA PassingSteps ==
  ASSUME Sequence, NEW r \in Runs, NEW l \in Leads,
         SkipSuppressed(r, l) \/ EndSequence(r, l) \/ NothingToFollow(r, l)
  PROVE  IdleIsFree' /\ \A i \in Leads : Event(i)
<1>1. row \in [Leads -> Rows]
  BY DEF Sequence, SequenceInv, TypeOK
<1>2. ASSUME run[r].pc = "scan", l \in run[r].todo
      PROVE  run[r].lead = Nobody /\ Holds(r, l) /\ ~GivesTo(r, l)
  <2>1. run[r].lead = Nobody /\ Nobody \notin Leads
    BY <1>2, ScanIsFree
  <2> QED BY <1>2, <2>1 DEF Holds, GivesTo
<1>3. CASE SkipSuppressed(r, l)
  <2>1. SameStep(l) /\ \A i \in Leads \ {l} : row'[i] = row[i]
    BY <1>1, <1>3 DEF SkipSuppressed, SameStep, Stopped, Rows
  <2> QED BY <1>2, <1>3, <2>1, PassesOver DEF SkipSuppressed, history
<1>4. CASE EndSequence(r, l)
  <2>1. SameStep(l) /\ \A i \in Leads \ {l} : row'[i] = row[i]
    BY <1>1, <1>4 DEF EndSequence, SameStep, Rows
  <2> QED BY <1>2, <1>4, <2>1, PassesOver DEF EndSequence, Checked, history
<1>5. CASE NothingToFollow(r, l)
  <2>1. SameStep(l) /\ \A i \in Leads \ {l} : row'[i] = row[i]
    BY <1>5 DEF NothingToFollow, SameStep
  <2> QED BY <1>2, <1>5, <2>1, PassesOver DEF NothingToFollow, Checked, history
<1> QED BY <1>3, <1>4, <1>5

\* The draft of the step fails.
LEMMA FailingDrafts ==
  ASSUME Sequence, NEW r \in Runs, DraftFails(r)
  PROVE  IdleIsFree' /\ \A l \in Leads : Event(l)
<1> DEFINE l0 == run[r].lead
<1>1. l0 \in Leads /\ Holds(r, l0) /\ ~GivesTo(r, l0)
  BY DEF DraftFails, Sequence, SequenceInv, RunsInOrder, Working, Saved, Holds, GivesTo
<1>2. SameStep(l0) /\ \A i \in Leads \ {l0} : row'[i] = row[i]
  BY DEF DraftFails, SameStep
<1>3. Move(r, DoneWith(r, l0, run[r].seen))
  BY DEF DraftFails, NotDrafted
<1> QED BY <1>1, <1>2, <1>3, PassesOver DEF DraftFails, history

\* A run that begins a step, or publishes what it has saved, is at the step it was at.
LEMMA QuietSteps ==
  ASSUME Sequence, NEW r \in Runs,
         (\E l \in Leads : StartStep(r, l)) \/ PublishEmail(r) \/ PublishTouchpoint(r)
  PROVE  IdleIsFree' /\ \A i \in Leads : Event(i)
<1>0. PICK x : x = run'[r]
  OBVIOUS
<1> DEFINE Moved ==
      /\ run' = [run EXCEPT ![r] = x] /\ x.pc \in Working /\ x.todo = run[r].todo
      /\ x.seen = run[r].seen /\ x.lead \in Leads /\ Holds(r, x.lead)
      /\ run[r].lead \in {x.lead, Nobody} /\ x.step = Level(r, x.lead)
      /\ x.pc \in Saved <=> GivesTo(r, x.lead)
<1>1. Moved
  <2>1. run[r] \in RunStates /\ run \in [Runs -> RunStates]
    BY DEF Sequence, SequenceInv, TypeOK
  <2>2. ASSUME NEW l \in Leads, StartStep(r, l)  PROVE Moved
    <3> DEFINE k == NextStep(r, l)
    <3>1. l \in run[r].todo /\ Nobody \notin Leads /\ run[r].pc = "scan"
      BY <2>2 DEF StartStep, Checked
    <3>0. run[r].lead = Nobody
      BY <3>1, ScanIsFree
    <3>2. Level(r, l) = k /\ Holds(r, l) /\ ~GivesTo(r, l)
      BY <3>0, <3>1 DEF Level, Holds, GivesTo
    <3> HIDE DEF k
    <3>3. /\ run' = [run EXCEPT ![r] = x] /\ x.pc \in {"drafting", "touching"}
          /\ x.todo = run[r].todo /\ x.seen = run[r].seen /\ x.lead = l /\ x.step = k
      BY <1>0, <2>1, <2>2 DEF StartStep, Move, RunStates, k
    <3> QED BY <3>0, <3>1, <3>2, <3>3 DEF Working, Saved
  <2>3. CASE PublishEmail(r) \/ PublishTouchpoint(r)
    <3>1. run[r].pc \in Saved /\ run' = [run EXCEPT ![r] = [run[r] EXCEPT !.pc = "record"]]
      BY <2>3 DEF PublishEmail, PublishTouchpoint, Move, Saved
    <3>2. /\ x.pc = "record" /\ x.todo = run[r].todo /\ x.seen = run[r].seen
          /\ x.lead = run[r].lead /\ x.step = run[r].step /\ run' = [run EXCEPT ![r] = x]
      BY <1>0, <2>1, <3>1 DEF RunStates
    <3>3. run[r].lead \in Leads
      BY <3>1 DEF Sequence, SequenceInv, RunsInOrder, Working
    <3> QED BY <3>1, <3>2, <3>3 DEF Working, Saved, Holds, Level, GivesTo
  <2> QED BY <2>2, <2>3
<1>2. UNCHANGED <<row, tally, issued>>
  BY DEF StartStep, PublishEmail, PublishTouchpoint, history
<1>3. IdleIsFree' /\ \A i \in Leads, q \in Runs : KeptRun(q, i)
  <2>1. Move(r, x)
    BY <1>1 DEF Move
  <2>2. KeptRun(r, x.lead)
    BY <1>1, <2>1, MovesOn DEF KeptRun
  <2> QED BY <1>1, <2>1, <2>2, MovesOn DEF KeptBut
<1> QED BY <1>2, <1>3 DEF Event, Still, SameRepeats, SameStep

\* The row of the step is committed: the lead of the run has its step once more.
LEMMA SavingSteps ==
  ASSUME Sequence, NEW r \in Runs, NEW flagged \in BOOLEAN, SaveStep(r, flagged)
  PROVE  IdleIsFree' /\ \A l \in Leads : Event(l)
<1> DEFINE l0 == run[r].lead
           k == run[r].step
<1>1. run[r] \in RunStates /\ run \in [Runs -> RunStates] /\ issued \in Counts
  BY DEF Sequence, SequenceInv, TypeOK, Counts
<1>2. run[r].pc \in {"drafting", "touching"}
  BY DEF SaveStep
<1>3. l0 \in Leads /\ k \in StepNumbers
  BY <1>2 DEF Sequence, SequenceInv, RunsInOrder, Working
<1>4. Holds(r, l0) /\ ~GivesTo(r, l0) /\ Level(r, l0) = k
  BY <1>2 DEF Holds, GivesTo, Level, Saved
<1>5. PICK x : /\ run' = [run EXCEPT ![r] = x] /\ x.pc \in Saved /\ x.todo = run[r].todo
               /\ x.seen = Unread /\ x.lead = l0 /\ x.step = k
  <2> DEFINE to == IF run[r].pc = "touching" THEN "posting" ELSE IF flagged THEN "record" ELSE "mailing"
             y == [run[r] EXCEPT !.pc = to, !.seen = Unread]
  <2>1. run' = [run EXCEPT ![r] = y] /\ to \in Saved
    BY DEF SaveStep, Move, Saved
  <2> HIDE DEF to
  <2>2. y.pc = to /\ y.todo = run[r].todo /\ y.seen = Unread /\ y.lead = l0 /\ y.step = k
    BY <1>1 DEF RunStates
  <2> HIDE DEF y
  <2> QED BY <2>1, <2>2
<1>6. UNCHANGED <<row, tally>>
  BY DEF SaveStep
<1>7. /\ issued'[l0][k] = issued[l0][k] + 1
      /\ \A i \in StepNumbers \ {k} : issued'[l0][i] = issued[l0][i]
      /\ \A l \in Leads \ {l0} : issued'[l] = issued[l]
  BY <1>1, <1>3 DEF SaveStep, Counts
<1>8. PICK l1 \in Leads : l1 = l0
  BY <1>3
<1>9. /\ IdleIsFree' /\ \A l \in Leads : KeptBut(r, l)
      /\ \A l \in Leads \ {l1} : KeptRun(r, l)
      /\ Holds(r, l1)' /\ Level(r, l1)' = k /\ GivesTo(r, l1)'
  <2>1. Move(r, x) /\ x.pc \in Working /\ x.lead = l1
    BY <1>5, <1>8 DEF Move, Working
  <2> QED BY <1>4, <1>5, <1>8, <2>1, MovesOn
<1>10. Saves(r, l1)
  BY <1>3, <1>4, <1>6, <1>7, <1>8, <1>9 DEF Saves, SameRepeats, SameStep
<1>11. ASSUME NEW l \in Leads \ {l1}  PROVE Still(l)
  BY <1>6, <1>7, <1>8, <1>9 DEF Still, SameRepeats, SameStep, KeptBut
<1> QED BY <1>9, <1>10, <1>11 DEF Event

\* The counter and the next date are committed.
LEMMA RecordingSteps ==
  ASSUME Sequence, NEW r \in Runs, RecordStep(r)
  PROVE  IdleIsFree' /\ \A l \in Leads : Event(l)
<1>1. PICK l0 \in Leads : l0 = run[r].lead
  BY DEF RecordStep, Sequence, SequenceInv, RunsInOrder, Working, Saved
<1>2. Holds(r, l0) /\ GivesTo(r, l0) /\ Level(r, l0) = run[r].step
  BY <1>1 DEF RecordStep, Holds, GivesTo, Level, Saved
<1>3. /\ IdleIsFree' /\ \A l \in Leads : KeptBut(r, l)
      /\ \A l \in Leads \ {l0} : KeptRun(r, l)
      /\ ~Holds(r, l0)'
  BY <1>1, PutsDown DEF RecordStep
<1>4. row'[l0].step = run[r].step /\ row'[l0].due # "now" /\ \A l \in Leads \ {l0} : row'[l] = row[l]
  <2>1. row \in [Leads -> Rows] /\ row[l0] \in Rows
    BY DEF Sequence, SequenceInv, TypeOK
  <2> DEFINE more == IF run[r].plan = NoPlan THEN run[r].step < LegacySteps
                                             ELSE run[r].step + 1 \in DOMAIN plan.steps
  <2>2. row' = [row EXCEPT ![l0] = Recorded(row[l0], run[r].step, more)]
    BY <1>1 DEF RecordStep
  <2> HIDE DEF more
  <2>3. /\ Recorded(row[l0], run[r].step, more).step = run[r].step
        /\ Recorded(row[l0], run[r].step, more).due # "now"
    BY <2>1 DEF Recorded, Rows
  <2> QED BY <2>1, <2>2, <2>3
<1>5. UNCHANGED <<tally, issued>>
  BY DEF RecordStep, history
<1>6. Records(r, l0)
  BY <1>2, <1>3, <1>4, <1>5 DEF Records, SameCounts, SameRepeats
<1>7. ASSUME NEW l \in Leads \ {l0}  PROVE Still(l)
  BY <1>3, <1>4, <1>5 DEF Still, SameRepeats, SameStep, KeptBut
<1> QED BY <1>3, <1>6, <1>7 DEF Event

\* A run dies: every lead it held is free of it, and the step it had saved will be
\* taken again.
LEMMA DyingSteps ==
  ASSUME Sequence, NEW r \in Runs, AbortRun(r)
  PROVE  IdleIsFree' /\ \A l \in Leads : Event(l)
<1>1. \A q \in Runs : run'[q] = IF q = r THEN IdleRun ELSE run[q]
  BY DEF AbortRun, Move, Sequence, SequenceInv, TypeOK
<1>2. IdleIsFree'
  BY <1>1 DEF Sequence, IdleIsFree, IdleRun
<1>3. ASSUME NEW l \in Leads  PROVE Event(l)
  <2>1. KeptBut(r, l)
    BY OthersKept DEF AbortRun, Sequence, SequenceInv
  <2>2. ~Holds(r, l)' /\ ~GivesTo(r, l)' /\ Level(r, l)' = 1 + row'[l].step
    BY <1>1 DEF Holds, GivesTo, Level, NextStep, IdleRun, Unread, Saved
  <2>3. SameStep(l) /\ issued'[l] = issued[l] /\ row' = row
    BY DEF AbortRun, SameStep, history
  <2>4. tally[l] \in Tallies
    BY DEF Sequence, SequenceInv, TypeOK, Tallies
  <2>5. tally'[l] = IF GivesTo(r, l) THEN [tally[l] EXCEPT !.repeats = @ + 1] ELSE tally[l]
    BY DEF AbortRun, AbortedAt, GivesTo
  <2>6. CASE GivesTo(r, l)
    <3>1. tally'[l].repeats = tally[l].repeats + 1 /\ tally'[l].elapsed = tally[l].elapsed
      BY <2>4, <2>5, <2>6 DEF Tallies
    <3>2. Aborts(r, l)
      BY <2>1, <2>2, <2>3, <2>6, <3>1 DEF Aborts, SameCounts, GivesTo, Holds
    <3> QED BY <3>2 DEF Event
  <2>7. CASE ~GivesTo(r, l) /\ Holds(r, l)
    BY <2>1, <2>2, <2>3, <2>5, <2>7 DEF Event, Leaves, SameCounts, SameRepeats
  <2>8. CASE ~Holds(r, l)
    <3>1. ~GivesTo(r, l)
      BY <2>8 DEF GivesTo, Holds
    <3>2. KeptRun(r, l)
      BY <2>2, <2>8, <3>1 DEF KeptRun
    <3> QED BY <2>1, <2>3, <2>5, <3>1, <3>2 DEF Event, Still, KeptBut, SameRepeats
  <2> QED BY <2>6, <2>7, <2>8
<1> QED BY <1>2, <1>3
\* A run finds leads due: a lead some runs hold already may get its step from each.
LEMMA BeginningSteps ==
  ASSUME Sequence, NEW r \in Runs, BeginRun(r)
  PROVE  IdleIsFree' /\ \A l \in Leads : Event(l)
<1> DEFINE seen == [l \in Leads |-> IF l \in DueLeads THEN row[l].step ELSE Nil]
           x == [IdleRun EXCEPT !.pc = "scan", !.todo = DueLeads, !.seen = seen]
<1>1. run' = [run EXCEPT ![r] = x] /\ \A q \in Runs : run'[q] = IF q = r THEN x ELSE run[q]
  BY DEF BeginRun, Move, Sequence, SequenceInv, TypeOK
<1>2. /\ x.lead = Nobody /\ x.pc = "scan" /\ x.todo = DueLeads /\ x.seen = seen
      /\ Nobody \notin Leads
  BY DEF IdleRun
<1>3. IdleIsFree'
  <2> HIDE DEF x
  <2> QED BY <1>1, <1>2 DEF Sequence, IdleIsFree
<1>4. run[r].lead = Nobody /\ run[r].todo = {} /\ run[r].pc = "idle"
  BY ScanIsFree DEF BeginRun, Sequence, IdleIsFree
<1>5. UNCHANGED <<row, issued>>
  BY DEF BeginRun, history
<1>6. ASSUME NEW l \in Leads  PROVE KeptBut(r, l)
  BY <1>1, OthersKept DEF Move, Sequence, SequenceInv
<1>7. ASSUME NEW l \in Leads  PROVE /\ ~Holds(r, l) /\ ~GivesTo(r, l) /\ ~GivesTo(r, l)'
                                    /\ Holds(r, l)' <=> l \in DueLeads
                                    /\ l \in DueLeads => Level(r, l)' = 1 + row[l].step
                                    /\ l \notin DueLeads => Level(r, l)' = 1 + row'[l].step
  <2>1. row[l].step # Nil
    BY DEF Sequence, SequenceInv, TypeOK, Rows, Nil
  <2>2. run'[r].lead = Nobody /\ run'[r].todo = DueLeads /\ run'[r].seen[l] = seen[l]
    BY <1>1, <1>2
  <2>3. NextStep(r, l)' = IF seen[l] = Nil THEN 1 + row'[l].step ELSE 1 + seen[l]
    BY <2>2 DEF NextStep, Nil
  <2> HIDE DEF x
  <2> QED BY <1>2, <1>4, <2>1, <2>2, <2>3 DEF Holds, GivesTo, Level
<1> HIDE DEF x, seen
<1>8. ASSUME NEW l \in Leads \ DueLeads  PROVE Event(l)
  <2>1. tally'[l] = tally[l]
    BY DEF BeginRun
  <2>2. KeptRun(r, l)
    BY <1>7 DEF KeptRun
  <2> QED BY <1>5, <1>6, <2>1, <2>2 DEF Event, Still, KeptBut, SameRepeats, SameStep
<1>9. ASSUME NEW l \in DueLeads  PROVE Event(l)
  <2>1. l \in Leads /\ row[l].due = "now" /\ tally[l] \in Tallies
    BY DEF DueLeads, Sequence, SequenceInv, TypeOK, Tallies
  <2>2. {q \in Active : Holds(q, l)} = Holders(l)
    <3>1. ASSUME NEW q \in Runs, Holds(q, l)  PROVE run[q].pc # "idle"
      BY <2>1, <3>1, ScanIsFree DEF Holds, Sequence, IdleIsFree
    <3> QED BY <3>1 DEF Active, Holders
  <2>3. tally'[l] = [tally[l] EXCEPT !.repeats = @ + Cardinality(Holders(l))]
    BY <2>1, <2>2 DEF BeginRun
  <2>4. /\ tally'[l].repeats = tally[l].repeats + Cardinality(Holders(l))
        /\ tally'[l].elapsed = tally[l].elapsed
    BY <2>1, <2>3 DEF Tallies
  <2>5. Joins(r, l)
    BY <1>5, <1>6, <1>7, <2>1, <2>4 DEF Joins, SameCounts, SameStep
  <2> QED BY <2>1, <2>5 DEF Event
<1> QED BY <1>3, <1>8, <1>9

\* Nothing but runs takes leads up or gives steps.
LEMMA QuietForLeads ==
  ASSUME Sequence, UNCHANGED issued,
         \A r \in Runs : /\ run'[r].pc = run[r].pc /\ run'[r].lead = run[r].lead
                         /\ run'[r].step = run[r].step /\ run'[r].todo = run[r].todo
                         /\ run'[r].seen = run[r].seen,
         \A l \in Leads :
           /\ SameStep(l) /\ SameRepeats(l)
           /\ \/ tally'[l].elapsed = tally[l].elapsed /\ (row'[l].due = "now" => row[l].due = "now")
              \/ tally'[l].elapsed = tally[l].elapsed + 1
  PROVE  IdleIsFree' /\ \A l \in Leads : Event(l)
<1>1. IdleIsFree'
  BY DEF Sequence, IdleIsFree
<1>2. ASSUME NEW l \in Leads, NEW q \in Runs  PROVE KeptRun(q, l)
  BY DEF KeptRun, Holds, GivesTo, Level, NextStep, SameStep
<1> QED BY <1>1, <1>2 DEF Event, Still
\* Touchpoints, emails and new blueprints leave the leads' rows and steps alone.
LEMMA TaskSteps ==
  ASSUME Sequence, UNCHANGED <<issued, run, row, tally>>
  PROVE  IdleIsFree' /\ \A i \in Leads : Event(i)
BY QuietForLeads DEF SameStep, SameRepeats

\* Dates, deliveries, openings, replies and opt-outs keep the counter of the lead.
LEMMA RowSteps ==
  ASSUME Sequence, NEW l \in Leads,
         Elapse(l) \/ Deliver(l) \/ TrackOpen(l) \/ Reply(l) \/ AnyOptOut(l)
  PROVE  IdleIsFree' /\ \A i \in Leads : Event(i)
<1>0. /\ row \in [Leads -> Rows] /\ row[l] \in Rows
      /\ tally \in [Leads -> Tallies] /\ tally[l] \in Tallies
      /\ run \in [Runs -> RunStates] /\ \A r \in Runs : run[r] \in RunStates
  BY DEF Sequence, SequenceInv, TypeOK, Tallies
<1>2. CASE Elapse(l)
  <2>1. \A i \in Leads : /\ SameStep(i) /\ SameRepeats(i)
                         /\ IF i = l THEN tally'[i].elapsed = tally[i].elapsed + 1
                                     ELSE tally'[i] = tally[i] /\ row'[i] = row[i]
    BY <1>0, <1>2 DEF Elapse, SameStep, SameRepeats, Rows, Tallies
  <2>2. UNCHANGED <<issued, run>>
    BY <1>2 DEF Elapse, history
  <2> QED BY <2>1, <2>2, QuietForLeads
<1>3. CASE Deliver(l) \/ TrackOpen(l)
  <2>1. PICK s : row' = [row EXCEPT ![l].status = s] \/ row' = row
    BY <1>3 DEF Deliver, TrackOpen
  <2>2. \A i \in Leads : SameStep(i) /\ row'[i].due = row[i].due
    BY <1>0, <2>1 DEF SameStep, Rows
  <2>3. UNCHANGED <<issued, run, tally>>
    BY <1>3 DEF Deliver, TrackOpen, history
  <2> QED BY <2>2, <2>3, QuietForLeads DEF SameRepeats
<1>4. CASE Reply(l)
  <2>1. \A i \in Leads : SameStep(i) /\ row'[i].due = row[i].due
    BY <1>0, <1>4 DEF Reply, SameStep, Rows
  <2>2. \A i \in Leads : SameRepeats(i) /\ tally'[i].elapsed = tally[i].elapsed
    BY <1>0, <1>4 DEF Reply, SameRepeats, Tallies
  <2>3. UNCHANGED <<issued, run>>
    BY <1>4 DEF Reply, history
  <2> QED BY <2>1, <2>2, <2>3, QuietForLeads
<1>5. CASE AnyOptOut(l)
  <2>1. PICK x : OptOut(l, x) /\ x.step = row[l].step /\ (x.due = "now" => row[l].due = "now")
    <3> DEFINE x1 == [row[l] EXCEPT !.status = "opted_out", !.due = "none"]
               x2 == [row[l] EXCEPT !.status = "opted_out"]
    <3>1. x1.step = row[l].step /\ x1.due = "none" /\ x2.step = row[l].step /\ x2.due = row[l].due
      BY <1>0 DEF Rows
    <3>2. OptOut(l, x1) \/ OptOut(l, x2) \/ OptOut(l, row[l])
      BY <1>5 DEF AnyOptOut
    <3> HIDE DEF x1, x2
    <3> QED BY <3>1, <3>2
  <2>2. \A i \in Leads : SameStep(i) /\ (row'[i].due = "now" => row[i].due = "now")
    BY <1>0, <2>1 DEF OptOut, SameStep
  <2>3. UNCHANGED <<issued, tally>>
    BY <2>1 DEF OptOut, history
  <2>4. \A r \in Runs : /\ run'[r].pc = run[r].pc /\ run'[r].lead = run[r].lead
                        /\ run'[r].step = run[r].step /\ run'[r].todo = run[r].todo
                        /\ run'[r].seen = run[r].seen
    BY <1>0, <2>1 DEF OptOut, RunStates
  <2> QED BY <2>2, <2>3, <2>4, QuietForLeads DEF SameRepeats
<1> QED BY <1>2, <1>3, <1>4, <1>5
\* Every lead sees every step as one of the events.
LEMMA LeadsSee ==
  ASSUME Sequence, [Next]_vars
  PROVE  IdleIsFree' /\ \A l \in Leads : Event(l)
<1>1. ASSUME NEW r \in Runs, RunStep(r)  PROVE IdleIsFree' /\ \A l \in Leads : Event(l)
  BY <1>1, BeginningSteps, PassingSteps, QuietSteps, SavingSteps, RecordingSteps, DyingSteps
     DEF RunStep, RecordAborts
<1>2. ASSUME NEW j \in Jobs, PostTouchpoint(j) \/ CommitTouchpoint(j)
      PROVE  IdleIsFree' /\ \A l \in Leads : Event(l)
  BY <1>2, TaskSteps DEF PostTouchpoint, CommitTouchpoint, others
<1>3. ASSUME NEW l \in Leads,
             Elapse(l) \/ Deliver(l) \/ ReleaseHeld(l) \/ LoadOpen(l) \/ TrackOpen(l)
      PROVE  IdleIsFree' /\ \A i \in Leads : Event(i)
  BY <1>3, RowSteps, TaskSteps DEF ReleaseHeld, LoadOpen, history
<1>4. CASE Disturbance
  <2>1. ASSUME NEW r \in Runs, DraftFails(r) \/ RunCrash(r)
        PROVE  IdleIsFree' /\ \A l \in Leads : Event(l)
    BY <2>1, FailingDrafts, DyingSteps DEF RunCrash
  <2>2. ASSUME NEW j \in Jobs, NEW done \in BOOLEAN,
               FailTouchpoint(j) \/ TouchpointCrash(j) \/ Redeliver(j) \/ RetryTouchpoint(j, done)
        PROVE  IdleIsFree' /\ \A l \in Leads : Event(l)
    BY <2>2, TaskSteps DEF FailTouchpoint, TouchpointCrash, Redeliver, RetryTouchpoint, others
  <2>3. ASSUME NEW l \in Leads,
               DeliveryRefused(l) \/ ReportBounce(l) \/ Reply(l) \/ AnyOptOut(l)
        PROVE  IdleIsFree' /\ \A i \in Leads : Event(i)
    BY <2>3, RowSteps, TaskSteps DEF DeliveryRefused, ReportBounce, history
  <2>4. ASSUME NEW p \in Plans, ReplaceSequence(p)
        PROVE  IdleIsFree' /\ \A l \in Leads : Event(l)
    BY <2>4, TaskSteps DEF ReplaceSequence, history
  <2> QED BY <1>4, <2>1, <2>2, <2>3, <2>4 DEF Disturbance
<1>5. CASE UNCHANGED vars
  BY <1>5, TaskSteps DEF vars, history
<1> QED BY <1>1, <1>2, <1>3, <1>4, <1>5 DEF Next
-----------------------------------------------------------------------------
(* The counts.  Step k of a lead may be given again while a run that has not *)
(* given it holds the lead, or while it still lies before the lead.          *)

\* The lead is past step k, and so is every run that holds it.
Past(l, k) == k <= row[l].step /\ \A r \in Holders(l) : k < Level(r, l)
Owing(l, k) == {r \in Holders(l) : ~(GivesTo(r, l) /\ Level(r, l) = k)}
May(l, k) == IF Past(l, k) THEN 0 ELSE IF Holders(l) = {} THEN 1 ELSE Cardinality(Owing(l, k))

\* Every row of a step and every chance of one more is paid for.
Once(l) == \A k \in StepNumbers : issued[l][k] + May(l, k) <= 1 + tally[l].repeats

\* So are, by dates that came, the rows of a lead: a run that has not saved the step it
\* is at, or else a date that has come, stands for the next one.
Unsaved(l) == {r \in Holders(l) : ~GivesTo(r, l)}
Waits(l) == row[l].due = "now" /\ Holders(l) = {}
Paced(l) ==
  /\ IsFiniteSet(GivenTo(l))
  /\ Cardinality(GivenTo(l)) + Cardinality(Unsaved(l)) + One(Waits(l))
       <= tally[l].elapsed + tally[l].repeats

\* A lead no run met another at, and none left half-way, has one run at most, and that
\* run is at the step after the counter.
Alone(l) ==
  tally[l].repeats = 0 =>
    \A r \in Holders(l) : Level(r, l) = 1 + row[l].step /\ \A q \in Holders(l) : q = r

\* A level is a number, and the runs are a finite set.
LEMMA Levels == ASSUME TypeOK, NEW r \in Runs, NEW l \in Leads
                PROVE  Level(r, l) \in Nat /\ row[l].step \in Nat
<1>1. NextStep(r, l) \in Nat
  BY NextStepNumber
<1>2. run[r].step \in Nat /\ row[l].step \in Nat
  BY DEF TypeOK, RunStates, Rows
<1> QED BY <1>1, <1>2 DEF Level

\* Sets of runs are finite.
LEMMA FewRuns == ASSUME NEW S \in SUBSET Runs PROVE IsFiniteSet(S) /\ Cardinality(S) \in Nat
BY FS_Subset, FS_CardinalityType

\* When one run moves, the sets of runs change by that run.
LEMMA ByOne ==
  ASSUME NEW r \in Runs, NEW l \in Leads, KeptBut(r, l)
  PROVE  /\ Holders(l)' \ {r} = Holders(l) \ {r}
         /\ \A k \in StepNumbers :
              Cardinality(Owing(l, k))'
                = Cardinality(Owing(l, k)) + One(r \in Owing(l, k)') - One(r \in Owing(l, k))
         /\ Cardinality(Unsaved(l))'
              = Cardinality(Unsaved(l)) + One(r \in Unsaved(l)') - One(r \in Unsaved(l))
<1>1. Holders(l)' \ {r} = Holders(l) \ {r} /\ Unsaved(l)' \ {r} = Unsaved(l) \ {r}
  BY DEF KeptBut, KeptRun, Holders, Unsaved
<1>2. ASSUME NEW k \in StepNumbers  PROVE Owing(l, k)' \ {r} = Owing(l, k) \ {r}
  BY DEF KeptBut, KeptRun, Holders, Owing
<1>3. IsFiniteSet(Unsaved(l)) /\ \A k \in StepNumbers : IsFiniteSet(Owing(l, k))
  BY FewRuns DEF Owing, Unsaved, Holders
<1>4. ASSUME NEW S, NEW T, IsFiniteSet(S), T \ {r} = S \ {r}
      PROVE  Cardinality(T) = Cardinality(S) + One(r \in T) - One(r \in S)
  BY <1>4, OneElement
<1> QED BY <1>1, <1>2, <1>3, <1>4

\* Nobody comes back to a step all are past.
LEMMA PastStays ==
  ASSUME TypeOK, TypeOK', NEW r \in Runs, NEW l \in Leads, KeptBut(r, l), NEW k \in StepNumbers,
         k <= row'[l].step, \A q \in Holders(l) \ {r} : k < Level(q, l),
         Holds(r, l)' => k < Level(r, l)'
  PROVE  Past(l, k)'
<1>1. row'[l].step \in Nat
  BY DEF TypeOK, Rows
<1>2. ASSUME NEW q \in Runs, q # r, Holds(q, l)'  PROVE k < Level(q, l)'
  <2>1. k < Level(q, l) /\ Level(q, l)' \in {Level(q, l), 1 + row'[l].step}
    BY <1>2 DEF KeptBut, KeptRun, Holders
  <2> QED BY <1>1, <2>1 DEF StepNumbers
<1> QED BY <1>2 DEF Past, Holders
\* The runs that hold a lead are finitely many, and so are those among them that owe it
\* a step.
LEMMA Few ==
  ASSUME NEW l \in Leads
  PROVE  /\ Cardinality(Holders(l)) \in Nat /\ Cardinality(Unsaved(l)) \in Nat
         /\ (Cardinality(Holders(l)) = 0 <=> Holders(l) = {})
         /\ \A k \in StepNumbers : Cardinality(Owing(l, k)) \in Nat /\ May(l, k) \in Nat
<1>1. IsFiniteSet(Holders(l)) /\ Cardinality(Holders(l)) \in Nat /\ Cardinality(Unsaved(l)) \in Nat
  BY FewRuns DEF Holders, Unsaved
<1>2. ASSUME NEW k \in StepNumbers  PROVE Cardinality(Owing(l, k)) \in Nat
  BY FewRuns DEF Holders, Owing
<1>3. Cardinality(Holders(l)) = 0 <=> Holders(l) = {}
  BY <1>1, FS_EmptySet
<1> QED BY <1>1, <1>2, <1>3 DEF May

\* Each step is given once, and once more per repetition.
LEMMA OnceKept ==
  ASSUME TypeOK, TypeOK', NEW l \in Leads, Event(l), Once(l)
  PROVE  Once(l)'
<1> SUFFICES ASSUME NEW k \in StepNumbers
             PROVE  issued'[l][k] + May(l, k)' <= 1 + tally'[l].repeats
  BY DEF Once
<1>1. /\ issued[l][k] \in Nat /\ issued'[l][k] \in Nat
      /\ tally[l].repeats \in Nat /\ tally'[l].repeats \in Nat
      /\ k \in Nat /\ row[l].step \in Nat
      /\ issued[l][k] + May(l, k) <= 1 + tally[l].repeats
  <2>1. tally[l].repeats \in Nat /\ tally'[l].repeats \in Nat
    BY DEF TypeOK
  <2>2. row[l].step \in Nat /\ k \in Nat
    BY DEF TypeOK, Rows, StepNumbers
  <2>3. issued[l][k] \in Nat /\ issued'[l][k] \in Nat
    BY DEF TypeOK
  <2> QED BY <2>1, <2>2, <2>3 DEF Once
<1>2. /\ Cardinality(Holders(l)) \in Nat /\ Cardinality(Owing(l, k)) \in Nat
      /\ Cardinality(Owing(l, k))' \in Nat /\ May(l, k) \in Nat /\ May(l, k)' \in Nat
      /\ (Cardinality(Holders(l)) = 0 <=> Holders(l) = {})
  <2>1. Cardinality(Owing(l, k))' \in Nat
    BY FewRuns DEF Holders, Owing
  <2>2. May(l, k)' \in Nat
    BY <2>1 DEF May
  <2> QED BY <2>1, <2>2, Few
<1>3. ASSUME Still(l)  PROVE May(l, k)' <= May(l, k)
  <2>1. Holders(l)' = Holders(l) /\ Owing(l, k)' = Owing(l, k) /\ row'[l].step = row[l].step
    BY <1>3 DEF Still, KeptRun, Holders, Owing, SameStep
  <2>2. Past(l, k) => Past(l, k)'
    <3>1. ASSUME NEW q \in Runs, Holds(q, l)', Past(l, k)  PROVE k < Level(q, l)'
      <4>1. k < Level(q, l) /\ k <= row'[l].step
        BY <1>3, <2>1, <3>1 DEF Past, Holders, Still, KeptRun
      <4>2. Level(q, l)' \in {Level(q, l), 1 + row'[l].step}
        BY <1>3 DEF Still, KeptRun
      <4> QED BY <1>1, <2>1, <4>1, <4>2
    <3> QED BY <2>1, <3>1 DEF Past, Holders
  <2> QED BY <1>2, <2>1, <2>2 DEF May
<1>4. ASSUME NEW r \in Runs, KeptBut(r, l)
      PROVE  /\ Holders(l)' \ {r} = Holders(l) \ {r}
             /\ Cardinality(Owing(l, k))'
                  = Cardinality(Owing(l, k)) + One(r \in Owing(l, k)') - One(r \in Owing(l, k))
  BY <1>4, ByOne
<1>5. ASSUME NEW r \in Runs, Joins(r, l)
      PROVE  May(l, k)' <= May(l, k) + Cardinality(Holders(l))
  <2>1. /\ r \in Holders(l)' /\ r \notin Owing(l, k)
        /\ Cardinality(Owing(l, k))' <= Cardinality(Owing(l, k)) + 1
    BY <1>2, <1>4, <1>5 DEF Joins, Holders, Owing, One
  <2>2. Past(l, k) => Past(l, k)'
    BY <1>1, <1>5, PastStays DEF Past, Joins, SameStep
  <2>3. Holders(l) = {} => Cardinality(Owing(l, k)) = 0
    BY FS_EmptySet DEF Owing
  <2> QED BY <1>2, <2>1, <2>2, <2>3 DEF May
<1>6. ASSUME NEW r \in Runs, KeptBut(r, l), Holds(r, l), ~Holds(r, l)',
             Past(l, k) => Past(l, k)', r \in Owing(l, k)
      PROVE  May(l, k)' <= May(l, k)
  <2>1. /\ r \notin Owing(l, k)' /\ Holders(l) # {}
        /\ Cardinality(Owing(l, k))' = Cardinality(Owing(l, k)) - 1
    BY <1>2, <1>4, <1>6 DEF Holders, Owing, One
  <2> QED BY <1>2, <1>6, <2>1 DEF May
<1>7. ASSUME NEW r \in Runs, Leaves(r, l)  PROVE May(l, k)' <= May(l, k)
  <2>1. r \in Owing(l, k)
    BY <1>7 DEF Leaves, Owing, Holders
  <2>2. Past(l, k) => Past(l, k)'
    BY <1>7, PastStays DEF Past, Leaves, SameStep
  <2> QED BY <1>6, <1>7, <2>1, <2>2 DEF Leaves
<1>8. ASSUME NEW r \in Runs, Saves(r, l)
      PROVE  issued'[l][k] + May(l, k)' <= 1 + tally'[l].repeats
  <2>1. CASE k = Level(r, l)
    <3>1. ~Past(l, k) /\ ~Past(l, k)' /\ r \in Holders(l) /\ r \in Holders(l)'
      BY <1>1, <1>8, <2>1 DEF Saves, Past, Holders
    <3>2. r \in Owing(l, k) /\ r \notin Owing(l, k)'
      BY <1>8, <2>1 DEF Saves, Owing, Holders
    <3>3. Cardinality(Owing(l, k))' = Cardinality(Owing(l, k)) - 1
      BY <1>2, <1>4, <1>8, <3>2 DEF Saves, One
    <3>4. May(l, k)' = May(l, k) - 1 /\ issued'[l][k] = issued[l][k] + 1
      BY <1>8, <2>1, <3>1, <3>3 DEF May, Saves
    <3> QED BY <1>1, <1>2, <1>8, <3>4 DEF Saves, SameRepeats
  <2>2. CASE k # Level(r, l)
    <3>1. r \in Holders(l) /\ r \in Holders(l)' /\ r \in Owing(l, k) /\ r \in Owing(l, k)'
      BY <1>8, <2>2 DEF Saves, Owing, Holders
    <3>2. Cardinality(Owing(l, k))' = Cardinality(Owing(l, k))
      BY <1>2, <1>4, <1>8, <3>1 DEF Saves, One
    <3>3. Past(l, k) => Past(l, k)'
      BY <1>8, <3>1, PastStays DEF Past, Saves, SameStep
    <3>4. May(l, k)' <= May(l, k) /\ issued'[l][k] = issued[l][k]
      BY <1>2, <1>8, <2>2, <3>1, <3>2, <3>3 DEF May, Saves
    <3> QED BY <1>1, <1>2, <1>8, <3>4 DEF Saves, SameRepeats
  <2> QED BY <2>1, <2>2
<1>9. ASSUME NEW r \in Runs, Records(r, l)  PROVE May(l, k)' <= May(l, k)
  <2>1. Level(r, l) \in Nat /\ r \in Holders(l)
    BY <1>9, Levels DEF Records, Holders
  <2>2. CASE k = Level(r, l)
    <3>1. ~Past(l, k) /\ Cardinality(Owing(l, k))' = Cardinality(Owing(l, k))
      <4>1. r \notin Owing(l, k) /\ r \notin Owing(l, k)'
        BY <1>9, <2>2 DEF Records, Owing, Holders
      <4> QED BY <1>1, <1>2, <1>4, <1>9, <2>1, <2>2, <4>1 DEF Records, One, Past
    <3>2. Holders(l)' = {} => Past(l, k)'
      BY <1>1, <1>9, <2>2 DEF Past, Records
    <3> QED BY <1>2, <2>1, <3>1, <3>2 DEF May
  <2>3. CASE k # Level(r, l)
    <3>1. r \in Owing(l, k)
      BY <1>9, <2>3 DEF Records, Owing, Holders
    <3>2. Past(l, k) => Past(l, k)'
      <4> SUFFICES ASSUME Past(l, k)  PROVE Past(l, k)'
        OBVIOUS
      <4>1. k < Level(r, l) /\ \A q \in Holders(l) \ {r} : k < Level(q, l)
        BY <2>1 DEF Past
      <4>2. k <= row'[l].step
        BY <1>1, <1>9, <2>1, <4>1 DEF Records
      <4> QED BY <1>9, <4>1, <4>2, PastStays DEF Records
    <3> QED BY <1>6, <1>9, <3>1, <3>2 DEF Records
  <2> QED BY <2>2, <2>3
<1>10. ASSUME NEW r \in Runs, Aborts(r, l)  PROVE May(l, k)' <= May(l, k) + 1
  <2>1. Past(l, k) => Past(l, k)'
    BY <1>10, PastStays DEF Past, Aborts, SameStep
  <2>2. r \in Holders(l) /\ Cardinality(Owing(l, k))' <= Cardinality(Owing(l, k))
    BY <1>2, <1>4, <1>10 DEF Aborts, Holders, Owing, One
  <2> QED BY <1>2, <2>1, <2>2 DEF May
<1>11. \/ May(l, k)' <= May(l, k) /\ issued'[l][k] = issued[l][k]
          /\ tally'[l].repeats = tally[l].repeats
       \/ May(l, k)' <= May(l, k) + Cardinality(Holders(l)) /\ issued'[l][k] = issued[l][k]
          /\ tally'[l].repeats = tally[l].repeats + Cardinality(Holders(l))
       \/ May(l, k)' <= May(l, k) + 1 /\ issued'[l][k] = issued[l][k]
          /\ tally'[l].repeats = tally[l].repeats + 1
       \/ issued'[l][k] + May(l, k)' <= 1 + tally'[l].repeats
  BY <1>3, <1>5, <1>7, <1>8, <1>9, <1>10
     DEF Event, Still, Joins, Leaves, Records, Aborts, SameCounts, SameRepeats
<1> QED BY <1>1, <1>2, <1>11
\* A lead has its steps at the dates that came, or from repetitions.
LEMMA PacedKept ==
  ASSUME TypeOK, TypeOK', NEW l \in Leads, Event(l), Paced(l)
  PROVE  Paced(l)'
<1>1. /\ tally[l].repeats \in Nat /\ tally'[l].repeats \in Nat
      /\ tally[l].elapsed \in Nat /\ tally'[l].elapsed \in Nat
  BY DEF TypeOK
<1>2. /\ Cardinality(Holders(l)) \in Nat /\ Cardinality(Unsaved(l)) \in Nat
      /\ Cardinality(Unsaved(l))' \in Nat
      /\ (Cardinality(Holders(l)) = 0 <=> Holders(l) = {})
  <2>1. Cardinality(Unsaved(l))' \in Nat
    BY FewRuns DEF Holders, Unsaved
  <2> QED BY <2>1, Few
<1>3. IsFiniteSet(GivenTo(l)) /\ Cardinality(GivenTo(l)) \in Nat
  BY FS_CardinalityType DEF Paced
<1>4. issued'[l] = issued[l] => GivenTo(l)' = GivenTo(l)
  BY DEF GivenTo
<1>5. ASSUME NEW r \in Runs, KeptBut(r, l)
      PROVE  Cardinality(Unsaved(l))'
               = Cardinality(Unsaved(l)) + One(r \in Unsaved(l)') - One(r \in Unsaved(l))
  BY <1>5, ByOne
<1>6. CASE Still(l)
  <2>1. Holders(l)' = Holders(l) /\ Unsaved(l)' = Unsaved(l)
    BY <1>6 DEF Still, KeptRun, Holders, Unsaved
  <2>2. /\ One(Waits(l)') \in {0, 1} /\ One(Waits(l)) \in {0, 1}
        /\ (row'[l].due = "now" => row[l].due = "now") => One(Waits(l)') <= One(Waits(l))
    BY <2>1 DEF One, Waits
  <2> QED BY <1>1, <1>2, <1>3, <1>4, <1>6, <2>1, <2>2 DEF Paced, Still, SameRepeats, One, Waits
<1>7. ASSUME NEW r \in Runs, Joins(r, l)  PROVE Paced(l)'
  <2>1. Cardinality(Unsaved(l))' = Cardinality(Unsaved(l)) + 1
    BY <1>2, <1>5, <1>7 DEF Joins, Unsaved, Holders, One
  <2>2. r \in Holders(l)' /\ One(Waits(l)') = 0 /\ One(Waits(l)) = IF Holders(l) = {} THEN 1 ELSE 0
    BY <1>7 DEF Joins, DueLeads, Waits, Holders, One
  <2> QED BY <1>1, <1>2, <1>3, <1>4, <1>7, <2>1, <2>2 DEF Paced, Joins, SameCounts, One, Waits
<1>8. ASSUME NEW r \in Runs, Leaves(r, l)  PROVE Paced(l)'
  <2>1. Cardinality(Unsaved(l))' = Cardinality(Unsaved(l)) - 1 /\ r \in Holders(l)
    BY <1>2, <1>5, <1>8 DEF Leaves, Unsaved, Holders, One
  <2>2. One(Waits(l)') \in {0, 1} /\ One(Waits(l)) = 0
    BY <2>1 DEF Waits, One
  <2> QED BY <1>1, <1>2, <1>3, <1>4, <1>8, <2>1, <2>2 DEF Paced, Leaves, SameCounts, SameRepeats, One, Waits
<1>9. ASSUME NEW r \in Runs, Saves(r, l)  PROVE Paced(l)'
  <2>1. Cardinality(Unsaved(l))' = Cardinality(Unsaved(l)) - 1 /\ r \in Holders(l) /\ r \in Holders(l)'
    BY <1>2, <1>5, <1>9 DEF Saves, Unsaved, Holders, One
  <2>2. One(Waits(l)') = 0 /\ One(Waits(l)) = 0
    BY <2>1 DEF Waits, One
  <2>3. /\ IsFiniteSet(GivenTo(l)') /\ Cardinality(GivenTo(l)') = Cardinality(GivenTo(l)) + 1
    <3>1. /\ issued[l] \in [StepNumbers -> Nat] /\ issued'[l] \in [StepNumbers -> Nat]
          /\ Level(r, l) \in StepNumbers
          /\ issued'[l][Level(r, l)] = issued[l][Level(r, l)] + 1
          /\ \A k \in StepNumbers \ {Level(r, l)} : issued'[l][k] = issued[l][k]
      BY <1>9 DEF TypeOK, Saves
    <3>2. GivenTo(l) = Copies(issued[l], StepNumbers) /\ GivenTo(l)' = Copies(issued'[l], StepNumbers)
      BY DEF GivenTo, Copies
    <3>3. One(Level(r, l) \in StepNumbers) = 1
      BY <3>1 DEF One
    <3> QED BY <1>3, <3>1, <3>2, <3>3, CopiesUp
  <2> QED BY <1>1, <1>2, <1>3, <1>9, <2>1, <2>2, <2>3 DEF Paced, Saves, SameRepeats
<1>10. ASSUME NEW r \in Runs, Records(r, l)  PROVE Paced(l)'
  <2>1. Cardinality(Unsaved(l))' = Cardinality(Unsaved(l)) /\ One(Waits(l)') = 0
        /\ One(Waits(l)) \in {0, 1}
    BY <1>2, <1>5, <1>10 DEF Records, Unsaved, Holders, Waits, One
  <2> QED BY <1>1, <1>2, <1>3, <1>4, <1>10, <2>1 DEF Paced, Records, SameCounts, SameRepeats, One, Waits
<1>11. ASSUME NEW r \in Runs, Aborts(r, l)  PROVE Paced(l)'
  <2>1. Cardinality(Unsaved(l))' = Cardinality(Unsaved(l)) /\ One(Waits(l)') \in {0, 1}
        /\ One(Waits(l)) \in {0, 1}
    BY <1>2, <1>5, <1>11 DEF Aborts, Unsaved, Holders, Waits, One
  <2> QED BY <1>1, <1>2, <1>3, <1>4, <1>11, <2>1 DEF Paced, Aborts, SameCounts, One, Waits
<1> QED BY <1>6, <1>7, <1>8, <1>9, <1>10, <1>11 DEF Event

\* Runs that meet at a lead, or leave a step half-way, are counted.
LEMMA AloneKept ==
  ASSUME TypeOK, TypeOK', NEW l \in Leads, Event(l), Alone(l)
  PROVE  Alone(l)'
<1> SUFFICES ASSUME tally'[l].repeats = 0, NEW r \in Runs, Holds(r, l)'
             PROVE  Level(r, l)' = 1 + row'[l].step
                    /\ \A q \in Runs : Holds(q, l)' => q = r
  BY DEF Alone, Holders
<1>1. tally[l].repeats \in Nat /\ Cardinality(Holders(l)) \in Nat
      /\ (Cardinality(Holders(l)) = 0 <=> Holders(l) = {})
  BY Few DEF TypeOK
<1>2. CASE Still(l)
  BY <1>2 DEF Still, KeptRun, SameRepeats, SameStep, Alone, Holders
<1>3. ASSUME NEW q \in Runs, Joins(q, l)
      PROVE  Level(r, l)' = 1 + row'[l].step /\ \A p \in Runs : Holds(p, l)' => p = r
  <2>1. Holders(l) = {}
    BY <1>1, <1>3 DEF Joins
  <2>2. \A p \in Runs : Holds(p, l)' => p = q
    BY <1>3, <2>1 DEF Joins, KeptBut, KeptRun, Holders
  <2> QED BY <1>3, <2>2 DEF Joins, SameStep
<1>4. ASSUME NEW q \in Runs, Saves(q, l)
      PROVE  Level(r, l)' = 1 + row'[l].step /\ \A p \in Runs : Holds(p, l)' => p = r
  BY <1>4 DEF Saves, KeptBut, KeptRun, SameRepeats, SameStep, Alone, Holders
<1>5. ASSUME NEW q \in Runs, Leaves(q, l) \/ Records(q, l)  PROVE FALSE
  BY <1>5 DEF Leaves, Records, KeptBut, KeptRun, SameRepeats, Alone, Holders
<1>6. ASSUME NEW q \in Runs, Aborts(q, l)  PROVE FALSE
  BY <1>1, <1>6 DEF Aborts
<1> QED BY <1>2, <1>3, <1>4, <1>5, <1>6 DEF Event
-----------------------------------------------------------------------------
(* Touchpoints.  The webhook can still accept an action of step k of l once  *)
(* for every copy of a task in the broker and every run about to publish one.*)

JobsFor(l, k) == {j \in Jobs : j.lead = l /\ j.step = k}
TasksFor(l, k) == Copies(ready, JobsFor(l, k))
Posting(l, k) == {r \in Runs : run[r].pc = "posting" /\ run[r].lead = l /\ run[r].step = k}

\* Actions accepted and actions that may follow are paid for by rows of the step, or by
\* what the task cannot tell from a first try.
Answered(l, k) ==
  /\ IsFiniteSet(TasksFor(l, k))
  /\ touched[l][k] + Cardinality(TasksFor(l, k)) + Cardinality(Posting(l, k))
       <= issued[l][k] + again[l][k]
TouchesPaid == \A l \in Leads, k \in StepNumbers : Answered(l, k)

\* The terms of the sum.
LEMMA Terms ==
  ASSUME TypeOK, NEW l \in Leads, NEW k \in StepNumbers, Answered(l, k)
  PROVE  /\ touched[l][k] \in Nat /\ again[l][k] \in Nat /\ issued[l][k] \in Nat
         /\ IsFiniteSet(TasksFor(l, k)) /\ Cardinality(TasksFor(l, k)) \in Nat
         /\ IsFiniteSet(Posting(l, k)) /\ Cardinality(Posting(l, k)) \in Nat
<1>1. touched[l][k] \in Nat /\ again[l][k] \in Nat /\ issued[l][k] \in Nat
  BY DEF TypeOK
<1>2. IsFiniteSet(TasksFor(l, k)) /\ Cardinality(TasksFor(l, k)) \in Nat
  BY FS_CardinalityType DEF Answered
<1>3. IsFiniteSet(Posting(l, k)) /\ Cardinality(Posting(l, k)) \in Nat
  BY FewRuns DEF Posting
<1> QED BY <1>1, <1>2, <1>3

\* Raising the entry of one step of one lead.
LEMMA RaisedBy ==
  ASSUME NEW h \in Counts, NEW j \in Jobs, NEW l \in Leads, NEW k \in StepNumbers
  PROVE  [h EXCEPT ![j.lead][j.step] = @ + 1][l][k] = h[l][k] + One(j \in JobsFor(l, k))
<1>1. h[l][k] \in Nat /\ j.lead \in Leads /\ j.step \in StepNumbers
  BY DEF Counts, Jobs
<1>2. j \in JobsFor(l, k) <=> j.lead = l /\ j.step = k
  BY DEF JobsFor
<1> QED BY <1>1, <1>2 DEF Counts, One

\* A task leaves the broker.
LEMMA TaskLeaves ==
  ASSUME TypeOK, NEW j \in Jobs, ready[j] > 0, NEW l \in Leads, NEW k \in StepNumbers, Answered(l, k)
  PROVE  /\ Drop(j) \in [Jobs -> Nat]
         /\ IsFiniteSet(Copies(Drop(j), JobsFor(l, k)))
         /\ Cardinality(Copies(Drop(j), JobsFor(l, k)))
              = Cardinality(TasksFor(l, k)) - One(j \in JobsFor(l, k))
<1>1. ready \in [Jobs -> Nat] /\ JobsFor(l, k) \in SUBSET Jobs /\ IsFiniteSet(TasksFor(l, k))
  BY DEF TypeOK, JobsFor, Answered
<1>2. /\ Drop(j) \in [Jobs -> Nat] /\ ready[j] = Drop(j)[j] + 1
      /\ \A i \in Jobs \ {j} : Drop(j)[i] = ready[i]
  BY <1>1 DEF Drop
<1> QED BY <1>1, <1>2, CopiesDown DEF TasksFor

\* A task enters the broker.
LEMMA TaskEnters ==
  ASSUME NEW f \in [Jobs -> Nat], NEW j \in Jobs, NEW l \in Leads, NEW k \in StepNumbers,
         IsFiniteSet(Copies(f, JobsFor(l, k)))
  PROVE  /\ IsFiniteSet(Copies([f EXCEPT ![j] = @ + 1], JobsFor(l, k)))
         /\ Cardinality(Copies([f EXCEPT ![j] = @ + 1], JobsFor(l, k)))
              = Cardinality(Copies(f, JobsFor(l, k))) + One(j \in JobsFor(l, k))
<1> DEFINE g == [f EXCEPT ![j] = @ + 1]
<1>1. g \in [Jobs -> Nat] /\ g[j] = f[j] + 1 /\ \A i \in Jobs \ {j} : g[i] = f[i]
  OBVIOUS
<1>2. JobsFor(l, k) \in SUBSET Jobs
  BY DEF JobsFor
<1> HIDE DEF g
<1>3. /\ IsFiniteSet(Copies(g, JobsFor(l, k)))
      /\ Cardinality(Copies(g, JobsFor(l, k)))
           = Cardinality(Copies(f, JobsFor(l, k))) + One(j \in JobsFor(l, k))
  BY <1>1, <1>2, CopiesUp
<1> QED BY <1>3 DEF g

\* execute_linkedin_touchpoint_task: a copy that is answered is a copy less, and what is
\* answered or delivered again has its event.
LEMMA TasksArePaid ==
  ASSUME TypeOK, TouchesPaid, NEW j \in Jobs, NEW done \in BOOLEAN,
         \/ PostTouchpoint(j) \/ CommitTouchpoint(j) \/ FailTouchpoint(j)
         \/ TouchpointCrash(j) \/ Redeliver(j) \/ RetryTouchpoint(j, done)
  PROVE  TouchesPaid'
<1> SUFFICES ASSUME NEW l \in Leads, NEW k \in StepNumbers  PROVE Answered(l, k)'
  BY DEF TouchesPaid
<1> DEFINE n == One(j \in JobsFor(l, k))
<1>1. UNCHANGED <<issued, run>> /\ Posting(l, k)' = Posting(l, k) /\ n \in {0, 1}
  BY DEF PostTouchpoint, CommitTouchpoint, FailTouchpoint, TouchpointCrash, Redeliver,
     RetryTouchpoint, others, Posting, One
<1>2. Answered(l, k) /\ touched \in Counts /\ again \in Counts /\ ready \in [Jobs -> Nat]
  BY DEF TouchesPaid, TypeOK, Counts
<1>3. /\ touched[l][k] \in Nat /\ again[l][k] \in Nat /\ issued[l][k] \in Nat
      /\ IsFiniteSet(TasksFor(l, k)) /\ Cardinality(TasksFor(l, k)) \in Nat
      /\ Cardinality(Posting(l, k)) \in Nat
      /\ touched[l][k] + Cardinality(TasksFor(l, k)) + Cardinality(Posting(l, k))
           <= issued[l][k] + again[l][k]
  BY <1>2, Terms DEF Answered
<1>4. ready' = Drop(j) /\ ready[j] > 0 =>
        IsFiniteSet(TasksFor(l, k)') /\ Cardinality(TasksFor(l, k)') = Cardinality(TasksFor(l, k)) - n
  BY <1>2, TaskLeaves DEF TasksFor
<1>5. ready' = Published(j) =>
        IsFiniteSet(TasksFor(l, k)') /\ Cardinality(TasksFor(l, k)') = Cardinality(TasksFor(l, k)) + n
  <2>1. IsFiniteSet(Copies(ready, JobsFor(l, k)))
    BY <1>3 DEF TasksFor
  <2>2. /\ IsFiniteSet(Copies(Published(j), JobsFor(l, k)))
        /\ Cardinality(Copies(Published(j), JobsFor(l, k)))
             = Cardinality(Copies(ready, JobsFor(l, k))) + One(j \in JobsFor(l, k))
    BY <1>2, <2>1, TaskEnters DEF Published
  <2> QED BY <2>2 DEF TasksFor
<1>6. ready' = ready => TasksFor(l, k)' = TasksFor(l, k)
  BY DEF TasksFor
<1>7. Accepted(j) => touched'[l][k] = touched[l][k] + n
  BY <1>2, RaisedBy DEF Accepted
<1>8. Disturbed(j) => again'[l][k] = again[l][k] + n
  BY <1>2, RaisedBy DEF Disturbed
<1>9. ready[j] > 0 /\ j.try < MaxRetries
      /\ ready' = [Drop(j) EXCEPT ![[j EXCEPT !.try = @ + 1]] = @ + 1] =>
        IsFiniteSet(TasksFor(l, k)') /\ Cardinality(TasksFor(l, k)') = Cardinality(TasksFor(l, k))
  <2> DEFINE i == [j EXCEPT !.try = @ + 1]
  <2> SUFFICES ASSUME ready[j] > 0, j.try < MaxRetries, ready' = [Drop(j) EXCEPT ![i] = @ + 1]
               PROVE  IsFiniteSet(TasksFor(l, k)')
                      /\ Cardinality(TasksFor(l, k)') = Cardinality(TasksFor(l, k))
    OBVIOUS
  <2>1. i \in Jobs /\ (i \in JobsFor(l, k) <=> j \in JobsFor(l, k))
    BY DEF Jobs, JobsFor
  <2> HIDE DEF i
  <2>2. /\ Drop(j) \in [Jobs -> Nat] /\ IsFiniteSet(Copies(Drop(j), JobsFor(l, k)))
        /\ Cardinality(Copies(Drop(j), JobsFor(l, k))) = Cardinality(TasksFor(l, k)) - n
    BY <1>2, TaskLeaves
  <2>3. /\ IsFiniteSet(TasksFor(l, k)')
        /\ Cardinality(TasksFor(l, k)')
             = Cardinality(Copies(Drop(j), JobsFor(l, k))) + One(i \in JobsFor(l, k))
    BY <2>1, <2>2, TaskEnters DEF TasksFor
  <2>4. One(i \in JobsFor(l, k)) = n
    BY <2>1 DEF One
  <2> HIDE DEF n
  <2> QED BY <1>1, <1>3, <2>2, <2>3, <2>4
<1> HIDE DEF n
<1>10. CASE PostTouchpoint(j)
  BY <1>1, <1>3, <1>4, <1>7, <1>10 DEF PostTouchpoint, Answered
<1>11. CASE CommitTouchpoint(j)
  BY <1>1, <1>3, <1>6, <1>11 DEF CommitTouchpoint, Answered
<1>12. CASE FailTouchpoint(j)
  BY <1>1, <1>3, <1>4, <1>12 DEF FailTouchpoint, Answered
<1>13. CASE TouchpointCrash(j) \/ Redeliver(j)
  BY <1>1, <1>3, <1>5, <1>8, <1>13 DEF TouchpointCrash, Redeliver, Answered
<1>14. CASE RetryTouchpoint(j, done)
  <2>1. /\ IsFiniteSet(TasksFor(l, k)')
        /\ Cardinality(TasksFor(l, k)') \in Nat
        /\ Cardinality(TasksFor(l, k)') <= Cardinality(TasksFor(l, k))
    <3>1. IsFiniteSet(TasksFor(l, k)') /\ Cardinality(TasksFor(l, k)')
            \in {Cardinality(TasksFor(l, k)), Cardinality(TasksFor(l, k)) - n}
      BY <1>4, <1>9, <1>14 DEF RetryTouchpoint
    <3> QED BY <1>1, <1>3, <3>1, FS_CardinalityType
  <2>2. \/ touched'[l][k] = touched[l][k] + n /\ again'[l][k] = again[l][k] + n
        \/ touched'[l][k] = touched[l][k] /\ again'[l][k] = again[l][k]
    BY <1>7, <1>8, <1>14 DEF RetryTouchpoint
  <2> QED BY <1>1, <1>3, <2>1, <2>2 DEF Answered
<1> QED BY <1>10, <1>11, <1>12, <1>13, <1>14
\* Nothing published: a run that leaves a touchpoint unpublished is no debt.
LEMMA NothingPosted ==
  ASSUME TypeOK, TypeOK', TouchesPaid, UNCHANGED <<ready, touched, again>>,
         \A l \in Leads, k \in StepNumbers :
           issued'[l][k] >= issued[l][k] /\ Posting(l, k)' \subseteq Posting(l, k)
  PROVE  TouchesPaid'
<1> SUFFICES ASSUME NEW l \in Leads, NEW k \in StepNumbers  PROVE Answered(l, k)'
  BY DEF TouchesPaid
<1>1. /\ touched[l][k] \in Nat /\ again[l][k] \in Nat /\ issued[l][k] \in Nat
      /\ Cardinality(TasksFor(l, k)) \in Nat /\ Cardinality(Posting(l, k)) \in Nat
      /\ IsFiniteSet(Posting(l, k)) /\ Answered(l, k)
  BY Terms DEF TouchesPaid
<1>2. issued'[l][k] \in Nat /\ TasksFor(l, k)' = TasksFor(l, k)
  BY DEF TypeOK, TasksFor
<1>3. Cardinality(Posting(l, k)') \in Nat /\ Cardinality(Posting(l, k)') <= Cardinality(Posting(l, k))
  BY <1>1, FS_Subset, FS_CardinalityType
<1> QED BY <1>1, <1>2, <1>3 DEF Answered

\* A run that moves and does not post afterwards.
LEMMA RunsThatDoNotPost ==
  ASSUME TypeOK, TypeOK', TouchesPaid, UNCHANGED <<ready, touched, again>>, NEW r \in Runs, NEW x,
         Move(r, x), x.pc # "posting",
         \A l \in Leads, k \in StepNumbers : issued'[l][k] >= issued[l][k]
  PROVE  TouchesPaid'
<1>1. \A q \in Runs : run'[q] = IF q = r THEN x ELSE run[q]
  BY DEF Move, TypeOK
<1>2. \A l \in Leads, k \in StepNumbers : Posting(l, k)' \subseteq Posting(l, k)
  BY <1>1 DEF Posting
<1> QED BY <1>2, NothingPosted

\* follow_up_sequence_task: a touchpoint is published for a row of its step.
LEMMA PostsArePaid ==
  ASSUME SequenceInv, TypeOK', TouchesPaid, NEW r \in Runs, NEW flagged \in BOOLEAN,
         SaveStep(r, flagged) \/ PublishTouchpoint(r)
  PROVE  TouchesPaid'
<1> DEFINE l0 == run[r].lead
           k0 == run[r].step
           j == [lead |-> l0, step |-> k0, try |-> 0]
<1>0. TypeOK /\ run[r] \in RunStates /\ run \in [Runs -> RunStates] /\ issued \in Counts
  BY DEF SequenceInv, TypeOK, Counts
<1>1. l0 \in Leads /\ k0 \in StepNumbers
  BY DEF SaveStep, PublishTouchpoint, SequenceInv, RunsInOrder, Working, Saved
<1>2. j \in Jobs /\ \A l \in Leads, k \in StepNumbers : j \in JobsFor(l, k) <=> (l = l0 /\ k = k0)
  BY <1>1 DEF Jobs, JobsFor
<1>3. CASE SaveStep(r, flagged)
  <2>1. issued' = [issued EXCEPT ![l0][k0] = @ + 1] /\ UNCHANGED <<ready, touched, again>>
    BY <1>3 DEF SaveStep, tasks
  <2>2. ASSUME NEW l \in Leads, NEW k \in StepNumbers
        PROVE  issued[l][k] \in Nat /\ issued'[l][k] = issued[l][k] + One(l = l0 /\ k = k0)
    BY <1>0, <1>1, <2>1 DEF Counts, One
  <2>3. CASE run[r].pc # "touching"
    <3> DEFINE x == [run[r] EXCEPT !.pc = IF flagged THEN "record" ELSE "mailing", !.seen = Unread]
    <3>1. Move(r, x) /\ x.pc # "posting"
      BY <1>0, <1>3, <2>3 DEF SaveStep, RunStates
    <3>2. \A l \in Leads, k \in StepNumbers : issued'[l][k] >= issued[l][k]
      BY <2>2 DEF One
    <3> HIDE DEF x
    <3> QED BY <1>0, <2>1, <3>1, <3>2, RunsThatDoNotPost
  <2>4. CASE run[r].pc = "touching"
    <3> SUFFICES ASSUME NEW l \in Leads, NEW k \in StepNumbers  PROVE Answered(l, k)'
      BY DEF TouchesPaid
    <3>1. /\ touched[l][k] \in Nat /\ again[l][k] \in Nat
          /\ Cardinality(TasksFor(l, k)) \in Nat /\ Cardinality(Posting(l, k)) \in Nat
          /\ IsFiniteSet(Posting(l, k)) /\ Answered(l, k)
      BY <1>0, Terms DEF TouchesPaid
    <3>2. /\ run'[r].pc = "posting" /\ run'[r].lead = l0 /\ run'[r].step = k0
          /\ \A q \in Runs \ {r} : run'[q] = run[q]
      BY <1>0, <1>3, <2>4 DEF SaveStep, Move, RunStates
    <3>3. /\ Posting(l, k)' \ {r} = Posting(l, k) \ {r} /\ r \notin Posting(l, k)
          /\ r \in Posting(l, k)' <=> (l = l0 /\ k = k0)
      BY <2>4, <3>2 DEF Posting
    <3>4. Cardinality(Posting(l, k)') = Cardinality(Posting(l, k)) + One(l = l0 /\ k = k0)
      <4>1. ASSUME NEW T, T \ {r} = Posting(l, k) \ {r}
            PROVE  Cardinality(T) = Cardinality(Posting(l, k)) + One(r \in T) - One(r \in Posting(l, k))
        BY <3>1, <4>1, OneElement
      <4> QED BY <3>1, <3>3, <4>1 DEF One
    <3>5. TasksFor(l, k)' = TasksFor(l, k)
      BY <2>1 DEF TasksFor
    <3> QED BY <2>1, <2>2, <3>1, <3>4, <3>5 DEF Answered, One
  <2> QED BY <2>3, <2>4
<1>4. CASE PublishTouchpoint(r)
  <2> SUFFICES ASSUME NEW l \in Leads, NEW k \in StepNumbers  PROVE Answered(l, k)'
    BY DEF TouchesPaid
  <2>1. /\ touched[l][k] \in Nat /\ again[l][k] \in Nat /\ issued[l][k] \in Nat
        /\ IsFiniteSet(TasksFor(l, k)) /\ Cardinality(TasksFor(l, k)) \in Nat
        /\ IsFiniteSet(Posting(l, k)) /\ Cardinality(Posting(l, k)) \in Nat /\ Answered(l, k)
    BY <1>0, Terms DEF TouchesPaid
  <2>2. /\ ready' = Published(j) /\ UNCHANGED <<issued, touched, again>> /\ run[r].pc = "posting"
        /\ run'[r].pc = "record" /\ \A q \in Runs \ {r} : run'[q] = run[q]
    BY <1>0, <1>4 DEF PublishTouchpoint, Move, RunStates, history
  <2>3. /\ Posting(l, k)' \ {r} = Posting(l, k) \ {r} /\ r \notin Posting(l, k)'
        /\ r \in Posting(l, k) <=> (l = l0 /\ k = k0)
    BY <2>2 DEF Posting
  <2>4. Cardinality(Posting(l, k)') = Cardinality(Posting(l, k)) - One(l = l0 /\ k = k0)
    <3>1. ASSUME NEW T, T \ {r} = Posting(l, k) \ {r}
          PROVE  Cardinality(T) = Cardinality(Posting(l, k)) + One(r \in T) - One(r \in Posting(l, k))
      BY <2>1, <3>1, OneElement
    <3> QED BY <2>1, <2>3, <3>1 DEF One
  <2> HIDE DEF j
  <2>5. /\ IsFiniteSet(TasksFor(l, k)')
        /\ Cardinality(TasksFor(l, k)') = Cardinality(TasksFor(l, k)) + One(j \in JobsFor(l, k))
    <3>1. j \in Jobs /\ ready \in [Jobs -> Nat] /\ IsFiniteSet(Copies(ready, JobsFor(l, k)))
      BY <1>0, <1>2, <2>1 DEF TypeOK, TasksFor
    <3>2. /\ IsFiniteSet(Copies(Published(j), JobsFor(l, k)))
          /\ Cardinality(Copies(Published(j), JobsFor(l, k)))
               = Cardinality(Copies(ready, JobsFor(l, k))) + One(j \in JobsFor(l, k))
      BY <3>1, TaskEnters DEF Published
    <3> QED BY <2>2, <3>2 DEF TasksFor
  <2>6. One(j \in JobsFor(l, k)) = One(l = l0 /\ k = k0)
    BY <1>2 DEF One
  <2> QED BY <2>1, <2>2, <2>4, <2>5, <2>6 DEF Answered, One
<1> QED BY <1>3, <1>4
\* Every step leaves the touchpoints of every step of every lead paid for.
LEMMA TouchesKept ==
  ASSUME SequenceInv, TypeOK', TouchesPaid, [Next]_vars
  PROVE  TouchesPaid'
<1>0. TypeOK /\ \A l \in Leads, k \in StepNumbers : issued[l][k] \in Nat
  BY DEF SequenceInv, TypeOK
<1>1. ASSUME NEW r \in Runs, NEW x, Move(r, x), x.pc # "posting",
             UNCHANGED <<ready, touched, again, issued>>
      PROVE  TouchesPaid'
  BY <1>0, <1>1, RunsThatDoNotPost
<1>2. ASSUME UNCHANGED <<ready, touched, again, issued, run>>  PROVE TouchesPaid'
  BY <1>0, <1>2, NothingPosted DEF Posting
<1>3. ASSUME NEW r \in Runs, NEW l, NEW seen  PROVE DoneWith(r, l, seen).pc # "posting"
  BY DEF DoneWith, IdleRun
<1>4. ASSUME NEW r \in Runs, RunStep(r) \/ DraftFails(r) \/ RunCrash(r)  PROVE TouchesPaid'
  <2>1. CASE BeginRun(r)
    <3> DEFINE x == [IdleRun EXCEPT !.pc = "scan", !.todo = DueLeads,
                 !.seen = [l \in Leads |-> IF l \in DueLeads THEN row[l].step ELSE Nil]]
    <3>1. Move(r, x) /\ x.pc # "posting"
      BY <2>1 DEF BeginRun, IdleRun
    <3> HIDE DEF x
    <3> QED BY <1>1, <2>1, <3>1 DEF BeginRun, tasks, history
  <2>2. ASSUME NEW l \in Leads, SkipSuppressed(r, l) \/ EndSequence(r, l) \/ NothingToFollow(r, l)
        PROVE  TouchesPaid'
    BY <1>1, <1>3, <2>2 DEF SkipSuppressed, EndSequence, NothingToFollow, tasks, history
  <2>3. ASSUME NEW l \in Leads, StartStep(r, l)  PROVE TouchesPaid'
    <3>1. \A q \in Runs : run'[q].pc = "posting" => run'[q] = run[q]
      BY <1>0, <2>3 DEF StartStep, Move, TypeOK, RunStates
    <3>2. UNCHANGED <<ready, touched, again, issued>>
      BY <2>3 DEF StartStep, tasks, history
    <3> QED BY <1>0, <3>1, <3>2, NothingPosted DEF Posting
  <2>4. ASSUME NEW flagged \in BOOLEAN, SaveStep(r, flagged) \/ PublishTouchpoint(r)  PROVE TouchesPaid'
    BY <2>4, PostsArePaid
  <2>5. CASE PublishEmail(r)
    <3>1. \A q \in Runs : run'[q].pc = "posting" => run'[q] = run[q]
      BY <1>0, <2>5 DEF PublishEmail, Move, TypeOK, RunStates
    <3>2. UNCHANGED <<ready, touched, again, issued>>
      BY <2>5 DEF PublishEmail, tasks, history
    <3> QED BY <1>0, <3>1, <3>2, NothingPosted DEF Posting
  <2>6. CASE RecordStep(r) \/ DraftFails(r)
    BY <1>1, <1>3, <2>6 DEF RecordStep, DraftFails, NotDrafted, tasks, history
  <2>7. CASE RecordAborts(r) \/ RunCrash(r)
    <3>1. IdleRun.pc # "posting"
      BY DEF IdleRun
    <3> QED BY <1>1, <2>7, <3>1 DEF RecordAborts, RunCrash, AbortRun, tasks, history
  <2> QED BY <1>4, <2>1, <2>2, <2>3, <2>4, <2>5, <2>6, <2>7 DEF RunStep
<1>5. ASSUME NEW j \in Jobs, NEW done \in BOOLEAN,
             \/ PostTouchpoint(j) \/ CommitTouchpoint(j) \/ FailTouchpoint(j)
             \/ TouchpointCrash(j) \/ Redeliver(j) \/ RetryTouchpoint(j, done)
      PROVE  TouchesPaid'
  BY <1>0, <1>5, TasksArePaid
<1>6. ASSUME NEW l \in Leads,
             \/ Elapse(l) \/ Deliver(l) \/ ReleaseHeld(l) \/ LoadOpen(l) \/ TrackOpen(l)
             \/ DeliveryRefused(l) \/ ReportBounce(l) \/ Reply(l)
      PROVE  TouchesPaid'
  BY <1>2, <1>6 DEF Elapse, Deliver, ReleaseHeld, LoadOpen, TrackOpen, DeliveryRefused,
     ReportBounce, Reply,
     tasks, history
<1>7. ASSUME NEW l \in Leads, AnyOptOut(l)  PROVE TouchesPaid'
  <2>1. PICK x : OptOut(l, x)
    BY <1>7 DEF AnyOptOut
  <2>2. \A r \in Runs : run'[r].pc = run[r].pc /\ run'[r].lead = run[r].lead /\ run'[r].step = run[r].step
    BY <1>0, <2>1 DEF OptOut, TypeOK, RunStates
  <2>3. UNCHANGED <<ready, touched, again, issued>>
    BY <2>1 DEF OptOut, tasks, history
  <2> QED BY <1>0, <2>2, <2>3, NothingPosted DEF Posting
<1>8. ASSUME NEW p \in Plans, ReplaceSequence(p)  PROVE TouchesPaid'
  BY <1>2, <1>8 DEF ReplaceSequence, tasks, history
<1>9. CASE UNCHANGED vars
  BY <1>2, <1>9 DEF vars, tasks, history
<1> QED BY <1>4, <1>5, <1>6, <1>7, <1>8, <1>9 DEF Next, Disturbance, RunStep
-----------------------------------------------------------------------------
(* After a reply.  A lead that replied while nothing of it was under way     *)
(* never gets anything under way again.                                      *)

Quiet(l) ==
  /\ row[l].status \in {"replied", "opted_out"}
  /\ mail[l].outbox = 0 /\ mail[l].held = 0 /\ mail[l].opening # "sent"
  /\ Holders(l) = {}
RepliedIsQuiet == \A l \in Leads : tally[l].replied /\ ~tally[l].crossed => Quiet(l)

\* Only a lead that is due is taken up, and only one that is held is given a step.
LEMMA FreeStaysFree ==
  ASSUME NEW l \in Leads, Event(l), Holders(l) = {}, l \notin DueLeads
  PROVE  Holders(l)' = {} /\ issued'[l] = issued[l]
BY DEF Event, Still, Joins, Leaves, Saves, Records, Aborts, KeptRun, Holders, SameCounts

\* The row of a quiet lead is written by opt-outs, and nothing is added to its mail.
LEMMA QuietRow ==
  ASSUME Sequence, NEW l \in Leads, Quiet(l), [Next]_vars
  PROVE  /\ row'[l].status \in {"replied", "opted_out"}
         /\ mail'[l].outbox = 0 /\ mail'[l].held = 0 /\ mail'[l].opening # "sent"
<1> DEFINE Goal == /\ row'[l].status \in {"replied", "opted_out"}
                   /\ mail'[l].outbox = 0 /\ mail'[l].held = 0 /\ mail'[l].opening # "sent"
<1>1. /\ row \in [Leads -> Rows] /\ mail \in [Leads -> Mails] /\ row[l] \in Rows /\ mail[l] \in Mails
      /\ \A r \in Runs : ~Holds(r, l) /\ run[r].lead # l
      /\ row[l].status \in {"replied", "opted_out"}
      /\ mail[l].outbox = 0 /\ mail[l].held = 0 /\ mail[l].opening # "sent"
  BY DEF Sequence, SequenceInv, TypeOK, Quiet, Holders, Holds
<1>2. row'[l] = row[l] /\ mail'[l] = mail[l] => Goal
  BY <1>1
<1>3. ASSUME NEW r \in Runs, RunStep(r) \/ DraftFails(r) \/ RunCrash(r)  PROVE Goal
  <2>1. CASE BeginRun(r) \/ PublishTouchpoint(r) \/ RecordAborts(r) \/ RunCrash(r) \/ DraftFails(r)
    BY <1>2, <2>1 DEF BeginRun, PublishTouchpoint, RecordAborts, RunCrash, AbortRun, DraftFails
  <2>2. ASSUME NEW i \in Leads, SkipSuppressed(r, i) \/ EndSequence(r, i) \/ NothingToFollow(r, i)
                                \/ StartStep(r, i)
        PROVE  Goal
    <3>1. mail' = mail
      BY <2>2 DEF SkipSuppressed, EndSequence, NothingToFollow, StartStep
    <3>2. row'[l].status \in {row[l].status, "opted_out"}
      <4>1. SkipSuppressed(r, i) => row'[l].status \in {row[l].status, "opted_out"}
        BY <1>1 DEF SkipSuppressed, Stopped, Rows
      <4>2. EndSequence(r, i) => row'[l].status = row[l].status
        BY <1>1 DEF EndSequence, Rows
      <4>3. NothingToFollow(r, i) \/ StartStep(r, i) => row'[l].status = row[l].status
        BY DEF NothingToFollow, StartStep
      <4> QED BY <2>2, <4>1, <4>2, <4>3
    <3> QED BY <1>1, <3>1, <3>2
  <2>3. ASSUME NEW flagged \in BOOLEAN, SaveStep(r, flagged)  PROVE Goal
    BY <1>1, <1>2, <2>3 DEF SaveStep
  <2>4. CASE PublishEmail(r)
    BY <1>1, <1>2, <2>4 DEF PublishEmail
  <2>5. CASE RecordStep(r)
    BY <1>1, <1>2, <2>5 DEF RecordStep
  <2> HIDE DEF Goal
  <2> QED BY <1>3, <2>1, <2>2, <2>3, <2>4, <2>5 DEF RunStep
<1>4. ASSUME NEW j \in Jobs, NEW done \in BOOLEAN,
             \/ PostTouchpoint(j) \/ CommitTouchpoint(j) \/ FailTouchpoint(j)
             \/ TouchpointCrash(j) \/ Redeliver(j) \/ RetryTouchpoint(j, done)
      PROVE  Goal
  BY <1>2, <1>4 DEF PostTouchpoint, CommitTouchpoint, FailTouchpoint, TouchpointCrash, Redeliver,
     RetryTouchpoint, others
<1>5. ASSUME NEW i \in Leads,
             Elapse(i) \/ Reply(i) \/ AnyOptOut(i)
      PROVE  Goal
  <2>1. row'[l].status \in {row[l].status, "replied", "opted_out"}
    <3>1. Elapse(i) => row'[l].status = row[l].status
      BY <1>1 DEF Elapse, Rows
    <3>2. Reply(i) => row'[l].status \in {row[l].status, "replied"}
      BY <1>1 DEF Reply, Rows
    <3>3. ASSUME NEW x, OptOut(i, x), x.status \in {row[i].status, "opted_out"}
          PROVE  row'[l].status \in {row[l].status, "opted_out"}
      BY <1>1, <3>3 DEF OptOut
    <3>4. AnyOptOut(i) => \E x : OptOut(i, x) /\ x.status \in {row[i].status, "opted_out"}
      <4>1. row[i] \in Rows
        BY <1>1
      <4> DEFINE x1 == [row[i] EXCEPT !.status = "opted_out", !.due = "none"]
                 x2 == [row[i] EXCEPT !.status = "opted_out"]
      <4>2. x1.status = "opted_out" /\ x2.status = "opted_out"
        BY <4>1 DEF Rows
      <4> SUFFICES ASSUME AnyOptOut(i)
                   PROVE  \E x : OptOut(i, x) /\ x.status \in {row[i].status, "opted_out"}
        OBVIOUS
      <4>3. OptOut(i, x1) \/ OptOut(i, x2) \/ OptOut(i, row[i])
        BY DEF AnyOptOut
      <4> HIDE DEF x1, x2
      <4> QED BY <4>2, <4>3
    <3> QED BY <1>5, <3>1, <3>2, <3>3, <3>4
  <2>2. mail' = mail
    BY <1>5 DEF Elapse, Reply, AnyOptOut, OptOut
  <2> QED BY <1>1, <2>1, <2>2
<1>6. ASSUME NEW i \in Leads,
             \/ Deliver(i) \/ ReleaseHeld(i) \/ LoadOpen(i) \/ TrackOpen(i)
             \/ DeliveryRefused(i) \/ ReportBounce(i)
      PROVE  Goal
  <2>1. CASE i # l
    <3>1. row'[l] = row[l] /\ mail'[l] = mail[l]
      BY <1>1, <1>6, <2>1 DEF Deliver, ReleaseHeld, LoadOpen, TrackOpen, DeliveryRefused,
         ReportBounce
    <3> QED BY <1>2, <3>1
  <2>2. CASE i = l
    <3>1. LoadOpen(l) \/ TrackOpen(l) \/ ReportBounce(l)
      BY <1>1, <1>6, <2>2 DEF Deliver, ReleaseHeld, DeliveryRefused
    <3>2. row'[l] = row[l]
      BY <1>1, <3>1 DEF LoadOpen, TrackOpen, ReportBounce
    <3>3. mail'[l].outbox = 0 /\ mail'[l].held = 0 /\ mail'[l].opening # "sent"
      <4>1. CASE LoadOpen(l)
        BY <1>1, <4>1 DEF LoadOpen, Mails
      <4>2. CASE TrackOpen(l)
        BY <1>1, <4>2 DEF TrackOpen, Mails
      <4>3. CASE ReportBounce(l)
        BY <1>1, <4>3 DEF ReportBounce, Mails
      <4> QED BY <3>1, <4>1, <4>2, <4>3
    <3> QED BY <1>1, <3>2, <3>3
  <2> QED BY <2>1, <2>2
<1>7. ASSUME NEW p \in Plans, ReplaceSequence(p)  PROVE Goal
  BY <1>2, <1>7 DEF ReplaceSequence
<1>8. ASSUME UNCHANGED vars  PROVE Goal
  BY <1>2, <1>8 DEF vars
<1> HIDE DEF Goal
<1>9. Goal
  <2>1. CASE Disturbance
    BY <2>1, <1>3, <1>4, <1>5, <1>6, <1>7 DEF Disturbance
  <2> QED BY <2>1, <1>3, <1>4, <1>5, <1>6, <1>8 DEF Next
<1> QED BY <1>9 DEF Goal
\* Once quiet, always quiet; and a reply is counted as crossed unless all is quiet.
LEMMA QuietKept ==
  ASSUME Sequence, RepliedIsQuiet, [Next]_vars
  PROVE  RepliedIsQuiet'
<1> SUFFICES ASSUME NEW l \in Leads, tally'[l].replied, ~tally'[l].crossed  PROVE Quiet(l)'
  BY DEF RepliedIsQuiet
<1>1. ASSUME Quiet(l)  PROVE Quiet(l)'
  <2>1. l \notin DueLeads /\ Holders(l) = {}
    BY <1>1 DEF Quiet, DueLeads, Followed
  <2>2. Holders(l)' = {}
    BY <2>1, LeadsSee, FreeStaysFree
  <2> QED BY <1>1, <2>2, QuietRow DEF Quiet
<1>2. CASE Reply(l)
  <2>1. row \in [Leads -> Rows] /\ tally \in [Leads -> Tallies] /\ tally[l] \in Tallies /\ mail[l] \in Mails
    BY DEF Sequence, SequenceInv, TypeOK, Tallies
  <2>2. tally'[l].crossed = UnderWay(l)
    BY <1>2, <2>1 DEF Reply, Tallies
  <2>3. ~UnderWay(l)
    BY <2>2
  <2>4. mail[l].outbox \in Nat /\ mail[l].held \in Nat
    BY <2>1 DEF Mails
  <2>5. mail[l].outbox = 0 /\ mail[l].held = 0 /\ mail[l].opening # "sent" /\ \A r \in Runs : ~Holds(r, l)
    BY <2>3, <2>4 DEF UnderWay
  <2>6. row'[l].status = "replied" /\ mail' = mail /\ run' = run
    BY <1>2, <2>1 DEF Reply, Rows
  <2> QED BY <2>5, <2>6 DEF Quiet, Holders, Holds
<1>3. CASE ~Reply(l)
  <2>1. tally'[l].replied = tally[l].replied /\ tally'[l].crossed = tally[l].crossed
    <3>1. tally \in [Leads -> Tallies] /\ tally[l] \in Tallies
      BY DEF Sequence, SequenceInv, TypeOK, Tallies
    <3>2. ASSUME NEW n  PROVE /\ [tally[l] EXCEPT !.repeats = n].replied = tally[l].replied
                             /\ [tally[l] EXCEPT !.repeats = n].crossed = tally[l].crossed
      BY <3>1 DEF Tallies
    <3> DEFINE Goal == tally'[l].replied = tally[l].replied /\ tally'[l].crossed = tally[l].crossed
    <3>3. ASSUME NEW r \in Runs, RunStep(r) \/ DraftFails(r) \/ RunCrash(r)  PROVE Goal
      <4>1. tally'[l] = tally[l] \/ \E n : tally'[l] = [tally[l] EXCEPT !.repeats = n]
        BY <3>3 DEF RunStep, BeginRun, SkipSuppressed, EndSequence, NothingToFollow, StartStep, SaveStep,
           PublishEmail, PublishTouchpoint, RecordStep, RecordAborts, RunCrash, AbortRun, DraftFails
      <4> QED BY <3>2, <4>1
    <3>4. ASSUME NEW j \in Jobs, NEW done \in BOOLEAN,
                 \/ PostTouchpoint(j) \/ CommitTouchpoint(j) \/ FailTouchpoint(j)
                 \/ TouchpointCrash(j) \/ Redeliver(j) \/ RetryTouchpoint(j, done)
          PROVE  Goal
      BY <3>4 DEF PostTouchpoint, CommitTouchpoint, FailTouchpoint, TouchpointCrash, Redeliver,
         RetryTouchpoint, others
    <3>5. ASSUME NEW i \in Leads,
                 \/ Deliver(i) \/ ReleaseHeld(i) \/ LoadOpen(i) \/ TrackOpen(i) \/ DeliveryRefused(i)
                 \/ ReportBounce(i)
                 \/ AnyOptOut(i)
          PROVE  Goal
      BY <3>5 DEF Deliver, ReleaseHeld, LoadOpen, TrackOpen, DeliveryRefused, ReportBounce,
         AnyOptOut, OptOut
    <3>6. ASSUME NEW i \in Leads, Elapse(i) \/ Reply(i)  PROVE Goal
      <4>1. CASE i # l
        BY <3>1, <3>6, <4>1 DEF Elapse, Reply
      <4>2. CASE i = l
        <5>1. Elapse(l)
          BY <1>3, <3>6, <4>2
        <5>2. tally'[l] = [tally[l] EXCEPT !.elapsed = @ + 1]
          BY <3>1, <5>1 DEF Elapse
        <5> QED BY <3>1, <5>2 DEF Tallies
      <4> HIDE DEF Goal
      <4> QED BY <4>1, <4>2
    <3>7. ASSUME NEW p \in Plans, ReplaceSequence(p)  PROVE Goal
      BY <3>7 DEF ReplaceSequence
    <3>8. ASSUME UNCHANGED vars  PROVE Goal
      BY <3>8 DEF vars
    <3> HIDE DEF Goal
    <3>9. Goal
      <4>1. CASE Disturbance
        BY <4>1, <3>3, <3>4, <3>5, <3>6, <3>7 DEF Disturbance
      <4> QED BY <4>1, <3>3, <3>4, <3>5, <3>6, <3>8 DEF Next
    <3> QED BY <3>9 DEF Goal
  <2> QED BY <1>1, <2>1 DEF RepliedIsQuiet
<1> QED BY <1>2, <1>3
-----------------------------------------------------------------------------
(* Leaving the schedule.                                                    *)

\* While the first blueprint is in force, every run at work took its step from it.
PlanKept ==
  plan.version = 1 => \A r \in Runs : run[r].pc \in Working => (run[r].plan = NoPlan <=> Legacy)

\* Runs that keep their blueprint, or do not work, do not matter.
LEMMA PlanFrame ==
  ASSUME TypeOK, PlanKept, UNCHANGED plan,
         \A r \in Runs : run'[r].pc \in Working =>
           run'[r].plan = run[r].plan /\ run[r].pc \in Working
  PROVE  PlanKept'
BY DEF PlanKept, Legacy

\* A run takes a step of the blueprint there is; one that is replaced has a new version.
LEMMA PlanStays ==
  ASSUME Sequence, PlanKept, [Next]_vars
  PROVE  PlanKept'
<1>0. /\ TypeOK /\ run \in [Runs -> RunStates] /\ \A r \in Runs : run[r] \in RunStates
      /\ plan.version \in Nat \ {NoPlan}
  BY DEF Sequence, SequenceInv, TypeOK
<1>1. ASSUME NEW r \in Runs, NEW l, NEW seen  PROVE DoneWith(r, l, seen).pc \notin Working
  BY DEF DoneWith, IdleRun, Working, Saved
<1>2. ASSUME NEW r \in Runs, NEW x, Move(r, x), UNCHANGED plan,
             x.pc \notin Working \/ (x.plan = run[r].plan /\ run[r].pc \in Working)
      PROVE  PlanKept'
  BY <1>0, <1>2, PlanFrame DEF Move
<1>3. ASSUME UNCHANGED <<plan, run>>  PROVE PlanKept'
  BY <1>0, <1>3, PlanFrame
<1>4. ASSUME NEW r \in Runs, RunStep(r) \/ DraftFails(r) \/ RunCrash(r)  PROVE PlanKept'
  <2>1. CASE BeginRun(r)
    <3> DEFINE x == [IdleRun EXCEPT !.pc = "scan", !.todo = DueLeads,
                 !.seen = [l \in Leads |-> IF l \in DueLeads THEN row[l].step ELSE Nil]]
    <3>1. Move(r, x) /\ x.pc \notin Working
      BY <2>1 DEF BeginRun, IdleRun, Working, Saved
    <3> HIDE DEF x
    <3> QED BY <1>2, <2>1, <3>1 DEF BeginRun
  <2>2. ASSUME NEW l \in Leads, SkipSuppressed(r, l) \/ EndSequence(r, l) \/ NothingToFollow(r, l)
        PROVE  PlanKept'
    BY <1>1, <1>2, <2>2 DEF SkipSuppressed, EndSequence, NothingToFollow
  <2>3. ASSUME NEW l \in Leads, StartStep(r, l)  PROVE PlanKept'
    <3>1. /\ run'[r].plan = (IF Legacy THEN NoPlan ELSE plan.version) /\ plan' = plan
          /\ \A q \in Runs \ {r} : run'[q] = run[q]
      BY <1>0, <2>3 DEF StartStep, Move, RunStates
    <3>2. run'[r].plan = NoPlan <=> Legacy
      BY <1>0, <3>1
    <3> QED BY <3>1, <3>2 DEF PlanKept, Legacy
  <2>4. ASSUME NEW flagged \in BOOLEAN, SaveStep(r, flagged)  PROVE PlanKept'
    <3> DEFINE to == IF run[r].pc = "touching" THEN "posting" ELSE IF flagged THEN "record" ELSE "mailing"
               x == [run[r] EXCEPT !.pc = to, !.seen = Unread]
    <3>1. Move(r, x) /\ run[r].pc \in {"drafting", "touching"} /\ plan' = plan
      BY <2>4 DEF SaveStep
    <3>2. x.plan = run[r].plan /\ run[r].pc \in Working
      BY <1>0, <3>1 DEF RunStates, Working
    <3> HIDE DEF x
    <3> QED BY <1>2, <3>1, <3>2
  <2>5. CASE PublishEmail(r) \/ PublishTouchpoint(r)
    <3> DEFINE x == [run[r] EXCEPT !.pc = "record"]
    <3>1. Move(r, x) /\ run[r].pc \in Working /\ plan' = plan
      BY <2>5 DEF PublishEmail, PublishTouchpoint, Working, Saved
    <3>2. x.plan = run[r].plan
      BY <1>0 DEF RunStates
    <3> HIDE DEF x
    <3> QED BY <1>2, <3>1, <3>2
  <2>6. CASE RecordStep(r) \/ DraftFails(r)
    BY <1>1, <1>2, <2>6 DEF RecordStep, DraftFails, NotDrafted
  <2>7. CASE RecordAborts(r) \/ RunCrash(r)
    <3>1. IdleRun.pc \notin Working
      BY DEF IdleRun, Working, Saved
    <3> QED BY <1>2, <2>7, <3>1 DEF RecordAborts, RunCrash, AbortRun
  <2> QED BY <1>4, <2>1, <2>2, <2>3, <2>4, <2>5, <2>6, <2>7 DEF RunStep
<1>5. ASSUME NEW j \in Jobs, NEW done \in BOOLEAN,
             \/ PostTouchpoint(j) \/ CommitTouchpoint(j) \/ FailTouchpoint(j)
             \/ TouchpointCrash(j) \/ Redeliver(j) \/ RetryTouchpoint(j, done)
      PROVE  PlanKept'
  BY <1>3, <1>5 DEF PostTouchpoint, CommitTouchpoint, FailTouchpoint, TouchpointCrash, Redeliver,
     RetryTouchpoint, others
<1>6. ASSUME NEW l \in Leads,
             \/ Elapse(l) \/ Deliver(l) \/ ReleaseHeld(l) \/ LoadOpen(l) \/ TrackOpen(l)
             \/ DeliveryRefused(l) \/ ReportBounce(l) \/ Reply(l)
      PROVE  PlanKept'
  BY <1>3, <1>6 DEF Elapse, Deliver, ReleaseHeld, LoadOpen, TrackOpen, DeliveryRefused,
     ReportBounce, Reply
<1>7. ASSUME NEW l \in Leads, AnyOptOut(l)  PROVE PlanKept'
  <2>1. PICK x : OptOut(l, x)
    BY <1>7 DEF AnyOptOut
  <2>2. \A r \in Runs : run'[r].pc = run[r].pc /\ run'[r].plan = run[r].plan
    BY <1>0, <2>1 DEF OptOut, RunStates
  <2> QED BY <1>0, <2>1, <2>2, PlanFrame DEF OptOut
<1>8. ASSUME NEW p \in Plans, ReplaceSequence(p)  PROVE PlanKept'
  <2>1. plan'.version # 1
    BY <1>0, <1>8 DEF ReplaceSequence, NoPlan
  <2> QED BY <2>1 DEF PlanKept
<1>9. CASE UNCHANGED vars
  BY <1>3, <1>9 DEF vars
<1>10. CASE Disturbance
  BY <1>4, <1>5, <1>6, <1>7, <1>8, <1>10 DEF Disturbance
<1> QED BY <1>4, <1>5, <1>6, <1>9, <1>10 DEF Next
\* The blueprint has a step for the lead.
HasMore(l) == HasStep(row[l].step + 1)

\* A lead leaves the schedule when its run finds no further step, or has recorded the
\* last one; and that run was alone and at the step after the counter.
LEMMA LeavingKept ==
  ASSUME Sequence, TypeOK', PlanKept, LeavesWhenDone, (\A i \in Leads : Alone(i)), [Next]_vars
  PROVE  LeavesWhenDone'
<1> SUFFICES ASSUME NEW l \in Leads, row'[l].due = "none", l \notin suppressed',
                    tally'[l].repeats = 0, ~(plan'.version > 1)
             PROVE  ~HasMore(l)'
  <2>1. \A i \in Leads : tally'[i].repeats \in Nat
    BY DEF TypeOK
  <2> QED BY <2>1 DEF LeavesWhenDone, HasMore
<1> DEFINE Goal == ~HasMore(l)'
<1>0. /\ TypeOK /\ row \in [Leads -> Rows] /\ row[l] \in Rows /\ row[l].step \in Nat
      /\ plan.version \in Nat /\ plan.version # 0
      /\ tally[l].repeats \in Nat
  <2>1. tally[l].repeats \in Nat /\ row[l] \in Rows
    BY DEF Sequence, SequenceInv, TypeOK
  <2> QED BY <2>1 DEF Sequence, SequenceInv, TypeOK, NoPlan, Rows
<1>1. tally[l].repeats = 0
  <2>1. Event(l) /\ tally'[l].repeats \in Nat /\ Cardinality(Holders(l)) \in Nat
    BY LeadsSee, Few DEF TypeOK
  <2> QED BY <1>0, <2>1 DEF Event, Still, Joins, Leaves, Saves, Records, Aborts, SameRepeats
<1>2. ASSUME UNCHANGED plan, suppressed \subseteq suppressed', row'[l] = row[l]  PROVE Goal
  <2>1. ~HasMore(l)
    BY <1>0, <1>1, <1>2 DEF LeavesWhenDone, HasMore
  <2> QED BY <1>2, <2>1 DEF HasMore, HasStep, Legacy
<1>3. ASSUME NEW r \in Runs, NEW i \in Leads, SkipSuppressed(r, i)  PROVE Goal
  <2>1. i # l
    BY <1>3 DEF SkipSuppressed
  <2> QED BY <1>0, <1>2, <1>3, <2>1 DEF SkipSuppressed
<1>4. ASSUME NEW r \in Runs, NEW i \in Leads, EndSequence(r, i)  PROVE Goal
  <2>1. CASE i # l
    BY <1>0, <1>2, <1>4, <2>1 DEF EndSequence
  <2>2. CASE i = l
    <3>1. run[r].lead = Nobody /\ Nobody # l /\ l \in run[r].todo
      BY <1>4, <2>2, ScanIsFree DEF EndSequence, Checked
    <3>2. r \in Holders(l) /\ Level(r, l) = NextStep(r, l)
      BY <3>1 DEF Holders, Holds, Level
    <3>3. NextStep(r, l) = row[l].step + 1
      BY <1>0, <1>1, <3>2 DEF Alone
    <3>4. ~HasMore(l) /\ plan' = plan /\ row'[l].step = row[l].step
      BY <1>0, <1>4, <2>2, <3>3 DEF EndSequence, HasMore, Rows
    <3> QED BY <3>4 DEF HasMore, HasStep, Legacy
  <2> QED BY <2>1, <2>2
<1>5. ASSUME NEW r \in Runs, RecordStep(r)  PROVE Goal
  <2> DEFINE k == run[r].step
             more == IF run[r].plan = NoPlan THEN k < LegacySteps ELSE k + 1 \in DOMAIN plan.steps
  <2>1. CASE run[r].lead # l
    BY <1>0, <1>2, <1>5, <2>1 DEF RecordStep
  <2>2. CASE run[r].lead = l
    <3>1. row'[l] = Recorded(row[l], k, more) /\ plan' = plan /\ run[r].pc \in Working /\ k \in StepNumbers
      BY <1>0, <1>5, <2>2 DEF RecordStep, Working, Saved, Sequence, SequenceInv, RunsInOrder
    <3>2. row'[l].step = k /\ ~more
      <4> HIDE DEF more
      <4> QED BY <1>0, <3>1 DEF Recorded, Rows
    <3>3. run[r].plan = NoPlan <=> Legacy
      BY <1>0, <3>1 DEF PlanKept
    <3>4. ~HasStep(k + 1)
      BY <1>0, <3>1, <3>2, <3>3 DEF HasStep, StepNumbers
    <3> QED BY <3>1, <3>2, <3>4 DEF HasMore, HasStep, Legacy
  <2> QED BY <2>1, <2>2
<1>6. ASSUME UNCHANGED <<plan, suppressed, row>>  PROVE Goal
  BY <1>2, <1>6
<1>7. ASSUME NEW r \in Runs, RunStep(r) \/ DraftFails(r) \/ RunCrash(r)  PROVE Goal
  <2>1. CASE BeginRun(r) \/ PublishEmail(r) \/ PublishTouchpoint(r) \/ RecordAborts(r)
             \/ DraftFails(r) \/ RunCrash(r)
    BY <1>6, <2>1 DEF BeginRun, PublishEmail, PublishTouchpoint, RecordAborts, DraftFails, RunCrash,
       AbortRun
  <2>2. ASSUME NEW i \in Leads, NothingToFollow(r, i) \/ StartStep(r, i)  PROVE Goal
    BY <1>6, <2>2 DEF NothingToFollow, StartStep
  <2>3. ASSUME NEW flagged \in BOOLEAN, SaveStep(r, flagged)  PROVE Goal
    BY <1>6, <2>3 DEF SaveStep
  <2> HIDE DEF Goal
  <2> QED BY <1>3, <1>4, <1>5, <1>7, <2>1, <2>2, <2>3 DEF RunStep
<1>8. ASSUME NEW j \in Jobs, NEW done \in BOOLEAN,
             \/ PostTouchpoint(j) \/ CommitTouchpoint(j) \/ FailTouchpoint(j)
             \/ TouchpointCrash(j) \/ Redeliver(j) \/ RetryTouchpoint(j, done)
      PROVE  Goal
  BY <1>6, <1>8 DEF PostTouchpoint, CommitTouchpoint, FailTouchpoint, TouchpointCrash, Redeliver,
     RetryTouchpoint, others
<1>9. ASSUME NEW i \in Leads, ReleaseHeld(i) \/ LoadOpen(i) \/ DeliveryRefused(i) \/ ReportBounce(i)
      PROVE  Goal
  BY <1>6, <1>9 DEF ReleaseHeld, LoadOpen, DeliveryRefused, ReportBounce
<1>10. ASSUME NEW i \in Leads, Elapse(i) \/ Deliver(i) \/ TrackOpen(i) \/ Reply(i)  PROVE Goal
  <2>1. UNCHANGED <<plan, suppressed>>
    BY <1>10 DEF Elapse, Deliver, TrackOpen, Reply
  <2>2. CASE i # l
    BY <1>0, <1>2, <1>10, <2>1, <2>2 DEF Elapse, Deliver, TrackOpen, Reply
  <2>3. CASE i = l
    <3>1. row'[l].due = row[l].due /\ row'[l].step = row[l].step
      <4>1. Elapse(l) => FALSE
        BY <1>0 DEF Elapse, Rows
      <4>2. PICK s : row' = [row EXCEPT ![l].status = s] \/ row' = row
        BY <1>10, <2>3, <4>1 DEF Deliver, TrackOpen, Reply
      <4> QED BY <1>0, <4>2 DEF Rows
    <3>2. ~HasMore(l)
      BY <1>0, <1>1, <2>1, <3>1 DEF LeavesWhenDone, HasMore
    <3> QED BY <2>1, <3>1, <3>2 DEF HasMore, HasStep, Legacy
  <2> QED BY <2>2, <2>3
<1>11. ASSUME NEW i \in Leads, AnyOptOut(i)  PROVE Goal
  <2>1. PICK x : OptOut(i, x)
    BY <1>11 DEF AnyOptOut
  <2>2. i # l
    BY <2>1 DEF OptOut
  <2> QED BY <1>0, <1>2, <2>1, <2>2 DEF OptOut
<1>12. ASSUME NEW p \in Plans, ReplaceSequence(p)  PROVE Goal
  BY <1>0, <1>12 DEF ReplaceSequence
<1>13. ASSUME UNCHANGED vars  PROVE Goal
  BY <1>6, <1>13 DEF vars
<1> HIDE DEF Goal
<1>14. Goal
  <2>1. CASE Disturbance
    BY <2>1, <1>7, <1>8, <1>9, <1>10, <1>11, <1>12 DEF Disturbance
  <2> QED BY <2>1, <1>7, <1>8, <1>9, <1>10, <1>13 DEF Next
<1> QED BY <1>14 DEF Goal
-----------------------------------------------------------------------------
(* The theorems on counts, dates and replies.                               *)

\* The inductive invariant: the order of the steps, and what every lead, every
\* touchpoint and every schedule is owed.
CountInv ==
  /\ Sequence
  /\ \A l \in Leads : Once(l) /\ Paced(l) /\ Alone(l)
  /\ TouchesPaid
  /\ RepliedIsQuiet
  /\ PlanKept
  /\ LeavesWhenDone

\* Before the first run nobody holds a lead, and each step is still to come once.
LEMMA InitCount == Init => CountInv
<1> SUFFICES ASSUME Init PROVE CountInv
  OBVIOUS
<1>1. Sequence
  BY InitSequence DEF Sequence, Init, IdleIsFree, IdleRun
<1>2. \A r \in Runs : run[r] = IdleRun
  BY DEF Init
<1>3. ASSUME NEW l \in Leads  PROVE /\ Holders(l) = {} /\ row[l].step = 0 /\ row[l].due = "later"
                                    /\ tally[l].elapsed = 0 /\ tally[l].repeats = 0 /\ ~tally[l].replied
                                    /\ \A k \in StepNumbers : issued[l][k] = 0 /\ touched[l][k] = 0
                                                            /\ again[l][k] = 0
  <2>1. l # Nobody
    OBVIOUS
  <2>2. Holders(l) = {}
    BY <1>2, <2>1 DEF Holders, Holds, IdleRun
  <2> QED BY <2>2 DEF Init, NoSteps
<1>4. ASSUME NEW l \in Leads  PROVE Once(l) /\ Paced(l) /\ Alone(l)
  <2>1. Once(l)
    BY <1>3 DEF Once, May, Past, StepNumbers
  <2>2. GivenTo(l) = {} /\ Unsaved(l) = {} /\ One(Waits(l)) = 0
    BY <1>3 DEF GivenTo, Unsaved, Waits, One
  <2>3. Paced(l)
    BY <1>3, <2>2, FS_EmptySet DEF Paced
  <2>4. Alone(l)
    BY <1>3 DEF Alone
  <2> QED BY <2>1, <2>3, <2>4
<1>5. TouchesPaid
  <2> SUFFICES ASSUME NEW l \in Leads, NEW k \in StepNumbers  PROVE Answered(l, k)
    BY DEF TouchesPaid
  <2>1. TasksFor(l, k) = {} /\ Posting(l, k) = {}
    BY <1>2 DEF Init, TasksFor, Copies, JobsFor, Posting, IdleRun
  <2> QED BY <1>3, <2>1, FS_EmptySet DEF Answered
<1>6. RepliedIsQuiet
  BY <1>3 DEF RepliedIsQuiet
<1>7. PlanKept
  BY <1>2 DEF PlanKept, IdleRun, Working, Saved
<1>8. LeavesWhenDone
  BY <1>3 DEF LeavesWhenDone
<1> QED BY <1>1, <1>4, <1>5, <1>6, <1>7, <1>8 DEF CountInv

\* Every step keeps it.
LEMMA CountKept == CountInv /\ [Next]_vars => CountInv'
<1> SUFFICES ASSUME CountInv, [Next]_vars PROVE CountInv'
  OBVIOUS
<1>1. Sequence /\ SequenceInv /\ TypeOK
  BY DEF CountInv, Sequence, SequenceInv
<1>2. SequenceInv' /\ TypeOK'
  BY <1>1, NextKeeps DEF SequenceInv
<1>3. IdleIsFree' /\ \A l \in Leads : Event(l)
  BY <1>1, LeadsSee
<1>4. ASSUME NEW l \in Leads  PROVE Once(l)' /\ Paced(l)' /\ Alone(l)'
  BY <1>1, <1>2, <1>3, OnceKept, PacedKept, AloneKept DEF CountInv
<1>5. TouchesPaid'
  BY <1>1, <1>2, TouchesKept DEF CountInv
<1>6. RepliedIsQuiet'
  BY <1>1, QuietKept DEF CountInv
<1>7. PlanKept'
  BY <1>1, PlanStays DEF CountInv
<1>8. LeavesWhenDone'
  BY <1>1, <1>2, LeavingKept DEF CountInv
<1> QED BY <1>2, <1>3, <1>4, <1>5, <1>6, <1>7, <1>8 DEF CountInv, Sequence

\* Whatever runs overlap, die, or are given another blueprint: the counts of every lead
\* are paid for in every state.
THEOREM CountInvariant == Spec => []CountInv
BY InitCount, CountKept, PTL DEF Spec

\* A lead gets each step once, and once more per overlap or abandoned run; the webhook
\* gets each touchpoint once, and once more per redelivery, crash or lost answer.
THEOREM StepsAreGivenOnce == Spec => []GivenOnce
<1>1. CountInv => GivenOnce
  <2> SUFFICES ASSUME CountInv, NEW l \in Leads, NEW k \in StepNumbers
               PROVE  /\ issued[l][k] <= 1 + tally[l].repeats
                      /\ touched[l][k] <= issued[l][k] + again[l][k]
    BY DEF GivenOnce
  <2>1. TypeOK /\ issued[l][k] \in Nat /\ tally[l].repeats \in Nat
    BY DEF CountInv, Sequence, SequenceInv, TypeOK
  <2>2. issued[l][k] + May(l, k) <= 1 + tally[l].repeats /\ May(l, k) \in Nat
    BY Few DEF CountInv, Once
  <2>3. touched[l][k] <= issued[l][k] + again[l][k]
    <3>1. Answered(l, k)
      BY DEF CountInv, TouchesPaid
    <3> QED BY <2>1, <3>1, Terms DEF Answered
  <2> QED BY <2>1, <2>2, <2>3
<1> QED BY <1>1, CountInvariant, PTL

\* A lead has no more steps than dates that came, but for overlaps and abandoned runs.
THEOREM StepsKeepTheirPace == Spec => []PaceKept
<1>1. CountInv => PaceKept
  <2> SUFFICES ASSUME CountInv, NEW l \in Leads
               PROVE  Cardinality(GivenTo(l)) <= tally[l].elapsed + tally[l].repeats
    BY DEF PaceKept
  <2>1. tally[l].elapsed \in Nat /\ tally[l].repeats \in Nat
    BY DEF CountInv, Sequence, SequenceInv, TypeOK
  <2>2. Paced(l) /\ Cardinality(GivenTo(l)) \in Nat /\ Cardinality(Unsaved(l)) \in Nat
    BY Few, FS_CardinalityType DEF CountInv, Paced
  <2>3. One(Waits(l)) \in Nat
    BY DEF One
  <2> QED BY <2>1, <2>2, <2>3 DEF Paced
<1> QED BY <1>1, CountInvariant, PTL

\* No lead is dropped from the schedule without its reason.
THEOREM NobodyIsDropped == Spec => []LeavesWhenDone
<1>1. CountInv => LeavesWhenDone
  BY DEF CountInv
<1> QED BY <1>1, CountInvariant, PTL

\* A lead that replied while nothing of it was under way is given no step any more.
THEOREM ReplyEndsIt == Spec => ReplyEndsSequence
<1>1. CountInv /\ [Next]_vars =>
        [\A l \in Leads : tally[l].replied /\ ~tally[l].crossed => issued'[l] = issued[l]]_vars
  <2> SUFFICES ASSUME CountInv, [Next]_vars, NEW l \in Leads, tally[l].replied, ~tally[l].crossed
               PROVE  issued'[l] = issued[l]
    OBVIOUS
  <2>1. Event(l)
    BY LeadsSee DEF CountInv
  <2>2. Holders(l) = {} /\ l \notin DueLeads
    BY DEF CountInv, RepliedIsQuiet, Quiet, DueLeads, Followed
  <2> QED BY <2>1, <2>2, FreeStaysFree
<1> QED BY <1>1, CountInvariant, PTL DEF Spec, ReplyEndsSequence

===============================================================================
