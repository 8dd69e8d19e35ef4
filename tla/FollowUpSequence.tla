-------------------------- MODULE FollowUpSequence --------------------------
(***************************************************************************)
(* The follow-up sequence: every half hour follow_up_sequence_task walks   *)
(* through the leads that are due and gives each the next step of its      *)
(* blueprint, an email that goes through the spam guardian or a LinkedIn   *)
(* touchpoint (app/tasks/celery_tasks.py, app/services/sequencing.py,      *)
(* app/routers/sequences.py).                                              *)
(*                                                                         *)
(* Runs of the task may overlap: nothing locks it, and a run that outlives *)
(* the beat interval, or is delivered again, meets the next one.  An       *)
(* action of a run ends at a commit, an LLM call or a publication.  The    *)
(* emails are sent by send_email_task, which SendPipeline has in detail:   *)
(* here it is one step per email.  Replies come from ReplyIntake.          *)
(***************************************************************************)
EXTENDS Naturals, FiniteSets

CONSTANTS Leads,
          Runs,         \* executions of follow_up_sequence_task under way
          MaxStep,      \* bound: step numbers of a blueprint
          Plans,        \* blueprints an admin may configure; <<>> is none
          FirstPlan,    \* the one in force at the start
          LegacySteps,  \* length of FOLLOW_UP_DELAYS_DAYS
          MaxRetries,   \* max_retries of execute_linkedin_touchpoint_task
          Budget        \* how many events of each kind the environment has

StepNumbers == 1..MaxStep
Channels == {"email", "linkedin"}
EventKinds == {"overlap", "runCrash", "llmError", "replace", "reply", "optOut",
               "touchCrash", "redelivery", "touchError", "lostAck", "refusal", "bounce"}
Nobody == "nobody"

ASSUME FollowUpAssumption ==
  /\ Nobody \notin Leads
  /\ IsFiniteSet(Runs)
  /\ MaxStep \in Nat
  /\ Plans \subseteq UNION {[S -> Channels] : S \in SUBSET StepNumbers}
  /\ FirstPlan \in Plans
  /\ LegacySteps \in 0..MaxStep
  /\ MaxRetries \in Nat
  /\ Budget \in [EventKinds -> Nat]

Nil == MaxStep + 1     \* no step number loaded
NoPlan == 0            \* version of the legacy list, which no admin replaces

Followed == {"sent", "opened"}
Rows == [status : Followed \cup {"replied", "opted_out"},
         step : 0..MaxStep,
         due : {"none", "later", "now"}]
Mails == [sent : Nat, held : Nat, outbox : Nat, opening : {"no", "sent", "other"}]
RunPC == {"idle", "scan", "drafting", "mailing", "touching", "posting", "record"}
Saved == {"mailing", "posting", "record"}   \* the row of the step is committed
Working == {"drafting", "touching"} \cup Saved
RunStates == [pc : RunPC, lead : Leads \cup {Nobody}, step : 0..MaxStep, plan : Nat,
              seen : [Leads -> 0..Nil], todo : SUBSET Leads, late : BOOLEAN]
Jobs == [lead : Leads, step : StepNumbers, try : 0..MaxRetries]

VARIABLES
  plan,        \* steps: the blueprint's rows; version: 1 + how often they were replaced
  row,         \* row[l]: status, follow_up_step and next_follow_up_at of the lead
  suppressed,  \* leads that match a suppression entry
  mail,        \* mail[l]: messages that read SENT, follow-ups in NEEDS_REVIEW, tasks
               \* of follow-ups in the broker, lead status the pixel handler loaded
  run,         \* run[r]: where it is, the lead, the step and the version of the
               \* blueprint it works on, the follow_up_steps its session still
               \* holds, the leads to do, whether its lead opted out under it
  ready,       \* ready[j]: copies of touchpoint task j in the broker
  posted,      \* posted[j]: copies past the webhook and before the commit
  issued,      \* history: issued[l][k], rows created for step k
  touched,     \* history: touched[l][k], actions the webhook accepted
  again,       \* history: again[l][k], what may repeat a touchpoint
  tally,       \* history: dates of l that came, what may repeat a step of it, whether
               \* it replied, whether something of it was under way then
  budget

tasks == <<ready, posted>>
history == <<issued, touched, again>>
vars == <<plan, row, suppressed, mail, run, tasks, history, tally, budget>>

TypeOK ==
  /\ plan \in [steps : Plans, version : Nat \ {NoPlan}]
  /\ row \in [Leads -> Rows]
  /\ suppressed \in SUBSET Leads
  /\ mail \in [Leads -> Mails]
  /\ run \in [Runs -> RunStates]
  /\ ready \in [Jobs -> Nat]
  /\ posted \in [Jobs -> Nat]
  /\ issued \in [Leads -> [StepNumbers -> Nat]]
  /\ touched \in [Leads -> [StepNumbers -> Nat]]
  /\ again \in [Leads -> [StepNumbers -> Nat]]
  /\ tally \in [Leads -> [elapsed : Nat, repeats : Nat, replied : BOOLEAN, crossed : BOOLEAN]]
  /\ budget \in [EventKinds -> Nat]

Unread == [l \in Leads |-> Nil]
NoSteps == [l \in Leads |-> [k \in StepNumbers |-> 0]]
IdleRun == [pc |-> "idle", lead |-> Nobody, step |-> 0, plan |-> NoPlan, seen |-> Unread,
            todo |-> {}, late |-> FALSE]

\* The cold email has just gone out and arm_first_follow_up has set the date.
Init ==
  /\ plan = [steps |-> FirstPlan, version |-> 1]
  /\ row = [l \in Leads |-> [status |-> "sent", step |-> 0, due |-> "later"]]
  /\ suppressed = {}
  /\ mail = [l \in Leads |-> [sent |-> 1, held |-> 0, outbox |-> 0, opening |-> "no"]]
  /\ run = [r \in Runs |-> IdleRun]
  /\ ready = [j \in Jobs |-> 0]
  /\ posted = [j \in Jobs |-> 0]
  /\ issued = NoSteps
  /\ touched = NoSteps
  /\ again = NoSteps
  /\ tally = [l \in Leads |-> [elapsed |-> 0, repeats |-> 0, replied |-> FALSE,
                               crossed |-> FALSE]]
  /\ budget = Budget

Spend(kind) ==
  /\ budget[kind] > 0
  /\ budget' = [budget EXCEPT ![kind] = @ - 1]

-----------------------------------------------------------------------------
(* Slips the properties have to catch, used by no specification: each is a   *)
(* definition further down with one plausible mistake.                       *)

DueLeadsAnyStatus == {l \in Leads : row[l].due = "now"}
UncheckedLeads(r) == run[r].todo
StoppedQuietly(x) == x
RecordedDate(x, k, more) == [x EXCEPT !.due = "later"]
RecordedCounter(x, k, more) == [x EXCEPT !.step = k]
RecordedAsLast(x, k, more) == [x EXCEPT !.step = k, !.due = "none"]

-----------------------------------------------------------------------------
(* The blueprint and the query.                                             *)

\* next_step, or the legacy list when there is no blueprint: exactly the following
\* number, so that a gap ends the sequence.
Legacy == plan.steps = <<>>
HasStep(k) == IF Legacy THEN k \in 1..LegacySteps ELSE k \in DOMAIN plan.steps
Channel(k) == IF Legacy THEN "email" ELSE plan.steps[k]

DueLeads == {l \in Leads : row[l].status \in Followed /\ row[l].due = "now"}
Active == {r \in Runs : run[r].pc # "idle"}
Holds(r, l) == l = run[r].lead \/ l \in run[r].todo

\* Leads a run can work on; the counter it works with is what its query loaded
\* until a commit of its session expires it.
Checked(r) == run[r].todo \ suppressed
NextStep(r, l) == 1 + IF run[r].seen[l] = Nil THEN row[l].step ELSE run[r].seen[l]

\* A run when it is done with l, its session as given: after the last lead it ends.
DoneWith(r, l, seen) ==
  LET todo == run[r].todo \ {l} IN
  IF todo = {} THEN IdleRun ELSE [IdleRun EXCEPT !.pc = "scan", !.todo = todo, !.seen = seen]
Move(r, x) == run' = [run EXCEPT ![r] = x]
AbortedAt(r) == IF run[r].pc \in Saved THEN {run[r].lead} ELSE {}

\* What the commits write to the lead, and what a failed draft does to the run.
Stopped(x) == [x EXCEPT !.status = "opted_out", !.due = "none"]
Recorded(x, k, more) == [x EXCEPT !.step = k, !.due = IF more THEN "later" ELSE "none"]
NotDrafted(r) == DoneWith(r, run[r].lead, run[r].seen)

-----------------------------------------------------------------------------
(* follow_up_sequence_task.                                                 *)

\* A lead another run still holds is due to both.
BeginRun(r) ==
  /\ run[r].pc = "idle"
  /\ DueLeads # {}
  /\ IF Active = {} THEN UNCHANGED budget ELSE Spend("overlap")
  /\ Move(r, [IdleRun EXCEPT !.pc = "scan", !.todo = DueLeads,
       !.seen = [l \in Leads |-> IF l \in DueLeads THEN row[l].step ELSE Nil]])
  /\ tally' = [l \in Leads |-> IF l \notin DueLeads THEN tally[l] ELSE
       [tally[l] EXCEPT !.repeats = @ + Cardinality({q \in Active : Holds(q, l)})]]
  /\ UNCHANGED <<plan, row, suppressed, mail, tasks, history>>

SkipSuppressed(r, l) ==
  /\ run[r].pc = "scan" /\ l \in run[r].todo \cap suppressed
  /\ row' = [row EXCEPT ![l] = Stopped(@)]
  /\ Move(r, DoneWith(r, l, Unread))
  /\ UNCHANGED <<plan, suppressed, mail, tasks, history, tally, budget>>

EndSequence(r, l) ==
  /\ run[r].pc = "scan" /\ l \in Checked(r)
  /\ ~HasStep(NextStep(r, l))
  /\ row' = [row EXCEPT ![l].due = "none"]
  /\ Move(r, DoneWith(r, l, Unread))
  /\ UNCHANGED <<plan, suppressed, mail, tasks, history, tally, budget>>

\* No outbound message reads SENT: there is nothing to follow up on, and the lead
\* stays due.
NothingToFollow(r, l) ==
  /\ run[r].pc = "scan" /\ l \in Checked(r)
  /\ HasStep(NextStep(r, l)) /\ Channel(NextStep(r, l)) = "email" /\ mail[l].sent = 0
  /\ Move(r, DoneWith(r, l, run[r].seen))
  /\ UNCHANGED <<plan, row, suppressed, mail, tasks, history, tally, budget>>

StartStep(r, l) ==
  LET k == NextStep(r, l) IN
  /\ run[r].pc = "scan" /\ l \in Checked(r)
  /\ HasStep(k)
  /\ Channel(k) = "email" => mail[l].sent > 0
  /\ Move(r, [run[r] EXCEPT !.pc = IF Channel(k) = "email" THEN "drafting" ELSE "touching",
       !.lead = l, !.step = k, !.plan = IF Legacy THEN NoPlan ELSE plan.version])
  /\ UNCHANGED <<plan, row, suppressed, mail, tasks, history, tally, budget>>

DraftFails(r) ==
  /\ run[r].pc = "drafting"
  /\ Spend("llmError")
  /\ Move(r, NotDrafted(r))
  /\ UNCHANGED <<plan, row, suppressed, mail, tasks, history, tally>>

\* The row of the step is committed; a flagged email is held, not published.
SaveStep(r, flagged) ==
  LET l == run[r].lead
      to == IF run[r].pc = "touching" THEN "posting" ELSE IF flagged THEN "record" ELSE "mailing"
  IN
  /\ run[r].pc \in IF flagged THEN {"drafting"} ELSE {"drafting", "touching"}
  /\ issued' = [issued EXCEPT ![l][run[r].step] = @ + 1]
  /\ mail' = IF flagged THEN [mail EXCEPT ![l].held = @ + 1] ELSE mail
  /\ Move(r, [run[r] EXCEPT !.pc = to, !.seen = Unread])
  /\ UNCHANGED <<plan, row, suppressed, tasks, touched, again, tally, budget>>

PublishEmail(r) ==
  /\ run[r].pc = "mailing"
  /\ mail' = [mail EXCEPT ![run[r].lead].outbox = @ + 1]
  /\ Move(r, [run[r] EXCEPT !.pc = "record"])
  /\ UNCHANGED <<plan, row, suppressed, tasks, history, tally, budget>>

Published(j) == [ready EXCEPT ![j] = @ + 1]

PublishTouchpoint(r) ==
  /\ run[r].pc = "posting"
  /\ ready' = Published([lead |-> run[r].lead, step |-> run[r].step, try |-> 0])
  /\ Move(r, [run[r] EXCEPT !.pc = "record"])
  /\ UNCHANGED <<plan, row, suppressed, mail, posted, history, tally, budget>>

\* The counter and the next date in one commit, whatever the row says by now.
RecordStep(r) ==
  LET k == run[r].step
      more == IF run[r].plan = NoPlan THEN k < LegacySteps ELSE k + 1 \in DOMAIN plan.steps
  IN
  /\ run[r].pc = "record"
  /\ run[r].plan \in {NoPlan, plan.version}
  /\ row' = [row EXCEPT ![run[r].lead] = Recorded(@, k, more)]
  /\ Move(r, DoneWith(r, run[r].lead, Unread))
  /\ UNCHANGED <<plan, suppressed, mail, tasks, history, tally, budget>>

\* A step whose row is committed and which is not recorded will be taken again.
AbortRun(r) ==
  /\ Move(r, IdleRun)
  /\ tally' = [l \in Leads |-> IF l \in AbortedAt(r) THEN [tally[l] EXCEPT !.repeats = @ + 1]
                                                    ELSE tally[l]]
  /\ UNCHANGED <<plan, row, suppressed, mail, tasks, history>>

\* The blueprint was replaced: its rows are deleted, reading config.step_number
\* again raises, and the run ends between its step and the record of it.
RecordAborts(r) ==
  /\ run[r].pc = "record"
  /\ run[r].plan \notin {NoPlan, plan.version}
  /\ AbortRun(r)
  /\ UNCHANGED budget

\* The message of the run is not acknowledged: it will be delivered again, as the
\* next BeginRun.
RunCrash(r) ==
  /\ run[r].pc # "idle"
  /\ Spend("runCrash")
  /\ AbortRun(r)

-----------------------------------------------------------------------------
(* execute_linkedin_touchpoint_task.  The task never reads the status of    *)
(* its row, so the row is not modelled: only what the webhook accepts is.   *)

others == <<plan, row, suppressed, mail, run, issued, tally>>
Drop(j) == [ready EXCEPT ![j] = @ - 1]
Accepted(j) == touched' = [touched EXCEPT ![j.lead][j.step] = @ + 1]
Disturbed(j) == again' = [again EXCEPT ![j.lead][j.step] = @ + 1]

PostTouchpoint(j) ==
  /\ ready[j] > 0
  /\ ready' = Drop(j)
  /\ posted' = [posted EXCEPT ![j] = @ + 1]
  /\ Accepted(j)
  /\ UNCHANGED <<others, again, budget>>

CommitTouchpoint(j) ==
  /\ posted[j] > 0
  /\ posted' = [posted EXCEPT ![j] = @ - 1]
  /\ UNCHANGED <<others, ready, touched, again, budget>>

\* An HTTP error, a lead without a profile (FAILED), or an exception that escapes
\* the task (429, open circuit): no further attempt.
FailTouchpoint(j) ==
  /\ ready[j] > 0
  /\ Spend("touchError")
  /\ ready' = Drop(j)
  /\ UNCHANGED <<others, posted, touched, again>>

\* The connection breaks, before the webhook has the job or after: retried, and
\* given up with the row still QUEUED after the last retry.
RetryTouchpoint(j, done) ==
  /\ ready[j] > 0
  /\ Spend("lostAck")
  /\ IF done THEN Accepted(j) /\ Disturbed(j) ELSE UNCHANGED <<touched, again>>
  /\ ready' = IF j.try < MaxRetries THEN [Drop(j) EXCEPT ![[j EXCEPT !.try = @ + 1]] = @ + 1]
                                    ELSE Drop(j)
  /\ UNCHANGED <<others, posted>>

\* The worker dies after the call, or the visibility timeout passes during it.
TouchpointCrash(j) ==
  /\ posted[j] > 0
  /\ Spend("touchCrash")
  /\ posted' = [posted EXCEPT ![j] = @ - 1]
  /\ ready' = Published(j)
  /\ Disturbed(j)
  /\ UNCHANGED <<others, touched>>

Redeliver(j) ==
  /\ posted[j] > 0
  /\ Spend("redelivery")
  /\ ready' = Published(j)
  /\ Disturbed(j)
  /\ UNCHANGED <<others, posted, touched>>

-----------------------------------------------------------------------------
(* What happens to leads and emails meanwhile.                              *)

Elapse(l) ==
  /\ row[l].due = "later"
  /\ row' = [row EXCEPT ![l].due = "now"]
  /\ tally' = [tally EXCEPT ![l].elapsed = @ + 1]
  /\ UNCHANGED <<plan, suppressed, mail, run, tasks, history, budget>>

\* send_email_task: the lead reads SENT whatever it was, unless it is suppressed.
Deliver(l) ==
  LET out == l \in suppressed IN
  /\ mail[l].outbox > 0
  /\ mail' = [mail EXCEPT ![l].outbox = @ - 1, ![l].sent = IF out THEN @ ELSE @ + 1]
  /\ row' = [row EXCEPT ![l].status = IF out THEN "opted_out" ELSE "sent"]
  /\ UNCHANGED <<plan, suppressed, run, tasks, history, tally, budget>>

DeliveryRefused(l) ==
  /\ mail[l].outbox > 0 /\ l \notin suppressed
  /\ Spend("refusal")
  /\ mail' = [mail EXCEPT ![l].outbox = @ - 1]
  /\ UNCHANGED <<plan, row, suppressed, run, tasks, history, tally>>

\* approve-review and POST /outbound/send.
ReleaseHeld(l) ==
  /\ mail[l].held > 0
  /\ mail' = [mail EXCEPT ![l].held = @ - 1, ![l].outbox = @ + 1]
  /\ UNCHANGED <<plan, row, suppressed, run, tasks, history, tally, budget>>

\* The pixel: a message that reads SENT becomes OPENED, and with it a lead that
\* read SENT when the handler loaded it.
Openable(l) == mail[l].sent > 0 /\ mail[l].opening = "no"

LoadOpen(l) ==
  /\ Openable(l)
  /\ mail' = [mail EXCEPT ![l].opening = IF row[l].status = "sent" THEN "sent" ELSE "other"]
  /\ UNCHANGED <<plan, row, suppressed, run, tasks, history, tally, budget>>

TrackOpen(l) ==
  /\ mail[l].opening # "no"
  /\ mail' = [mail EXCEPT ![l].opening = "no", ![l].sent = @ - 1]
  /\ row' = IF mail[l].opening = "sent" THEN [row EXCEPT ![l].status = "opened"] ELSE row
  /\ UNCHANGED <<plan, suppressed, run, tasks, history, tally, budget>>

\* report_bounce: a message that reads SENT becomes BOUNCED, its lead stays as it is.
\* (Not the message a pixel request holds: that one was received.)
ReportBounce(l) ==
  /\ mail[l].sent > IF mail[l].opening = "no" THEN 0 ELSE 1
  /\ Spend("bounce")
  /\ mail' = [mail EXCEPT ![l].sent = @ - 1]
  /\ UNCHANGED <<plan, row, suppressed, run, tasks, history, tally>>

\* Triage of a reply that is not an opt-out: only the status tells the sequence.
UnderWay(l) ==
  \/ mail[l].outbox + mail[l].held > 0 \/ mail[l].opening = "sent"
  \/ \E r \in Runs : Holds(r, l)

Reply(l) ==
  /\ Spend("reply")
  /\ ~tally[l].replied
  /\ row' = [row EXCEPT ![l].status = "replied"]
  /\ tally' = [tally EXCEPT ![l].replied = TRUE, ![l].crossed = UnderWay(l)]
  /\ UNCHANGED <<plan, suppressed, mail, run, tasks, history>>

\* A click on the unsubscribe link, an opt-out reply, an entry for the domain: the
\* first also cancels the date, the first two set the status.
OptOut(l, x) ==
  /\ Spend("optOut")
  /\ l \notin suppressed
  /\ suppressed' = suppressed \cup {l}
  /\ run' = [r \in Runs |-> [run[r] EXCEPT !.late = @ \/ run[r].lead = l]]
  /\ row' = [row EXCEPT ![l] = x]
  /\ UNCHANGED <<plan, mail, tasks, history, tally>>

AnyOptOut(l) ==
  \/ OptOut(l, [row[l] EXCEPT !.status = "opted_out", !.due = "none"])
  \/ OptOut(l, [row[l] EXCEPT !.status = "opted_out"])
  \/ OptOut(l, row[l])

\* PUT /sequence-steps: the rows are deleted and inserted again.
ReplaceSequence(p) ==
  /\ Spend("replace")
  /\ plan' = [steps |-> p, version |-> plan.version + 1]
  /\ UNCHANGED <<row, suppressed, mail, run, tasks, history, tally>>

-----------------------------------------------------------------------------
RunStep(r) ==
  \/ BeginRun(r)
  \/ \E l \in Leads : SkipSuppressed(r, l) \/ EndSequence(r, l) \/ NothingToFollow(r, l)
                     \/ StartStep(r, l)
  \/ \E flagged \in BOOLEAN : SaveStep(r, flagged)
  \/ PublishEmail(r) \/ PublishTouchpoint(r) \/ RecordStep(r) \/ RecordAborts(r)

Disturbance ==
  \/ \E r \in Runs : DraftFails(r) \/ RunCrash(r)
  \/ \E j \in Jobs : \/ FailTouchpoint(j) \/ TouchpointCrash(j) \/ Redeliver(j)
                    \/ \E done \in BOOLEAN : RetryTouchpoint(j, done)
  \/ \E l \in Leads : DeliveryRefused(l) \/ ReportBounce(l) \/ Reply(l) \/ AnyOptOut(l)
  \/ \E p \in Plans : ReplaceSequence(p)

Next ==
  \/ \E r \in Runs : RunStep(r)
  \/ \E j \in Jobs : PostTouchpoint(j) \/ CommitTouchpoint(j)
  \/ \E l \in Leads : Elapse(l) \/ Deliver(l) \/ ReleaseHeld(l) \/ LoadOpen(l) \/ TrackOpen(l)
  \/ Disturbance

Spec == Init /\ [][Next]_vars

\* Beat starts a run every half hour, workers go on with what they have begun,
\* and dates come.  Nobody has to open an email or to review one.
Fairness ==
  /\ \A r \in Runs : WF_vars(RunStep(r))
  /\ \A l \in Leads : WF_vars(Elapse(l) \/ Deliver(l))

FairSpec == Spec /\ Fairness

-----------------------------------------------------------------------------
(* A lead gets each step once, and once more for every run that died between *)
(* the row and its record, and for every pair of runs that held the lead at  *)
(* the same time (celery_tasks.py:263 and 292 commit before 354).  The       *)
(* webhook gets a touchpoint once, and once more for every redelivery, lost  *)
(* answer or crash before the commit: the task does not look whether its row *)
(* was executed (celery_tasks.py:404).                                       *)
GivenOnce ==
  \A l \in Leads, k \in StepNumbers :
    /\ issued[l][k] <= 1 + tally[l].repeats
    /\ touched[l][k] <= issued[l][k] + again[l][k]

(* Each step is given after a date of its own has come: a run whose session  *)
(* reads the counter again after an overlapping run has moved it does give   *)
(* the next step at once, but only then.                                     *)
GivenTo(l) == UNION {{k} \X (1..issued[l][k]) : k \in StepNumbers}   \* the rows, numbered
PaceKept ==
  \A l \in Leads : Cardinality(GivenTo(l)) <= tally[l].elapsed + tally[l].repeats

(* No step is left out, whatever fails: a lead has been given every step up  *)
(* to its counter and to the latest one it got (celery_tasks.py:328-363).    *)
Given(l, k) == issued[l][k] > 0
NoStepSkipped ==
  \A l \in Leads : \A k \in StepNumbers :
    (k <= row[l].step \/ \E i \in StepNumbers : i > k /\ Given(l, i)) => Given(l, k)

(* A lead leaves the schedule because it opted out or because its blueprint  *)
(* has no further step; a blueprint that grows later finds nobody waiting.   *)
LeavesWhenDone ==
  \A l \in Leads :
    row[l].due = "none" => \/ l \in suppressed \/ ~HasStep(row[l].step + 1)
                          \/ tally[l].repeats > 0 \/ plan.version > 1

(* A run works on a suppressed lead only if it had passed its check before   *)
(* the entry was added (celery_tasks.py:315, before the LLM call).           *)
OptOutStopsSequence ==
  \A r \in Runs : run[r].lead \in suppressed => run[r].late

\* A counter a session still holds was reached once, and a run has its lead given
\* every step before the one it works on, and that one once its row is saved.
SeenWasReached ==
  \A r \in Runs, l \in Leads : \A k \in StepNumbers :
    run[r].seen[l] # Nil /\ k <= run[r].seen[l] => Given(l, k)
RunsInOrder ==
  \A r \in Runs : run[r].pc \in Working =>
    /\ run[r].lead \in Leads /\ run[r].step \in StepNumbers
    /\ \A k \in StepNumbers : k < run[r].step => Given(run[r].lead, k)
    /\ run[r].pc \in Saved => Given(run[r].lead, run[r].step)
OpenedWasSent == \A l \in Leads : mail[l].opening # "no" => mail[l].sent > 0

(* The inductive invariant: types, steps in order, opt-outs respected, and   *)
(* what runs hold agrees with what was given.                                *)
SequenceInv ==
  /\ TypeOK
  /\ NoStepSkipped
  /\ SeenWasReached
  /\ RunsInOrder
  /\ OpenedWasSent
  /\ OptOutStopsSequence

(* After a reply the sequence of a lead is over, unless an email, a held     *)
(* draft, a run or a pixel request of the lead was under way: any of these   *)
(* puts the status back to SENT or OPENED, and the date is still set.        *)
ReplyEndsSequence ==
  [][\A l \in Leads :
       tally[l].replied /\ ~tally[l].crossed => issued'[l] = issued[l]]_vars

(* A due lead is dealt with, unless all its emails were opened or bounced:   *)
(* the query for the last message wants one that reads SENT                  *)
(* (celery_tasks.py:347, 378), so such a lead is visited every half hour and *)
(* nothing is ever done for it.                                              *)
DueIsServed ==
  \A l \in Leads : l \in DueLeads ~> (l \notin DueLeads \/ mail[l].sent = 0)

=============================================================================
