# TLA+ models of JShep

JShep finds leads, drafts cold emails with an LLM, sends them through a pool of
sender accounts, reads the replies, and answers a positive reply only after a
human has approved the draft. This directory holds TLA+ specifications of its
core, the TLC configurations that check them on small instances, and proofs of
their main invariants for every instance.

All paths below are relative to `src/`; `celery_tasks.py` is
`app/tasks/celery_tasks.py`.

## 1. The system

Five kinds of process share one Postgres database and one Redis broker.

| process | runs | concurrency |
|---|---|---|
| web (FastAPI under uvicorn) | the routers of `app/routers` | async handlers interleave at every `await`; several web processes are possible |
| worker (Celery) | the tasks of `celery_tasks.py` | prefork, `--concurrency=4`, `acks_late`, prefetch 1 (`app/celery_app.py:24-36`) |
| beat (Celery) | the schedule: IMAP poll, follow-ups, warm-up, discovery | publishes whether or not the previous run is over |
| SMTP server, Instantly, Smartlead, HubSpot, the LLM | external | answers, refuses, times out, answers too late |
| people | approve, reject, review, pause, click *send* twice | |

They meet in four places only: the rows of the database, the messages of the
broker, the breakers of one process, and the outside world. A handler or task is
therefore modelled as a sequence of actions that end at a **commit**, a
**publication**, or a **call to the outside**; between two such points nobody
else can see what it does. What it loaded before such a point and uses after it
is state of its own in the model (`hreq`, `wseen`, `drafting`, `reviewing`,
`opening`, `leaving`, `seen`, `reports`): that is where stale reads come from. Two facts
about SQLAlchemy decide what is stale: the synchronous sessions of the tasks
expire their objects on commit and reload them on the next access, the
asynchronous sessions of the handlers do not (`expire_on_commit=False`,
`app/database.py`); and an attribute assigned its old value is not written.

### 1.1 Components

| component | state | operations | what is hard | what makes it right |
|---|---|---|---|---|
| **Approval gate** `app/routers/approvals.py`, buttons of `telegram.py` | `approval_requests`: status, version, draft, edit | open, decide (conditional UPDATE on `status='pending'` and `version`), enqueue | two clicks at once; a crash between commit and publication | one decision; nothing is mailed without an approval, nor any text but the approved one |
| **Approved-reply task** `celery_tasks.py:477-567` | request status, message rows, attempts, retries | check, suppress, pick, send, commit, commit, retry | redelivery, crashes at each commit, lost SMTP answers, two workers | every second email has a fault to blame; the rows agree |
| **Cold email pipeline** `celery_tasks.py:65-201`, `outbound.py` | message and lead status, `spam_flagged`, `next_follow_up_at` | enrich, review, request, queue, send, arm | double clicks, stale review, retries, commits one by one | no flagged draft leaves unreviewed; emails are accounted for; a SENT lead is armed; no message stays QUEUED without a cause |
| **Tracking** `tracking.py` | `opened_at`, statuses, account counters | pixel, bounce, complaint | lost updates, late writes over newer statuses | statuses do not lie, accounts get paused |
| **Suppression** `services/suppression.py`, `routers/suppression.py` | entries by email or domain | add, remove, check | the check comes long before the email; the unsubscribe link loads, waits and commits | whoever mails a suppressed lead was past the check; a visit of the link undoes nothing but what it loaded |
| **Sender pool** `services/sender_rotation.py`, `routers/senders.py` | counters, limits, pauses, `last_used_at` | pick, count, pause, unpause | read-modify-write across the SMTP call, resets in between, a call that sends twice | pauses and rotation hold; every send above the limit has a cause |
| **Warm-up** `services/warmup.py` | stage, limit, `warmup_complete` | daily advance and reset | runs while workers hold counts; may lower a limit an account started with | no counter passes what its account was ever allowed |
| **Circuit breaker, retries** `app/core/resilience.py` | state, failure count, time of opening | before_call, on_success, on_failure, resilient_retry | trials, time, retries through an open circuit | fail fast, and try again |
| **Reply intake, triage** `imap_listener.py`, `inbound.py`, `sentiment.py` | mailbox flags, replies, lead status, approval requests | poll, webhook, classify, suppress, open the gate | overlapping polls, \Seen before commit, commits hidden in helpers, redelivery | no reply is lost or stored twice without a cause; a positive one has its request, a negative one its suppression entry |
| **Follow-up sequence, LinkedIn** `celery_tasks.py`, `sequencing.py`, `scheduler_logic.py`, `linkedin_automation.py` | step index, `next_follow_up_at`, touchpoints | due leads, draft, publish, record, skip, replace the blueprint | overlapping beat runs, the record committed last | each step once, in order, at its date, and none after a reply |
| **Lead intake, enrichment** `routers/leads.py`, `lead_discovery.py`, enrichment tasks | leads, campaigns, first drafts | upload, discover, enrich one or many | check-then-insert, publication after commit, batches that abort | one lead per address, nobody suppressed, one first draft |
| **Pure algorithms** `spam_guardian.py`, `campaigns.py` | none | score, rewrite, assign a variant | boundaries | scores are percents, risk follows the score, variants are weighted |
| **CRM sync** `crm.py` | contact id, deal stage | push | conflict answers | idempotent |

`PROJECT.json` lists these and the rest (dashboard, authentication, logging,
metrics, notifier, calendar, memory, configuration), with the reason for each
one that has no model: read-only views, stateless checks, text processing, or
pure I/O that no decision depends on.

## 2. The modules

| module | models | instance | proofs |
|---|---|---|---|
| `ApprovalGate` | what the gate promises, without processes | `INSTANCE`d by `ApprovalFlow` | |
| `ApprovalFlow` | handlers, broker, workers, SMTP, suppression around one approved reply | `MCApprovalFlow` | `ApprovalFlowProofs` |
| `SendPipeline` | a cold email from enrichment to dispatch, with what touches its rows meanwhile | `MCSendPipeline` | `SendPipelineProofs` |
| `SenderPool` | accounts, workers that use them, reports, admins, the daily warm-up | `MCSenderPool` | `SenderPoolProofs` |
| `CircuitBreaker` | one breaker, the calls through it, the retry decorator, time | itself | `CircuitBreakerProofs` |
| `ReplyIntake` | mailbox, polls, webhook, triage up to the approval request | `MCReplyIntake` | `ReplyIntakeProofs` |
| `FollowUpSequence` | runs of the sequence task, its emails, its LinkedIn touchpoints | `MCFollowUpSequence` | `FollowUpSequenceProofs` |
| `LeadIntake` | uploads, discovery runs, enrichment of one lead and of batches | `MCLeadIntake` | `LeadIntakeProofs` |
| `SpamGuardian` | the spam score and the choice of a variant, as functions | `EXTENDS`ed by `LeadIntake` | `LeadIntakeProofs` |
| `Counting` | nothing of the code: sizes of sets that change by one element, induction over sets of numbers | | `EXTENDS`ed by the five proof modules that count |

They form a chain. `LeadIntake` ends where a lead has its first draft,
`SendPipeline` takes a draft to the prospect through an account of `SenderPool`
and a breaker of `CircuitBreaker`, `FollowUpSequence` starts from a lead that reads SENT,
`ReplyIntake` takes the answer to an approval request, `ApprovalFlow` takes that
to the second email. Where two modules meet, one has the other's action as one step:
`FollowUpSequence!Deliver` stands for `send_email_task`, `GateOpen` for what
`ReplyIntake!CommitGate` commits, `SendPipeline`'s pick of an account for
`SenderPool!Pick`.

Each module keeps the order: constants and their assumptions; variables, types,
`Init`; helpers; the *slips*; the actions in the order of the code; `Next`,
`Spec`, fairness; the properties. A **slip** is an operation of the module with
one plausible mistake in it (a dropped guard, one commit of two, a count not
cleared). No specification uses a slip; `PROJECT.json` pairs each with the
property that has to fail when it takes the operation's place, so that each
property is known to be able to fail.

### 2.1 ApprovalGate and ApprovalFlow

`ApprovalGate` has three variables: the decision on each request, the text it
settled on, and the texts mailed for it. `GateApprove` and `GateReject` happen
once per request, `GateEmail` only after an approval and only with its text.

In `ApprovalFlow` an approval request `a` is a row (`status`, `version`, `draft`,
`edited`). `OpenApprovalGate` is `_open_approval_gate` of `sentiment.py`.
`LoadApproval`, `WinDecision`, `LoseDecision`, `EnqueueSend` are the four stages
of `resolve_decision` (`approvals.py:60-104`): read and check, the conditional
UPDATE that matches one row, the one that matches none, the publication after the commit.
A worker goes through `send_approved_reply_task`:

    Skip | Start -> RejectSuppressed | PassGate -> NoHealthySender | SmtpAccept
      SmtpAccept -> CommitUsage -> CommitSent
      SmtpRefuse, SmtpAcceptedYetRefused -> CommitFailedUsage -> CommitFailed -> Retry
      SmtpTransient, SmtpLostAck -> next attempt, or the exception escapes
      SmtpUnexpected -> the exception escapes

`CommitUsage` and `CommitFailedUsage` are the commits inside
`send_via_rotation`: they write the flushed message row as well, as DRAFT.
An email that is accepted may still end in an error, in three ways. `SmtpLostAck`:
the error is one the retry decorator repeats (the answer of an API sender times out,
`sender_rotation.py:95-97`; the SMTP server answers QUIT with 421, 450 or 452), and
the same call sends it again. `SmtpAcceptedYetRefused`: the connection is lost before the
answer to DATA, which `smtplib` reports as `SMTPServerDisconnected` and
`email_sender.py:82` as a refusal, so the row reads FAILED and the Celery retry sends
again. `SmtpUnexpected`: neither the decorator nor the task catches the error, and the row
stays DRAFT. `WorkerCrash` delivers the message again, or not: with
`acks_late` and without `task_reject_on_worker_lost`, Celery acknowledges a
message whose pool child dies, while the loss of the whole worker leaves it
unacknowledged. `Redeliver` is the broker's visibility timeout.

Texts are three values: the AI draft, the placeholder that stands in when
drafting fails, and an edit. `edited` may also be a blank edit, which Python's
`or` skips: `FinalBody` is what the task mails.

### 2.2 SendPipeline

The state is the message row, the lead row, the workers and the broker. The
actions are `enrich_lead_task` (`EnrichSuppressed`, `StartDrafting`,
`DraftingFails`, `SaveDraft`: the lead's status is read before the LLM call and
written after it), the admin's `LoadForReview` and `ApproveReview`, `RequestSend`
(`POST /outbound/send`), `send_email_task` with its commits, the open pixel,
bounce reports, unsubscribe and the suppression list. With an A/B variant
(`WithVariant`), `record_sent` commits the lead as SENT before
`arm_first_follow_up` runs (`CommitSentCount`, then `CommitArmed`); without one,
there is a single commit (`CommitSentAndArmed`).

The unsubscribe link (`routers/suppression.py:58-74`) is three steps of a visit `u`, because two
`await`s lie between them and the session does not expire what it has loaded:
`LoadUnsubscribe` (the lead's status and date), `LookUpEntry` (is its address on the
list), `CommitUnsubscribe` (only what differs from what was loaded), or
`UnsubscribeClash` (another visit has inserted the address). A second visit of a lead that
reads OPTED_OUT can therefore clear the date, and only that, of a lead a worker past
its check has just committed as SENT: `disarmed` names these leads. An entry for a whole domain
is left out here, it is part of `LeadIntake`.

The errors of a send are those of 2.1; what the task's handlers do not catch leaves the
message QUEUED, and `escaped` names it. The commits that write only account counters
belong to `SenderPool` and are no steps here. The next follow-up is a flag (`armed`).

### 2.3 CircuitBreaker

`Seen` is the `state` property, which turns OPEN into HALF_OPEN when someone
looks. `Admit` and `Reject` are `before_call`; `OnSuccess`, `OnFailure` the two
verdicts; the answers (`Succeed`, `FailTransient`, `FailForGood`, `RateLimited`,
`Unforeseen`) are what the integrations report, and whether the retry decorator
goes on. They are the union over the integrations: a 429 counts as a failure for
SMTP and the LLM, and is kept from the breaker by HubSpot, Google Places and the
sending platforms. The model assumes that one call is under way per process,
which holds for the prefork workers, the only processes that call an integration. Time is a tick; ages
saturate at the recovery timeout and counts at the threshold, because the code
compares them with these and nothing else.

### 2.4 SenderPool

`Pick` is `_pick_account` (the oldest `last_used_at` among the accounts that are
not paused, below their limit, and whose breaker is not open in this process),
`Deliver` and `Fail` the call, `Resend` an attempt within it that was accepted and is
made again, `CommitUsage` and `CommitFailure` the write-back
of `seen[w] + 1` and of `last_used_at`. `today` counts every attempt since the reset,
`excess` those the counter may miss: a second worker on the account, a second attempt, a
crash. A report (`tracking.py:77-115`) is two
actions, load and commit, because an `await` lies between. `PauseSender`,
`UnpauseSender` and `AdvanceWarmup` hold nothing across a wait and are one step.
An account starts at the first stage of the ramp or at a `daily_limit` of its own
(`InitialLimit`), which may lie above it; the ramp may fall.
The order of `last_used_at` is the sequence `lru`, and rates are compared as
cross-products (`AtRate`), so that no rounding enters.

### 2.5 ReplyIntake

The mailbox is a sequence, because `imap_listener.py` identifies a message by
its *sequence number* (`imap.search`, `imap.fetch`, not their UID forms):
`Expunge` renumbers the later ones. A poll (`poll_imap_task`) is `BeginPoll`
(SEARCH UNSEEN), `Fetch` (which sets \Seen on the server), `LookUp` (skip known
numbers and unknown senders), `Store` (one commit) and `Publish` (one message a
row). `FetchError` is the retry after a broken connection, which searches only what is
still unseen. The webhook is `Push`, `PushPublished`, `PushCrash`.

Triage (`TriageStep`) follows the commits that hide in its helpers:
`add_to_suppression` commits the negative outcome, `record_positive` commits
with a variant, a successful CRM sync commits. `seen`, `was` and `dirty` of a
worker are the sentiment and the status it loaded and whether its outcome is
still uncommitted: SQLAlchemy writes an attribute only if it differs from the
loaded value, so a stale worker may write half of its outcome. What a commit has expired is read again with the reply, and its lead
with it (`lazy="selectin"`, `models.py:150`). The unique indexes on
`imap_uid`, `approval_requests.reply_id` and `suppression_entries.email` are the
`...Clash` actions. `LateSend` is the writer of the lead's status outside triage:
`send_email_task` sets SENT whatever the lead reads by now (`celery_tasks.py:190`), and the
pixel OPENED over what it loaded. It waits for a triage that holds the lead's row locked
(`Unlocked`), and `crossed` names the leads it has put back.

### 2.6 FollowUpSequence

A run walks through the due leads: `SkipSuppressed`, `EndSequence`,
`NothingToFollow`, or `StartStep`, `SaveStep` (the commit of the message or of the
touchpoint), `PublishEmail` or `PublishTouchpoint`, `RecordStep` (counter, next
date). Runs overlap: nothing locks the task. `seen` holds the counters that are
still in the run's session, which a commit expires and a reload renews. `plan`
is the blueprint with its version; `ReportBounce` takes a message out of those that read SENT
and leaves its lead alone; `RecordAborts` is the error of reading a row
of a blueprint that was replaced under the run. Time is abstract: a date is
`later` until `Elapse` makes it `now`. An opt-out is one step here, unlike in
`SendPipeline`: its first visit always writes the status, with or without the date
(`AnyOptOut`), and a repeated one touches only leads that are on the list already, which every
run passes over and every property excepts.

### 2.7 LeadIntake and SpamGuardian

An upload is one transaction (`BeginUpload`, `CheckRow`, `CommitUpload`), a
discovery run another (`BeginRun`, `CreateCampaign`, `Search`, `Consider`,
`CommitRun`, then `PublishLead` for each lead). `WithAddress` sees committed rows
and the transaction's own, never another's. `LikeOf` is which addresses an `ilike`
pattern matches: more than the address itself when it holds a `_` or `%`.
Enrichment is `Take` or `TakeBatch` with `NextOfBatch`, `SkipSuppressed`,
`StartDrafting`, the correction loop of the LLM client (`Invalid`), the
rewrite loop of the guardian (`Rewrite`), `SaveDraft`, and `GiveUp`, the error when no answer was valid: the
task is retried `MaxRetries` times (`retried` counts the messages in the broker by the retries behind them) and then
fails, while a batch calls the task directly, without retries, and ends. Invalid answers
may come for ever. A lead's website is
compared as equality; the code looks for a substring. `SpamGuardian` has `Score` over what
`score_email` counts in a draft, and `Chosen`, the variant of a hash.

## 3. What is checked

Between them the passing runs take every action of every module. Two devices
bound the events of the environment. `Budget` (approvals, sending, pool,
follow-ups) gives each kind of event a number of occurrences; `Together` (reply
and lead intake) is the family of sets of kinds that one behaviour may suffer,
each kind once. Retries, attempts, requests, reviewers and copies of a row have
constants of their own.

| run | instance | shows |
|---|---|---|
| `ApprovalRaces` | 1 request, 2 handlers, 2 workers, 1 retry, 2 attempts, each of 10 faults once, no more than three kinds in one behaviour | `FlowInv` (one decision, nothing but the approved text is mailed, suppressed leads only by workers past their check); `SentIsBacked` and `RecordsAgree` between the request and its message rows; `DuplicatesNeedAFault` and `LeftoversAreExplained`, which account for every second email and every row left in DRAFT; `RejectionIsFinal`; the refinement `ImplementsGate` |
| `ApprovalLive` | 1 request, 2 handlers, 2 workers, as many refusals as retries, a suppression | `ApprovedIsAnswered` |
| `SendRaces` | 2 leads with 1 message each, one lead with a variant, only one of them worked on in a behaviour; 2 requests, 2 reviewers, 2 workers, a visitor of the unsubscribe link who comes again and again, each of 9 faults once, no more than two kinds in one behaviour | `GateInv` (who runs what, suppressed leads only by workers past their check), `ReviewBeforeSend`, `OneMailPerRequest`, `StatusTellsTheTruth`, `SentLeadIsArmed`, `QueuedIsUnderWay` |
| `SendRetryNoOp` | 1 message, 1 worker, one refusal, one retry | a documented claim the code does not keep, see section 5 |
| `SendStuck` | 1 message, 1 worker, transient errors only | the same |
| `Breaker` | threshold 5, timeout 3 ticks, 5 attempts | `BreakerInv`, `FailFast`, `OpenIsRetried` |
| `PoolRaces` | 2 accounts, 2 workers, limits of 2 above a ramp of 1, one of every disturbance; in one behaviour any kind alone, or a crash with a report, a trip or a resend | `PoolInv` (counters within what the accounts were allowed, paused accounts drain), `NoAccountStarves`, `VolumeIsExplained` |
| `PoolLimit` | 1 account, 2 workers, nothing else happens | a documented claim the code does not keep, see section 5 |
| `FollowUpRaces` | 1 lead, 2 runs, a blueprint of three steps over both channels that may be replaced, 1 retry, each of 12 events once, no more than two kinds in one behaviour | `SequenceInv` (no step skipped, opt-outs), `GivenOnce`, `PaceKept`, `LeavesWhenDone`, `ReplyEndsSequence` |
| `FollowUpLive` | 2 leads, 1 run, the legacy list of one step, five events | `DueIsServed`: the trouble of one lead does not keep the other waiting |
| `ReplyRaces` | 1 lead, 2 messages, 2 polls, 2 workers, any one of 11 events (a send that crosses the triage is one), or an expunge under overlapping polls, or a crash of the webhook after its commit, or an unsubscribe with a redelivery | `TriageInv`, `StoredOnce`, `PositiveIsRequested`, `RepliesAreTriaged` |
| `LeadRaces` | 2 businesses with one website, the address of one a pattern that matches the other's, 1 upload, 2 discovery runs, 1 worker, one lead a day, 2 queries, with or without a campaign of two variants and a listed address of the second one's domain, any one of 11 events, or invalid answers in a batch; 3 retries, as in the code | `IntakeInv`, `NoDuplicates`, `EnrichedOnce`, `DraftedByTheRules`, `DiscoveredIsEnriched`, `VariantsAreWeighted` |

### 3.1 The bounds, and why they are enough

*Actors.* Every race in these components is between two actors over one row: two
handlers, two workers, a worker and a handler, two polls, two runs of beat. A
third could only repeat what the second does, and the proved invariants cover any
number. Two accounts, two replies, two prospects with
one website are the least that can disturb each other. Enrichment in `LeadRaces`
has one worker: what two of them could race for is the lead they enrich, and a
redelivered task shows it in sequence; the proofs cover any number.

*Events.* `FewFaults` and `FewEvents` are state constraints: a behaviour that has
suffered more kinds than they allow is not followed further, though the state
itself is still checked. Two more keep `SendRaces` within reach: one of the two leads is
worked on (`OneLeadWorked`), and visits of the unsubscribe link do not come together with
a review (`OneSide`), since one writes the lead and the other the message. With both kinds of fault
spent, a message has two requests and reviews in all, and visits go on with one request only. That two messages
of one lead do not disturb each other is left to the proofs, which have any number. The hazards need at most two, one to duplicate a task
and one to separate the two copies; in `ReplyRaces` and `LeadRaces` the pairs that
work together are named in the MC module, because every pair would be out of reach.

*Limits.* A daily limit of 2 above a ramp of 1 lets two workers be at the limit at the same time, and the ramp lower it under them; the
sample size of 2 and the rates one half and one third are met exactly, passed and
missed by one. The ramp has two stages, a first and a last. `TwoKinds` cuts a behaviour of the pool as `FewFaults` does; the second kind is
a crash or comes after one. One retry separates
"first try", "last try" and "no more"; two attempts do so for an SMTP call. Three steps are a first, a
middle and a last one. Two queries are one to carry on after the other has
failed, and with one lead a day the second prospect is what the limit turns away.
The breaker runs with the code's own threshold and number of attempts.

*Symmetry* is declared over workers, handlers, runs or accounts, in runs
that check safety only.

*Deadlock* is switched off in all runs but `Breaker`: an answered request, a
sent message, a finished blueprint or an empty mailbox has nothing left to do,
and events may be used up.

### 3.2 Fairness

- *Processes that have begun* (`WF` of the next step of a handler, a worker, a poll,
  a webhook call, a discovery run): they go on. Crashes are events of the
  environment, and the liveness properties say for whom nothing is promised
  after one (`cut`, `lost`), because the code has nothing that takes up what a dead process left behind.
- *The broker*: weak fairness that some worker takes a waiting message. The workers
  block on the queue, and with finitely many messages one of them comes free.
- *Beat*: the poll and the sequence task come again and again, so
  `BeginPoll` and `BeginRun` of the sequence are fair. A discovery
  run is begun or not; only what it has begun goes on.
- *Cold emails*: the fairness of `SendPipeline` is that of workers and broker, and serves
  the two runs that refute a claim.
- *Dates come* (`Elapse`), and an email the sequence has published is sent
  (`Deliver`), which is what `SendPipeline` is about.
- *The LLM* answers, validly or not: `DiscoveredIsEnriched` does not assume a valid answer.
- *The breaker*: time passes, every client sets a timeout, and there is always
  another call.

Clicks, uploads, reports, the pixel, admins, reviewers and senders of mail are never assumed to
do anything. Nor does a fault have to happen.

## 4. What is proved

TLAPS checks these for all values of the constants, under each module's named
assumptions. Every safety property of every passing run is among them.

| theorem | statement |
|---|---|
| `FlowInvariant` | `Spec => []FlowInv` |
| `OnlyApprovedIsSent`, `DecidedOnce`, `StaleTasksAreStopped` | `NoMailWithoutApproval`, `OneDecision`, `SuppressionGate` always |
| `RejectedForever` | `Spec => RejectionIsFinal` |
| `FlowImplementsGate` | `Spec => ImplementsGate` |
| `ApprovalFlowProofs!CountInvariant` | `Spec => []CountInv` |
| `RetriesNeverDuplicate`, `SentHasAnEmail`, `RequestAndRowsAgree`, `LeftoversHaveACause` | `DuplicatesNeedAFault`, `SentIsBacked`, `RecordsAgree`, `LeftoversAreExplained` always |
| `SendInvariant`, `GatesHold` | `SendInv`, `GateInv` always |
| `FlaggedNeedsReview`, `SentLeadsAreArmed`, `SuppressionIsAsked` | `ReviewBeforeSend`, `SentLeadIsArmed`, `SuppressionGate` always |
| `QueuedIsSeenTo` | `QueuedIsUnderWay` always |
| `SendPipelineProofs!CountInvariant` | `Spec => []CountInv` |
| `RetriesNeverMailTwice`, `RowsTellTheTruth` | `OneMailPerRequest`, `StatusTellsTheTruth` always |
| `BreakerInvariant`, `BreakerFailsFast` | `Spec => []BreakerInv`, `Spec => FailFast` |
| `PoolInvariant`, `CountersStayAllowed`, `PausedAccountsDrain` | `PoolInv`, `CounterIsAllowed`, `PauseGate` always |
| `LineInvariant`, `EveryAccountGetsItsTurn` | `LineInv`, `NoAccountStarves` always |
| `VolumeExplained` | `VolumeIsExplained` always |
| `SequenceInvariant`, `StepsComeInOrder`, `OptOutIsAsked` | `SequenceInv`, `NoStepSkipped`, `OptOutStopsSequence` always |
| `FollowUpSequenceProofs!CountInvariant` | `Spec => []CountInv` |
| `StepsAreGivenOnce`, `StepsKeepTheirPace`, `NobodyIsDropped` | `GivenOnce`, `PaceKept`, `LeavesWhenDone` always |
| `ReplyEndsIt` | `Spec => ReplyEndsSequence` |
| `TriageInvariant`, `TriagedLeadsAreOut` | `TriageInv`, `TriagedLeavesSequence` always |
| `MailboxInvariant`, `RepliesAreStoredOnce` | `TriageInv /\ Ordered`, `StoredOnce` always |
| `PendingInvariant`, `PositivesAreRequested` | `ReplyInv`, `PositiveIsRequested` always |
| `IntakeInvariant`, `NoDuplicatesWithoutOverlap`, `SuppressedAreLeftOut` | `IntakeInv`, `NoDuplicates`, `SuppressedStayOut` always |
| `DraftInvariant`, `LeadsAreEnrichedOnce` | `DraftInv`, `EnrichedOnce` always |
| `DraftsFollowTheRules` | `Spec => DraftedByTheRules` |
| `VariantsGetTheirWeight`, `AVariantIsChosen` | for every list of weights: each variant is chosen for as many hashes of a period as it weighs; the choice is one of the variants |
| `VariantsFollowTheirWeights` | `VariantsAreWeighted`, what the run checks of it |
| `ScoreIsPercent`, `RiskGrows` | a score is within 0..100; a draft with more to object to never has the lower risk |

Each proof of an invariant has one step per action; the temporal step is the last.
The parts of an invariant that write to different variables are proved
separately, with a lemma that says what a step leaves alone.

### 4.1 Gates and orders

**FlowInv.** "Nothing is mailed without an approval" is not inductive: a worker
past its gate could mail for a request of which nothing is known. `FlowInv` adds who may act for
a request: the row's status follows the winning decision and its
version counts it (`StatusFollowsDecision`); a handler that has won carries an
approval (`WinnersApproved`); so does every message in the broker and every running task
(`TasksFollowApproval`); and the texts mailed are the approved one
(`MailSaysWhatWasApproved`). The refinement
maps `decision` to the status and the history of the decision, `settled` to
`FinalBody` of an approved request, and `outbox` to the texts mailed; each
action maps to a step of the gate or to a stutter, by the invariant.

**SendInv.** A flagged draft can get to a prospect by many doors: a request, a
retry, a redelivered task, the pixel and a bounce report that rewrite the status. `UnreviewedIsHeld` closes each of
them for a draft nobody has cleared (it reads NEEDS_REVIEW, no task of it waits or
runs, no pixel request holds it) and `UndraftedIsUntouched` says the same of a message
that does not exist yet, which is what makes the first hold when the draft is
saved. `SentLeadIsArmed` names the windows in which it may fail: between the two commits of
a worker, and between the load and the commit of a visit that found the lead opted out and
dated. `CommitUnsubscribe` puts exactly that lead into `disarmed`, and whoever arms it again takes it out.
`GateInv` is the part that says what the processes hold.

**QueuedIsUnderWay** is inductive on top of `SendInv`'s types: of the points of `send_email_task` at
which a row may read QUEUED, every one writes it again (`WritesLater`), and a task
that ends without writing was interrupted (`lost`) or its error escaped (`escaped`).
It says nothing of the time this takes; that a worker goes on is fairness.

**BreakerInv** ties the failure count to the failures seen in a row, the
circuit to that count, and the age of the opening to the age of the last
failure. Fail-fast follows: an admitted call finds the circuit closed, with fewer failures
than the threshold, or old enough.

**PoolInv.** "The counter stays within the limit" is false of this code: a worker holds a
count over a reset that lowers the limit, from a `daily_limit` of the account's own to that
of the ramp. What holds is `CounterIsAllowed`: the counter never passes the highest limit the
account has had up to its stage. It rests on `LimitIsItsStages` (the limit is what stage
and starting limit say) and `HeldIsAllowed` (a worker picked below a limit the account
has had, and stages only go up). Nothing is assumed of the ramp, which may fall, or of the
limits the accounts start with.

**SequenceInv.** Overlapping runs move a lead's counter under each other, so "the
next step is the counter plus one" says nothing about order by itself. What carries
`NoStepSkipped` is that a counter a session still holds was once reached
(`SeenWasReached`) and that a run has every step before its own given, and its own
too once the row is saved (`RunsInOrder`).

**TriageInv.** A worker holds a sentiment and a status it loaded before the LLM
call, and SQLAlchemy writes only what differs from them. `LoadedStaysOut` says that
a lead found out of the sequence cannot come back into it by triage, so that a status
that is *not* written does no harm; `crossed` names the leads that came back another way, by an
email or a pixel request under way, and `TriagedLeavesSequence` says that there is no third; `OnlyStored` that everything in hand belongs to a
stored reply of a known lead. `NotifiedIsStored` names who may know of a request
that is not committed.

**IntakeInv** needs `PassedTheCheck` (what is about to be inserted has been looked
up in the suppression list) and `RunsInOrder`. `NoDuplicates` is proved from two more
facts, stated in `LeadIntakeProofs`: without an overlap at most one transaction is open (`OneOpen`), and what it
is about to insert differs from every lead and from the rest of itself
(`FreshIsNew`). Assumed is that a pattern matches at least the address it was made
from, and that there are finitely many prospects.

### 4.2 Counts

"At most one email more than there were faults" bounds a number by what has
happened, and nothing about the number alone is inductive: a step that mails
needs to know that its email was already paid for. Every such proof follows one
scheme. The left side of the bound gets everything that can *still* raise the
number, so that a step which raises it takes one of those away; the right side
gets one more exactly when an event adds one. No sums are taken: messages in the broker, workers at
a stage, runs at a lead are sets, and `Counting` says how the size of a set
changes with one element (`OneElement`) and what a bag of numbered copies
weighs (`CopiesUp`, `CopiesDown`, `CopiesLeave`).

| invariant | what is paid for | by |
|---|---|---|
| `ApprovalFlowProofs!Chances` | emails, messages in the broker, workers that may still mail, handlers about to enqueue | one approval, the faults |
| `ApprovalFlowProofs!Told` | SENT rows, workers whose email is accepted and not yet committed | emails |
| `ApprovalFlowProofs!Leftovers` | DRAFT rows | workers at them, crashes, and calls that used up `MaxAttempts` failures |
| `SendPipelineProofs!Chances` | as above, per message | clicks on send, faults |
| `SenderPoolProofs!TurnsPay` | times an account was passed over, turns workers still have before it | workers times the other accounts, crashes |
| `SenderPoolProofs!VolumeOf` | sends of the day, workers that hold the account and have not tried | the limit, the `excess` |
| `FollowUpSequenceProofs!Once` | rows of a step, runs that may still add one | one, the repeats |
| `FollowUpSequenceProofs!Paced` | rows of a lead, runs without one, a date that has come | dates that came, the repeats |
| `FollowUpSequenceProofs!Answered` | touchpoints executed, their tasks, runs about to publish one | rows, repetitions |

*RecordsAgree* and *StatusTellsTheTruth* are conditional on the absence of a fault, and rest on the
counts: without a fault there is one worker or one email, hence nobody who could
overwrite the row. `SendPipelineProofs!Truth` adds that nothing reads delivered before its email, and that a message
which has left reads delivered, or a worker is about to write it.

*The rotation.* `Rotation` says that the accounts stand in one line, each once, and a worker
that puts an account back moves it behind all others: `Turns(b)` are the pairs of a
worker and an account before `b` that it does not hold, and each pick that passes
over `b` uses one up.

*The daily limit.* "No more sends than the limit" is false with two workers on one account, and with one
whose call sends twice (section 5). `VolumeIsExplained` adds to the limit what the counter can miss
(`excess`): a pick of an account that another worker uses, a second attempt, a worker that dies
before it counts. `VolumeOf` compares `today` with the counter, with the counts in the workers'
hands and with the room that is left: workers that have not tried yet (`Untried`) need room, those that have
and have not counted (`Uncounted`) are what the counter lags behind. It holds for any number of workers, whatever they do at once.

*Follow-ups.* Overlapping runs of one lead are counted when the second takes the
lead up (`tally.repeats`), and `May(l, k)` says who may still give step `k`: nobody
once counter and runs are past it, one run if none holds the lead, otherwise each
run that has not given it. `Alone`: without a repeat one run holds the
lead, at the step after the counter. `RepliedIsQuiet` carries `ReplyEndsSequence`: a replied lead
that nothing crossed has no email, no held draft, no pixel request and no run.
`PlanKept` is what `LeavesWhenDone` needs of the blueprint.

### 4.3 Places

**Ordered.** A reply is known by its sequence number, and an expunge moves the numbers. The
invariant speaks of tags, pairs of a message and the number it was found, fetched or stored
under: a message that was not moved has one number (`Steady`), one search pairs
messages and numbers one to one (`OneSearch`), a number has one row
(`UniqueIndex`). That gives the second half of `StoredOnce` whatever polls do. The first half, nothing is lost,
holds without troubles only, and `CalmInv` is stated under that condition: one poll, numbers that are places in
the mailbox, a batch that no row has.

**PositivesArePending.** A positive reply without a request waits in the broker, is held by a worker
on its way to the request, or was cut off.

**DraftInv.** `NoneForgotten`: a new lead from a discovery is in a run's hands, in the broker, in a
worker's hands or in the rest of its batch, or it was cut off (`BatchesAreWhole`, `OnlyLeads`).
`OnePlace` says that it is in one of these only, as long as nobody asks again and nothing is delivered twice; one
first draft follows. The variant of a lead is a function of its
campaign's weights, and two workers that assign it at once write the same one: `VariantIsDue`
holds because there is one campaign for life (`OneCampaign`).

**Weights.** `UpTo`, the cumulated weight, is a recursive function, and the library's induction rule takes
an operator the provers cannot instantiate. `Counting!AllNumbers` says the same of *sets* of
numbers (one with 0 and every successor is `Nat`), from the well-foundedness of `<`. With it `UpToAdds` proves that
the recursion computes, `UpToGrows` that it grows, and each variant's hashes
are the interval between two cumulated weights.

Two definitions are written for the provers without a change of meaning: `SenderPool!Touch` states the new
line place by place instead of filtering the sequence, and `PaceKept` takes the
size of the set of a lead's rows instead of folding their counts.

### 4.4 Only model-checked

`ApprovedIsAnswered`, `OpenIsRetried`, `DueIsServed`, `RepliesAreTriaged` and
`DiscoveredIsEnriched`: liveness under fairness needs `ENABLED`, which the prover does not
have. `RefusedIsRetried`, `FailedSendIsMarked` and `WithinDailyLimit` are what documents
say, not what the code does.

## 5. Where the code and its documentation part

Three claims have a run whose counterexample TLC finds:

**A refused cold email is never retried** (`SendRetryNoOp`, `RefusedIsRetried`). The message is committed FAILED
and then `self.retry` is raised (`celery_tasks.py:180-182`, "send failed,
retrying"); the retried task returns at once, since it sends only DRAFT and
QUEUED messages (line 139).

**A send that fails for good is not always marked** (`SendStuck`, `FailedSendIsMarked`).
`sender_rotation.py:184-186`: "EmailSendError if the send itself fails after retries - callers should mark the
message FAILED and let a human/retry policy handle it". A connection error, a timeout or throttling on the last attempt
is re-raised as it is, no handler of `send_email_task` catches it (`celery_tasks.py:175`, `180`), and the
message stays QUEUED. `QueuedIsUnderWay` says that nothing else leaves it there, but a crash.

**The daily limit does not bound the daily volume** (`PoolLimit`, `WithinDailyLimit`).
`warmup.py:7-8`: "the staged daily_limit ramp and daily counter reset are what actually
gate outbound volume regardless". Two workers that pick one account write back the
same count for two sends (`sender_rotation.py:203`), and the counter finds room for a third. One worker is enough when its call
is made twice (`Resend`) or when it crashes before it counts. `VolumeIsExplained` says what does hold.

Four more sentences of the documents are not what the code does, and have no run:

- `warmup.py:31-32`: the counters "represent 'since counters_reset_at'". A worker that picked before the
  daily reset and commits after it writes yesterday's count plus one over the zero (`Pick`, `AdvanceWarmup`,
  `CommitUsage`); `PoolInv` bounds it by the highest limit the account has had.
- `spam_guardian.py:14-15` and `.env.example:58-59`: a score from the *rewrite* threshold on triggers
  rewrites. `run_with_guard` rewrites only while the risk is HIGH, which is the *flag* threshold
  (line 157); `AsksAgain` has it so, and a draft of medium risk is accepted as it is.
- `models.py:169-170`: the resolving endpoint "additionally takes a row lock (SELECT ... FOR UPDATE)".
  It takes none: `approvals.py:67-78` is one UPDATE with a condition, which is what `WinDecision` and
  `LoseDecision` model, and the promise made there (two concurrent calls cannot both succeed) is kept.
- A discovery run "never raises" (`lead_discovery.py:329`); two that create one
  campaign clash on its name, and one of them ends in an error (section on leads below).

What follows was met while modelling as well. The models contain it, as an exception a property
names or an assumption it makes; we know of no document that promises otherwise.

*Sending.* A connection error or timeout on the last SMTP attempt escapes from the
approved-reply task too and leaves its message row DRAFT (`LeftoversAreExplained` counts it). An email the
server has taken may be mailed again, by the decorator or by the Celery retry, or its row may read
FAILED (2.1). A lead suppressed between the check and the SMTP call is still mailed (`SuppressionGate` says by
whom). A repeated visit of the unsubscribe link can clear the date of a lead that a worker has
just committed as SENT (`disarmed`). An approval whose web process dies before it publishes stays APPROVED and is never sent.

*Accounts.* An account may start with a `daily_limit` above the first stage (`sender_rotation.py:296-301`);
the first advance lowers it, and the count a worker brings back may then pass it (`CounterIsAllowed` says how far). With
`WARMUP_ENABLED=false` nothing clears the daily counters (`warmup.py:41`).
`_pick_account` asks for the breaker `instantly:<name>` while the calls go through
`InstantlySender:<name>` (`sender_rotation.py:80` and `:158`). An account over its
rates goes on until the next report, and one of two overlapping reports is lost
(`tracking.py:89`).

*Follow-ups.* An email step wants a message of the lead that reads SENT, so a lead that has
opened all its emails, or whose emails all bounced, stays due for ever and gets nothing (`DueIsServed` excepts it,
`celery_tasks.py:342`). A follow-up mailed after the reply puts the lead back to SENT with its next date in
place, and the sequence goes on (`crossed`, line 190). The
delay to the next step is the one of the step just taken (line 361). A blueprint
replaced between two commits makes the run fail on a deleted row (line 358).
`execute_linkedin_touchpoint` looks neither at the suppression list nor at the
touchpoint's status (line 404).

*Replies.* `imap_uid` holds sequence numbers, which an expunge moves: two messages may
share one, and one may get two. A poll that is retried after a broken connection searches only what is unseen, so what it had fetched is
dropped. A reply without a plain-text part is dropped too. A human is told of a
request before it is committed; a failed notification sets no flag, and nothing looks at the flag.

*Leads.* Transactions that overlap insert one address twice, and every later upload or
webhook that looks that address up with `scalar_one_or_none` fails. `ilike` reads a `_` in an
address as a wildcard and a website as a substring. A run commits its leads before it publishes
them; a batch ends at its first error, an enrichment after its third retry, and nothing comes back to
a lead that is still NEW; enrichment does not look at the lead's status.

## 6. What is not modelled

- *Stateless or read-only*: authentication, rate limiting, the dashboard (its buttons call
  the approval routes), the calendar link, the sender health check (it reads
  counters and logs), logging and metrics.
- *Text and form*: MIME, prompts, parsing of uploads, replies, LLM answers and
  Telegram callbacks, what the spam patterns match. Their results are inputs.
- *Configuration, schemas, start-up*: settings are the constants of the modules.
- *Conversation memory*: rows that are appended with steps that are modelled, and read
  for prompts only.
- *Statistics*: open counts, counters of variants. Where writing one hides a
  commit, the commit is a step.
- *Partly*: the notifier (its fan-out is best effort; only the order of telling
  and committing is modelled), the CRM's contact id, the creation of campaigns by hand
  (a starting state of `LeadIntake`), broker priorities and the result backend.
- *Composition*: `SendPipeline` takes a healthy account or none as an outcome of
  the pick, it is not composed with `SenderPool`: the pool's counters never
  depend on which message is sent, and the message only on whether an account was found.
