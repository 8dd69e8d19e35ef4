---------------------------- MODULE ApprovalFlow ----------------------------
(***************************************************************************)
(* The approval gate as the code runs it: web handlers that resolve a      *)
(* request with one conditional UPDATE and then enqueue a Celery task, a   *)
(* broker that delivers at least once, and workers whose task commits      *)
(* several times on its way (app/routers/approvals.py,                     *)
(* app/tasks/celery_tasks.py:send_approved_reply_task,                     *)
(* app/services/sender_rotation.py:send_via_rotation).                     *)
(*                                                                         *)
(* An action ends where the code commits, calls the SMTP server, or hands  *)
(* a message to the broker: between two such points no other process can   *)
(* see what it does.  The sender pool is external here (see SenderPool):   *)
(* a pick succeeds or there is no healthy sender.                          *)
(***************************************************************************)
EXTENDS Integers

CONSTANTS Approvals,    \* approval requests
          Handlers,     \* web requests being served at the same time
          Workers,      \* Celery worker processes
          MaxRetries,   \* max_retries of send_approved_reply_task
          MaxAttempts,  \* attempts of one SMTP call (stop_after_attempt)
          Budget        \* how many faults of each kind the environment has

FaultKinds == {"webCrash", "workerCrash", "redelivery", "refusal", "unanswered",
               "transient", "lostAck", "unexpected", "noHealthySender",
               "suppression"}

ASSUME ApprovalFlowAssumption ==
  /\ MaxRetries \in Nat
  /\ MaxAttempts \in Nat \ {0}
  /\ Budget \in [FaultKinds -> Nat]

Drafts == {"aiDraft", "placeholderDraft"}      \* drafted_response
Edits == {"noEdit", "blankEdit", "customEdit"} \* edited_response of a decision
Bodies == Drafts \cup {"customEdit"}           \* what an email can say
Jobs == [appr : Approvals, try : 0..MaxRetries]
NoJob == [appr |-> "none", try |-> 0]
NoDecision == [appr |-> "none", action |-> "none", edit |-> "noEdit"]
Decisions == [appr : Approvals, action : {"approve", "reject"}, edit : Edits]

VARIABLES
  status,      \* status[a]: the approval_requests row, "absent" before triage
  version,     \* version[a]: its version column
  draft,       \* draft[a]: drafted_response
  edited,      \* edited[a]: edited_response
  suppressed,  \* requests whose lead matches a suppression entry
  rows,        \* rows[a]: message rows committed so far, those marked SENT, FAILED
  hpc, hreq,   \* per handler: where it is, the decision it carries
  ready,       \* ready[j]: copies of task message j waiting in the broker
  wpc, wjob,   \* per worker: where it is, the task it runs
  watt,        \* watt[w]: failed attempts of the SMTP call under way
  mailed,      \* mailed[a]: emails the SMTP server has accepted for a
  bodies,      \* bodies[a]: the texts they carried
  verdict,     \* history: verdict[a], what the winning decision was
  faults,      \* history: faults[a], events that can duplicate an email
  late,        \* history: workers past their gate when the lead was suppressed
  budget       \* faults the environment has left

db == <<status, version, draft, edited>>
handlerVars == <<hpc, hreq>>
workerVars == <<wpc, wjob, watt>>
world == <<mailed, bodies>>
vars == <<status, version, draft, edited, suppressed, rows, hpc, hreq, ready,
          wpc, wjob, watt, mailed, bodies, verdict, faults, late, budget>>

Statuses == {"absent", "pending", "approved", "rejected", "sent"}
RowCounts == {"committed", "sent", "failed"}
HandlerPC == {"idle", "loaded", "won"}
WorkerPC == {"idle", "loaded", "gated", "accepted", "counted",
             "refused", "marking", "retrying"}

\* A worker in one of these has passed the suppression check of its job.
PastGate == WorkerPC \ {"idle", "loaded"}

TypeOK ==
  /\ status \in [Approvals -> Statuses]
  /\ version \in [Approvals -> Nat]
  /\ draft \in [Approvals -> Drafts]
  /\ edited \in [Approvals -> Edits]
  /\ suppressed \in SUBSET Approvals
  /\ rows \in [Approvals -> [RowCounts -> Nat]]
  /\ hpc \in [Handlers -> HandlerPC]
  /\ hreq \in [Handlers -> Decisions \cup {NoDecision}]
  /\ ready \in [Jobs -> Nat]
  /\ wpc \in [Workers -> WorkerPC]
  /\ wjob \in [Workers -> Jobs \cup {NoJob}]
  /\ watt \in [Workers -> 0..MaxAttempts]
  /\ mailed \in [Approvals -> Nat]
  /\ bodies \in [Approvals -> SUBSET Bodies]
  /\ verdict \in [Approvals -> {"none", "approve", "reject"}]
  /\ faults \in [Approvals -> Nat]
  /\ late \in SUBSET Workers
  /\ budget \in [FaultKinds -> Nat]

Init ==
  /\ status = [a \in Approvals |-> "absent"]
  /\ version = [a \in Approvals |-> 0]
  /\ draft \in [Approvals -> Drafts]
  /\ edited = [a \in Approvals |-> "noEdit"]
  /\ suppressed = {}
  /\ rows = [a \in Approvals |-> [s \in RowCounts |-> 0]]
  /\ hpc = [h \in Handlers |-> "idle"]
  /\ hreq = [h \in Handlers |-> NoDecision]
  /\ ready = [j \in Jobs |-> 0]
  /\ wpc = [w \in Workers |-> "idle"]
  /\ wjob = [w \in Workers |-> NoJob]
  /\ watt = [w \in Workers |-> 0]
  /\ mailed = [a \in Approvals |-> 0]
  /\ bodies = [a \in Approvals |-> {}]
  /\ verdict = [a \in Approvals |-> "none"]
  /\ faults = [a \in Approvals |-> 0]
  /\ late = {}
  /\ budget = Budget

Spend(kind) ==
  /\ budget[kind] > 0
  /\ budget' = [budget EXCEPT ![kind] = @ - 1]

(* What the UPDATE of a decision writes, and what its handler does next.    *)

Decide(h) ==
  LET a == hreq[h].appr
      approves == hreq[h].action = "approve"
  IN
  /\ status' = [status EXCEPT ![a] = IF approves THEN "approved" ELSE "rejected"]
  /\ version' = [version EXCEPT ![a] = @ + 1]
  /\ edited' = IF approves THEN [edited EXCEPT ![a] = hreq[h].edit] ELSE edited
  /\ verdict' = [verdict EXCEPT ![a] = hreq[h].action]
  /\ hpc' = [hpc EXCEPT ![h] = IF approves THEN "won" ELSE "idle"]
  /\ hreq' = IF approves THEN hreq ELSE [hreq EXCEPT ![h] = NoDecision]
  /\ UNCHANGED <<draft, suppressed, rows, ready, workerVars, world, faults,
                 late, budget>>

(* Ends of a worker's step, and what it writes to the message rows.        *)

\* The task ends and its message is acknowledged (acks_late).
Release(w) ==
  /\ wpc' = [wpc EXCEPT ![w] = "idle"]
  /\ wjob' = [wjob EXCEPT ![w] = NoJob]
  /\ watt' = [watt EXCEPT ![w] = 0]
  /\ late' = late \ {w}

Goto(w, pc) ==
  /\ wpc' = [wpc EXCEPT ![w] = pc]
  /\ UNCHANGED <<wjob, late>>

\* A message row is committed as DRAFT unless it is marked in the same commit.
CommitRow(a) == rows' = [rows EXCEPT ![a]["committed"] = @ + 1]

MarkRow(a, s) == rows' = [rows EXCEPT ![a][s] = @ + 1]

-----------------------------------------------------------------------------
(* Slips the properties have to catch: each is an operation further down    *)
(* with one plausible mistake.  No specification uses them; PROJECT.json    *)
(* pairs each with its property.                                            *)

\* "is not None" for a truth test.
FinalBodyIfSet(a) == IF edited[a] # "noEdit" THEN edited[a] ELSE draft[a]

\* UPDATE without its WHERE status = 'pending'.
WinWithoutCheck(h) == hpc[h] = "loaded" /\ Decide(h)

\* rowcount is not looked at.
LoseUnnoticed(h) ==
  /\ hpc[h] = "loaded"
  /\ status[hreq[h].appr] # "pending"
  /\ hpc' = [hpc EXCEPT ![h] = "won"]
  /\ UNCHANGED <<db, hreq, suppressed, rows, ready, workerVars, world, verdict,
                 faults, late, budget>>

\* The suppression list is not asked.
PassGateUnchecked(w) ==
  /\ wpc[w] = "loaded"
  /\ Goto(w, "gated")
  /\ UNCHANGED <<db, suppressed, rows, handlerVars, ready, watt, world,
                 verdict, faults, budget>>

\* The request is marked, its message row is not; or the other way round.
CommitSentRequestOnly(w) ==
  /\ wpc[w] = "counted"
  /\ status' = [status EXCEPT ![wjob[w].appr] = "sent"]
  /\ Release(w)
  /\ UNCHANGED <<version, draft, edited, suppressed, rows, handlerVars, ready, world,
                 verdict, faults, budget>>

CommitSentRowOnly(w) ==
  /\ wpc[w] = "counted"
  /\ MarkRow(wjob[w].appr, "sent")
  /\ Release(w)
  /\ UNCHANGED <<db, suppressed, handlerVars, ready, world, verdict, faults, budget>>

\* The retry is raised before the row is marked.
CommitFailedUnmarked(w) ==
  /\ wpc[w] = "marking"
  /\ Goto(w, "retrying")
  /\ UNCHANGED <<db, suppressed, rows, handlerVars, ready, watt, world, verdict,
                 faults, budget>>

\* The exception is swallowed: nothing is published again.
RetryForgotten(w) ==
  /\ wpc[w] = "retrying"
  /\ Release(w)
  /\ UNCHANGED <<db, suppressed, rows, handlerVars, ready, world, verdict, faults,
                 budget>>

-----------------------------------------------------------------------------
\* edited_response or drafted_response: a blank edit is falsy in Python.
FinalBody(a) == IF edited[a] = "customEdit" THEN edited[a] ELSE draft[a]

-----------------------------------------------------------------------------
(* Triage: a positive reply opens the gate (sentiment.py).                  *)

OpenApprovalGate(a) ==
  /\ status[a] = "absent"
  /\ status' = [status EXCEPT ![a] = "pending"]
  /\ UNCHANGED <<version, draft, edited, suppressed, rows, handlerVars, ready,
                 workerVars, world, verdict, faults, late, budget>>

-----------------------------------------------------------------------------
(* resolve_decision, run by any number of handlers at once.                 *)

\* The .get() finds the row and the token matches: the handler goes on.
LoadApproval(h, d) ==
  /\ hpc[h] = "idle"
  /\ status[d.appr] # "absent"
  /\ d.action = "reject" => d.edit = "noEdit"
  /\ hpc' = [hpc EXCEPT ![h] = "loaded"]
  /\ hreq' = [hreq EXCEPT ![h] = d]
  /\ UNCHANGED <<db, suppressed, rows, ready, workerVars, world, verdict,
                 faults, late, budget>>

\* UPDATE ... WHERE status = 'pending', then commit: rowcount 1.
WinDecision(h) ==
  /\ hpc[h] = "loaded"
  /\ status[hreq[h].appr] = "pending"
  /\ Decide(h)

\* The same UPDATE with rowcount 0: the answer is 409 and nothing changes.
LoseDecision(h) ==
  /\ hpc[h] = "loaded"
  /\ status[hreq[h].appr] # "pending"
  /\ hpc' = [hpc EXCEPT ![h] = "idle"]
  /\ hreq' = [hreq EXCEPT ![h] = NoDecision]
  /\ UNCHANGED <<db, suppressed, rows, ready, workerVars, world, verdict,
                 faults, late, budget>>

\* Only the winner of an approval, and only after its commit, enqueues.
EnqueueSend(h) ==
  LET j == [appr |-> hreq[h].appr, try |-> 0] IN
  /\ hpc[h] = "won"
  /\ ready' = [ready EXCEPT ![j] = @ + 1]
  /\ hpc' = [hpc EXCEPT ![h] = "idle"]
  /\ hreq' = [hreq EXCEPT ![h] = NoDecision]
  /\ UNCHANGED <<db, suppressed, rows, workerVars, world, verdict, faults,
                 late, budget>>

\* The web process dies, or the broker refuses the message: an approval that
\* has been committed is left without a task.
HandlerCrash(h) ==
  /\ hpc[h] # "idle"
  /\ Spend("webCrash")
  /\ hpc' = [hpc EXCEPT ![h] = "idle"]
  /\ hreq' = [hreq EXCEPT ![h] = NoDecision]
  /\ UNCHANGED <<db, suppressed, rows, ready, workerVars, world, verdict,
                 faults, late>>

-----------------------------------------------------------------------------
(* send_approved_reply_task.                                                *)

\* The worker takes a message and reads the request: not APPROVED, it skips.
Skip(w, j) ==
  /\ wpc[w] = "idle"
  /\ ready[j] > 0
  /\ status[j.appr] # "approved"
  /\ ready' = [ready EXCEPT ![j] = @ - 1]
  /\ UNCHANGED <<db, suppressed, rows, handlerVars, workerVars, world, verdict,
                 faults, late, budget>>

Start(w, j) ==
  /\ wpc[w] = "idle"
  /\ ready[j] > 0
  /\ status[j.appr] = "approved"
  /\ ready' = [ready EXCEPT ![j] = @ - 1]
  /\ wpc' = [wpc EXCEPT ![w] = "loaded"]
  /\ wjob' = [wjob EXCEPT ![w] = j]
  /\ UNCHANGED <<db, suppressed, rows, handlerVars, watt, world, verdict,
                 faults, late, budget>>

\* is_suppressed: the request is rejected, whatever it has become since it
\* was loaded (the assignment is unconditional).
RejectSuppressed(w) ==
  /\ wpc[w] = "loaded"
  /\ wjob[w].appr \in suppressed
  /\ status' = [status EXCEPT ![wjob[w].appr] = "rejected"]
  /\ Release(w)
  /\ UNCHANGED <<version, draft, edited, suppressed, rows, handlerVars, ready,
                 world, verdict, faults, budget>>

\* Not suppressed, a sender is picked; the new message row is only flushed.
PassGate(w) ==
  /\ wpc[w] = "loaded"
  /\ wjob[w].appr \notin suppressed
  /\ Goto(w, "gated")
  /\ UNCHANGED <<db, suppressed, rows, handlerVars, ready, watt, world,
                 verdict, faults, budget>>

\* Not suppressed, but _pick_account finds no healthy sender: the row is
\* committed FAILED and the task returns without a retry.
NoHealthySender(w) ==
  /\ wpc[w] = "loaded"
  /\ wjob[w].appr \notin suppressed
  /\ Spend("noHealthySender")
  /\ rows' = [rows EXCEPT ![wjob[w].appr]["committed"] = @ + 1,
                          ![wjob[w].appr]["failed"] = @ + 1]
  /\ Release(w)
  /\ UNCHANGED <<db, suppressed, handlerVars, ready, world, verdict, faults>>

Accept(a) ==
  /\ mailed' = [mailed EXCEPT ![a] = @ + 1]
  /\ bodies' = [bodies EXCEPT ![a] = @ \cup {FinalBody(a)}]

SmtpAccept(w) ==
  /\ wpc[w] = "gated"
  /\ Accept(wjob[w].appr)
  /\ Goto(w, "accepted")
  /\ UNCHANGED <<db, suppressed, rows, handlerVars, ready, watt, verdict,
                 faults, budget>>

\* EmailSendError, or the circuit breaker is open.
SmtpRefuse(w) ==
  /\ wpc[w] = "gated"
  /\ Spend("refusal")
  /\ Goto(w, "refused")
  /\ UNCHANGED <<db, suppressed, rows, handlerVars, ready, watt, world,
                 verdict, faults>>

\* A retryable exception while attempts remain: tenacity calls again.
\* After the last one the exception escapes from the task: send_via_rotation
\* commits the flushed row as it is, DRAFT, and nobody marks it.
NextAttempt(w) ==
  IF watt[w] + 1 < MaxAttempts
  THEN /\ watt' = [watt EXCEPT ![w] = @ + 1]
       /\ Goto(w, "gated")
       /\ UNCHANGED rows
  ELSE /\ CommitRow(wjob[w].appr)
       /\ Release(w)

SmtpTransient(w) ==
  /\ wpc[w] = "gated"
  /\ Spend("transient")
  /\ NextAttempt(w)
  /\ UNCHANGED <<db, suppressed, handlerVars, ready, world, verdict, faults>>

\* Accepted, but the attempt ends in an error the loop tries again: the answer of
\* an API sender times out, or QUIT is answered with 421, 450 or 452.
SmtpLostAck(w) ==
  /\ wpc[w] = "gated"
  /\ Spend("lostAck")
  /\ Accept(wjob[w].appr)
  /\ faults' = [faults EXCEPT ![wjob[w].appr] = @ + 1]
  /\ NextAttempt(w)
  /\ UNCHANGED <<db, suppressed, handlerVars, ready, verdict>>

\* Accepted, but the connection is gone before the answer to DATA: an EmailSendError,
\* as if it had been refused.
SmtpAcceptedYetRefused(w) ==
  /\ wpc[w] = "gated"
  /\ Spend("unanswered")
  /\ Accept(wjob[w].appr)
  /\ faults' = [faults EXCEPT ![wjob[w].appr] = @ + 1]
  /\ Goto(w, "refused")
  /\ UNCHANGED <<db, suppressed, rows, handlerVars, ready, watt, verdict>>

\* An error the loop does not repeat and the task does not catch (a name that does
\* not resolve, TLS, an API answer cut off or not JSON), before or after the
\* server has accepted: the exception escapes and leaves the row in DRAFT.
SmtpUnexpected(w) ==
  /\ wpc[w] = "gated"
  /\ Spend("unexpected")
  /\ Accept(wjob[w].appr) \/ UNCHANGED world
  /\ CommitRow(wjob[w].appr)
  /\ Release(w)
  /\ UNCHANGED <<db, suppressed, handlerVars, ready, verdict, faults>>

\* send_via_rotation commits its counters and, with them, the DRAFT row.
CommitUsage(w) ==
  /\ wpc[w] = "accepted"
  /\ CommitRow(wjob[w].appr)
  /\ Goto(w, "counted")
  /\ UNCHANGED <<db, suppressed, handlerVars, ready, watt, world, verdict,
                 faults, budget>>

\* The last commit: message SENT, thread memory, request SENT.
CommitSent(w) ==
  /\ wpc[w] = "counted"
  /\ MarkRow(wjob[w].appr, "sent")
  /\ status' = [status EXCEPT ![wjob[w].appr] = "sent"]
  /\ Release(w)
  /\ UNCHANGED <<version, draft, edited, suppressed, handlerVars, ready, world,
                 verdict, faults, budget>>

\* The failure path: the counters are committed first, ...
CommitFailedUsage(w) ==
  /\ wpc[w] = "refused"
  /\ CommitRow(wjob[w].appr)
  /\ Goto(w, "marking")
  /\ UNCHANGED <<db, suppressed, handlerVars, ready, watt, world, verdict,
                 faults, budget>>

\* ... then the row is marked FAILED, ...
CommitFailed(w) ==
  /\ wpc[w] = "marking"
  /\ MarkRow(wjob[w].appr, "failed")
  /\ Goto(w, "retrying")
  /\ UNCHANGED <<db, suppressed, handlerVars, ready, watt, world, verdict,
                 faults, budget>>

\* ... and the task is published again, unless it has used its retries.
Retry(w) ==
  LET next == [wjob[w] EXCEPT !.try = @ + 1] IN
  /\ wpc[w] = "retrying"
  /\ ready' = IF wjob[w].try < MaxRetries
              THEN [ready EXCEPT ![next] = @ + 1] ELSE ready
  /\ Release(w)
  /\ UNCHANGED <<db, suppressed, rows, handlerVars, world, verdict, faults,
                 budget>>

-----------------------------------------------------------------------------
(* The environment: process crashes, the broker, the suppression list.      *)

\* The worker process dies.  The message is delivered again when the whole
\* worker is lost; it is acknowledged when only a pool child is.
WorkerCrash(w) ==
  LET j == wjob[w] IN
  /\ wpc[w] # "idle"
  /\ Spend("workerCrash")
  /\ \/ /\ ready' = [ready EXCEPT ![j] = @ + 1]
        /\ faults' = [faults EXCEPT ![j.appr] = @ + 1]
     \/ UNCHANGED <<ready, faults>>
  /\ Release(w)
  /\ UNCHANGED <<db, suppressed, rows, handlerVars, world, verdict>>

\* The visibility timeout of the broker: a message whose task still runs is
\* handed out a second time.
Redeliver(w) ==
  /\ wpc[w] # "idle"
  /\ Spend("redelivery")
  /\ ready' = [ready EXCEPT ![wjob[w]] = @ + 1]
  /\ faults' = [faults EXCEPT ![wjob[w].appr] = @ + 1]
  /\ UNCHANGED <<db, suppressed, rows, handlerVars, workerVars, world, verdict,
                 late>>

\* An unsubscribe, an opt-out reply or an admin adds an entry for the lead.
Suppress(a) ==
  /\ a \notin suppressed
  /\ Spend("suppression")
  /\ suppressed' = suppressed \cup {a}
  /\ late' = late \cup {w \in Workers : wpc[w] \in PastGate /\ wjob[w].appr = a}
  /\ UNCHANGED <<db, rows, handlerVars, ready, workerVars, world, verdict,
                 faults>>

\* DELETE /suppression/{id}.
Unsuppress(a) ==
  /\ a \in suppressed
  /\ suppressed' = suppressed \ {a}
  /\ UNCHANGED <<db, rows, handlerVars, ready, workerVars, world, verdict,
                 faults, late, budget>>

-----------------------------------------------------------------------------
HandlerStep(h) ==
  \/ WinDecision(h)
  \/ LoseDecision(h)
  \/ EnqueueSend(h)

Take(w) == \E j \in Jobs : Skip(w, j) \/ Start(w, j)

WorkerStep(w) ==
  \/ RejectSuppressed(w) \/ PassGate(w) \/ NoHealthySender(w)
  \/ SmtpAccept(w) \/ SmtpRefuse(w) \/ SmtpTransient(w) \/ SmtpLostAck(w)
  \/ SmtpAcceptedYetRefused(w) \/ SmtpUnexpected(w)
  \/ CommitUsage(w) \/ CommitSent(w)
  \/ CommitFailedUsage(w) \/ CommitFailed(w) \/ Retry(w)

Next ==
  \/ \E a \in Approvals : OpenApprovalGate(a) \/ Suppress(a) \/ Unsuppress(a)
  \/ \E h \in Handlers, d \in Decisions : LoadApproval(h, d)
  \/ \E h \in Handlers : HandlerStep(h) \/ HandlerCrash(h)
  \/ \E w \in Workers : Take(w) \/ WorkerStep(w) \/ WorkerCrash(w) \/ Redeliver(w)

Spec == Init /\ [][Next]_vars

\* A request being served and a task being run go on; a waiting message is
\* taken when a worker is free.  Humans and the environment owe nothing.
Fairness ==
  /\ \A h \in Handlers : WF_vars(HandlerStep(h))
  /\ \A w \in Workers : WF_vars(WorkerStep(w))
  /\ \A j \in Jobs : WF_vars(\E w \in Workers : Skip(w, j) \/ Start(w, j))

FairSpec == Spec /\ Fairness

-----------------------------------------------------------------------------
(* Properties.                                                              *)

\* "never sends an AI-drafted reply without explicit human approval"
\* (README.md:5): an email exists only for a request whose winning decision
\* was an approval, however many handlers raced for it.
NoMailWithoutApproval ==
  \A a \in Approvals : mailed[a] > 0 => verdict[a] = "approve"

\* send_approved_reply_task "only ever runs after that transition commits":
\* a message in the broker or a task past its status check belongs to an
\* approved request, retries and redeliveries included.
TasksFollowApproval ==
  /\ \A j \in Jobs : ready[j] > 0 => verdict[j.appr] = "approve"
  /\ \A w \in Workers : wpc[w] # "idle" => verdict[wjob[w].appr] = "approve"

\* Two concurrent clicks cannot both succeed: one decision per request, and
\* never two handlers about to enqueue its task.
OneDecision ==
  /\ \A a \in Approvals : version[a] <= 1
  /\ \A h, g \in Handlers :
       hpc[h] = "won" /\ hpc[g] = "won" /\ hreq[h].appr = hreq[g].appr => h = g

\* A request reads SENT only if an email was accepted and its message row
\* says so, and no row says SENT for an email nobody accepted.
SentIsBacked ==
  \A a \in Approvals :
    /\ status[a] = "sent" => rows[a]["sent"] > 0
    /\ rows[a]["sent"] <= mailed[a]

\* Retries alone never mail a prospect twice: every email after the first
\* needs a redelivery, a crash of the worker, or a lost answer of the server.
DuplicatesNeedAFault ==
  \A a \in Approvals : mailed[a] <= 1 + faults[a]

\* Without such an event the request and its message rows tell the same
\* story; with one, a second worker can overwrite either of them.
RecordsAgree ==
  \A a \in Approvals :
    faults[a] = 0 => (status[a] = "sent" <=> rows[a]["sent"] = 1)

\* No worker and no message of the broker is left for a.
Quiet(a) ==
  /\ \A w \in Workers : wjob[w].appr # a
  /\ \A j \in Jobs : j.appr = a => ready[j] = 0

DraftRows(a) == rows[a]["committed"] - (rows[a]["sent"] + rows[a]["failed"])

Spent(kind) == Budget[kind] - budget[kind]

\* Every attempt leaves a message row, and a task that ends marks it SENT or
\* FAILED: a row still in DRAFT when all is quiet was left by a crash, by an error
\* nobody catches, or by a call that used up its attempts, whose last exception
\* escapes the task.
LeftoversAreExplained ==
  \A a \in Approvals :
    Quiet(a) =>
      DraftRows(a) <= Spent("workerCrash") + Spent("unexpected")
                      + (Spent("transient") + Spent("lostAck")) \div MaxAttempts

\* A worker that can still mail a suppressed lead passed its check before the
\* entry was added: a stale message in the broker never gets that far.
SuppressionGate ==
  \A w \in Workers :
    wpc[w] \in PastGate /\ wjob[w].appr \in suppressed => w \in late

\* Why the properties above hold: the row's status follows the decision, the
\* version column counts it, and whoever acts for a request (a handler that
\* has won, a message, a task, an email) does so after an approval.
StatusFollowsDecision ==
  \A a \in Approvals :
    /\ status[a] \in {"absent", "pending"} <=> verdict[a] = "none"
    /\ status[a] \in {"approved", "sent"} => verdict[a] = "approve"
    /\ version[a] = IF verdict[a] = "none" THEN 0 ELSE 1

WinnersApproved ==
  \A h \in Handlers :
    /\ hpc[h] # "idle" => hreq[h] \in Decisions
    /\ hpc[h] # "idle" => status[hreq[h].appr] # "absent"
    /\ hpc[h] = "won" => verdict[hreq[h].appr] = "approve"

MailSaysWhatWasApproved ==
  \A a \in Approvals :
    /\ bodies[a] # {} => verdict[a] = "approve"
    /\ bodies[a] \subseteq {FinalBody(a)}

FlowInv ==
  /\ TypeOK
  /\ StatusFollowsDecision
  /\ WinnersApproved
  /\ OneDecision
  /\ \A w \in Workers : wpc[w] # "idle" => wjob[w] \in Jobs
  /\ TasksFollowApproval
  /\ NoMailWithoutApproval
  /\ MailSaysWhatWasApproved
  /\ SuppressionGate

\* Nothing happens any more to a request a human rejected.
RejectionIsFinal ==
  [][\A a \in Approvals :
       verdict[a] = "reject" =>
         /\ status'[a] = "rejected"
         /\ edited'[a] = edited[a]
         /\ mailed'[a] = mailed[a]]_vars

\* An approved reply is sent, or rejected because the lead is suppressed: as
\* long as the retries outlast the refusals (and no process is lost), the
\* retry policy gets it there.
ApprovedIsAnswered ==
  \A a \in Approvals :
    verdict[a] = "approve" ~> status[a] \in {"sent", "rejected"}

\* What the rows and the history say of a request, in the gate's terms.
DecisionOf(a) ==
  IF status[a] = "absent" THEN "unopened"
  ELSE IF verdict[a] = "none" THEN "pending"
  ELSE IF verdict[a] = "approve" THEN "approved" ELSE "rejected"

SettledText(a) == IF verdict[a] = "approve" THEN FinalBody(a) ELSE "noEdit"

Gate == INSTANCE ApprovalGate WITH
  Texts <- Bodies,
  NoText <- "noEdit",
  decision <- [a \in Approvals |-> DecisionOf(a)],
  settled <- [a \in Approvals |-> SettledText(a)],
  outbox <- bodies

\* The flow implements the gate: whatever the interleaving, the crashes and
\* the redeliveries, a request is decided once and only the text settled on
\* by an approval is ever mailed.
ImplementsGate == Gate!GateSpec
=============================================================================
