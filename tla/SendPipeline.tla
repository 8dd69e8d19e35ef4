---------------------------- MODULE SendPipeline ----------------------------
(***************************************************************************)
(* Cold emails from enrichment to dispatch: enrich_lead_task drafts a      *)
(* message, the spam guardian may hold it for review, POST /outbound/send  *)
(* enqueues send_email_task, and workers send it while leads unsubscribe,  *)
(* open what they received, bounce it, and processes crash                 *)
(* (app/tasks/celery_tasks.py, app/routers/outbound.py, tracking.py,       *)
(* suppression.py).                                                        *)
(*                                                                         *)
(* As in ApprovalFlow an action ends at a commit, an SMTP call or a        *)
(* publication.  The counters of the sender accounts belong to SenderPool: *)
(* the commits that write only them are not steps here.                    *)
(***************************************************************************)
EXTENDS Naturals

CONSTANTS Leads,
          Messages,     \* rows that can be created in email_messages
          LeadOf,       \* LeadOf[m]: the lead of message m
          WithVariant,  \* leads assigned to an A/B variant
          Workers,
          Unsubscribers, \* visits of the unsubscribe link at the same time
          MaxRetries,   \* max_retries of send_email_task
          MaxAttempts,  \* attempts of one SMTP call
          MaxRequests,  \* bound: POST /outbound/send per message
          MaxReviewers, \* bound: approve-review requests at the same time
          Budget        \* how many faults of each kind the environment has

FaultKinds == {"workerCrash", "redelivery", "refusal", "transient", "lostAck",
               "unanswered", "noHealthySender", "suppression", "llmError"}

ASSUME SendPipelineAssumption ==
  /\ LeadOf \in [Messages -> Leads]
  /\ WithVariant \subseteq Leads
  /\ MaxRetries \in Nat
  /\ MaxAttempts \in Nat \ {0}
  /\ MaxRequests \in Nat
  /\ MaxReviewers \in Nat
  /\ Budget \in [FaultKinds -> Nat]

Jobs == [msg : Messages, try : 0..MaxRetries]
NoJob == [msg |-> "none", try |-> 0]

\* What a visit of the unsubscribe link has read: the lead, whether it was opted
\* out and had a next date, and whether the list has an entry of its address.
Visits == [lead : Leads, out : BOOLEAN, dated : BOOLEAN,
           entry : {"unread", "none", "found"}]
NoVisit == [lead |-> "none", out |-> FALSE, dated |-> FALSE, entry |-> "unread"]

VARIABLES
  mstatus,     \* mstatus[m]: status of the message row
  flagged,     \* flagged[m]: spam_flagged
  opened,      \* messages whose opened_at is set
  lstatus,     \* lstatus[l]: status of the lead row
  armed,       \* leads whose next_follow_up_at is set
  suppressed,  \* leads whose address has a suppression entry
  drafting,    \* drafting[l]: status of l an enrich_lead_task has loaded
  reviewing,   \* reviewing[m]: handlers that have loaded m as NEEDS_REVIEW
  opening,     \* pairs <<m, lead was SENT>> the pixel handler has loaded
  leaving,     \* leaving[u]: the visit of the unsubscribe link u handles
  ready,       \* ready[j]: copies of task message j waiting in the broker
  wpc, wjob,   \* per worker: where it is, the task it runs
  wseen,       \* wseen[w]: message status the task loaded
  watt,        \* watt[w]: failed attempts of the SMTP call under way
  mailed,      \* mailed[m]: times the SMTP server accepted m
  reviews,     \* history: reviews[m], times a human cleared m from review
  requests,    \* history: requests[m], times m was enqueued by the API
  faults,      \* history: faults[m], events that can duplicate an email
  lost,        \* history: messages a worker crash interrupted
  disarmed,    \* history: leads whose date a visit cleared while they read SENT
  escaped,     \* history: messages whose last attempt raised what no handler catches
  late,        \* history: workers past their gate when the lead was suppressed
  budget

vars == <<mstatus, flagged, opened, lstatus, armed, suppressed, drafting, reviewing,
          opening, leaving, ready, wpc, wjob, wseen, watt, mailed, reviews, requests,
          faults, lost, disarmed, escaped, late, budget>>
messageVars == <<mstatus, flagged, opened>>
leadVars == <<lstatus, armed>>
handlers == <<reviewing, opening, leaving>>
workerVars == <<wpc, wjob, wseen, watt>>
mishaps == <<lost, disarmed, escaped>>
history == <<reviews, requests, faults, lost, disarmed, escaped>>

MessageStatuses == {"absent", "draft", "needs_review", "queued", "sent", "opened",
                    "bounced", "failed"}
LeadStatuses == {"new", "enriched", "sent", "opened", "opted_out"}
WorkerPC == {"idle", "loaded", "queued", "accepted", "counted", "refused", "retrying"}
PastGate == WorkerPC \ {"idle", "loaded"}

TypeOK ==
  /\ mstatus \in [Messages -> MessageStatuses]
  /\ flagged \in [Messages -> BOOLEAN]
  /\ opened \in SUBSET Messages
  /\ lstatus \in [Leads -> LeadStatuses]
  /\ armed \in SUBSET Leads
  /\ suppressed \in SUBSET Leads
  /\ drafting \in [Leads -> {"none", "enriched", "other"}]
  /\ reviewing \in [Messages -> 0..MaxReviewers]
  /\ opening \in SUBSET (Messages \X BOOLEAN)
  /\ leaving \in [Unsubscribers -> Visits \cup {NoVisit}]
  /\ ready \in [Jobs -> Nat]
  /\ wpc \in [Workers -> WorkerPC]
  /\ wjob \in [Workers -> Jobs \cup {NoJob}]
  /\ wseen \in [Workers -> {"none", "draft", "queued"}]
  /\ watt \in [Workers -> 0..MaxAttempts]
  /\ mailed \in [Messages -> Nat]
  /\ reviews \in [Messages -> Nat]
  /\ requests \in [Messages -> Nat]
  /\ faults \in [Messages -> Nat]
  /\ lost \in SUBSET Messages
  /\ disarmed \in SUBSET Leads
  /\ escaped \in SUBSET Messages
  /\ late \in SUBSET Workers
  /\ budget \in [FaultKinds -> Nat]

Init ==
  /\ mstatus = [m \in Messages |-> "absent"]
  /\ flagged = [m \in Messages |-> FALSE]
  /\ opened = {}
  /\ lstatus = [l \in Leads |-> "new"]
  /\ armed = {}
  /\ suppressed = {}
  /\ drafting = [l \in Leads |-> "none"]
  /\ reviewing = [m \in Messages |-> 0]
  /\ opening = {}
  /\ leaving = [u \in Unsubscribers |-> NoVisit]
  /\ ready = [j \in Jobs |-> 0]
  /\ wpc = [w \in Workers |-> "idle"]
  /\ wjob = [w \in Workers |-> NoJob]
  /\ wseen = [w \in Workers |-> "none"]
  /\ watt = [w \in Workers |-> 0]
  /\ mailed = [m \in Messages |-> 0]
  /\ reviews = [m \in Messages |-> 0]
  /\ requests = [m \in Messages |-> 0]
  /\ faults = [m \in Messages |-> 0]
  /\ lost = {}
  /\ disarmed = {}
  /\ escaped = {}
  /\ late = {}
  /\ budget = Budget

Spend(kind) ==
  /\ budget[kind] > 0
  /\ budget' = [budget EXCEPT ![kind] = @ - 1]

SetMessage(m, s) == mstatus' = [mstatus EXCEPT ![m] = s]
SetLead(l, s) == lstatus' = [lstatus EXCEPT ![l] = s]

(* Ends of a worker's step.                                                *)

Release(w) ==
  /\ wpc' = [wpc EXCEPT ![w] = "idle"]
  /\ wjob' = [wjob EXCEPT ![w] = NoJob]
  /\ wseen' = [wseen EXCEPT ![w] = "none"]
  /\ watt' = [watt EXCEPT ![w] = 0]
  /\ late' = late \ {w}

Goto(w, pc) ==
  /\ wpc' = [wpc EXCEPT ![w] = pc]
  /\ UNCHANGED <<wjob, wseen, late>>

Msg(w) == wjob[w].msg
LeadOfTask(w) == LeadOf[Msg(w)]

-----------------------------------------------------------------------------
(* Slips the properties have to catch: each is an operation further down    *)
(* with one plausible mistake.  No specification uses them; PROJECT.json    *)
(* pairs each with its property.                                            *)

\* Anything that has not left yet is accepted, a held message included.
RequestSendHeld(m) ==
  LET j == [msg |-> m, try |-> 0] IN
  /\ mstatus[m] \in {"draft", "needs_review"}
  /\ requests[m] < MaxRequests
  /\ requests' = [requests EXCEPT ![m] = @ + 1]
  /\ ready' = [ready EXCEPT ![j] = @ + 1]
  /\ UNCHANGED <<handlers, messageVars, leadVars, suppressed, drafting, workerVars,
                 mailed, reviews, faults, mishaps, late, budget>>

\* One request, two messages in the broker.
RequestSendTwice(m) ==
  LET j == [msg |-> m, try |-> 0] IN
  /\ mstatus[m] = "draft"
  /\ requests[m] < MaxRequests
  /\ requests' = [requests EXCEPT ![m] = @ + 1]
  /\ ready' = [ready EXCEPT ![j] = @ + 2]
  /\ UNCHANGED <<handlers, messageVars, leadVars, suppressed, drafting, workerVars,
                 mailed, reviews, faults, mishaps, late, budget>>

\* The suppression list is not asked.
MarkQueuedUnchecked(w) ==
  /\ wpc[w] = "loaded"
  /\ IF wseen[w] = "queued" THEN UNCHANGED mstatus ELSE SetMessage(Msg(w), "queued")
  /\ Goto(w, "queued")
  /\ UNCHANGED <<handlers, flagged, opened, leadVars, suppressed, drafting, ready, watt,
                 mailed, history, budget>>

\* The handler of NoHealthySenderError returns without a commit.
NoHealthySenderUnmarked(w) ==
  /\ wpc[w] = "queued"
  /\ watt[w] = 0
  /\ Spend("noHealthySender")
  /\ Release(w)
  /\ UNCHANGED <<handlers, messageVars, leadVars, suppressed, drafting, ready, mailed,
                 history>>

\* The last commit forgets the follow-up.
CommitUnarmed(w) ==
  /\ wpc[w] = "counted"
  /\ Release(w)
  /\ UNCHANGED <<handlers, messageVars, leadVars, suppressed, drafting, ready, mailed,
                 history, budget>>

\* The statuses are assigned after record_sent, and its commit misses them.
CommitCountOnly(w) ==
  /\ wpc[w] = "accepted"
  /\ LeadOfTask(w) \in WithVariant
  /\ Goto(w, "counted")
  /\ UNCHANGED <<handlers, messageVars, leadVars, suppressed, drafting, ready, watt,
                 mailed, history, budget>>

-----------------------------------------------------------------------------
(* enrich_lead_task: one at a time per lead here.                           *)

EnrichSuppressed(l) ==
  /\ l \in suppressed
  /\ drafting[l] = "none"
  /\ SetLead(l, "opted_out")
  /\ UNCHANGED <<handlers, messageVars, armed, suppressed, drafting, ready, workerVars,
                 mailed, history, late, budget>>

StartDrafting(l) ==
  /\ l \notin suppressed
  /\ drafting[l] = "none"
  /\ \E m \in Messages : LeadOf[m] = l /\ mstatus[m] = "absent"
  /\ drafting' = [drafting EXCEPT ![l] = IF lstatus[l] = "enriched" THEN "enriched" ELSE "other"]
  /\ UNCHANGED <<handlers, messageVars, leadVars, suppressed, ready, workerVars, mailed,
                 history, late, budget>>

\* LLMJSONError: nothing is committed, the retry starts from the beginning.
DraftingFails(l) ==
  /\ drafting[l] # "none"
  /\ Spend("llmError")
  /\ drafting' = [drafting EXCEPT ![l] = "none"]
  /\ UNCHANGED <<handlers, messageVars, leadVars, suppressed, ready, workerVars, mailed,
                 history, late>>

\* The draft and its spam verdict are committed together with the lead, which
\* becomes ENRICHED whatever it is by now, unless it was when it was loaded:
\* then its row is not touched.
SaveDraft(m, spam) ==
  /\ mstatus[m] = "absent"
  /\ drafting[LeadOf[m]] # "none"
  /\ drafting' = [drafting EXCEPT ![LeadOf[m]] = "none"]
  /\ SetMessage(m, IF spam THEN "needs_review" ELSE "draft")
  /\ flagged' = [flagged EXCEPT ![m] = spam]
  /\ IF drafting[LeadOf[m]] = "enriched" THEN UNCHANGED lstatus
                                      ELSE SetLead(LeadOf[m], "enriched")
  /\ UNCHANGED <<handlers, opened, armed, suppressed, ready, workerVars, mailed, history,
                 late, budget>>

-----------------------------------------------------------------------------
(* The outbound API.                                                        *)

LoadForReview(m) ==
  /\ mstatus[m] = "needs_review"
  /\ reviewing[m] < MaxReviewers
  /\ reviewing' = [reviewing EXCEPT ![m] = @ + 1]
  /\ UNCHANGED <<messageVars, leadVars, suppressed, drafting, opening, leaving,
                 ready, workerVars, mailed, history, late, budget>>

\* The commit of approve_review relies on the status it loaded.
ApproveReview(m) ==
  /\ reviewing[m] > 0
  /\ reviewing' = [reviewing EXCEPT ![m] = @ - 1]
  /\ SetMessage(m, "draft")
  /\ reviews' = [reviews EXCEPT ![m] = @ + 1]
  /\ UNCHANGED <<flagged, opened, leadVars, suppressed, drafting, opening, leaving,
                 ready, workerVars, mailed, requests, faults, mishaps, late, budget>>

\* POST /outbound/send: only a DRAFT is accepted, and it stays a DRAFT until a
\* worker gets to it, so it can be accepted again.
RequestSend(m) ==
  LET j == [msg |-> m, try |-> 0] IN
  /\ mstatus[m] = "draft"
  /\ requests[m] < MaxRequests
  /\ requests' = [requests EXCEPT ![m] = @ + 1]
  /\ ready' = [ready EXCEPT ![j] = @ + 1]
  /\ UNCHANGED <<handlers, messageVars, leadVars, suppressed, drafting, workerVars,
                 mailed, reviews, faults, mishaps, late, budget>>

-----------------------------------------------------------------------------
(* send_email_task.                                                         *)

Skip(w, j) ==
  /\ wpc[w] = "idle"
  /\ ready[j] > 0
  /\ mstatus[j.msg] \notin {"draft", "queued"}
  /\ ready' = [ready EXCEPT ![j] = @ - 1]
  /\ UNCHANGED <<handlers, messageVars, leadVars, suppressed, drafting, workerVars, mailed,
                 history, late, budget>>

Start(w, j) ==
  /\ wpc[w] = "idle"
  /\ ready[j] > 0
  /\ mstatus[j.msg] \in {"draft", "queued"}
  /\ ready' = [ready EXCEPT ![j] = @ - 1]
  /\ wpc' = [wpc EXCEPT ![w] = "loaded"]
  /\ wjob' = [wjob EXCEPT ![w] = j]
  /\ wseen' = [wseen EXCEPT ![w] = mstatus[j.msg]]
  /\ UNCHANGED <<handlers, messageVars, leadVars, suppressed, drafting, watt, mailed,
                 history, late, budget>>

RejectSuppressed(w) ==
  /\ wpc[w] = "loaded"
  /\ LeadOfTask(w) \in suppressed
  /\ SetMessage(Msg(w), "failed")
  /\ SetLead(LeadOfTask(w), "opted_out")
  /\ Release(w)
  /\ UNCHANGED <<handlers, flagged, opened, armed, suppressed, drafting, ready, mailed,
                 history, budget>>

\* QUEUED is written, and overwrites what another worker has made of the
\* message, unless QUEUED is what was loaded: then the row is not touched.
MarkQueued(w) ==
  /\ wpc[w] = "loaded"
  /\ LeadOfTask(w) \notin suppressed
  /\ IF wseen[w] = "queued" THEN UNCHANGED mstatus ELSE SetMessage(Msg(w), "queued")
  /\ Goto(w, "queued")
  /\ UNCHANGED <<handlers, flagged, opened, leadVars, suppressed, drafting, ready, watt,
                 mailed, history, budget>>

\* No healthy sender: FAILED, and no retry.
NoHealthySender(w) ==
  /\ wpc[w] = "queued"
  /\ watt[w] = 0
  /\ Spend("noHealthySender")
  /\ SetMessage(Msg(w), "failed")
  /\ Release(w)
  /\ UNCHANGED <<handlers, flagged, opened, leadVars, suppressed, drafting, ready, mailed,
                 history>>

SmtpAccept(w) ==
  /\ wpc[w] = "queued"
  /\ mailed' = [mailed EXCEPT ![Msg(w)] = @ + 1]
  /\ Goto(w, "accepted")
  /\ UNCHANGED <<handlers, messageVars, leadVars, suppressed, drafting, ready, watt,
                 history, budget>>

SmtpRefuse(w) ==
  /\ wpc[w] = "queued"
  /\ Spend("refusal")
  /\ Goto(w, "refused")
  /\ UNCHANGED <<handlers, messageVars, leadVars, suppressed, drafting, ready, watt, mailed,
                 history>>

\* The loop tries again; or, after its last attempt and for an error it does not
\* repeat (an unknown host, TLS, a connection an API drops), the exception escapes
\* from the task, whose handlers do not catch it: the message stays QUEUED.
NextAttempt(w) ==
  \/ /\ watt[w] + 1 < MaxAttempts
     /\ watt' = [watt EXCEPT ![w] = @ + 1]
     /\ Goto(w, "queued")
     /\ UNCHANGED escaped
  \/ /\ escaped' = escaped \cup {Msg(w)}
     /\ Release(w)

SmtpTransient(w) ==
  /\ wpc[w] = "queued"
  /\ Spend("transient")
  /\ NextAttempt(w)
  /\ UNCHANGED <<handlers, messageVars, leadVars, suppressed, drafting, ready, mailed,
                 reviews, requests, faults, lost, disarmed>>

\* Accepted, but the attempt ends in an error the loop tries again: the answer of
\* an API sender times out, or QUIT is answered with 421, 450 or 452.
SmtpLostAck(w) ==
  /\ wpc[w] = "queued"
  /\ Spend("lostAck")
  /\ mailed' = [mailed EXCEPT ![Msg(w)] = @ + 1]
  /\ faults' = [faults EXCEPT ![Msg(w)] = @ + 1]
  /\ NextAttempt(w)
  /\ UNCHANGED <<handlers, messageVars, leadVars, suppressed, drafting, ready, reviews,
                 requests, lost, disarmed>>

\* Accepted, but the connection is gone before the answer to DATA: an EmailSendError,
\* as if it had been refused.
SmtpAcceptedYetRefused(w) ==
  /\ wpc[w] = "queued"
  /\ Spend("unanswered")
  /\ mailed' = [mailed EXCEPT ![Msg(w)] = @ + 1]
  /\ faults' = [faults EXCEPT ![Msg(w)] = @ + 1]
  /\ Goto(w, "refused")
  /\ UNCHANGED <<handlers, messageVars, leadVars, suppressed, drafting, ready, watt,
                 reviews, requests, mishaps>>

\* A refused message is marked FAILED ...
MarkFailed(w) ==
  /\ wpc[w] = "refused"
  /\ SetMessage(Msg(w), "failed")
  /\ Goto(w, "retrying")
  /\ UNCHANGED <<handlers, flagged, opened, leadVars, suppressed, drafting, ready, watt,
                 mailed, history, budget>>

\* ... before the task is published again.
Retry(w) ==
  LET next == [wjob[w] EXCEPT !.try = @ + 1] IN
  /\ wpc[w] = "retrying"
  /\ ready' = IF wjob[w].try < MaxRetries
              THEN [ready EXCEPT ![next] = @ + 1] ELSE ready
  /\ Release(w)
  /\ UNCHANGED <<handlers, messageVars, leadVars, suppressed, drafting, mailed, history,
                 budget>>

\* A lead with a variant: record_sent commits before the follow-up is armed.
CommitSentCount(w) ==
  /\ wpc[w] = "accepted"
  /\ LeadOfTask(w) \in WithVariant
  /\ SetMessage(Msg(w), "sent")
  /\ SetLead(LeadOfTask(w), "sent")
  /\ Goto(w, "counted")
  /\ UNCHANGED <<handlers, flagged, opened, armed, suppressed, drafting, ready, watt,
                 mailed, history, budget>>

CommitArmed(w) ==
  /\ wpc[w] = "counted"
  /\ armed' = armed \cup {LeadOfTask(w)}
  /\ disarmed' = disarmed \ {LeadOfTask(w)}
  /\ Release(w)
  /\ UNCHANGED <<handlers, messageVars, lstatus, suppressed, drafting, ready, mailed,
                 reviews, requests, faults, lost, escaped, budget>>

\* Without a variant everything is in the last commit.
CommitSentAndArmed(w) ==
  /\ wpc[w] = "accepted"
  /\ LeadOfTask(w) \notin WithVariant
  /\ SetMessage(Msg(w), "sent")
  /\ SetLead(LeadOfTask(w), "sent")
  /\ armed' = armed \cup {LeadOfTask(w)}
  /\ disarmed' = disarmed \ {LeadOfTask(w)}
  /\ Release(w)
  /\ UNCHANGED <<handlers, flagged, opened, suppressed, drafting, ready, mailed,
                 reviews, requests, faults, lost, escaped, budget>>

-----------------------------------------------------------------------------
(* The prospect: tracking pixel, bounce, unsubscribe link.                  *)

\* The pixel handler loads the message and the lead ...
LoadOpen(m) ==
  /\ mailed[m] > 0
  /\ m \notin opened
  /\ opening' = opening \cup {<<m, lstatus[LeadOf[m]] = "sent">>}
  /\ UNCHANGED <<messageVars, leadVars, suppressed, drafting, reviewing, leaving,
                 ready, workerVars, mailed, history, late, budget>>

\* ... and commits what it decided from them.
TrackOpen(o) ==
  /\ o \in opening
  /\ opening' = opening \ {o}
  /\ opened' = opened \cup {o[1]}
  /\ SetMessage(o[1], "opened")
  /\ IF o[2] THEN SetLead(LeadOf[o[1]], "opened") ELSE UNCHANGED lstatus
  /\ UNCHANGED <<flagged, armed, suppressed, drafting, reviewing, leaving,
                 ready, workerVars, mailed, history, late, budget>>

\* The bounce report leaves the lead and the suppression list alone.
ReportBounce(m) ==
  /\ mailed[m] > 0
  /\ mstatus[m] # "bounced"
  /\ SetMessage(m, "bounced")
  /\ UNCHANGED <<handlers, flagged, opened, leadVars, suppressed, drafting, ready,
                 workerVars, mailed, history, late, budget>>

Suppress(l) ==
  /\ l \notin suppressed
  /\ Spend("suppression")
  /\ suppressed' = suppressed \cup {l}
  /\ late' = late \cup {w \in Workers : wpc[w] \in PastGate /\ LeadOfTask(w) = l}

\* The unsubscribe link, that works again and again, loads the lead ...
LoadUnsubscribe(u, l) ==
  /\ leaving[u] = NoVisit
  /\ leaving' = [leaving EXCEPT ![u] = [lead |-> l, out |-> lstatus[l] = "opted_out",
                                        dated |-> l \in armed, entry |-> "unread"]]
  /\ UNCHANGED <<reviewing, opening, messageVars, leadVars, suppressed, drafting, ready,
                 workerVars, mailed, history, late, budget>>

\* ... looks for an entry of its address ...
LookUpEntry(u) ==
  /\ leaving[u] # NoVisit
  /\ leaving[u].entry = "unread"
  /\ leaving' = [leaving EXCEPT ![u].entry =
                   IF leaving[u].lead \in suppressed THEN "found" ELSE "none"]
  /\ UNCHANGED <<reviewing, opening, messageVars, leadVars, suppressed, drafting, ready,
                 workerVars, mailed, history, late, budget>>

\* ... and commits what it changed since it loaded the lead: a status that was
\* OPTED_OUT and a date that was NULL are not written.
CommitUnsubscribe(u) ==
  LET l == leaving[u].lead IN
  /\ \/ leaving[u].entry = "none" /\ Suppress(l)
     \/ leaving[u].entry = "found" /\ UNCHANGED <<suppressed, late, budget>>
  /\ IF leaving[u].out THEN UNCHANGED lstatus ELSE SetLead(l, "opted_out")
  /\ armed' = IF leaving[u].dated THEN armed \ {l} ELSE armed
  /\ disarmed' = IF leaving[u].dated /\ lstatus'[l] = "sent"
                 THEN disarmed \cup {l} ELSE disarmed
  /\ leaving' = [leaving EXCEPT ![u] = NoVisit]
  /\ UNCHANGED <<reviewing, opening, messageVars, drafting, ready, workerVars, mailed,
                 reviews, requests, faults, lost, escaped>>

\* Another entry of the address was added meanwhile: the unique constraint refuses
\* the insert, and nothing is committed.
UnsubscribeClash(u) ==
  /\ leaving[u].entry = "none"
  /\ leaving[u].lead \in suppressed
  /\ leaving' = [leaving EXCEPT ![u] = NoVisit]
  /\ UNCHANGED <<reviewing, opening, messageVars, leadVars, suppressed, drafting, ready,
                 workerVars, mailed, history, late, budget>>

\* POST /suppression: the lead itself is left alone.
AddSuppression(l) ==
  /\ Suppress(l)
  /\ UNCHANGED <<handlers, messageVars, leadVars, drafting, ready, workerVars, mailed,
                 history>>

RemoveSuppression(l) ==
  /\ l \in suppressed
  /\ suppressed' = suppressed \ {l}
  /\ UNCHANGED <<handlers, messageVars, leadVars, drafting, ready, workerVars, mailed,
                 history, late, budget>>

-----------------------------------------------------------------------------
(* Crashes and the broker, as in ApprovalFlow.                              *)

WorkerCrash(w) ==
  LET j == wjob[w] IN
  /\ wpc[w] # "idle"
  /\ Spend("workerCrash")
  /\ lost' = lost \cup {j.msg}
  /\ \/ /\ ready' = [ready EXCEPT ![j] = @ + 1]
        /\ faults' = [faults EXCEPT ![j.msg] = @ + 1]
     \/ UNCHANGED <<ready, faults>>
  /\ Release(w)
  /\ UNCHANGED <<handlers, messageVars, leadVars, suppressed, drafting, mailed, reviews,
                 requests, disarmed, escaped>>

Redeliver(w) ==
  /\ wpc[w] # "idle"
  /\ Spend("redelivery")
  /\ ready' = [ready EXCEPT ![wjob[w]] = @ + 1]
  /\ faults' = [faults EXCEPT ![Msg(w)] = @ + 1]
  /\ UNCHANGED <<handlers, messageVars, leadVars, suppressed, drafting, workerVars, mailed,
                 reviews, requests, mishaps, late>>

-----------------------------------------------------------------------------
Enrich(l) ==
  \/ EnrichSuppressed(l) \/ StartDrafting(l) \/ DraftingFails(l)
  \/ \E m \in Messages, spam \in BOOLEAN : LeadOf[m] = l /\ SaveDraft(m, spam)

WorkerStep(w) ==
  \/ RejectSuppressed(w) \/ MarkQueued(w) \/ NoHealthySender(w)
  \/ SmtpAccept(w) \/ SmtpRefuse(w) \/ SmtpTransient(w) \/ SmtpLostAck(w)
  \/ SmtpAcceptedYetRefused(w)
  \/ MarkFailed(w) \/ Retry(w)
  \/ CommitSentCount(w) \/ CommitArmed(w) \/ CommitSentAndArmed(w)

Unsubscribe(u) ==
  \/ \E l \in Leads : LoadUnsubscribe(u, l)
  \/ LookUpEntry(u) \/ CommitUnsubscribe(u) \/ UnsubscribeClash(u)

Next ==
  \/ \E l \in Leads : Enrich(l) \/ AddSuppression(l) \/ RemoveSuppression(l)
  \/ \E u \in Unsubscribers : Unsubscribe(u)
  \/ \E m \in Messages :
       \/ LoadForReview(m) \/ ApproveReview(m) \/ RequestSend(m)
       \/ LoadOpen(m) \/ ReportBounce(m)
  \/ \E o \in opening : TrackOpen(o)
  \/ \E w \in Workers, j \in Jobs : Skip(w, j) \/ Start(w, j)
  \/ \E w \in Workers : WorkerStep(w) \/ WorkerCrash(w) \/ Redeliver(w)

Spec == Init /\ [][Next]_vars

\* A task that runs goes on, a waiting one is taken when a worker is free.
Fairness ==
  /\ \A w \in Workers : WF_vars(WorkerStep(w))
  /\ \A j \in Jobs : WF_vars(\E w \in Workers : Skip(w, j) \/ Start(w, j))

FairSpec == Spec /\ Fairness

-----------------------------------------------------------------------------
(* Properties.                                                              *)

\* "a flagged draft can never reach the sending queue without a human
\* clearing it" (outbound.py:8-9), nor the prospect.
ReviewBeforeSend ==
  \A m \in Messages :
    flagged[m] /\ (mailed[m] > 0 \/ \E j \in Jobs : j.msg = m /\ ready[j] > 0)
      => reviews[m] > 0

\* Every email answers a click on send or an event that duplicates a task:
\* the worker's own retries never add one.
OneMailPerRequest ==
  \A m \in Messages : mailed[m] <= requests[m] + faults[m]

\* m was requested and reviewed at most once, no event lost or duplicated its
\* task, and the task is not running.
Undisturbed(m) ==
  /\ requests[m] <= 1 /\ reviews[m] <= 1
  /\ faults[m] = 0 /\ m \notin lost
  /\ \A w \in Workers : Msg(w) # m

\* The row of an undisturbed message tells what happened to the email: a
\* delivered one reads SENT or later, a FAILED one never left.
StatusTellsTheTruth ==
  \A m \in Messages :
    Undisturbed(m) =>
      /\ mailed[m] > 0 <=> mstatus[m] \in {"sent", "opened", "bounced"}
      /\ mstatus[m] = "failed" => mailed[m] = 0

\* The first follow-up of a lead that reads SENT is armed, unless a worker is about
\* to arm it or crashed before it could, or a visit of the unsubscribe link, that had
\* loaded the lead as OPTED_OUT, cleared only the date.
SentLeadIsArmed ==
  \A l \in Leads :
    lstatus[l] = "sent" =>
      \/ l \in armed
      \/ l \in disarmed
      \/ \E w \in Workers : wpc[w] = "counted" /\ LeadOfTask(w) = l
      \/ \E m \in lost : LeadOf[m] = l

\* A worker that can still mail a suppressed lead passed its check before the
\* entry was added.
SuppressionGate ==
  \A w \in Workers :
    wpc[w] \in PastGate /\ LeadOfTask(w) \in suppressed => w \in late

\* A worker has a task, unless it waits for one.
Waiting(m) == \E j \in Jobs : j.msg = m /\ ready[j] > 0
Running(m) == \E w \in Workers : wpc[w] # "idle" /\ Msg(w) = m
WorkersHaveTasks == \A w \in Workers : wpc[w] # "idle" => wjob[w] \in Jobs

\* A message that has not been drafted is nobody's business.
UndraftedIsUntouched ==
  \A m \in Messages :
    mstatus[m] = "absent" =>
      /\ ~flagged[m] /\ mailed[m] = 0 /\ reviewing[m] = 0
      /\ \A sent \in BOOLEAN : <<m, sent>> \notin opening
      /\ ~Waiting(m) /\ ~Running(m)

\* What was flagged and no human has cleared is held, at every place on its way.
UnreviewedIsHeld ==
  \A m \in Messages :
    flagged[m] /\ reviews[m] = 0 =>
      /\ mstatus[m] = "needs_review" /\ mailed[m] = 0
      /\ \A sent \in BOOLEAN : <<m, sent>> \notin opening
      /\ ~Waiting(m) /\ ~Running(m)

\* What the processes of the pipeline hold: a task, if they run, of a message that was
\* drafted; and of a suppressed lead only if its entry came after the check.
GateInv ==
  /\ TypeOK
  /\ WorkersHaveTasks
  /\ UndraftedIsUntouched
  /\ SuppressionGate

\* The gates of the pipeline: every step keeps them together.
SendInv ==
  /\ GateInv
  /\ UnreviewedIsHeld
  /\ ReviewBeforeSend
  /\ SentLeadIsArmed

Settled(m) == mstatus[m] \in {"sent", "opened", "bounced", "failed"}

\* Somebody sees to a message that reads QUEUED: its task waits in the broker or a
\* worker runs it and will write the row again, unless a crash interrupted a task of it
\* or a last attempt raised what no handler of the task catches.
QueuedIsUnderWay ==
  \A m \in Messages :
    mstatus[m] = "queued" =>
      \/ Waiting(m)
      \/ \E w \in Workers : Msg(w) = m /\ wpc[w] \in {"loaded", "queued", "accepted", "refused"}
      \/ m \in lost \cup escaped

\* "EmailSendError if the send itself fails after retries - callers should mark the
\* message FAILED and let a human/retry policy handle it" (sender_rotation.py:184-186):
\* without a crash no message stays QUEUED.
FailedSendIsMarked ==
  \A m \in Messages : mstatus[m] = "queued" ~> Settled(m) \/ m \in lost

\* "send failed, retrying" (celery_tasks.py:181): while a refusal leaves
\* retries, and the lead is not suppressed, the message ends up sent.
RefusedIsRetried ==
  \A m \in Messages :
    (\E w \in Workers : wpc[w] = "refused" /\ Msg(w) = m /\ wjob[w].try < MaxRetries)
      ~> (mailed[m] > 0 \/ LeadOf[m] \in suppressed)
=============================================================================
