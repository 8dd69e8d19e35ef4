----------------------------- MODULE ReplyIntake -----------------------------
(***************************************************************************)
(* Replies from the mailbox or the webhook to a classified reply and, for  *)
(* a positive one, a request for approval: poll_imap_task, POST            *)
(* /inbound/webhook and triage_reply_task                                  *)
(* (app/services/imap_listener.py, app/services/sentiment.py,              *)
(* app/routers/inbound.py, app/tasks/celery_tasks.py).                     *)
(*                                                                         *)
(* Reading a message marks it seen on the server, long before its Reply is *)
(* committed, and a Reply is committed before its triage is published.     *)
(* Replies are told apart by imap_uid, which holds the message's sequence  *)
(* number: imap.search and imap.fetch are not their UID forms, so that     *)
(* removing a message from the mailbox renumbers the later ones.           *)
(***************************************************************************)
EXTENDS Naturals, FiniteSets, Sequences

CONSTANTS Leads,
          Mails,        \* messages prospects write
          SenderOf,     \* SenderOf[m]: the lead that wrote m, or Stranger
          Stranger,
          Blank,        \* messages without a text/plain part
          Polls,        \* executions of poll_imap_task under way
          Workers,      \* executions of triage_reply_task under way
          MaxCopies,    \* bound: rows made of one message
          Together      \* bound: sets of events of which one behaviour suffers at most
                        \* all, each once

EventKinds == {"pollOverlap", "fetchError", "pollCrash", "expunge", "push", "hookCrash",
               "unsubscribe", "llmError", "workerCrash", "redelivery", "lateSend"}

ASSUME ReplyAssumption ==
  /\ Stranger \notin Leads
  /\ SenderOf \in [Mails -> Leads \cup {Stranger}]
  /\ Blank \subseteq Mails
  /\ MaxCopies \in Nat \ {0}
  /\ Together \subseteq SUBSET EventKinds

Copies == 1..MaxCopies
Ids == Mails \X Copies            \* primary keys of replies: copy c of message m
Nothing == <<"none", 0>>
Found == Mails \X (Nat \ {0})    \* a message and its number in a session
LeadOf(id) == SenderOf[id[1]]

Sentiments == {"unset", "negative", "objection", "positive"}
Rows == [there : BOOLEAN, num : Nat, sentiment : Sentiments, request : BOOLEAN]
PollStates == [pc : {"idle", "fetching", "storing", "publishing"},
               todo : SUBSET Found, got : SUBSET Found, ids : SUBSET Ids]
LeadStatuses == {"sent", "replied", "opted_out"}
TriageStates == [pc : {"idle", "classify", "optout", "crm", "gate", "notified"},
                 id : Ids \cup {Nothing}, seen : Sentiments, was : LeadStatuses \cup {"none"},
                 dirty : BOOLEAN]

VARIABLES
  box,         \* the mailbox, in the order of its sequence numbers
  unseen,      \* messages of it without the \Seen flag
  arrived,     \* messages that have been written
  row,         \* row[id]: a replies row, its imap_uid (0 from the webhook), its
               \* sentiment, whether its approval request is committed
  pushing,     \* rows the webhook handler has committed and not published
  queue,       \* queue[id]: triage tasks in the broker
  lstatus,     \* lstatus[l]: status of the lead; "sent" is SENT or OPENED, which the
               \* sequence follows alike
  withVariant, \* leads assigned to an A/B variant, once, before the first email
  suppressed,  \* leads on the suppression list
  poll,        \* poll[p]: where it is, messages found, fetched, rows to publish
  task,        \* task[w]: where it is, its reply, the sentiment and the lead status it
               \* loaded, whether its outcome is still uncommitted
  notified,    \* history: rows whose request a human was told of
  moved,       \* history: messages whose sequence number has changed
  lost,        \* history: messages a poll dropped
  cut,         \* history: rows whose way was cut off by an error or a crash
  again,       \* history: rows whose triage was delivered again
  crossed,     \* history: leads a send or an open put back into the sequence
  spent        \* events that have happened

intake == <<box, unseen, arrived, pushing, poll>>
triage == <<lstatus, suppressed, task, notified>>
still == <<withVariant, crossed>>
history == <<still, moved, lost, cut, again>>
vars == <<intake, row, queue, triage, history, spent>>

TypeOK ==
  /\ box \in Seq(Mails)
  /\ unseen \in SUBSET Mails
  /\ arrived \in SUBSET Mails
  /\ row \in [Ids -> Rows]
  /\ pushing \in SUBSET Ids
  /\ queue \in [Ids -> Nat]
  /\ lstatus \in [Leads -> LeadStatuses]
  /\ suppressed \in SUBSET Leads
  /\ poll \in [Polls -> PollStates]
  /\ task \in [Workers -> TriageStates]
  /\ notified \in SUBSET Ids
  /\ withVariant \in SUBSET Leads
  /\ moved \in SUBSET Mails
  /\ lost \in SUBSET Mails
  /\ cut \in SUBSET Ids
  /\ again \in SUBSET Ids
  /\ crossed \in SUBSET Leads
  /\ spent \in SUBSET EventKinds

NoPoll == [pc |-> "idle", todo |-> {}, got |-> {}, ids |-> {}]
NoTask == [pc |-> "idle", id |-> Nothing, seen |-> "unset", was |-> "none",
           dirty |-> FALSE]
NoRow == [there |-> FALSE, num |-> 0, sentiment |-> "unset", request |-> FALSE]

Init ==
  /\ box = <<>>
  /\ unseen = {}
  /\ arrived = {}
  /\ row = [id \in Ids |-> NoRow]
  /\ pushing = {}
  /\ queue = [id \in Ids |-> 0]
  /\ lstatus = [l \in Leads |-> "sent"]
  /\ suppressed = {}
  /\ poll = [p \in Polls |-> NoPoll]
  /\ task = [w \in Workers |-> NoTask]
  /\ notified = {}
  /\ withVariant \in SUBSET Leads
  /\ moved = {}
  /\ lost = {}
  /\ cut = {}
  /\ again = {}
  /\ crossed = {}
  /\ spent = {}

Spend(kind) ==
  /\ kind \notin spent
  /\ spent' = spent \cup {kind}
  /\ \E events \in Together : spent' \subseteq events

RowsOf(m) == {id \in Ids : id[1] = m /\ row[id].there}
FreeCopies(m) == {id \in Ids : id[1] = m /\ ~row[id].there}
FreeCopy(m) == CHOOSE id \in FreeCopies(m) : TRUE
Numbers == {row[id].num : id \in {i \in Ids : row[i].there}}

-----------------------------------------------------------------------------
(* Slips the properties have to catch, used by no specification: each is a   *)
(* definition further down with one plausible mistake.                       *)

NewByLead(found) ==
  {f \in found : SenderOf[f[1]] \in Leads /\ f[1] \notin Blank
                 /\ \A id \in Ids : row[id].there => LeadOf(id) # SenderOf[f[1]]}
NeverClashes(found) == FALSE
ListedIfSent(l) == IF lstatus[l] = "sent" THEN suppressed \cup {l} ELSE suppressed
RequestForgotten(x) ==
  IF x.dirty THEN [row EXCEPT ![x.id].sentiment = "positive"] ELSE row
GatedByLead(w) ==
  \E v \in Workers \ {w} : task[v].pc \in {"gate", "notified"}
                           /\ LeadOf(task[v].id) = LeadOf(task[w].id)

-----------------------------------------------------------------------------
(* The mailbox.                                                             *)

Receive(m) ==
  /\ m \notin arrived
  /\ arrived' = arrived \cup {m}
  /\ box' = Append(box, m)
  /\ unseen' = unseen \cup {m}
  /\ UNCHANGED <<row, pushing, queue, poll, triage, history, spent>>

\* Somebody removes a message that was read: the later ones get new numbers.
Expunge(i) ==
  /\ Spend("expunge")
  /\ box[i] \notin unseen
  /\ box' = SubSeq(box, 1, i - 1) \o SubSeq(box, i + 1, Len(box))
  /\ moved' = moved \cup {box[k] : k \in (i + 1)..Len(box)}
  /\ UNCHANGED <<unseen, arrived, row, pushing, queue, poll, triage, still, lost, cut, again>>

-----------------------------------------------------------------------------
(* poll_imap_task.                                                          *)

Move(p, x) == poll' = [poll EXCEPT ![p] = x]

BeginPoll(p) ==
  /\ poll[p].pc = "idle"
  /\ unseen # {}
  /\ IF \A q \in Polls : poll[q].pc = "idle" THEN UNCHANGED spent ELSE Spend("pollOverlap")
  /\ Move(p, [NoPoll EXCEPT !.pc = "fetching",
                !.todo = {<<box[i], i>> : i \in {k \in DOMAIN box : box[k] \in unseen}}])
  /\ UNCHANGED <<box, unseen, arrived, row, pushing, queue, triage, history>>

\* RFC822 sets \Seen.
Fetch(p, f) ==
  /\ poll[p].pc = "fetching" /\ f \in poll[p].todo
  /\ unseen' = unseen \ {f[1]}
  /\ Move(p, [poll[p] EXCEPT !.todo = @ \ {f}, !.got = @ \cup {f}])
  /\ UNCHANGED <<box, arrived, row, pushing, queue, triage, history, spent>>

\* Known senders, numbers no row has, something to read.
New(found) ==
  {f \in found : SenderOf[f[1]] \in Leads /\ f[2] \notin Numbers /\ f[1] \notin Blank}
Ours(found) == {f[1] : f \in {g \in found : SenderOf[g[1]] \in Leads}}

\* The rows are looked up and flushed one by one; a message whose number has been
\* used before is taken for one that was stored.
LookUp(p) ==
  /\ poll[p].pc = "fetching" /\ poll[p].todo = {}
  /\ Move(p, [poll[p] EXCEPT !.pc = "storing", !.got = New(@)])
  /\ lost' = lost \cup {m \in Ours(poll[p].got \ New(poll[p].got)) : RowsOf(m) = {}}
  /\ UNCHANGED <<box, unseen, arrived, row, pushing, queue, triage, still, moved, cut,
                 again, spent>>

\* The unique index on imap_uid.
Clashes(found) == \E f \in found : f[2] \in Numbers

Store(p) ==
  LET found == poll[p].got
      ids == {FreeCopy(f[1]) : f \in found}
      num(id) == (CHOOSE f \in found : f[1] = id[1])[2]
  IN
  /\ poll[p].pc = "storing"
  /\ \A f \in found : FreeCopies(f[1]) # {}
  /\ ~Clashes(found)
  /\ row' = [id \in Ids |-> IF id \in ids THEN [NoRow EXCEPT !.there = TRUE, !.num = num(id)]
                                         ELSE row[id]]
  /\ Move(p, IF ids = {} THEN NoPoll ELSE [NoPoll EXCEPT !.pc = "publishing", !.ids = ids])
  /\ UNCHANGED <<box, unseen, arrived, pushing, queue, triage, history, spent>>

\* IntegrityError, which the task does not catch: the whole batch is rolled back.
StoreClash(p) ==
  /\ poll[p].pc = "storing"
  /\ Clashes(poll[p].got)
  /\ lost' = lost \cup {m \in Ours(poll[p].got) : RowsOf(m) = {}}
  /\ Move(p, NoPoll)
  /\ UNCHANGED <<box, unseen, arrived, row, pushing, queue, triage, still, moved, cut,
                 again, spent>>

Published(ids) == [id \in Ids |-> IF id \in ids THEN queue[id] + 1 ELSE queue[id]]

Publish(p, id) ==
  /\ poll[p].pc = "publishing" /\ id \in poll[p].ids
  /\ queue' = Published({id})
  /\ Move(p, IF poll[p].ids = {id} THEN NoPoll ELSE [poll[p] EXCEPT !.ids = @ \ {id}])
  /\ UNCHANGED <<box, unseen, arrived, row, pushing, triage, history, spent>>

\* The connection breaks: what was fetched is dropped, here or by the retry, whose
\* search finds only the rest.
FetchError(p) ==
  /\ poll[p].pc = "fetching"
  /\ Spend("fetchError")
  /\ lost' = lost \cup {m \in Ours(poll[p].got) : RowsOf(m) = {}}
  /\ Move(p, NoPoll)
  /\ UNCHANGED <<box, unseen, arrived, row, pushing, queue, triage, still, moved, cut, again>>

PollCrash(p) ==
  /\ poll[p].pc # "idle"
  /\ Spend("pollCrash")
  /\ lost' = lost \cup {m \in Ours(poll[p].got) : RowsOf(m) = {}}
  /\ cut' = cut \cup poll[p].ids
  /\ Move(p, NoPoll)
  /\ UNCHANGED <<box, unseen, arrived, row, pushing, queue, triage, still, moved, again>>

-----------------------------------------------------------------------------
(* POST /inbound/webhook: a row without imap_uid, never looked up.          *)

Push(m) ==
  /\ Spend("push")
  /\ SenderOf[m] \in Leads
  /\ FreeCopies(m) # {}
  /\ row' = [row EXCEPT ![FreeCopy(m)].there = TRUE]
  /\ pushing' = pushing \cup {FreeCopy(m)}
  /\ UNCHANGED <<box, unseen, arrived, queue, poll, triage, history>>

PushPublished(id) ==
  /\ id \in pushing
  /\ queue' = Published({id})
  /\ pushing' = pushing \ {id}
  /\ UNCHANGED <<box, unseen, arrived, row, poll, triage, history, spent>>

PushCrash(id) ==
  /\ id \in pushing
  /\ Spend("hookCrash")
  /\ pushing' = pushing \ {id}
  /\ cut' = cut \cup {id}
  /\ UNCHANGED <<box, unseen, arrived, row, queue, poll, triage, still, moved, lost, again>>

-----------------------------------------------------------------------------
(* triage_reply_task.                                                       *)

Go(w, pc) == task' = [task EXCEPT ![w].pc = pc]
Done(w) == task' = [task EXCEPT ![w] = NoTask] /\ UNCHANGED queue
Hit(w) == cut' = cut \cup {task[w].id}

\* The two columns a triage writes; one whose loaded value is set again is not
\* written.  A flushed outcome holds the lead's row until it is committed.
Written(w, sentiment, status) ==
  LET id == task[w].id IN
  /\ \A v \in Workers \ {w} :
       task[v].pc = "notified" /\ task[v].dirty => LeadOf(task[v].id) # LeadOf(id)
  /\ row' = [row EXCEPT ![id].sentiment = IF task[w].seen = sentiment THEN @ ELSE sentiment]
  /\ lstatus' = [lstatus EXCEPT ![LeadOf(id)] = IF task[w].was = status THEN @ ELSE status]

\* What record_reply's commit expires, raw_body reads again, and the lead with it.
Take(w, id) ==
  /\ queue[id] > 0
  /\ task[w].pc = "idle"
  /\ queue' = [queue EXCEPT ![id] = @ - 1]
  /\ task' = [task EXCEPT ![w] =
       [pc |-> "classify", id |-> id, seen |-> row[id].sentiment, dirty |-> FALSE,
        was |-> lstatus[LeadOf(id)]]]
  /\ UNCHANGED <<intake, row, lstatus, suppressed, notified, history, spent>>

\* The error is logged and the task ends well.
ClassifyFails(w) ==
  /\ task[w].pc = "classify"
  /\ Spend("llmError")
  /\ Done(w) /\ Hit(w)
  /\ UNCHANGED <<intake, row, lstatus, suppressed, notified, still, moved, lost, again>>

Listed(l) == suppressed \cup {l}

\* add_to_suppression: the address is looked up; the entry, the sentiment and the
\* status are one commit.
Negative(w) ==
  /\ task[w].pc = "classify"
  /\ LeadOf(task[w].id) \notin suppressed
  /\ Go(w, "optout")
  /\ UNCHANGED <<intake, row, queue, lstatus, suppressed, notified, history, spent>>

NegativeAndListed(w) ==
  /\ task[w].pc = "classify"
  /\ LeadOf(task[w].id) \in suppressed
  /\ Written(w, "negative", "opted_out")
  /\ Done(w)
  /\ UNCHANGED <<intake, suppressed, notified, history, spent>>

CommitOptOut(w) ==
  /\ task[w].pc = "optout"
  /\ LeadOf(task[w].id) \notin suppressed
  /\ suppressed' = Listed(LeadOf(task[w].id))
  /\ Written(w, "negative", "opted_out")
  /\ Done(w)
  /\ UNCHANGED <<intake, notified, history, spent>>

\* Somebody else has listed the address since: IntegrityError, nothing is written.
OptOutClash(w) ==
  /\ task[w].pc = "optout"
  /\ LeadOf(task[w].id) \in suppressed
  /\ Done(w) /\ Hit(w)
  /\ UNCHANGED <<intake, row, lstatus, suppressed, notified, still, moved, lost, again,
                 spent>>

Objection(w) ==
  /\ task[w].pc = "classify"
  /\ Written(w, "objection", "replied")
  /\ Done(w)
  /\ UNCHANGED <<intake, suppressed, notified, history, spent>>

\* record_positive commits when the lead has a variant, and the CRM sync when it
\* succeeds; otherwise the outcome waits for the last commit.
Positive(w) ==
  /\ task[w].pc = "classify"
  /\ IF LeadOf(task[w].id) \in withVariant
     THEN Written(w, "positive", "replied") /\ Go(w, "crm")
     ELSE /\ UNCHANGED <<row, lstatus>>
          /\ task' = [task EXCEPT ![w].pc = "crm", ![w].dirty = TRUE]
  /\ UNCHANGED <<intake, queue, suppressed, notified, history, spent>>

Synced(w) ==
  /\ task[w].pc = "crm"
  /\ IF task[w].dirty THEN Written(w, "positive", "replied") ELSE UNCHANGED <<row, lstatus>>
  /\ task' = [task EXCEPT ![w].pc = "gate", ![w].dirty = FALSE]
  /\ UNCHANGED <<intake, queue, suppressed, notified, history, spent>>

NotSynced(w) ==
  /\ task[w].pc = "crm"
  /\ Go(w, "gate")
  /\ UNCHANGED <<intake, row, queue, lstatus, suppressed, notified, history, spent>>

\* The row is flushed first: a second request for the reply waits on the unique
\* index for the outcome of the first.
Gated(w) ==
  \E v \in Workers \ {w} : task[v].pc = "notified" /\ task[v].id = task[w].id

\* A human is told before the request is committed.
OpenGate(w) ==
  /\ task[w].pc = "gate"
  /\ ~Gated(w)
  /\ ~row[task[w].id].request
  /\ notified' = notified \cup {task[w].id}
  /\ Go(w, "notified")
  /\ UNCHANGED <<intake, row, queue, lstatus, suppressed, history, spent>>

\* The unique index on reply_id; what was not committed is rolled back.
GateClash(w) ==
  /\ task[w].pc = "gate"
  /\ row[task[w].id].request
  /\ Done(w)
  /\ UNCHANGED <<intake, row, lstatus, suppressed, notified, history, spent>>

Requested(x) ==
  [row EXCEPT ![x.id].request = TRUE,
              ![x.id].sentiment = IF x.dirty /\ x.seen # "positive" THEN "positive" ELSE @]

CommitGate(w) ==
  LET x == task[w] IN
  /\ x.pc = "notified"
  /\ row' = Requested(x)
  /\ lstatus' = [lstatus EXCEPT ![LeadOf(x.id)] = IF x.dirty /\ x.was # "replied"
                                                  THEN "replied" ELSE @]
  /\ Done(w)
  /\ UNCHANGED <<intake, suppressed, notified, history, spent>>

\* The unacknowledged message comes back, or was acknowledged for the dead child.
WorkerCrash(w, back) ==
  /\ task[w].pc # "idle"
  /\ Spend("workerCrash")
  /\ task' = [task EXCEPT ![w] = NoTask]
  /\ queue' = IF back THEN Published({task[w].id}) ELSE queue
  /\ again' = IF back THEN again \cup {task[w].id} ELSE again
  /\ IF back THEN UNCHANGED cut ELSE Hit(w)
  /\ UNCHANGED <<intake, row, lstatus, suppressed, notified, still, moved, lost>>

Redeliver(w) ==
  /\ task[w].pc # "idle"
  /\ Spend("redelivery")
  /\ queue' = Published({task[w].id})
  /\ again' = again \cup {task[w].id}
  /\ UNCHANGED <<intake, row, lstatus, suppressed, task, notified, still, moved, lost, cut>>

-----------------------------------------------------------------------------
(* Others who write the status of a lead.                                   *)

Unlocked(l) ==
  \A w \in Workers : task[w].pc = "notified" /\ task[w].dirty => LeadOf(task[w].id) # l

\* The commit of a visit of the unsubscribe link.  (One that had loaded OPTED_OUT, or
\* is not the first to list the address, writes neither.)
Unsubscribe(l) ==
  /\ Spend("unsubscribe")
  /\ Unlocked(l)
  /\ lstatus' = [lstatus EXCEPT ![l] = "opted_out"]
  /\ suppressed' = Listed(l)
  /\ UNCHANGED <<intake, row, queue, task, notified, history>>

\* send_email_task commits SENT whatever the lead reads by now, the pixel commits
\* OPENED if it had loaded SENT.  (Where the lead is followed anyway, they change
\* nothing.)
LateSend(l) ==
  /\ Spend("lateSend")
  /\ Unlocked(l)
  /\ lstatus[l] # "sent"
  /\ lstatus' = [lstatus EXCEPT ![l] = "sent"]
  /\ crossed' = crossed \cup {l}
  /\ UNCHANGED <<intake, row, queue, suppressed, task, notified, withVariant, moved, lost, cut,
                 again>>

-----------------------------------------------------------------------------
PollStep(p) ==
  \/ BeginPoll(p)
  \/ \E f \in poll[p].todo : Fetch(p, f)
  \/ LookUp(p)
  \/ Store(p)
  \/ StoreClash(p)
  \/ \E id \in Ids : Publish(p, id)

TriageStep(w) ==
  \/ \E id \in Ids : Take(w, id)
  \/ Negative(w) \/ NegativeAndListed(w) \/ CommitOptOut(w) \/ OptOutClash(w)
  \/ Objection(w)
  \/ Positive(w) \/ Synced(w) \/ NotSynced(w)
  \/ OpenGate(w) \/ GateClash(w) \/ CommitGate(w)

Disturbance ==
  \/ \E i \in DOMAIN box : Expunge(i)
  \/ \E p \in Polls : FetchError(p) \/ PollCrash(p)
  \/ \E m \in Mails : Push(m)
  \/ \E id \in Ids : PushCrash(id)
  \/ \E w \in Workers : \/ ClassifyFails(w) \/ Redeliver(w)
                        \/ \E back \in BOOLEAN : WorkerCrash(w, back)
  \/ \E l \in Leads : Unsubscribe(l) \/ LateSend(l)

Next ==
  \/ \E m \in Mails : Receive(m)
  \/ \E p \in Polls : PollStep(p)
  \/ \E id \in Ids : PushPublished(id)
  \/ \E w \in Workers : TriageStep(w)
  \/ Disturbance

Spec == Init /\ [][Next]_vars

\* Beat polls again and again; the processes go on with what they have begun.
Fairness ==
  /\ \A p \in Polls : WF_vars(PollStep(p))
  /\ \A id \in Ids : WF_vars(PushPublished(id))
  /\ \A w \in Workers : WF_vars(TriageStep(w))

FairSpec == Spec /\ Fairness

-----------------------------------------------------------------------------
Known(m) == SenderOf[m] \in Leads
InHands(m) == \E p \in Polls : \E f \in poll[p].got : f[1] = m
Troubles == {"pollOverlap", "fetchError", "pollCrash", "expunge"}
AtRest(id) ==
  /\ row[id].there /\ queue[id] = 0 /\ id \notin pushing
  /\ \A p \in Polls : id \notin poll[p].ids
  /\ \A w \in Workers : task[w].id # id

\* A reply somebody can read, taken from the mailbox, is stored unless polls
\* overlapped or broke off or the mailbox was renumbered, for the flag the server
\* sets and the row the poll commits are far apart; and however polls overlap it
\* becomes one row, unless its number changed between them (imap_listener.py:77,
\* 112-135, models.py:146).
StoredOnce ==
  /\ \A m \in arrived \ unseen :
       Known(m) /\ m \notin Blank => \/ InHands(m) \/ RowsOf(m) # {}
                                     \/ spent \cap Troubles # {}
  /\ \A m \in Mails : m \in moved \/ Cardinality({id \in RowsOf(m) : row[id].num > 0}) <= 1

\* A positive reply has its approval request once its triage is over, whether the
\* outcome was committed early, by the variant's counter or by the CRM sync, or
\* with the request (sentiment.py:57-62, campaigns.py:79, crm.py:121).
PositiveIsRequested ==
  \A id \in Ids : AtRest(id) /\ row[id].sentiment = "positive" =>
                    row[id].request \/ id \in cut

\* What a human is told of is there to be approved: committed, about to be, or
\* lost to a crash between the two (sentiment.py:98-101, 62).
NotifiedIsStored ==
  \A id \in notified :
    \/ row[id].request
    \/ \E w \in Workers : task[w].pc = "notified" /\ task[w].id = id
    \/ id \in cut \cup again

\* A reply that reads negative has put its lead on the suppression list, whichever
\* worker or route listed the address first (sentiment.py:49-53, suppression.py:41-47).
NegativeIsListed ==
  \A id \in Ids : row[id].sentiment = "negative" => LeadOf(id) \in suppressed

\* A lead with a triaged reply reads neither SENT nor OPENED, though a status that was
\* loaded is not always written (sentiment.py:50-57), unless a send or an open that
\* crossed the triage put it back (celery_tasks.py:190, tracking.py:63).
TriagedLeavesSequence ==
  \A id \in Ids :
    row[id].sentiment # "unset" => lstatus[LeadOf(id)] # "sent" \/ LeadOf(id) \in crossed

\* What is published, pushed or in a worker's hands is a stored reply of a known
\* lead, and so is what was triaged, has a request or was told to a human (imap_listener.py:108-130,
\* inbound.py:38-56).
Stored == {id \in Ids : row[id].there /\ LeadOf(id) \in Leads}
OnlyStored ==
  /\ pushing \subseteq Stored /\ notified \subseteq Stored
  /\ \A id \in Ids : queue[id] > 0 \/ row[id].request \/ row[id].sentiment # "unset" => id \in Stored
  /\ \A p \in Polls : poll[p].ids \subseteq Stored
  /\ \A p \in Polls : poll[p].pc = "storing" => \A f \in poll[p].got : Known(f[1])
  /\ \A w \in Workers : task[w].pc # "idle" => task[w].id \in Stored

\* A status a worker found the lead out of the sequence with stays such a one, unless
\* it is crossed.
LoadedStaysOut ==
  \A w \in Workers :
    task[w].pc # "idle" /\ task[w].was \in {"replied", "opted_out"} =>
      lstatus[LeadOf(task[w].id)] # "sent" \/ LeadOf(task[w].id) \in crossed

\* What triage promises of replies, leads, the suppression list and the humans it
\* tells, with what its workers have loaded: every step keeps it.
TriageInv ==
  /\ TypeOK
  /\ OnlyStored
  /\ LoadedStaysOut
  /\ NegativeIsListed
  /\ TriagedLeavesSequence
  /\ NotifiedIsStored

\* Every message of a known sender is triaged in the end, or is dropped by a poll,
\* or its row was cut off (celery_tasks.py:206-237).
RepliesAreTriaged ==
  \A m \in Mails :
    (m \in arrived /\ Known(m)) ~>
      \/ m \in lost
      \/ \E id \in RowsOf(m) : row[id].sentiment # "unset" \/ id \in cut

=============================================================================
