-------------------------- MODULE ReplyIntakeProofs --------------------------
(***************************************************************************)
(* What reply intake keeps, for any leads, mailbox, polls and workers and  *)
(* any disturbances.  TriageInv is inductive; on top of it the numbers of  *)
(* the mailbox stay in order, so that a reply is stored once, and a        *)
(* positive reply is always on its way to its approval request.            *)
(***************************************************************************)
EXTENDS ReplyIntake, FiniteSetTheorems, SequenceTheorems, TLAPS

USE ReplyAssumption

\* What the invariant says of rows, leads and workers.
Triaged == LoadedStaysOut /\ NegativeIsListed /\ TriagedLeavesSequence /\ NotifiedIsStored

\* No messages, no polls, no tasks.
LEMMA InitTriage == Init => TriageInv
BY DEF Init, TriageInv, TypeOK, OnlyStored, LoadedStaysOut, NegativeIsListed,
   TriagedLeavesSequence, NotifiedIsStored, Rows, PollStates, TriageStates, NoRow, NoPoll,
   NoTask, Sentiments, LeadStatuses, Stored, Ids, Nothing, Known

-----------------------------------------------------------------------------
(* Steps that leave rows, leads and workers alone.                          *)

\* What is said of triaged replies does not depend on polls, queue or mailbox.
LEMMA TriagedFrame ==
  ASSUME TriageInv, UNCHANGED <<row, triage, still, again>>, cut \subseteq cut'
  PROVE  Triaged'
BY DEF TriageInv, Triaged, triage, still, LoadedStaysOut, NegativeIsListed,
       TriagedLeavesSequence, NotifiedIsStored

\* Events are spent once.
LEMMA Spent == ASSUME TriageInv, NEW kind \in EventKinds, Spend(kind)
               PROVE  spent' \in SUBSET EventKinds
BY DEF TriageInv, TypeOK, Spend

\* A poll moves on within its states, with stored rows to publish and messages of
\* known leads to store.
LEMMA PollMoves ==
  ASSUME TriageInv, NEW p \in Polls, NEW x \in PollStates, Move(p, x),
         x.ids \subseteq Stored,
         x.pc = "storing" => \A f \in x.got : Known(f[1]),
         UNCHANGED row
  PROVE  /\ poll' \in [Polls -> PollStates]
         /\ \A q \in Polls : /\ poll'[q].ids \subseteq Stored'
                             /\ poll'[q].pc = "storing" => \A f \in poll'[q].got : Known(f[1])
<1>1. poll \in [Polls -> PollStates]
  BY DEF TriageInv, TypeOK
<1>2. poll' = [poll EXCEPT ![p] = x]
  BY DEF Move
<1>3. Stored' = Stored
  BY DEF Stored, LeadOf
<1> QED BY <1>1, <1>2, <1>3 DEF TriageInv, OnlyStored

\* What a poll step leaves: everything but the flags, the poll itself, the broker and
\* the history of what was dropped.
LEMMA PollFrame ==
  ASSUME TriageInv, NEW p \in Polls, NEW x \in PollStates, Move(p, x),
         x.ids \subseteq Stored,
         x.pc = "storing" => \A f \in x.got : Known(f[1]),
         UNCHANGED <<box, arrived, row, pushing, triage, still, moved, again>>,
         unseen' \in SUBSET Mails, lost' \in SUBSET Mails,
         cut' \in SUBSET Ids, cut \subseteq cut',
         queue' \in [Ids -> Nat], \A id \in Ids : queue'[id] > 0 => id \in Stored,
         spent' \in SUBSET EventKinds
  PROVE  TriageInv'
<1>1. Triaged'
  BY TriagedFrame
<1>2. TypeOK'
  BY PollMoves DEF TriageInv, TypeOK, triage, still
<1>3. OnlyStored'
  <2>1. Stored' = Stored
    BY DEF Stored, LeadOf
  <2> QED BY <2>1, PollMoves DEF TriageInv, OnlyStored, triage
<1> QED BY <1>1, <1>2, <1>3 DEF TriageInv, Triaged

\* A poll that is over holds nothing.
LEMMA NoPollIsOne == NoPoll \in PollStates /\ NoPoll.ids = {} /\ NoPoll.pc = "idle"
BY DEF NoPoll, PollStates

\* What a poll finds in the mailbox is mail, and what it stores is of that.
LEMMA FoundMails == \A found \in SUBSET Found : Ours(found) \subseteq Mails /\ New(found) \subseteq found
BY DEF Found, Ours, New

\* New rows are empty ones: what is said of the others stays true.
RowsGrow(ids) ==
  \A id \in Ids :
    IF id \in ids THEN ~row[id].there /\ row'[id].there /\ ~row'[id].request
                       /\ row'[id].sentiment = "unset"
                  ELSE row'[id] = row[id]

\* New rows leave what is said of triaged replies true.
LEMMA TriagedGrows ==
  ASSUME TriageInv, NEW ids, RowsGrow(ids), UNCHANGED <<triage, still, cut, again>>
  PROVE  Triaged'
BY DEF TriageInv, Triaged, OnlyStored, Stored, RowsGrow, triage, still, LoadedStaysOut,
       NegativeIsListed, TriagedLeavesSequence, NotifiedIsStored

\* Every step of a poll that goes well.
LEMMA PollStepKeeps == ASSUME TriageInv, NEW p \in Polls, PollStep(p) PROVE TriageInv'
<1>0. /\ poll[p] \in PollStates /\ poll[p].ids \subseteq Stored
      /\ unseen \in SUBSET Mails /\ lost \in SUBSET Mails /\ cut \in SUBSET Ids
      /\ queue \in [Ids -> Nat] /\ spent \in SUBSET EventKinds
      /\ \A id \in Ids : queue[id] > 0 => id \in Stored
  BY DEF TriageInv, TypeOK, OnlyStored
<1>1. ASSUME BeginPoll(p) PROVE TriageInv'
  <2> DEFINE todo == {<<box[i], i>> : i \in {k \in DOMAIN box : box[k] \in unseen}}
             x == [NoPoll EXCEPT !.pc = "fetching", !.todo = todo]
  <2>1. \A i \in DOMAIN box : box[i] \in Mails /\ i \in Nat \ {0}
    BY DEF TriageInv, TypeOK
  <2>2. x \in PollStates /\ x.ids = {} /\ x.pc = "fetching"
    <3>1. todo \in SUBSET Found
      BY <2>1 DEF Found
    <3> HIDE DEF todo
    <3> QED BY <3>1 DEF NoPoll, PollStates
  <2>3. Move(p, x)
    BY <1>1 DEF BeginPoll
  <2>4. spent' \in SUBSET EventKinds
    BY <1>0, <1>1, Spent DEF BeginPoll, EventKinds
  <2> HIDE DEF x
  <2> QED BY <1>0, <1>1, <2>2, <2>3, <2>4, PollFrame DEF BeginPoll, history, still
<1>2. ASSUME NEW f \in poll[p].todo, Fetch(p, f) PROVE TriageInv'
  <2> DEFINE x == [poll[p] EXCEPT !.todo = @ \ {f}, !.got = @ \cup {f}]
  <2>1. x \in PollStates /\ x.ids = poll[p].ids /\ x.pc = "fetching"
    BY <1>0, <1>2 DEF Fetch, PollStates
  <2>2. Move(p, x)
    BY <1>2 DEF Fetch
  <2> HIDE DEF x
  <2> QED BY <1>0, <1>2, <2>1, <2>2, PollFrame DEF Fetch, history, still
<1>3. ASSUME LookUp(p) PROVE TriageInv'
  <2> DEFINE x == [poll[p] EXCEPT !.pc = "storing", !.got = New(@)]
  <2>1. x \in PollStates /\ x.ids = poll[p].ids /\ \A f \in x.got : Known(f[1])
    BY <1>0 DEF New, PollStates, Known
  <2>2. Move(p, x)
    BY <1>3 DEF LookUp
  <2>3. lost' \in SUBSET Mails
    <3>1. poll[p].got \ New(poll[p].got) \in SUBSET Found
      BY <1>0 DEF PollStates
    <3> QED BY <1>0, <1>3, <3>1, FoundMails DEF LookUp
  <2> HIDE DEF x
  <2> QED BY <1>0, <1>3, <2>1, <2>2, <2>3, PollFrame DEF LookUp
<1>4. ASSUME StoreClash(p) PROVE TriageInv'
  <2>1. lost' \in SUBSET Mails
    BY <1>0, <1>4, FoundMails DEF StoreClash, PollStates
  <2>2. Move(p, NoPoll)
    BY <1>4 DEF StoreClash
  <2> QED BY <1>0, <1>4, <2>1, <2>2, NoPollIsOne, PollFrame DEF StoreClash
<1>5. ASSUME NEW id \in Ids, Publish(p, id) PROVE TriageInv'
  <2> DEFINE x == IF poll[p].ids = {id} THEN NoPoll ELSE [poll[p] EXCEPT !.ids = @ \ {id}]
  <2>1. x \in PollStates /\ x.ids \subseteq Stored /\ x.pc # "storing"
    BY <1>0, <1>5, NoPollIsOne DEF Publish, PollStates
  <2>2. Move(p, x)
    BY <1>5 DEF Publish
  <2>3. queue' \in [Ids -> Nat] /\ \A i \in Ids : queue'[i] > 0 => i \in Stored
    BY <1>0, <1>5 DEF Publish, Published
  <2> HIDE DEF x
  <2> QED BY <1>0, <1>5, <2>1, <2>2, <2>3, PollFrame DEF Publish, history, still
<1>6. ASSUME Store(p) PROVE TriageInv'
  <2> DEFINE found == poll[p].got
             ids == {FreeCopy(f[1]) : f \in found}
             num(id) == (CHOOSE f \in found : f[1] = id[1])[2]
  <2>1. \A f \in found : FreeCopy(f[1]) \in FreeCopies(f[1]) /\ Known(f[1]) /\ f \in Found
    <3>1. \A f \in found : FreeCopies(f[1]) # {} /\ f \in Found /\ Known(f[1])
      BY <1>0, <1>6 DEF Store, PollStates, TriageInv, OnlyStored
    <3>2. ASSUME NEW f \in found PROVE FreeCopy(f[1]) \in FreeCopies(f[1])
      BY <3>1, <3>2 DEF FreeCopy
    <3> QED BY <3>1, <3>2
  <2>2. /\ ids \subseteq Ids
        /\ \A id \in ids : ~row[id].there /\ LeadOf(id) \in Leads /\ num(id) \in Nat
    <3>1. ASSUME NEW f \in found
          PROVE  LET id == FreeCopy(f[1]) IN
                 /\ id \in Ids /\ ~row[id].there /\ id[1] = f[1] /\ LeadOf(id) \in Leads
      BY <2>1 DEF FreeCopies, LeadOf, Known
    <3>2. ASSUME NEW id \in ids PROVE num(id) \in Nat
      <4>1. PICK f \in found : id = FreeCopy(f[1])
        OBVIOUS
      <4>2. \E g \in found : g[1] = id[1]
        BY <3>1, <4>1
      <4>3. (CHOOSE g \in found : g[1] = id[1]) \in found
        BY <4>2
      <4> QED BY <2>1, <4>3 DEF Found
    <3> QED BY <3>1, <3>2
  <2>3. row' = [id \in Ids |-> IF id \in ids
                               THEN [NoRow EXCEPT !.there = TRUE, !.num = num(id)] ELSE row[id]]
    BY <1>6 DEF Store
  <2> HIDE DEF found, num
  <2>4. row' \in [Ids -> Rows]
    BY <2>2, <2>3 DEF NoRow, Rows, Sentiments, TriageInv, TypeOK
  <2>5. RowsGrow(ids)
    BY <2>2, <2>3 DEF RowsGrow, NoRow
  <2> DEFINE x == IF ids = {} THEN NoPoll ELSE [NoPoll EXCEPT !.pc = "publishing", !.ids = ids]
  <2>6. x \in PollStates /\ x.ids \subseteq ids /\ x.pc # "storing"
    BY <2>2 DEF NoPoll, PollStates
  <2>7. Move(p, x)
    BY <1>6 DEF Store, found
  <2> HIDE DEF x, ids
  <2>8. poll' \in [Polls -> PollStates] /\ \A q \in Polls : poll'[q] = IF q = p THEN x ELSE poll[q]
    BY <2>6, <2>7 DEF Move, TriageInv, TypeOK
  <2>9. TypeOK'
    BY <1>6, <2>4, <2>8 DEF Store, TriageInv, TypeOK, triage, history, still
  <2>10. OnlyStored'
    BY <1>6, <2>2, <2>5, <2>6, <2>8 DEF Store, RowsGrow, Stored, TriageInv, OnlyStored, triage, LeadOf
  <2>11. Triaged'
    BY <1>6, <2>2, <2>5, TriagedGrows DEF Store, triage, history, still
  <2> QED BY <2>9, <2>10, <2>11 DEF TriageInv, Triaged
<1> QED BY <1>1, <1>2, <1>3, <1>4, <1>5, <1>6 DEF PollStep

-----------------------------------------------------------------------------
(* The webhook.                                                             *)

\* The webhook stores a reply, publishes it, or dies in between.
LEMMA PushKeeps ==
  ASSUME TriageInv, NEW m \in Mails, Push(m) \/ \E id \in Ids : PushPublished(id) \/ PushCrash(id)
  PROVE  TriageInv'
<1>0. /\ row \in [Ids -> Rows] /\ pushing \in SUBSET Ids /\ pushing \subseteq Stored
      /\ queue \in [Ids -> Nat] /\ cut \in SUBSET Ids
      /\ \A id \in Ids : queue[id] > 0 => id \in Stored
  BY DEF TriageInv, TypeOK, OnlyStored
<1>1. ASSUME Push(m) PROVE TriageInv'
  <2> DEFINE new == FreeCopy(m)
  <2>1. new \in Ids /\ ~row[new].there /\ LeadOf(new) \in Leads
    BY <1>1 DEF Push, FreeCopy, FreeCopies, LeadOf
  <2> HIDE DEF new
  <2>2. row' = [row EXCEPT ![new].there = TRUE] /\ pushing' = pushing \cup {new}
    BY <1>1 DEF Push, new
  <2>3. row' \in [Ids -> Rows] /\ Stored' = Stored \cup {new}
    <3>1. \A id \in Ids : row'[id] = IF id = new THEN [row[id] EXCEPT !.there = TRUE] ELSE row[id]
      BY <1>0, <2>1, <2>2
    <3>2. \A id \in Ids : row'[id].there = (id = new \/ row[id].there)
      BY <1>0, <3>1 DEF Rows
    <3>3. row' \in [Ids -> Rows]
      BY <1>0, <2>1, <2>2 DEF Rows
    <3>4. Stored' = {id \in Ids : row'[id].there /\ LeadOf(id) \in Leads}
      BY DEF Stored, LeadOf
    <3>5. Stored' = {id \in Ids : (id = new \/ row[id].there) /\ LeadOf(id) \in Leads}
      BY <3>2, <3>4
    <3> QED BY <2>1, <3>3, <3>5 DEF Stored
  <2>4. \A id \in Ids : row'[id].sentiment = row[id].sentiment /\ row'[id].request = row[id].request
    BY <1>0, <2>1, <2>2 DEF Rows
  <2>5. spent' \in SUBSET EventKinds
    BY <1>1, Spent DEF Push, EventKinds
  <2>6. TypeOK'
    BY <1>1, <2>1, <2>2, <2>3, <2>5 DEF Push, TriageInv, TypeOK, triage, history, still
  <2>7. OnlyStored'
    BY <1>1, <2>2, <2>3, <2>4 DEF Push, TriageInv, OnlyStored, triage
  <2>8. Triaged'
    BY <1>1, <2>4 DEF Push, TriageInv, Triaged, triage, history, still, LoadedStaysOut, NegativeIsListed,
                       TriagedLeavesSequence, NotifiedIsStored
  <2> QED BY <2>6, <2>7, <2>8 DEF TriageInv, Triaged
<1>2. ASSUME NEW id \in Ids, PushPublished(id) PROVE TriageInv'
  <2>1. Triaged'
    BY <1>2, TriagedFrame DEF PushPublished, history, still
  <2>2. TypeOK'
    BY <1>0, <1>2 DEF PushPublished, Published, TriageInv, TypeOK, triage, history, still
  <2>3. OnlyStored'
    BY <1>0, <1>2 DEF PushPublished, Published, TriageInv, OnlyStored, Stored, LeadOf, triage
  <2> QED BY <2>1, <2>2, <2>3 DEF TriageInv, Triaged
<1>3. ASSUME NEW id \in Ids, PushCrash(id) PROVE TriageInv'
  <2>0. spent' \in SUBSET EventKinds
    BY <1>3, Spent DEF PushCrash, EventKinds
  <2>1. Triaged'
    BY <1>3, TriagedFrame DEF PushCrash
  <2>2. TypeOK'
    BY <1>0, <1>3, <2>0 DEF PushCrash, TriageInv, TypeOK, triage, still
  <2>3. OnlyStored'
    BY <1>0, <1>3 DEF PushCrash, TriageInv, OnlyStored, Stored, LeadOf, triage
  <2> QED BY <2>1, <2>2, <2>3 DEF TriageInv, Triaged
<1> QED BY <1>1, <1>2, <1>3

-----------------------------------------------------------------------------
(* The mailbox and the connection.                                          *)

\* Mail arrives, or another client removes some.
LEMMA MailboxKeeps ==
  ASSUME TriageInv,
         \/ \E m \in Mails : Receive(m)
         \/ \E i \in DOMAIN box : Expunge(i)
  PROVE  TriageInv'
<1>0. box \in Seq(Mails) /\ moved \in SUBSET Mails /\ arrived \in SUBSET Mails
      /\ unseen \in SUBSET Mails
  BY DEF TriageInv, TypeOK
<1>1. ASSUME NEW m \in Mails, Receive(m) PROVE TriageInv'
  <2>1. box' \in Seq(Mails)
    BY <1>0, <1>1 DEF Receive
  <2>2. TypeOK'
    BY <1>0, <1>1, <2>1 DEF Receive, TriageInv, TypeOK, triage, history, still
  <2>3. OnlyStored'
    BY <1>1 DEF Receive, TriageInv, OnlyStored, Stored, LeadOf, triage
  <2> QED BY <1>1, <2>2, <2>3, TriagedFrame DEF Receive, TriageInv, Triaged, history, still
<1>2. ASSUME NEW i \in DOMAIN box, Expunge(i) PROVE TriageInv'
  <2>1. box' \in Seq(Mails)
    <3>1. i \in 1..Len(box)
      BY <1>0
    <3>2. SubSeq(box, 1, i - 1) \in Seq(Mails) /\ SubSeq(box, i + 1, Len(box)) \in Seq(Mails)
      BY <1>0, <3>1
    <3> QED BY <1>2, <3>2 DEF Expunge
  <2>2. moved' \in SUBSET Mails
    <3>1. \A k \in (i + 1)..Len(box) : box[k] \in Mails
      BY <1>0
    <3> QED BY <1>0, <1>2, <3>1 DEF Expunge
  <2>3. spent' \in SUBSET EventKinds
    BY <1>2, Spent DEF Expunge, EventKinds
  <2>4. TypeOK'
    BY <1>2, <2>1, <2>2, <2>3 DEF Expunge, TriageInv, TypeOK, triage, still
  <2>5. OnlyStored'
    BY <1>2 DEF Expunge, TriageInv, OnlyStored, Stored, LeadOf, triage
  <2> QED BY <1>2, <2>4, <2>5, TriagedFrame DEF Expunge, TriageInv, Triaged
<1> QED BY <1>1, <1>2

\* A poll fails with the connection, or crashes.
LEMMA PollBreaks ==
  ASSUME TriageInv, NEW p \in Polls, FetchError(p) \/ PollCrash(p)
  PROVE  TriageInv'
<1>0. /\ poll[p] \in PollStates
      /\ unseen \in SUBSET Mails /\ lost \in SUBSET Mails /\ cut \in SUBSET Ids
      /\ queue \in [Ids -> Nat] /\ \A id \in Ids : queue[id] > 0 => id \in Stored
  BY DEF TriageInv, TypeOK, OnlyStored
<1>1. spent' \in SUBSET EventKinds
  BY Spent DEF FetchError, PollCrash, EventKinds
<1>2. lost' \in SUBSET Mails
  BY <1>0, FoundMails DEF FetchError, PollCrash, PollStates
<1>3. Move(p, NoPoll) /\ cut \subseteq cut' /\ cut' \in SUBSET Ids
  BY <1>0 DEF FetchError, PollCrash, PollStates
<1> QED BY <1>0, <1>1, <1>2, <1>3, NoPollIsOne, PollFrame DEF FetchError, PollCrash

-----------------------------------------------------------------------------
(* triage_reply_task.                                                       *)

\* Whoever was told of a request, and it is not lost, has it in the database or in the
\* hands of a worker other than w, or of w, which goes on with x.
StillTold(w, x) ==
  \A id \in notified' :
    \/ row[id].request \/ id \in cut' \cup again'
    \/ x.pc = "notified" /\ x.id = id
    \/ id \in notified /\ ~(task[w].pc = "notified" /\ task[w].id = id)

\* A step of a worker that writes no row and no status.
LEMMA WorkerMoves ==
  ASSUME TriageInv, NEW w \in Workers, NEW x \in TriageStates,
         task' = [task EXCEPT ![w] = x],
         x.pc # "idle" =>
           /\ x.id \in Stored
           /\ x.was \in {"replied", "opted_out"} =>
                lstatus[LeadOf(x.id)] # "sent" \/ LeadOf(x.id) \in crossed,
         UNCHANGED <<intake, row, lstatus, suppressed, still, moved, lost>>,
         notified \subseteq notified', notified' \subseteq Stored,
         cut \subseteq cut', cut' \in SUBSET Ids, again \subseteq again', again' \in SUBSET Ids,
         StillTold(w, x),
         queue' \in [Ids -> Nat], \A id \in Ids : queue'[id] > 0 => id \in Stored,
         spent' \in SUBSET EventKinds
  PROVE  TriageInv'
<1>1. /\ task \in [Workers -> TriageStates]
      /\ \A v \in Workers : task'[v] = IF v = w THEN x ELSE task[v]
      /\ task' \in [Workers -> TriageStates]
  BY DEF TriageInv, TypeOK
<1>2. Stored' = Stored
  BY DEF Stored, LeadOf
<1>3. TypeOK'
  BY <1>1 DEF TriageInv, TypeOK, intake, still, Stored
<1>4. OnlyStored'
  BY <1>1, <1>2 DEF TriageInv, OnlyStored, intake
<1>5. LoadedStaysOut' /\ NegativeIsListed' /\ TriagedLeavesSequence'
  BY <1>1 DEF TriageInv, still, LoadedStaysOut, NegativeIsListed, TriagedLeavesSequence
<1>6. NotifiedIsStored'
  <2> SUFFICES ASSUME NEW id \in notified'
               PROVE  \/ row[id].request \/ id \in cut' \cup again'
                      \/ \E v \in Workers : task'[v].pc = "notified" /\ task'[v].id = id
    BY DEF NotifiedIsStored
  <2>0. \/ row[id].request \/ id \in cut' \cup again'
        \/ x.pc = "notified" /\ x.id = id
        \/ id \in notified /\ ~(task[w].pc = "notified" /\ task[w].id = id)
    BY DEF StillTold
  <2>1. CASE x.pc = "notified" /\ x.id = id
    BY <1>1, <2>1
  <2>2. CASE id \in notified /\ ~(task[w].pc = "notified" /\ task[w].id = id)
    BY <1>1, <2>2 DEF TriageInv, NotifiedIsStored
  <2> QED BY <2>0, <2>1, <2>2
<1> QED BY <1>3, <1>4, <1>5, <1>6 DEF TriageInv

\* A worker without a reply is idle.
LEMMA NoTaskIsOne == NoTask \in TriageStates /\ NoTask.pc = "idle"
BY DEF NoTask, TriageStates, Sentiments

\* What a worker's reply is while it has one.
LEMMA TaskAtWork ==
  ASSUME TriageInv, NEW w \in Workers, task[w].pc # "idle"
  PROVE  /\ task[w] \in TriageStates
         /\ task[w].id \in Stored /\ task[w].id \in Ids /\ LeadOf(task[w].id) \in Leads
         /\ task[w].was \in {"replied", "opted_out"} =>
              lstatus[LeadOf(task[w].id)] # "sent" \/ LeadOf(task[w].id) \in crossed
         /\ row[task[w].id].there
BY DEF TriageInv, TypeOK, OnlyStored, Stored, LoadedStaysOut

\* A worker takes a reply: it sees the row as it is.
LEMMA Taken ==
  ASSUME TriageInv, NEW w \in Workers, NEW id \in Ids, Take(w, id)
  PROVE  TriageInv'
<1> DEFINE x == [pc |-> "classify", id |-> id, seen |-> row[id].sentiment, dirty |-> FALSE,
                 was |-> lstatus[LeadOf(id)]]
<1>1. id \in Stored /\ LeadOf(id) \in Leads /\ row \in [Ids -> Rows]
      /\ lstatus \in [Leads -> LeadStatuses] /\ queue \in [Ids -> Nat] /\ queue[id] > 0
  BY DEF Take, TriageInv, TypeOK, OnlyStored, Stored
<1>2. x \in TriageStates
  BY <1>1 DEF TriageStates, Rows, LeadStatuses
<1>3. x.was \in {"replied", "opted_out"} => lstatus[LeadOf(x.id)] # "sent"
  OBVIOUS
<1>4. queue' \in [Ids -> Nat] /\ \A i \in Ids : queue'[i] > 0 => queue[i] > 0
  BY <1>1 DEF Take
<1>5. task[w].pc = "idle" /\ task' = [task EXCEPT ![w] = x]
  BY DEF Take
<1>6. x.id = id /\ x.pc = "classify"
  OBVIOUS
<1> HIDE DEF x
<1>7. StillTold(w, x)
  BY <1>5 DEF Take, StillTold
<1> QED
  BY <1>1, <1>2, <1>3, <1>4, <1>5, <1>6, <1>7, WorkerMoves
  DEF Take, TriageInv, TypeOK, OnlyStored, history, still

\* A worker that goes on with its reply, or ends its task, without writing anything.
LEMMA QuietSteps ==
  ASSUME TriageInv, NEW w \in Workers,
         \/ ClassifyFails(w) \/ Negative(w) \/ OptOutClash(w) \/ NotSynced(w) \/ GateClash(w)
         \/ Positive(w) /\ LeadOf(task[w].id) \notin withVariant
         \/ Synced(w) /\ ~task[w].dirty
         \/ OpenGate(w)
         \/ Redeliver(w)
         \/ \E back \in BOOLEAN : WorkerCrash(w, back)
  PROVE  TriageInv'
<1>0. /\ task[w].pc # "idle" /\ task[w] \in TriageStates /\ task[w].id \in Stored
      /\ task[w].id \in Ids
      /\ task[w].was \in {"replied", "opted_out"} =>
           lstatus[LeadOf(task[w].id)] # "sent" \/ LeadOf(task[w].id) \in crossed
  <2>1. task[w].pc # "idle"
    BY DEF ClassifyFails, Negative, OptOutClash, NotSynced, GateClash, Positive, Synced, OpenGate,
           Redeliver, WorkerCrash
  <2> QED BY <2>1, TaskAtWork
<1>1. /\ task \in [Workers -> TriageStates] /\ queue \in [Ids -> Nat]
      /\ cut \in SUBSET Ids /\ again \in SUBSET Ids /\ notified \subseteq Stored
      /\ spent \in SUBSET EventKinds
      /\ \A id \in Ids : queue[id] > 0 => id \in Stored
      /\ \A id \in notified : \/ row[id].request \/ id \in cut \cup again
                              \/ \E v \in Workers : task[v].pc = "notified" /\ task[v].id = id
  BY DEF TriageInv, TypeOK, OnlyStored, NotifiedIsStored
<1>2. ASSUME ClassifyFails(w) \/ OptOutClash(w) \/ GateClash(w) PROVE TriageInv'
  <2>1. /\ task' = [task EXCEPT ![w] = NoTask] /\ queue' = queue
        /\ task[w].pc # "notified"
        /\ UNCHANGED <<intake, row, lstatus, suppressed, notified, still, moved, lost, again>>
    BY <1>2 DEF ClassifyFails, OptOutClash, GateClash, Done, history, still
  <2>2. cut' = cut \/ cut' = cut \cup {task[w].id}
    BY <1>2 DEF ClassifyFails, OptOutClash, GateClash, Hit, history, still
  <2>3. spent' \in SUBSET EventKinds
    BY <1>1, <1>2, Spent DEF ClassifyFails, OptOutClash, GateClash, history, still, EventKinds
  <2>4. StillTold(w, NoTask)
    BY <2>1 DEF StillTold
  <2> QED BY <1>0, <1>1, <2>1, <2>2, <2>3, <2>4, NoTaskIsOne, WorkerMoves
<1>3. ASSUME NEW pc \in {"optout", "gate", "crm"}, NEW dirty \in BOOLEAN,
             task[w].pc # "notified",
             task' = [task EXCEPT ![w].pc = pc, ![w].dirty = dirty],
             UNCHANGED <<intake, row, queue, lstatus, suppressed, notified, history, spent>>
      PROVE  TriageInv'
  <2> DEFINE x == [task[w] EXCEPT !.pc = pc, !.dirty = dirty]
  <2>1. x \in TriageStates /\ x.pc = pc /\ x.id = task[w].id /\ x.was = task[w].was
    BY <1>0 DEF TriageStates
  <2>2. task' = [task EXCEPT ![w] = x]
    BY <1>1, <1>3
  <2> HIDE DEF x
  <2>3. StillTold(w, x)
    BY <1>3 DEF StillTold
  <2> QED BY <1>0, <1>1, <1>3, <2>1, <2>2, <2>3, WorkerMoves DEF history, still
<1>4. ASSUME Negative(w) \/ NotSynced(w) PROVE TriageInv'
  <2>1. task[w].dirty \in BOOLEAN
    BY <1>0 DEF TriageStates
  <2>2. task' = [task EXCEPT ![w].pc = IF task[w].pc = "classify" THEN "optout" ELSE "gate",
                             ![w].dirty = task[w].dirty]
    BY <1>0, <1>1, <1>4 DEF Negative, NotSynced, Go, TriageStates
  <2> QED BY <1>3, <1>4, <2>1, <2>2 DEF Negative, NotSynced
<1>5. ASSUME Positive(w), LeadOf(task[w].id) \notin withVariant PROVE TriageInv'
  BY <1>3, <1>5 DEF Positive
<1>6. ASSUME Synced(w), ~task[w].dirty PROVE TriageInv'
  BY <1>3, <1>6 DEF Synced
<1>7. ASSUME OpenGate(w) PROVE TriageInv'
  <2> DEFINE x == [task[w] EXCEPT !.pc = "notified"]
  <2>1. x \in TriageStates /\ x.pc = "notified" /\ x.id = task[w].id /\ x.was = task[w].was
    BY <1>0 DEF TriageStates
  <2>2. task' = [task EXCEPT ![w] = x] /\ task[w].pc = "gate"
    BY <1>1, <1>7 DEF OpenGate, Go
  <2>3. notified' = notified \cup {task[w].id}
    BY <1>7 DEF OpenGate
  <2> HIDE DEF x
  <2>4. StillTold(w, x)
    BY <2>1, <2>2, <2>3 DEF StillTold
  <2> QED BY <1>0, <1>1, <1>7, <2>1, <2>2, <2>3, <2>4, WorkerMoves DEF OpenGate, history, still
<1>8. ASSUME Redeliver(w) PROVE TriageInv'
  <2>1. task' = [task EXCEPT ![w] = task[w]]
    BY <1>1, <1>8 DEF Redeliver
  <2>2. queue' \in [Ids -> Nat] /\ \A id \in Ids : queue'[id] > 0 => id \in Stored
    BY <1>0, <1>1, <1>8 DEF Redeliver, Published
  <2>3. spent' \in SUBSET EventKinds
    BY <1>8, Spent DEF Redeliver, EventKinds
  <2>4. again' = again \cup {task[w].id}
    BY <1>8 DEF Redeliver
  <2>5. StillTold(w, task[w])
    BY <1>8 DEF Redeliver, StillTold
  <2> QED BY <1>0, <1>1, <1>8, <2>1, <2>2, <2>3, <2>4, <2>5, WorkerMoves DEF Redeliver
<1>9. ASSUME NEW back \in BOOLEAN, WorkerCrash(w, back) PROVE TriageInv'
  <2>1. task' = [task EXCEPT ![w] = NoTask]
    BY <1>9 DEF WorkerCrash
  <2>2. queue' \in [Ids -> Nat] /\ \A id \in Ids : queue'[id] > 0 => id \in Stored
    BY <1>0, <1>1, <1>9 DEF WorkerCrash, Published
  <2>3. spent' \in SUBSET EventKinds
    BY <1>9, Spent DEF WorkerCrash, EventKinds
  <2>4. \/ cut' = cut /\ again' = again \cup {task[w].id}
        \/ cut' = cut \cup {task[w].id} /\ again' = again
    BY <1>9 DEF WorkerCrash, Hit
  <2>5. StillTold(w, NoTask)
    BY <1>9, <2>4 DEF WorkerCrash, StillTold
  <2> QED BY <1>0, <1>1, <1>9, <2>1, <2>2, <2>3, <2>4, <2>5, NoTaskIsOne, WorkerMoves DEF WorkerCrash
<1> QED BY <1>2, <1>4, <1>5, <1>6, <1>7, <1>8, <1>9

\* One column of a row, or of a lead, is written, or a reply gets its request.
Outcome(id) ==
  /\ row' \in [Ids -> Rows]
  /\ \A i \in Ids \ {id} : row'[i] = row[i]
  /\ row'[id].there = row[id].there
  /\ row[id].request => row'[id].request
  /\ lstatus' \in [Leads -> LeadStatuses]
  /\ \A l \in Leads : lstatus'[l] # lstatus[l] => lstatus'[l] # "sent"
  /\ row'[id].sentiment # row[id].sentiment =>
       /\ lstatus'[LeadOf(id)] # "sent" \/ LeadOf(id) \in crossed
       /\ row'[id].sentiment = "negative" => LeadOf(id) \in suppressed'

\* A commit of a worker that makes of the reply and its lead what Outcome allows.
LEMMA OutcomeKeeps ==
  ASSUME TriageInv, NEW w \in Workers, NEW x \in TriageStates,
         task[w].pc # "idle", Outcome(task[w].id),
         task' = [task EXCEPT ![w] = x],
         x.pc # "idle" => x.id = task[w].id /\ x.was = task[w].was,
         task[w].pc = "notified" => row'[task[w].id].request,
         suppressed \subseteq suppressed', suppressed' \subseteq Leads,
         UNCHANGED <<intake, queue, notified, history, spent>>
  PROVE  TriageInv'
<1> DEFINE id == task[w].id
<1>0. id \in Ids /\ id \in Stored /\ row[id].there /\ LeadOf(id) \in Leads
  BY TaskAtWork
<1>1. /\ task \in [Workers -> TriageStates]
      /\ \A v \in Workers : task'[v] = IF v = w THEN x ELSE task[v]
      /\ task' \in [Workers -> TriageStates]
  BY DEF TriageInv, TypeOK
<1> HIDE DEF id
<1>2. Outcome(id)
  BY DEF id
<1>3. Stored' = Stored
  BY <1>2 DEF Stored, LeadOf, Outcome
<1>4. TypeOK'
  BY <1>1, <1>2 DEF TriageInv, TypeOK, intake, history, still, Outcome
<1>5. OnlyStored'
  <2>1. \A i \in Ids : \/ i = id
                       \/ row'[i].request = row[i].request /\ row'[i].sentiment = row[i].sentiment
    BY <1>2 DEF Outcome
  <2> QED BY <1>0, <1>1, <1>3, <2>1 DEF TriageInv, OnlyStored, intake, id
<1>6. LoadedStaysOut'
  <2>1. \A v \in Workers : task'[v].pc # "idle" =>
          task[v].pc # "idle" /\ task'[v].id = task[v].id /\ task'[v].was = task[v].was
    BY <1>1
  <2>2. \A v \in Workers : task[v].pc # "idle" => LeadOf(task[v].id) \in Leads
    BY TaskAtWork
  <2> QED BY <1>2, <2>1, <2>2 DEF TriageInv, LoadedStaysOut, Outcome, history, still
<1>7. NegativeIsListed'
  BY <1>2 DEF TriageInv, NegativeIsListed, Outcome
<1>8. TriagedLeavesSequence'
  <2> SUFFICES ASSUME NEW i \in Ids, row'[i].sentiment # "unset"
               PROVE  lstatus'[LeadOf(i)] # "sent" \/ LeadOf(i) \in crossed
    BY DEF TriagedLeavesSequence, LeadOf, history, still
  <2>1. row[i].sentiment # "unset" => lstatus[LeadOf(i)] # "sent" \/ LeadOf(i) \in crossed
    BY DEF TriageInv, TriagedLeavesSequence
  <2>2. LeadOf(i) \in Leads
    BY <1>0, <1>2 DEF Outcome, TriageInv, OnlyStored, Stored
  <2> QED BY <1>2, <2>1, <2>2 DEF Outcome
<1>9. NotifiedIsStored'
  <2> SUFFICES ASSUME NEW i \in notified
               PROVE  \/ row'[i].request \/ i \in cut \cup again
                      \/ \E v \in Workers : task'[v].pc = "notified" /\ task'[v].id = i
    BY DEF NotifiedIsStored, history, still
  <2>1. i \in Ids
    BY DEF TriageInv, TypeOK
  <2>2. \/ row[i].request \/ i \in cut \cup again
        \/ \E v \in Workers : task[v].pc = "notified" /\ task[v].id = i
    BY DEF TriageInv, NotifiedIsStored
  <2>3. row[i].request => row'[i].request
    BY <1>2, <2>1 DEF Outcome
  <2> QED BY <1>1, <2>2, <2>3 DEF id
<1> QED BY <1>4, <1>5, <1>6, <1>7, <1>8, <1>9 DEF TriageInv

\* A sentiment and a status written together are an outcome.
LEMMA WrittenIsOutcome ==
  ASSUME TriageInv, NEW w \in Workers, task[w].pc # "idle",
         NEW sentiment \in {"negative", "objection", "positive"},
         NEW status \in {"replied", "opted_out"},
         Written(w, sentiment, status),
         sentiment = "negative" => LeadOf(task[w].id) \in suppressed'
  PROVE  Outcome(task[w].id)
<1> DEFINE id == task[w].id
<1>0. /\ id \in Ids /\ LeadOf(id) \in Leads
      /\ row \in [Ids -> Rows] /\ lstatus \in [Leads -> LeadStatuses]
      /\ task[w].was \in {"replied", "opted_out"} =>
           lstatus[LeadOf(id)] # "sent" \/ LeadOf(id) \in crossed
  BY TaskAtWork DEF TriageInv, TypeOK
<1> DEFINE l == LeadOf(id)
           s == IF task[w].seen = sentiment THEN row[id].sentiment ELSE sentiment
           t == IF task[w].was = status THEN lstatus[l] ELSE status
<1>1. row' = [row EXCEPT ![id].sentiment = s] /\ lstatus' = [lstatus EXCEPT ![l] = t]
  BY DEF Written
<1>2. s \in {row[id].sentiment, sentiment} /\ s \in Sentiments
  BY <1>0 DEF Rows, Sentiments
<1>3. /\ t # "sent" \/ LeadOf(id) \in crossed
      /\ t # lstatus[l] => t # "sent"
      /\ t \in LeadStatuses
  BY <1>0 DEF LeadStatuses
<1> HIDE DEF s, t, l, id
<1>4. row' \in [Ids -> Rows] /\ row'[id] = [row[id] EXCEPT !.sentiment = s]
      /\ \A i \in Ids \ {id} : row'[i] = row[i]
  BY <1>0, <1>1, <1>2 DEF Rows
<1>5. row'[id].sentiment = s /\ row'[id].there = row[id].there /\ row'[id].request = row[id].request
  BY <1>0, <1>4 DEF Rows
<1>6. lstatus' \in [Leads -> LeadStatuses]
      /\ \A k \in Leads : lstatus'[k] = IF k = l THEN t ELSE lstatus[k]
  BY <1>0, <1>1, <1>3
<1>7. l \in Leads /\ l = LeadOf(id)
  BY <1>0 DEF l
<1>8. Outcome(id)
  BY <1>2, <1>3, <1>4, <1>5, <1>6, <1>7 DEF Outcome, id
<1> QED BY <1>8 DEF id

\* The steps that write a reply or its lead.
LEMMA OutcomeSteps ==
  ASSUME TriageInv, NEW w \in Workers,
         \/ NegativeAndListed(w) \/ CommitOptOut(w) \/ Objection(w)
         \/ Positive(w) /\ LeadOf(task[w].id) \in withVariant
         \/ Synced(w) /\ task[w].dirty
         \/ CommitGate(w)
  PROVE  TriageInv'
<1>0. task[w].pc # "idle" /\ task[w] \in TriageStates
      /\ task \in [Workers -> TriageStates] /\ suppressed \subseteq Leads
      /\ task[w].id \in Ids /\ LeadOf(task[w].id) \in Leads
  <2>1. task[w].pc # "idle"
    BY DEF NegativeAndListed, CommitOptOut, Objection, Positive, Synced, CommitGate
  <2> QED BY <2>1, TaskAtWork DEF TriageInv, TypeOK
<1>1. ASSUME NegativeAndListed(w) \/ Objection(w) PROVE TriageInv'
  <2>1. /\ task' = [task EXCEPT ![w] = NoTask] /\ task[w].pc = "classify"
        /\ UNCHANGED <<intake, queue, suppressed, notified, history, spent>>
    BY <1>1 DEF NegativeAndListed, Objection, Done
  <2>2. Outcome(task[w].id)
    BY <1>0, <1>1, <2>1, WrittenIsOutcome DEF NegativeAndListed, Objection
  <2> QED BY <1>0, <2>1, <2>2, NoTaskIsOne, OutcomeKeeps
<1>2. ASSUME CommitOptOut(w) PROVE TriageInv'
  <2>1. /\ task' = [task EXCEPT ![w] = NoTask] /\ task[w].pc = "optout"
        /\ suppressed' = suppressed \cup {LeadOf(task[w].id)}
        /\ UNCHANGED <<intake, queue, notified, history, spent>>
    BY <1>2 DEF CommitOptOut, Done, Listed
  <2>2. Outcome(task[w].id)
    BY <1>0, <1>2, <2>1, WrittenIsOutcome DEF CommitOptOut
  <2> QED BY <1>0, <2>1, <2>2, NoTaskIsOne, OutcomeKeeps
<1>3. ASSUME NEW pc \in {"crm", "gate"}, NEW dirty \in BOOLEAN,
             task' = [task EXCEPT ![w].pc = pc, ![w].dirty = dirty],
             task[w].pc # "notified",
             Written(w, "positive", "replied"),
             UNCHANGED <<intake, queue, suppressed, notified, history, spent>>
      PROVE  TriageInv'
  <2> DEFINE x == [task[w] EXCEPT !.pc = pc, !.dirty = dirty]
  <2>1. x \in TriageStates /\ x.id = task[w].id /\ x.was = task[w].was
    BY <1>0 DEF TriageStates
  <2>2. task' = [task EXCEPT ![w] = x]
    BY <1>0, <1>3
  <2>3. Outcome(task[w].id)
    BY <1>0, <1>3, WrittenIsOutcome
  <2> HIDE DEF x
  <2> QED BY <1>0, <1>3, <2>1, <2>2, <2>3, OutcomeKeeps
<1>4. ASSUME Positive(w), LeadOf(task[w].id) \in withVariant PROVE TriageInv'
  <2>1. task[w].dirty \in BOOLEAN
    BY <1>0 DEF TriageStates
  <2>2. task' = [task EXCEPT ![w].pc = "crm", ![w].dirty = task[w].dirty]
    BY <1>0, <1>4 DEF Positive, Go, TriageStates
  <2> QED BY <1>3, <1>4, <2>1, <2>2 DEF Positive
<1>5. ASSUME Synced(w), task[w].dirty PROVE TriageInv'
  BY <1>3, <1>5 DEF Synced
<1>6. ASSUME CommitGate(w) PROVE TriageInv'
  <2> DEFINE id == task[w].id
             l == LeadOf(id)
             s == IF task[w].dirty /\ task[w].seen # "positive" THEN "positive"
                  ELSE row[id].sentiment
             t == IF task[w].dirty /\ task[w].was # "replied" THEN "replied" ELSE lstatus[l]
  <2>1. /\ row' = [row EXCEPT ![id].request = TRUE, ![id].sentiment = s]
        /\ lstatus' = [lstatus EXCEPT ![l] = t]
        /\ task' = [task EXCEPT ![w] = NoTask]
        /\ UNCHANGED <<intake, queue, suppressed, notified, history, spent>>
    BY <1>6 DEF CommitGate, Requested, Done
  <2>2. /\ row \in [Ids -> Rows] /\ lstatus \in [Leads -> LeadStatuses]
        /\ task[w].was \in {"replied", "opted_out"} => lstatus[l] # "sent" \/ l \in crossed
    BY <1>0, TaskAtWork DEF TriageInv, TypeOK
  <2>3. s \in Sentiments /\ (s # row[id].sentiment => s = "positive" /\ task[w].dirty)
    BY <1>0, <2>2 DEF Sentiments, Rows
  <2>4. /\ t \in LeadStatuses /\ (t # lstatus[l] => t # "sent")
        /\ task[w].dirty => t # "sent" \/ l \in crossed
    BY <1>0, <2>2 DEF LeadStatuses
  <2> HIDE DEF s, t
  <2>5. /\ row' \in [Ids -> Rows] /\ row'[id] = [row[id] EXCEPT !.request = TRUE, !.sentiment = s]
        /\ \A i \in Ids \ {id} : row'[i] = row[i]
    BY <1>0, <2>1, <2>2, <2>3 DEF Rows
  <2>6. row'[id].sentiment = s /\ row'[id].there = row[id].there /\ row'[id].request
    BY <1>0, <2>2, <2>5 DEF Rows
  <2>7. /\ lstatus' \in [Leads -> LeadStatuses]
        /\ \A k \in Leads : lstatus'[k] = IF k = l THEN t ELSE lstatus[k]
    BY <2>1, <2>2, <2>4
  <2>8. l \in Leads
    BY <1>0
  <2>9. Outcome(id)
    BY <2>3, <2>4, <2>5, <2>6, <2>7, <2>8 DEF Outcome
  <2> QED BY <1>0, <2>1, <2>6, <2>9, NoTaskIsOne, OutcomeKeeps
<1> QED BY <1>1, <1>2, <1>4, <1>5, <1>6

\* A lead opts out by the link while its reply is under triage.
LEMMA UnsubscribeKeeps ==
  ASSUME TriageInv, NEW l \in Leads, Unsubscribe(l)
  PROVE  TriageInv'
<1>1. /\ lstatus \in [Leads -> LeadStatuses] /\ suppressed \subseteq Leads
      /\ lstatus' = [lstatus EXCEPT ![l] = "opted_out"]
      /\ suppressed' = suppressed \cup {l}
      /\ spent' \in SUBSET EventKinds
      /\ UNCHANGED <<intake, row, queue, task, notified, history>>
  BY Spent DEF Unsubscribe, Listed, TriageInv, TypeOK, EventKinds
<1>2. lstatus' \in [Leads -> LeadStatuses]
      /\ \A k \in Leads : lstatus'[k] = IF k = l THEN "opted_out" ELSE lstatus[k]
  BY <1>1 DEF LeadStatuses
<1>3. TypeOK'
  BY <1>1, <1>2 DEF TriageInv, TypeOK, intake, history, still
<1>4. OnlyStored'
  BY <1>1 DEF TriageInv, OnlyStored, Stored, LeadOf, intake
<1>5. LoadedStaysOut' /\ TriagedLeavesSequence'
  <2>1. \A v \in Workers : task[v].pc # "idle" => LeadOf(task[v].id) \in Leads
    BY TaskAtWork
  <2>2. \A id \in Ids : row[id].sentiment # "unset" => LeadOf(id) \in Leads
    BY DEF TriageInv, OnlyStored, Stored
  <2> QED BY <1>1, <1>2, <2>1, <2>2
          DEF TriageInv, LoadedStaysOut, TriagedLeavesSequence, history, still
<1>6. NegativeIsListed' /\ NotifiedIsStored'
  BY <1>1 DEF TriageInv, NegativeIsListed, NotifiedIsStored, history, still
<1> QED BY <1>3, <1>4, <1>5, <1>6 DEF TriageInv

\* A send or an open puts a lead back into the sequence, and the lead is marked.
LEMMA LateSendKeeps ==
  ASSUME TriageInv, NEW l \in Leads, LateSend(l)
  PROVE  TriageInv'
<1>1. /\ lstatus \in [Leads -> LeadStatuses] /\ crossed \subseteq Leads
      /\ lstatus' = [lstatus EXCEPT ![l] = "sent"]
      /\ crossed' = crossed \cup {l}
      /\ spent' \in SUBSET EventKinds
      /\ UNCHANGED <<intake, row, queue, suppressed, task, notified, withVariant, moved, lost,
                     cut, again>>
  BY Spent DEF LateSend, TriageInv, TypeOK, EventKinds
<1>2. lstatus' \in [Leads -> LeadStatuses]
      /\ \A k \in Leads : lstatus'[k] = IF k = l THEN "sent" ELSE lstatus[k]
  BY <1>1 DEF LeadStatuses
<1>3. TypeOK'
  BY <1>1, <1>2 DEF TriageInv, TypeOK, intake
<1>4. OnlyStored'
  BY <1>1 DEF TriageInv, OnlyStored, Stored, LeadOf, intake
<1>5. LoadedStaysOut' /\ TriagedLeavesSequence'
  <2>1. \A v \in Workers : task[v].pc # "idle" => LeadOf(task[v].id) \in Leads
    BY TaskAtWork
  <2>2. \A id \in Ids : row[id].sentiment # "unset" => LeadOf(id) \in Leads
    BY DEF TriageInv, OnlyStored, Stored
  <2> QED BY <1>1, <1>2, <2>1, <2>2 DEF TriageInv, LoadedStaysOut, TriagedLeavesSequence
<1>6. NegativeIsListed' /\ NotifiedIsStored'
  BY <1>1 DEF TriageInv, NegativeIsListed, NotifiedIsStored
<1> QED BY <1>3, <1>4, <1>5, <1>6 DEF TriageInv

-----------------------------------------------------------------------------
\* Every step keeps what triage promises.
LEMMA NextKeepsTriage == TriageInv /\ [Next]_vars => TriageInv'
<1> SUFFICES ASSUME TriageInv, [Next]_vars PROVE TriageInv'
  OBVIOUS
<1>1. ASSUME NEW m \in Mails, Receive(m) PROVE TriageInv'
  BY <1>1, MailboxKeeps
<1>2. ASSUME NEW p \in Polls, PollStep(p) PROVE TriageInv'
  BY <1>2, PollStepKeeps
<1>3. ASSUME NEW id \in Ids, PushPublished(id) \/ PushCrash(id) PROVE TriageInv'
  <2>1. id[1] \in Mails
    BY DEF Ids
  <2> QED BY <1>3, <2>1, PushKeeps
<1>4. ASSUME NEW w \in Workers, TriageStep(w) PROVE TriageInv'
  BY <1>4, Taken, QuietSteps, OutcomeSteps DEF TriageStep
<1>5. ASSUME Disturbance PROVE TriageInv'
  BY <1>3, <1>5, MailboxKeeps, PollBreaks, PushKeeps, QuietSteps, UnsubscribeKeeps,
     LateSendKeeps DEF Disturbance
<1>6. ASSUME UNCHANGED vars PROVE TriageInv'
  BY <1>6 DEF vars, intake, triage, history, still, TriageInv, TypeOK, OnlyStored, Stored, LeadOf,
     LoadedStaysOut, NegativeIsListed, TriagedLeavesSequence, NotifiedIsStored
<1> QED BY <1>1, <1>2, <1>3, <1>4, <1>5, <1>6 DEF Next

\* Triage keeps its promises in every reachable state, for any leads, mailbox, polls,
\* workers and events: only stored replies are worked on, opt-outs reach the
\* suppression list, and nobody is told of a request that is simply not there.
THEOREM TriageInvariant == Spec => []TriageInv
<1>1. Init => TriageInv
  BY InitTriage
<1>2. TriageInv /\ [Next]_vars => TriageInv'
  BY NextKeepsTriage
<1> QED BY <1>1, <1>2, PTL DEF Spec

\* A lead with a triaged reply has left the sequence, however the triages of its replies
\* and its opt-outs cross, unless a send or an open put it back after it had.
THEOREM TriagedLeadsAreOut == Spec => []TriagedLeavesSequence
<1>1. TriageInv => TriagedLeavesSequence
  BY DEF TriageInv
<1> QED BY <1>1, TriageInvariant, PTL

-----------------------------------------------------------------------------
(* Messages and their numbers.  A tag is a message with a sequence number it *)
(* goes by: in the mailbox, in what a poll has found or fetched, or in the   *)
(* imap_uid of a row.                                                        *)

BoxTags == {<<box[i], i>> : i \in DOMAIN box}
PollTags == UNION {poll[p].todo \cup poll[p].got : p \in Polls}
Numbered == {id \in Ids : row[id].there /\ row[id].num > 0}
RowTags == {<<id[1], row[id].num>> : id \in Numbered}
Tags == BoxTags \cup PollTags \cup RowTags

\* A message that was not renumbered goes by one number.
Tagged == \A f \in Tags : f[1] \in arrived
Steady == \A f, g \in Tags : f[1] = g[1] /\ f[1] \notin moved => f[2] = g[2]
BoxOnce == \A i, j \in DOMAIN box : box[i] = box[j] => i = j

\* In one search the messages and the numbers match one to one, and a poll that
\* fetches and stores nothing holds nothing.
OneToOne(found) == \A f, g \in found : f[1] = g[1] <=> f[2] = g[2]
InWork == {"fetching", "storing"}
OneSearch == \A p \in Polls : /\ OneToOne(poll[p].todo \cup poll[p].got)
                              /\ poll[p].pc \notin InWork => poll[p].got = {}

\* The unique index on imap_uid, and rows that are still to come.
UniqueIndex == \A i, j \in Numbered : row[i].num = row[j].num => i = j
BlankRows == \A id \in Ids : ~row[id].there => row[id].num = 0

\* While polls do not overlap, nothing breaks off and nothing is renumbered: a number
\* is the place of its message in the mailbox, a poll stores numbers no row has, and
\* what was read is in its hands or stored.
Calm == spent \cap Troubles = {}
OnePoll == \A p, q \in Polls : poll[p].pc # "idle" /\ poll[q].pc # "idle" => p = q
Placed == \A f \in Tags : f[2] \in DOMAIN box /\ box[f[2]] = f[1]
NotYet(f) == \A id \in Numbered : row[id].num # f[2]
FreshBatch == \A p \in Polls : poll[p].pc = "storing" => \A f \in poll[p].got : NotYet(f)
Safe(m) == Known(m) /\ m \notin Blank => InHands(m) \/ RowsOf(m) # {}
CalmInv == OnePoll /\ Placed /\ FreshBatch /\ \A m \in arrived \ unseen : Safe(m)

Ordered ==
  /\ Tagged
  /\ Steady
  /\ BoxOnce
  /\ OneSearch
  /\ UniqueIndex
  /\ BlankRows
  /\ Calm => CalmInv

\* An empty mailbox, no polls, no rows.
LEMMA InitOrdered == Init => Ordered
<1> SUFFICES ASSUME Init PROVE Ordered
  OBVIOUS
<1>1. DOMAIN box = {} /\ BoxTags = {}
  BY DEF Init, BoxTags
<1>2. Numbered = {} /\ RowTags = {}
  BY DEF Init, Numbered, RowTags, NoRow
<1>3. \A p \in Polls : poll[p] = NoPoll
  BY DEF Init
<1>4. PollTags = {}
  BY <1>3 DEF PollTags, NoPoll
<1>5. Tags = {}
  BY <1>1, <1>2, <1>4 DEF Tags
<1>6. OneSearch /\ OnePoll /\ FreshBatch
  BY <1>3 DEF OneSearch, OneToOne, OnePoll, FreshBatch, NoPoll, InWork
<1>7. UniqueIndex /\ Tagged /\ Steady /\ Placed /\ BoxOnce
  BY <1>1, <1>2, <1>5 DEF UniqueIndex, Tagged, Steady, Placed, BoxOnce
<1>8. BlankRows /\ arrived = {}
  BY DEF BlankRows, Init, NoRow
<1> QED BY <1>6, <1>7, <1>8 DEF Ordered, CalmInv

\* Where tags come from.
LEMMA TagKinds ==
  /\ BoxTags \subseteq Tags /\ RowTags \subseteq Tags
  /\ \A p \in Polls : poll[p].todo \cup poll[p].got \subseteq Tags
  /\ \A id \in Numbered : <<id[1], row[id].num>> \in Tags
BY DEF Tags, PollTags, RowTags

\* With no new tag, what is said of them stays.
LEMMA FewerTags ==
  ASSUME Tags' \subseteq Tags, UNCHANGED <<arrived, moved>>
  PROVE  /\ Tagged => Tagged'
         /\ Steady => Steady'
         /\ Placed /\ UNCHANGED box => Placed'
BY DEF Tagged, Steady, Placed

\* Trouble is not forgotten.
LEMMA CalmBefore == ASSUME spent \subseteq spent', Calm' PROVE Calm
BY DEF Calm, Troubles

-----------------------------------------------------------------------------
(* Steps that leave mailbox and polls alone.                                 *)

\* No row gets a number.
RowsKept ==
  \A id \in Ids : /\ row'[id].num = row[id].num
                  /\ row[id].there => row'[id].there
                  /\ row'[id].there => row[id].there \/ row[id].num = 0

\* Then rows keep their tags.
LEMMA TagsStay == ASSUME TypeOK, RowsKept
                  PROVE  /\ Numbered' = Numbered
                         /\ RowTags' = RowTags
                         /\ \A m \in Mails : RowsOf(m) \subseteq RowsOf(m)'
                         /\ BlankRows => BlankRows'
<1>1. \A id \in Ids : row[id].num \in Nat
  BY DEF TypeOK, Rows
<1>2. \A id \in Ids : id \in Numbered' <=> id \in Numbered
  BY <1>1 DEF RowsKept, Numbered
<1>3. Numbered' = Numbered
  BY <1>2 DEF Numbered
<1>4. \A id \in Numbered : row'[id].num = row[id].num
  BY DEF RowsKept, Numbered
<1>5. RowTags' = RowTags
  BY <1>3, <1>4 DEF RowTags
<1> QED BY <1>3, <1>5 DEF RowsKept, RowsOf, BlankRows

\* Triage and the webhook work on rows that have their number, or none.
LEMMA MailLeftAlone ==
  ASSUME TypeOK, Ordered, RowsKept, UNCHANGED <<box, unseen, arrived, poll, moved>>,
         spent \subseteq spent'
  PROVE  Ordered'
<1>1. BoxTags' = BoxTags /\ PollTags' = PollTags
  BY DEF BoxTags, PollTags
<1>2. Tags' = Tags
  BY <1>1, TagsStay DEF Tags
<1>3. Tagged' /\ Steady' /\ (Placed => Placed')
  BY <1>2, FewerTags DEF Ordered
<1>4. BoxOnce' /\ OneSearch' /\ BlankRows' /\ (OnePoll => OnePoll')
  BY TagsStay DEF Ordered, BoxOnce, OneSearch, OnePoll
<1>5. \A id \in Numbered : row'[id].num = row[id].num
  BY DEF RowsKept, Numbered
<1>6. UniqueIndex' /\ (FreshBatch => FreshBatch')
  BY <1>5, TagsStay DEF Ordered, UniqueIndex, FreshBatch, NotYet
<1>7. ASSUME NEW m \in Mails, Safe(m) PROVE Safe(m)'
  BY <1>7, TagsStay DEF Safe, InHands, Known
<1>8. arrived \in SUBSET Mails
  BY DEF TypeOK
<1> QED BY <1>3, <1>4, <1>6, <1>7, <1>8, CalmBefore DEF Ordered, CalmInv

-----------------------------------------------------------------------------
(* The mailbox.                                                             *)

\* A message that arrives has the number after the last.
LEMMA ReceiveOrdered == ASSUME TypeOK, Ordered, NEW m \in Mails, Receive(m) PROVE Ordered'
<1>1. /\ box \in Seq(Mails) /\ m \notin arrived /\ box' = Append(box, m)
      /\ arrived' = arrived \cup {m} /\ unseen' = unseen \cup {m}
      /\ UNCHANGED <<row, poll, moved, spent>>
  BY DEF Receive, TypeOK, history, still
<1> DEFINE n == Len(box) + 1
<1>2. /\ n \in Nat \ {0} /\ DOMAIN box' = DOMAIN box \cup {n} /\ n \notin DOMAIN box
      /\ box'[n] = m /\ \A i \in DOMAIN box : box'[i] = box[i]
  BY <1>1
<1> HIDE DEF n
<1>3. BoxTags' = BoxTags \cup {<<m, n>>}
  <2>1. \A i \in DOMAIN box' : <<box'[i], i>> \in BoxTags \cup {<<m, n>>}
    BY <1>2 DEF BoxTags
  <2>2. <<m, n>> \in BoxTags'
    BY <1>2 DEF BoxTags
  <2>3. \A i \in DOMAIN box : <<box[i], i>> \in BoxTags'
    <3>1. \A i \in DOMAIN box : i \in DOMAIN box' /\ <<box[i], i>> = <<box'[i], i>>
      BY <1>2
    <3> QED BY <3>1 DEF BoxTags
  <2> QED BY <2>1, <2>2, <2>3 DEF BoxTags
<1>4. PollTags' = PollTags /\ Numbered' = Numbered /\ RowTags' = RowTags
  BY <1>1 DEF PollTags, Numbered, RowTags
<1>5. Tags' = Tags \cup {<<m, n>>}
  BY <1>3, <1>4 DEF Tags
<1>6. \A f \in Tags : f[1] # m /\ f[1] \in arrived
  BY <1>1 DEF Ordered, Tagged
<1>7. Tagged'
  BY <1>1, <1>5, <1>6 DEF Tagged
<1>8. Steady'
  BY <1>1, <1>5, <1>6 DEF Ordered, Steady
<1>9. BoxOnce'
  <2>1. \A i \in DOMAIN box : box[i] # m
    <3>1. \A i \in DOMAIN box : <<box[i], i>> \in Tags
      BY TagKinds DEF BoxTags
    <3> QED BY <1>6, <3>1
  <2> QED BY <1>2, <2>1 DEF Ordered, BoxOnce
<1>10. OneSearch' /\ UniqueIndex' /\ BlankRows' /\ (Calm' => Calm)
  BY <1>1, <1>4 DEF Ordered, OneSearch, UniqueIndex, BlankRows, Calm
<1>11. CalmInv => CalmInv'
  <2> SUFFICES ASSUME CalmInv PROVE CalmInv'
    OBVIOUS
  <2>1. Placed'
    BY <1>2, <1>5 DEF CalmInv, Placed
  <2>2. OnePoll' /\ FreshBatch'
    BY <1>1, <1>4 DEF CalmInv, OnePoll, FreshBatch, NotYet
  <2>3. ASSUME NEW k \in arrived' \ unseen' PROVE Safe(k)'
    <3>1. k \in arrived \ unseen
      BY <1>1, <2>3
    <3>2. Safe(k)
      BY <3>1 DEF CalmInv
    <3> QED BY <1>1, <3>2 DEF Safe, InHands, Known, RowsOf
  <2> QED BY <2>1, <2>2, <2>3 DEF CalmInv
<1> QED BY <1>7, <1>8, <1>9, <1>10, <1>11 DEF Ordered

\* A message that is removed leaves its number to the next.
LEMMA ExpungeOrdered == ASSUME TypeOK, Ordered, NEW i \in DOMAIN box, Expunge(i) PROVE Ordered'
<1>1. /\ box \in Seq(Mails)
      /\ box' = SubSeq(box, 1, i - 1) \o SubSeq(box, i + 1, Len(box))
      /\ moved' = moved \cup {box[k] : k \in (i + 1)..Len(box)}
      /\ UNCHANGED <<arrived, row, poll>>
      /\ spent' = spent \cup {"expunge"}
  BY DEF Expunge, TypeOK, Spend
<1>2. i \in 1..Len(box)
  BY <1>1
<1>3. /\ DOMAIN box' = 1..(Len(box) - 1)
      /\ \A k \in DOMAIN box' : box'[k] = IF k < i THEN box[k] ELSE box[k + 1]
  <2> DEFINE a == SubSeq(box, 1, i - 1)
             b == SubSeq(box, i + 1, Len(box))
  <2>1. a \in Seq(Mails) /\ Len(a) = i - 1 /\ \A k \in 1..(i - 1) : a[k] = box[k]
    BY <1>1, <1>2
  <2>2. b \in Seq(Mails) /\ Len(b) = Len(box) - i /\ \A k \in 1..(Len(box) - i) : b[k] = box[i + k]
    <3>1. box \in Seq(Mails) /\ i \in Nat /\ Len(box) \in Nat /\ i <= Len(box)
      BY <1>1, <1>2
    <3>2. b \in Seq(Mails) /\ Len(b) = Len(box) - i
      BY <3>1, SMTT(30)
    <3>3. \A k \in 1..(Len(box) - i) : b[k] = box[i + k]
      BY <3>1, SMTT(30)
    <3> QED BY <3>2, <3>3
  <2>3. box' = a \o b
    BY <1>1
  <2> HIDE DEF a, b
  <2>4. /\ box' \in Seq(Mails) /\ Len(box') = Len(a) + Len(b)
        /\ \A k \in 1..(Len(a) + Len(b)) : box'[k] = IF k <= Len(a) THEN a[k] ELSE b[k - Len(a)]
    BY <2>1, <2>2, <2>3, ConcatProperties
  <2>5. DOMAIN box' = 1..(Len(box) - 1)
    BY <1>1, <1>2, <2>1, <2>2, <2>4
  <2>6. ASSUME NEW k \in 1..(Len(box) - 1)
        PROVE  box'[k] = IF k < i THEN box[k] ELSE box[k + 1]
    <3>1. /\ Len(box) \in Nat /\ i \in Nat /\ k \in Nat /\ k <= Len(box) - 1
          /\ k \in 1..(Len(a) + Len(b))
      BY <1>1, <1>2, <2>1, <2>2
    <3>2. CASE k < i
      <4>1. k \in 1..(i - 1) /\ k <= Len(a)
        BY <2>1, <3>1, <3>2
      <4> QED BY <2>1, <2>4, <3>1, <3>2, <4>1
    <3>3. CASE k >= i
      <4>1. k - Len(a) = k - i + 1 /\ k - i + 1 \in 1..(Len(box) - i) /\ ~(k <= Len(a))
        BY <1>2, <2>1, <3>1, <3>3
      <4>2. box'[k] = b[k - i + 1] /\ i + (k - i + 1) = k + 1
        BY <2>4, <3>1, <4>1
      <4>3. b[k - i + 1] = box[i + (k - i + 1)]
        BY <2>2, <4>1
      <4> QED BY <3>1, <3>3, <4>2, <4>3
    <3> QED BY <3>1, <3>2, <3>3
  <2> QED BY <2>5, <2>6
<1>4. ASSUME NEW k \in DOMAIN box'
      PROVE  /\ k < i => k \in DOMAIN box /\ box'[k] = box[k]
             /\ k >= i => k + 1 \in DOMAIN box /\ box'[k] = box[k + 1] /\ box'[k] \in moved'
  <2>1. DOMAIN box = 1..Len(box) /\ Len(box) \in Nat /\ i \in Nat
    BY <1>1, <1>2
  <2>2. k \in 1..(Len(box) - 1) /\ k \in Nat
    BY <1>3, <2>1
  <2>3. k >= i => k + 1 \in (i + 1)..Len(box) /\ k + 1 \in DOMAIN box
    BY <2>1, <2>2
  <2>4. k < i => k \in DOMAIN box
    BY <2>1, <2>2
  <2>5. box'[k] = IF k < i THEN box[k] ELSE box[k + 1]
    BY <1>3
  <2>6. k >= i => box[k + 1] \in moved'
    BY <1>1, <2>3
  <2> QED BY <2>1, <2>2, <2>3, <2>4, <2>5, <2>6
<1>5. i \in Nat /\ DOMAIN box' \subseteq Nat
  BY <1>1, <1>2, <1>3
<1>6. PollTags' = PollTags /\ Numbered' = Numbered /\ RowTags' = RowTags
  BY <1>1 DEF PollTags, Numbered, RowTags
<1>7. \A f \in BoxTags' : f \in BoxTags \/ (f[1] \in moved' /\ \E k \in DOMAIN box : f[1] = box[k])
  <2>1. ASSUME NEW k \in DOMAIN box'
        PROVE  <<box'[k], k>> \in BoxTags \/ (box'[k] \in moved' /\ \E j \in DOMAIN box : box'[k] = box[j])
    <3>1. CASE k < i
      <4>1. k \in DOMAIN box /\ <<box'[k], k>> = <<box[k], k>>
        BY <1>4, <3>1
      <4> QED BY <4>1 DEF BoxTags
    <3>2. CASE k >= i
      BY <1>4, <3>2
    <3> QED BY <1>5, <3>1, <3>2
  <2> QED BY <2>1 DEF BoxTags
<1>8. \A f \in Tags' : f \in Tags \/ (f[1] \in moved' /\ f[1] \in arrived)
  <2>1. \A k \in DOMAIN box : box[k] \in arrived
    <3>1. \A k \in DOMAIN box : <<box[k], k>> \in Tags
      BY TagKinds DEF BoxTags
    <3> QED BY <3>1 DEF Ordered, Tagged
  <2> QED BY <1>6, <1>7, <2>1 DEF Tags
<1>9. Tagged' /\ Steady'
  BY <1>1, <1>8 DEF Ordered, Tagged, Steady
<1>10. BoxOnce'
  <2> SUFFICES ASSUME NEW k \in DOMAIN box', NEW j \in DOMAIN box', box'[k] = box'[j] PROVE k = j
    BY DEF BoxOnce
  <2>1. k \in Nat /\ j \in Nat
    BY <1>5
  <2> QED BY <1>4, <1>5, <2>1 DEF Ordered, BoxOnce
<1>11. OneSearch' /\ UniqueIndex' /\ BlankRows' /\ ~Calm'
  BY <1>1, <1>6 DEF Ordered, OneSearch, UniqueIndex, BlankRows, Calm, Troubles
<1> QED BY <1>9, <1>10, <1>11 DEF Ordered

-----------------------------------------------------------------------------
(* Polls.                                                                   *)

\* A poll goes on with x, and no row is stored.
LEMMA PollGoes ==
  ASSUME TypeOK, Ordered, NEW p \in Polls, NEW x \in PollStates, Move(p, x),
         UNCHANGED <<box, arrived, row, moved>>, spent \subseteq spent',
         x.todo \cup x.got \subseteq poll[p].todo \cup poll[p].got \cup BoxTags,
         OneToOne(x.todo \cup x.got),
         x.pc \notin InWork => x.got = {},
         Calm' =>
           /\ poll[p].pc # "idle" \/ \A q \in Polls : poll[q].pc = "idle"
           /\ x.pc = "storing" => \A f \in x.got : NotYet(f)
           /\ \A m \in arrived \ unseen' :
                m \in unseen \/ (\E f \in poll[p].got : f[1] = m)
                  => \/ \E f \in x.got : f[1] = m
                     \/ RowsOf(m) # {} \/ ~Known(m) \/ m \in Blank
  PROVE  Ordered'
<1>1. /\ poll' \in [Polls -> PollStates]
      /\ \A q \in Polls : poll'[q] = IF q = p THEN x ELSE poll[q]
  BY DEF TypeOK, Move
<1>2. Tags' \subseteq Tags
  <2>1. BoxTags' = BoxTags /\ RowTags' = RowTags
    BY DEF BoxTags, RowTags, Numbered
  <2>2. PollTags' \subseteq PollTags \cup BoxTags
    <3>1. \A q \in Polls : poll'[q].todo \cup poll'[q].got \subseteq PollTags \cup BoxTags
      BY <1>1 DEF PollTags
    <3> QED BY <3>1 DEF PollTags
  <2> QED BY <2>1, <2>2 DEF Tags
<1>3. Tagged' /\ Steady' /\ (Placed => Placed')
  BY <1>2, FewerTags DEF Ordered
<1>4. BoxOnce' /\ UniqueIndex' /\ BlankRows'
  BY DEF Ordered, BoxOnce, UniqueIndex, BlankRows, Numbered
<1>5. OneSearch'
  BY <1>1 DEF Ordered, OneSearch, OneToOne
<1>6. ASSUME Calm' PROVE CalmInv'
  <2>1. CalmInv
    BY <1>6, CalmBefore DEF Ordered
  <2>2. OnePoll'
    BY <1>1, <1>6, <2>1 DEF CalmInv, OnePoll
  <2>3. FreshBatch'
    BY <1>1, <1>6, <2>1 DEF CalmInv, FreshBatch, NotYet, Numbered
  <2>4. ASSUME NEW m \in arrived' \ unseen' PROVE Safe(m)'
    <3>1. m \in arrived \ unseen' /\ RowsOf(m)' = RowsOf(m)
      BY <2>4 DEF RowsOf
    <3>2. CASE m \in unseen \/ \E f \in poll[p].got : f[1] = m
      BY <1>1, <1>6, <3>1, <3>2 DEF Safe, InHands, Known
    <3>3. CASE m \notin unseen /\ ~\E f \in poll[p].got : f[1] = m
      <4>1. Safe(m)
        BY <2>1, <3>1, <3>3 DEF CalmInv
      <4>2. InHands(m) => InHands(m)'
        BY <1>1, <3>3 DEF InHands
      <4> QED BY <3>1, <4>1, <4>2 DEF Safe, Known
    <3> QED BY <3>2, <3>3
  <2> QED BY <1>3, <2>1, <2>2, <2>3, <2>4 DEF CalmInv
<1> QED BY <1>3, <1>4, <1>5, <1>6 DEF Ordered

\* Every step of a poll that stores nothing.
LEMMA PollOrdered ==
  ASSUME TriageInv, Ordered, NEW p \in Polls,
         \/ BeginPoll(p) \/ (\E f \in poll[p].todo : Fetch(p, f)) \/ LookUp(p) \/ StoreClash(p)
         \/ (\E id \in Ids : Publish(p, id)) \/ FetchError(p) \/ PollCrash(p)
  PROVE  Ordered'
<1>0. /\ TypeOK /\ poll[p] \in PollStates
      /\ OneToOne(poll[p].todo \cup poll[p].got)
      /\ poll[p].pc \notin InWork => poll[p].got = {}
  BY DEF TriageInv, TypeOK, Ordered, OneSearch
<1>00. NoPoll.todo = {} /\ NoPoll.got = {}
  BY DEF NoPoll
<1>1. ASSUME BeginPoll(p) PROVE Ordered'
  <2> DEFINE todo == {<<box[i], i>> : i \in {k \in DOMAIN box : box[k] \in unseen}}
             x == [NoPoll EXCEPT !.pc = "fetching", !.todo = todo]
  <2>1. todo \in SUBSET Found /\ todo \subseteq BoxTags
    <3>1. \A i \in DOMAIN box : box[i] \in Mails /\ i \in Nat \ {0}
      BY <1>0 DEF TypeOK
    <3> QED BY <3>1 DEF Found, BoxTags
  <2>2. OneToOne(todo)
    BY DEF OneToOne, Ordered, BoxOnce
  <2> HIDE DEF todo
  <2>3. x \in PollStates /\ x.todo = todo /\ x.got = {} /\ x.pc = "fetching"
    BY <2>1 DEF NoPoll, PollStates
  <2>4. Move(p, x)
    BY <1>1 DEF BeginPoll, todo
  <2> HIDE DEF x
  <2>5. spent \subseteq spent' /\ (Calm' => \A q \in Polls : poll[q].pc = "idle")
    BY <1>1 DEF BeginPoll, Spend, Calm, Troubles
  <2>6. UNCHANGED <<box, unseen, arrived, row, moved>> /\ poll[p].pc = "idle"
    BY <1>1 DEF BeginPoll, history, still
  <2>7. poll[p].got = {}
    BY <1>0, <2>6 DEF InWork
  <2>8. x.todo \cup x.got = todo
    BY <2>3
  <2> QED BY <1>0, <2>1, <2>2, <2>3, <2>4, <2>5, <2>6, <2>7, <2>8, PollGoes
<1>2. ASSUME NEW f \in poll[p].todo, Fetch(p, f) PROVE Ordered'
  <2> DEFINE x == [poll[p] EXCEPT !.todo = @ \ {f}, !.got = @ \cup {f}]
  <2>1. /\ x \in PollStates /\ x.pc = "fetching"
        /\ x.todo \cup x.got = poll[p].todo \cup poll[p].got
        /\ x.got = poll[p].got \cup {f}
    BY <1>0, <1>2 DEF Fetch, PollStates
  <2>2. Move(p, x) /\ unseen' = unseen \ {f[1]} /\ UNCHANGED <<box, arrived, row, moved, spent>>
    BY <1>2 DEF Fetch, history, still
  <2> HIDE DEF x
  <2>3. poll[p].pc # "idle"
    BY <1>2 DEF Fetch
  <2> QED BY <1>0, <2>1, <2>2, <2>3, PollGoes DEF InWork
<1>3. ASSUME LookUp(p) PROVE Ordered'
  <2> DEFINE x == [poll[p] EXCEPT !.pc = "storing", !.got = New(@)]
  <2>1. /\ x \in PollStates /\ x.pc = "storing" /\ x.todo = {}
        /\ x.got = New(poll[p].got) /\ New(poll[p].got) \subseteq poll[p].got
    BY <1>0, <1>3 DEF LookUp, New, PollStates
  <2>2. Move(p, x) /\ UNCHANGED <<box, unseen, arrived, row, moved, spent>>
    BY <1>3 DEF LookUp
  <2> HIDE DEF x
  <2>3. poll[p].pc = "fetching"
    BY <1>3 DEF LookUp
  <2>4. OneToOne(x.todo \cup x.got) /\ x.todo \cup x.got \subseteq poll[p].todo \cup poll[p].got
    BY <1>0, <2>1 DEF OneToOne
  <2>5. \A f \in x.got : NotYet(f)
    BY <2>1 DEF New, NotYet, Numbers, Numbered
  <2>6. ASSUME Calm', NEW f \in poll[p].got, Known(f[1]), f[1] \notin Blank, f \notin x.got
        PROVE  RowsOf(f[1]) # {}
    <3>1. Placed
      BY <2>2, <2>6, CalmBefore DEF Ordered, CalmInv
    <3>2. f[2] \in Numbers /\ f[2] \in Nat /\ f[2] > 0
      BY <1>0, <2>1, <2>6 DEF New, Known, PollStates, Found
    <3>3. PICK id \in Ids : row[id].there /\ row[id].num = f[2]
      BY <3>2 DEF Numbers
    <3>4. <<id[1], f[2]>> \in Tags /\ f \in Tags
      BY <3>2, <3>3, TagKinds DEF Numbered
    <3>5. box[f[2]] = f[1] /\ box[f[2]] = id[1]
      BY <3>1, <3>4 DEF Placed
    <3> QED BY <3>3, <3>5 DEF RowsOf
  <2>7. \A m \in arrived : Calm' /\ (\E f \in poll[p].got : f[1] = m)
           => (\E f \in x.got : f[1] = m) \/ RowsOf(m) # {} \/ ~Known(m) \/ m \in Blank
    BY <2>6
  <2>8. ASSUME Calm' PROVE \A m \in arrived \ unseen : Safe(m)
    BY <2>2, <2>8, CalmBefore DEF Ordered, CalmInv
  <2> QED BY <1>0, <2>1, <2>2, <2>3, <2>4, <2>5, <2>7, PollGoes DEF InWork
<1>4. ASSUME StoreClash(p) PROVE Ordered'
  <2>1. Move(p, NoPoll) /\ UNCHANGED <<box, arrived, row, moved, spent>> /\ poll[p].pc = "storing"
    BY <1>4 DEF StoreClash
  <2>2. ~Calm'
    <3> SUFFICES ASSUME Calm' PROVE FALSE
      OBVIOUS
    <3>1. FreshBatch
      BY <2>1, CalmBefore DEF Ordered, CalmInv
    <3>2. PICK f \in poll[p].got : f[2] \in Numbers
      BY <1>4 DEF StoreClash, Clashes
    <3>3. f[2] \in Nat /\ f[2] > 0
      BY <1>0 DEF PollStates, Found
    <3>4. \E id \in Numbered : row[id].num = f[2]
      BY <3>2, <3>3 DEF Numbers, Numbered
    <3> QED BY <2>1, <3>1, <3>4 DEF FreshBatch, NotYet
  <2>3. OneToOne(NoPoll.todo \cup NoPoll.got)
    BY <1>00 DEF OneToOne
  <2> QED BY <1>0, <1>00, <2>1, <2>2, <2>3, NoPollIsOne, PollGoes
<1>5. ASSUME NEW id \in Ids, Publish(p, id) PROVE Ordered'
  <2> DEFINE x == IF poll[p].ids = {id} THEN NoPoll ELSE [poll[p] EXCEPT !.ids = @ \ {id}]
  <2>1. poll[p].pc = "publishing" /\ poll[p].got = {}
    BY <1>0, <1>5 DEF Publish, InWork
  <2>2. /\ x \in PollStates /\ x.got = {} /\ x.pc \in {"idle", "publishing"}
        /\ x.todo \subseteq poll[p].todo
    BY <1>0, <1>00, <2>1, NoPollIsOne DEF PollStates
  <2>3. Move(p, x) /\ UNCHANGED <<box, unseen, arrived, row, moved, spent>>
    BY <1>5 DEF Publish, history, still
  <2> HIDE DEF x
  <2>4. OneToOne(x.todo \cup x.got) /\ x.todo \cup x.got \subseteq poll[p].todo
    BY <1>0, <2>2 DEF OneToOne
  <2> QED BY <1>0, <2>1, <2>2, <2>3, <2>4, PollGoes
<1>6. ASSUME FetchError(p) \/ PollCrash(p) PROVE Ordered'
  <2>1. /\ Move(p, NoPoll) /\ UNCHANGED <<box, arrived, row, moved>>
        /\ spent \subseteq spent' /\ ~Calm'
    BY <1>6 DEF FetchError, PollCrash, Spend, Calm, Troubles
  <2>2. OneToOne(NoPoll.todo \cup NoPoll.got)
    BY <1>00 DEF OneToOne
  <2> QED BY <1>0, <1>00, <2>1, <2>2, NoPollIsOne, PollGoes
<1> QED BY <1>1, <1>2, <1>3, <1>4, <1>5, <1>6

\* A poll commits its batch: every message becomes a row that goes by the number the
\* poll found it under.
LEMMA StoreOrdered == ASSUME TriageInv, Ordered, NEW p \in Polls, Store(p) PROVE Ordered'
<1> DEFINE found == poll[p].got
           ids == {FreeCopy(f[1]) : f \in found}
           num(id) == (CHOOSE f \in found : f[1] = id[1])[2]
<1>0. /\ TypeOK /\ poll \in [Polls -> PollStates] /\ poll[p] \in PollStates
      /\ poll[p].pc = "storing" /\ row \in [Ids -> Rows]
      /\ UNCHANGED <<box, unseen, arrived, moved, spent>>
  BY DEF TriageInv, TypeOK, Store, history, still
<1>1. \A f \in found : /\ f[2] \in Nat /\ f[2] > 0 /\ f \in Tags
                       /\ f[2] \notin Numbers /\ FreeCopies(f[1]) # {}
  <2>1. \A f \in found : f[2] \in Nat /\ f[2] > 0
    BY <1>0 DEF PollStates, Found
  <2>2. \A f \in found : f \in Tags
    BY TagKinds
  <2> QED BY <2>1, <2>2 DEF Store, Clashes
<1>2. ASSUME NEW f \in found
      PROVE  /\ FreeCopy(f[1]) \in Ids /\ FreeCopy(f[1])[1] = f[1] /\ ~row[FreeCopy(f[1])].there
             /\ num(FreeCopy(f[1])) = f[2]
  <2>1. FreeCopy(f[1]) \in FreeCopies(f[1])
    BY <1>1 DEF FreeCopy
  <2>2. FreeCopy(f[1]) \in Ids /\ FreeCopy(f[1])[1] = f[1] /\ ~row[FreeCopy(f[1])].there
    BY <2>1 DEF FreeCopies
  <2>3. \A g, h \in found : g[1] = h[1] <=> g[2] = h[2]
    BY DEF Ordered, OneSearch, OneToOne
  <2>4. (CHOOSE g \in found : g[1] = f[1]) \in found
        /\ (CHOOSE g \in found : g[1] = f[1])[1] = f[1]
    OBVIOUS
  <2> QED BY <2>2, <2>3, <2>4
<1>3. ids \subseteq Ids
  BY <1>2
<1>4. \A id \in Ids : row'[id] = IF id \in ids THEN [NoRow EXCEPT !.there = TRUE, !.num = num(id)]
                                              ELSE row[id]
  BY DEF Store
<1> HIDE DEF num, ids
<1>5. \A id \in Ids : IF id \in ids THEN row'[id].there /\ row'[id].num = num(id)
                                  ELSE row'[id] = row[id]
  BY <1>4 DEF NoRow
<1>6. \A id \in ids : \E f \in found : /\ id = FreeCopy(f[1]) /\ id[1] = f[1] /\ num(id) = f[2]
                                       /\ ~row[id].there
  BY <1>2 DEF ids
<1>7. Numbered' = Numbered \cup ids
  <2>1. \A id \in Ids : id \in Numbered' <=> id \in Numbered \/ id \in ids
    <3>1. \A id \in ids : num(id) \in Nat /\ num(id) > 0
      BY <1>1, <1>6
    <3> QED BY <1>3, <1>5, <3>1 DEF Numbered
  <2>2. Numbered' \subseteq Ids /\ Numbered \subseteq Ids
    BY DEF Numbered
  <2> QED BY <1>3, <2>1, <2>2
<1>8. \A id \in Numbered : id \notin ids /\ row'[id] = row[id]
  BY <1>5, <1>6 DEF Numbered
<1>9. RowTags' \subseteq Tags
  <2>1. \A id \in Numbered' : <<id[1], row'[id].num>> \in Tags
    <3>1. ASSUME NEW id \in ids PROVE <<id[1], row'[id].num>> \in Tags
      <4>1. PICK f \in found : id[1] = f[1] /\ num(id) = f[2]
        BY <1>6
      <4>2. f \in Mails \X (Nat \ {0})
        BY <1>0 DEF PollStates, Found
      <4>3. f = <<id[1], num(id)>> /\ f \in Tags
        BY <1>1, <4>1, <4>2
      <4> QED BY <1>3, <1>5, <4>3
    <3>2. \A id \in Numbered : <<id[1], row'[id].num>> \in Tags
      BY <1>8, TagKinds
    <3> QED BY <1>7, <3>1, <3>2
  <2> QED BY <2>1 DEF RowTags
<1> DEFINE x == IF ids = {} THEN NoPoll ELSE [NoPoll EXCEPT !.pc = "publishing", !.ids = ids]
<1>10. x \in PollStates /\ x.todo = {} /\ x.got = {} /\ x.pc \in {"idle", "publishing"}
  BY <1>3 DEF NoPoll, PollStates
<1>11. \A q \in Polls : poll'[q] = IF q = p THEN x ELSE poll[q]
  BY <1>0 DEF Store, Move, ids
<1> HIDE DEF x
<1>12. Tags' \subseteq Tags
  <2>1. BoxTags' = BoxTags
    BY <1>0 DEF BoxTags
  <2>2. PollTags' \subseteq PollTags
    <3>1. \A q \in Polls : poll'[q].todo \cup poll'[q].got \subseteq PollTags
      BY <1>10, <1>11 DEF PollTags
    <3> QED BY <3>1 DEF PollTags
  <2> QED BY <1>9, <2>1, <2>2 DEF Tags
<1>13. Tagged' /\ Steady' /\ (Placed => Placed') /\ BoxOnce'
  BY <1>0, <1>12, FewerTags DEF Ordered, BoxOnce
<1>14. OneSearch'
  BY <1>10, <1>11 DEF Ordered, OneSearch, OneToOne
<1>15. UniqueIndex'
  <2> SUFFICES ASSUME NEW i \in Numbered', NEW j \in Numbered', row'[i].num = row'[j].num PROVE i = j
    BY DEF UniqueIndex
  <2>1. CASE i \in Numbered /\ j \in Numbered
    BY <1>8, <2>1 DEF Ordered, UniqueIndex
  <2>2. CASE i \in ids /\ j \in ids
    <3>1. PICK f \in found : i = FreeCopy(f[1]) /\ num(i) = f[2]
      BY <1>6, <2>2
    <3>2. PICK g \in found : j = FreeCopy(g[1]) /\ num(j) = g[2]
      BY <1>6, <2>2
    <3>3. f[2] = g[2]
      BY <1>3, <1>5, <2>2, <3>1, <3>2
    <3>4. f[1] = g[1]
      BY <3>3 DEF Ordered, OneSearch, OneToOne
    <3> QED BY <3>1, <3>2, <3>4
  <2>3. ASSUME NEW a \in Numbered, NEW b \in ids, row'[a].num = row'[b].num PROVE FALSE
    <3>1. PICK f \in found : num(b) = f[2]
      BY <1>6
    <3>2. row[a].num = f[2]
      BY <1>3, <1>5, <1>8, <2>3, <3>1
    <3> QED BY <1>1, <3>2 DEF Numbers, Numbered
  <2> QED BY <1>7, <2>1, <2>2, <2>3
<1>16. BlankRows'
  BY <1>5 DEF Ordered, BlankRows
<1>17. ASSUME Calm' PROVE CalmInv'
  <2>1. CalmInv
    BY <1>0, <1>17, CalmBefore DEF Ordered
  <2>2. OnePoll'
    BY <1>0, <1>11, <2>1 DEF CalmInv, OnePoll
  <2>3. FreshBatch'
    <3>1. \A q \in Polls : poll'[q].pc # "storing"
      BY <1>0, <1>10, <1>11, <2>1 DEF CalmInv, OnePoll
    <3> QED BY <3>1 DEF FreshBatch
  <2>4. ASSUME NEW m \in arrived' \ unseen' PROVE Safe(m)'
    <3>1. Safe(m)
      BY <1>0, <2>1, <2>4 DEF CalmInv
    <3>2. RowsOf(m) \subseteq RowsOf(m)'
      BY <1>5 DEF RowsOf
    <3>3. ASSUME NEW q \in Polls, NEW f \in poll[q].got, f[1] = m
          PROVE  InHands(m)' \/ RowsOf(m)' # {}
      <4>1. CASE q = p
        <5>1. f \in found /\ FreeCopy(f[1]) \in ids
          BY <3>3, <4>1 DEF ids
        <5> QED BY <1>2, <1>3, <1>5, <3>3, <5>1 DEF RowsOf
      <4>2. CASE q # p
        BY <1>11, <3>3, <4>2 DEF InHands
      <4> QED BY <4>1, <4>2
    <3> QED BY <3>1, <3>2, <3>3 DEF Safe, InHands, Known
  <2> QED BY <1>13, <2>1, <2>2, <2>3, <2>4 DEF CalmInv
<1> QED BY <1>13, <1>14, <1>15, <1>16, <1>17 DEF Ordered

-----------------------------------------------------------------------------
(* The webhook and triage, as the mailbox sees them.                         *)

\* A pushed row has no number.
LEMMA PushOrdered ==
  ASSUME TriageInv, Ordered,
         \/ \E m \in Mails : Push(m)
         \/ \E id \in Ids : PushPublished(id) \/ PushCrash(id)
  PROVE  Ordered'
<1>0. TypeOK /\ row \in [Ids -> Rows]
  BY DEF TriageInv, TypeOK
<1>1. ASSUME NEW m \in Mails, Push(m) PROVE Ordered'
  <2> DEFINE new == FreeCopy(m)
  <2>1. new \in Ids /\ ~row[new].there
    BY <1>1 DEF Push, FreeCopy, FreeCopies
  <2>2. row[new].num = 0
    BY <2>1 DEF Ordered, BlankRows
  <2>3. row' = [row EXCEPT ![new].there = TRUE]
    BY <1>1 DEF Push
  <2> HIDE DEF new
  <2>4. \A id \in Ids : row'[id] = IF id = new THEN [row[id] EXCEPT !.there = TRUE] ELSE row[id]
    BY <1>0, <2>1, <2>3
  <2>5. \A id \in Ids : row'[id].num = row[id].num /\ row'[id].there = (id = new \/ row[id].there)
    BY <1>0, <2>4 DEF Rows
  <2>6. RowsKept
    BY <2>2, <2>5 DEF RowsKept
  <2> QED BY <1>0, <1>1, <2>6, MailLeftAlone DEF Push, Spend, history, still
<1>2. ASSUME NEW id \in Ids, PushPublished(id) \/ PushCrash(id) PROVE Ordered'
  <2>1. /\ UNCHANGED <<row, box, unseen, arrived, poll, moved>>
        /\ spent \subseteq spent'
    BY <1>2 DEF PushPublished, PushCrash, Spend, history, still
  <2>2. RowsKept
    BY <2>1 DEF RowsKept
  <2> QED BY <1>0, <2>1, <2>2, MailLeftAlone
<1> QED BY <1>1, <1>2

\* Triage writes sentiments and requests.
LEMMA TriageOrdered ==
  ASSUME TriageInv, Ordered,
         \/ \E w \in Workers : \/ TriageStep(w) \/ ClassifyFails(w) \/ Redeliver(w)
                               \/ \E back \in BOOLEAN : WorkerCrash(w, back)
         \/ \E l \in Leads : Unsubscribe(l) \/ LateSend(l)
  PROVE  Ordered'
<1>0. TypeOK /\ row \in [Ids -> Rows]
  BY DEF TriageInv, TypeOK
<1>1. UNCHANGED <<box, unseen, arrived, poll, moved>> /\ spent \subseteq spent'
  <2>1. ASSUME NEW w \in Workers, TriageStep(w)
        PROVE  UNCHANGED <<box, unseen, arrived, poll, moved>> /\ spent' = spent
    <3>1. CASE \/ (\E id \in Ids : Take(w, id)) \/ Negative(w) \/ NegativeAndListed(w)
               \/ CommitOptOut(w) \/ OptOutClash(w) \/ Objection(w)
      BY <3>1 DEF Take, Negative, NegativeAndListed, CommitOptOut, OptOutClash, Objection,
                  intake, history, still
    <3>2. CASE Positive(w) \/ Synced(w) \/ NotSynced(w) \/ OpenGate(w) \/ GateClash(w) \/ CommitGate(w)
      BY <3>2 DEF Positive, Synced, NotSynced, OpenGate, GateClash, CommitGate, intake, history, still
    <3> QED BY <2>1, <3>1, <3>2 DEF TriageStep
  <2>2. ASSUME NEW w \in Workers,
               ClassifyFails(w) \/ Redeliver(w) \/ \E back \in BOOLEAN : WorkerCrash(w, back)
        PROVE  UNCHANGED <<box, unseen, arrived, poll, moved>> /\ spent \subseteq spent'
    BY <2>2 DEF ClassifyFails, Redeliver, WorkerCrash, Spend, intake
  <2>3. ASSUME NEW l \in Leads, Unsubscribe(l) \/ LateSend(l)
        PROVE  UNCHANGED <<box, unseen, arrived, poll, moved>> /\ spent \subseteq spent'
    BY <2>3 DEF Unsubscribe, LateSend, Spend, intake, history, still
  <2> QED BY <2>1, <2>2, <2>3
<1>2. \A id \in Ids : row'[id].num = row[id].num /\ row'[id].there = row[id].there
  <2>1. ASSUME NEW w \in Workers,
               NegativeAndListed(w) \/ CommitOptOut(w) \/ Objection(w)
               \/ Positive(w) \/ Synced(w)
        PROVE  \A id \in Ids : row'[id].num = row[id].num /\ row'[id].there = row[id].there
    <3>1. row' = row \/ \E s \in {"negative", "objection", "positive"} :
            row' = [row EXCEPT ![task[w].id].sentiment = IF task[w].seen = s THEN @ ELSE s]
      BY <2>1 DEF NegativeAndListed, CommitOptOut, Objection, Positive, Synced, Written
    <3> QED BY <1>0, <3>1 DEF Rows
  <2>2. ASSUME NEW w \in Workers, CommitGate(w)
        PROVE  \A id \in Ids : row'[id].num = row[id].num /\ row'[id].there = row[id].there
    <3>1. \E s \in {"positive", row[task[w].id].sentiment} :
            row' = [row EXCEPT ![task[w].id].request = TRUE, ![task[w].id].sentiment = s]
      BY <1>0, <2>2 DEF CommitGate, Requested, Rows
    <3> QED BY <1>0, <3>1 DEF Rows
  <2>3. ASSUME NEW w \in Workers,
               \/ (\E id \in Ids : Take(w, id)) \/ Negative(w) \/ OptOutClash(w) \/ NotSynced(w)
               \/ OpenGate(w) \/ GateClash(w) \/ ClassifyFails(w) \/ Redeliver(w)
               \/ \E back \in BOOLEAN : WorkerCrash(w, back)
        PROVE  row' = row
    BY <2>3 DEF Take, Negative, OptOutClash, NotSynced, OpenGate, GateClash, ClassifyFails,
                Redeliver, WorkerCrash
  <2>4. ASSUME NEW l \in Leads, Unsubscribe(l) \/ LateSend(l) PROVE row' = row
    BY <2>4 DEF Unsubscribe, LateSend
  <2> QED BY <2>1, <2>2, <2>3, <2>4 DEF TriageStep
<1>3. RowsKept
  BY <1>2 DEF RowsKept
<1> QED BY <1>0, <1>1, <1>3, MailLeftAlone

-----------------------------------------------------------------------------
(* The theorems on the mailbox.                                             *)

\* Every step keeps messages and numbers in order.
LEMMA NextKeepsOrder == TriageInv /\ Ordered /\ [Next]_vars => Ordered'
<1> SUFFICES ASSUME TriageInv, Ordered, [Next]_vars PROVE Ordered'
  OBVIOUS
<1>0. TypeOK
  BY DEF TriageInv
<1>1. ASSUME NEW m \in Mails, Receive(m) PROVE Ordered'
  BY <1>0, <1>1, ReceiveOrdered
<1>2. ASSUME NEW p \in Polls, PollStep(p) PROVE Ordered'
  BY <1>2, PollOrdered, StoreOrdered DEF PollStep
<1>3. ASSUME NEW id \in Ids, PushPublished(id) PROVE Ordered'
  BY <1>3, PushOrdered
<1>4. ASSUME NEW w \in Workers, TriageStep(w) PROVE Ordered'
  BY <1>4, TriageOrdered
<1>5. ASSUME Disturbance PROVE Ordered'
  BY <1>0, <1>5, ExpungeOrdered, PollOrdered, PushOrdered, TriageOrdered DEF Disturbance
<1>6. ASSUME UNCHANGED vars PROVE Ordered'
  <2>1. RowsKept /\ UNCHANGED <<box, unseen, arrived, poll, moved, spent>>
    BY <1>6 DEF vars, intake, history, still, RowsKept
  <2> QED BY <1>0, <2>1, MailLeftAlone
<1> QED BY <1>1, <1>2, <1>3, <1>4, <1>5, <1>6 DEF Next

\* The mailbox's side, in every reachable state: however polls overlap, and whatever
\* breaks off or is renumbered, a message that kept its number goes by that one only.
THEOREM MailboxInvariant == Spec => [](TriageInv /\ Ordered)
<1>1. Init => TriageInv /\ Ordered
  BY InitTriage, InitOrdered
<1>2. TriageInv /\ Ordered /\ [Next]_vars => (TriageInv /\ Ordered)'
  BY NextKeepsTriage, NextKeepsOrder
<1> QED BY <1>1, <1>2, PTL DEF Spec

\* No reply is lost without trouble, and none becomes two rows unless it was renumbered.
THEOREM RepliesAreStoredOnce == Spec => []StoredOnce
<1>1. TriageInv /\ Ordered => StoredOnce
  <2> SUFFICES ASSUME TriageInv, Ordered PROVE StoredOnce
    OBVIOUS
  <2>1. ASSUME NEW m \in arrived \ unseen, Known(m), m \notin Blank
        PROVE  InHands(m) \/ RowsOf(m) # {} \/ spent \cap Troubles # {}
    BY <2>1 DEF Ordered, Calm, CalmInv, Safe
  <2>2. ASSUME NEW m \in Mails \ moved
        PROVE  Cardinality({id \in RowsOf(m) : row[id].num > 0}) <= 1
    <3> DEFINE S == {id \in RowsOf(m) : row[id].num > 0}
    <3>1. \A i \in S : i \in Numbered /\ i[1] = m /\ <<m, row[i].num>> \in Tags
      <4>1. \A i \in S : i \in Numbered /\ i[1] = m
        BY DEF RowsOf, Numbered
      <4> QED BY <4>1, TagKinds
    <3>2. \A i, j \in S : i = j
      <4> SUFFICES ASSUME NEW i \in S, NEW j \in S PROVE i = j
        OBVIOUS
      <4>1. row[i].num = row[j].num
        BY <2>2, <3>1 DEF Ordered, Steady
      <4> QED BY <3>1, <4>1 DEF Ordered, UniqueIndex
    <3> HIDE DEF S
    <3>3. CASE S = {}
      <4>1. Cardinality(S) = 0
        BY <3>3, FS_EmptySet
      <4> QED BY <4>1 DEF S
    <3>4. CASE S # {}
      <4>1. PICK i : S = {i}
        BY <3>2, <3>4
      <4>2. Cardinality(S) = 1
        BY <4>1, FS_Singleton
      <4> QED BY <4>2 DEF S
    <3> QED BY <3>3, <3>4
  <2> QED BY <2>1, <2>2 DEF StoredOnce
<1> QED BY <1>1, MailboxInvariant, PTL

-----------------------------------------------------------------------------
(* Positive replies and their requests.                                     *)

\* A worker that has written or is to commit a positive outcome goes on to the
\* request; one that loaded a positive reply decides it anew, or fails and cuts it off.
OnItsWay(t, id) ==
  /\ t.id = id
  /\ t.pc \in {"crm", "gate", "notified"} \/ (t.pc # "idle" /\ t.seen = "positive")

\* What a positive reply without a request still waits for.
Pending(id) ==
  \/ row[id].request \/ id \in cut \/ queue[id] > 0
  \/ \E w \in Workers : OnItsWay(task[w], id)
PositivesArePending == \A id \in Ids : row[id].sentiment = "positive" => Pending(id)

ReplyInv == TriageInv /\ PositivesArePending

\* Worker w goes on with x: each positive reply is pending by w, by what w leaves in the
\* database or the broker, or as it was without w.
LEMMA WorkerGoesOn ==
  ASSUME ReplyInv, NEW w \in Workers, NEW x, task' = [task EXCEPT ![w] = x],
         \A id \in Ids : row'[id].sentiment = "positive" =>
           \/ row'[id].request \/ id \in cut' \/ queue'[id] > 0 \/ OnItsWay(x, id)
           \/ /\ row[id].sentiment = "positive" /\ ~row[id].request /\ id \notin cut
              /\ ~(queue[id] > 0) /\ ~OnItsWay(task[w], id)
  PROVE  PositivesArePending'
<1>1. \A v \in Workers : task'[v] = IF v = w THEN x ELSE task[v]
  BY DEF ReplyInv, TriageInv, TypeOK
<1> SUFFICES ASSUME NEW id \in Ids, row'[id].sentiment = "positive"
             PROVE  \/ row'[id].request \/ id \in cut' \/ queue'[id] > 0
                    \/ \E v \in Workers : OnItsWay(task'[v], id)
  BY DEF PositivesArePending, Pending, OnItsWay
<1>2. CASE row[id].sentiment = "positive" /\ ~row[id].request /\ id \notin cut
           /\ ~(queue[id] > 0) /\ ~OnItsWay(task[w], id)
  <2>1. PICK v \in Workers : OnItsWay(task[v], id)
    BY <1>2 DEF ReplyInv, PositivesArePending, Pending
  <2>2. v # w
    BY <1>2, <2>1
  <2> QED BY <1>1, <2>1, <2>2
<1> QED BY <1>1, <1>2

\* Steps of others: a reply stays what it is, and what it waits for stays.
LEMMA OthersLeaveIt ==
  ASSUME ReplyInv, UNCHANGED task, cut \subseteq cut',
         \A id \in Ids : /\ row'[id].sentiment = "positive" => row[id].sentiment = "positive"
                         /\ row[id].request => row'[id].request
                         /\ queue[id] > 0 => queue'[id] > 0
  PROVE  PositivesArePending'
BY DEF ReplyInv, PositivesArePending, Pending, OnItsWay

\* What a triage step finds.
LEMMA AtWork ==
  ASSUME ReplyInv, NEW w \in Workers, task[w].pc # "idle"
  PROVE  /\ task \in [Workers -> TriageStates] /\ task[w] \in TriageStates
         /\ task[w].id \in Ids /\ row \in [Ids -> Rows] /\ queue \in [Ids -> Nat]
BY TaskAtWork DEF ReplyInv, TriageInv, TypeOK

\* Every step of a worker, also one that goes wrong.
LEMMA WorkerPending ==
  ASSUME ReplyInv, NEW w \in Workers,
         \/ TriageStep(w) \/ ClassifyFails(w) \/ Redeliver(w)
         \/ \E back \in BOOLEAN : WorkerCrash(w, back)
  PROVE  PositivesArePending'
<1> DEFINE t == task[w]
<1>0. ~OnItsWay(NoTask, t.id)
  BY DEF OnItsWay, NoTask
<1>1. ASSUME NEW id \in Ids, Take(w, id) PROVE PositivesArePending'
  <2> DEFINE x == [pc |-> "classify", id |-> id, seen |-> row[id].sentiment, dirty |-> FALSE,
                   was |-> lstatus[LeadOf(id)]]
  <2>1. /\ task' = [task EXCEPT ![w] = x] /\ task[w].pc = "idle" /\ UNCHANGED <<row, cut>>
        /\ queue \in [Ids -> Nat] /\ queue' = [queue EXCEPT ![id] = @ - 1]
    BY <1>1 DEF Take, history, still, ReplyInv, TriageInv, TypeOK
  <2>2. x.pc = "classify" /\ x.id = id /\ x.seen = row[id].sentiment
    OBVIOUS
  <2> HIDE DEF x
  <2>3. row[id].sentiment = "positive" => OnItsWay(x, id)
    BY <2>2 DEF OnItsWay
  <2>4. \A i \in Ids \ {id} : queue'[i] = queue[i]
    BY <2>1
  <2>5. \A i \in Ids : ~OnItsWay(task[w], i)
    BY <2>1 DEF OnItsWay
  <2>6. \A i \in Ids : row'[i].sentiment = "positive" =>
           \/ row'[i].request \/ i \in cut' \/ queue'[i] > 0 \/ OnItsWay(x, i)
           \/ /\ row[i].sentiment = "positive" /\ ~row[i].request /\ i \notin cut
              /\ ~(queue[i] > 0) /\ ~OnItsWay(task[w], i)
    <3>1. UNCHANGED <<row, cut>>
      BY <2>1
    <3> QED BY <2>3, <2>4, <2>5, <3>1
  <2>7. task' = [task EXCEPT ![w] = x]
    BY <2>1
  <2> QED BY <2>6, <2>7, WorkerGoesOn
<1>2. ASSUME ClassifyFails(w) \/ OptOutClash(w) \/ GateClash(w) PROVE PositivesArePending'
  <2>1. /\ task' = [task EXCEPT ![w] = NoTask] /\ UNCHANGED <<row, queue>>
        /\ t.id \in cut' \/ row'[t.id].request
        /\ cut \subseteq cut'
    BY <1>2 DEF ClassifyFails, OptOutClash, GateClash, Done, Hit, history, still
  <2>2. \A id \in Ids : id # t.id => ~OnItsWay(t, id)
    BY DEF OnItsWay
  <2> HIDE DEF t
  <2>3. \A id \in Ids : row'[id].sentiment = "positive" =>
           \/ row'[id].request \/ id \in cut' \/ queue'[id] > 0 \/ OnItsWay(NoTask, id)
           \/ /\ row[id].sentiment = "positive" /\ ~row[id].request /\ id \notin cut
              /\ ~(queue[id] > 0) /\ ~OnItsWay(t, id)
    BY <2>1, <2>2
  <2> QED BY <2>1, <2>3, WorkerGoesOn DEF t
\* The worker keeps the reply and moves on, with nothing written.
<1>3. ASSUME NEW pc \in {"optout", "crm", "gate", "notified"}, NEW dirty \in BOOLEAN,
             t.pc # "idle",
             t.pc # "classify" => pc # "optout",
             task' = [task EXCEPT ![w] = [t EXCEPT !.pc = pc, !.dirty = dirty]],
             UNCHANGED <<row, queue, cut>>
      PROVE  PositivesArePending'
  <2> DEFINE x == [t EXCEPT !.pc = pc, !.dirty = dirty]
  <2>1. x.pc = pc /\ x.id = t.id /\ x.seen = t.seen
    BY <1>3, AtWork DEF TriageStates
  <2>2. \A id \in Ids : OnItsWay(t, id) => OnItsWay(x, id)
    BY <1>3, <2>1 DEF OnItsWay
  <2>3. task' = [task EXCEPT ![w] = x]
    BY <1>3
  <2> HIDE DEF x
  <2>4. \A id \in Ids : row'[id].sentiment = "positive" =>
           \/ row'[id].request \/ id \in cut' \/ queue'[id] > 0 \/ OnItsWay(x, id)
           \/ /\ row[id].sentiment = "positive" /\ ~row[id].request /\ id \notin cut
              /\ ~(queue[id] > 0) /\ ~OnItsWay(t, id)
    BY <1>3, <2>2
  <2> QED BY <2>3, <2>4, WorkerGoesOn
<1>4. ASSUME Negative(w) \/ NotSynced(w) \/ OpenGate(w) PROVE PositivesArePending'
  <2>1. t.pc # "idle"
    BY <1>4 DEF Negative, NotSynced, OpenGate
  <2>2. t \in TriageStates /\ t.dirty \in BOOLEAN
    BY <2>1, AtWork DEF TriageStates
  <2>3. ASSUME NEW pc \in {"optout", "gate", "notified"}, Go(w, pc)
        PROVE  task' = [task EXCEPT ![w] = [t EXCEPT !.pc = pc, !.dirty = t.dirty]]
    <3>1. [t EXCEPT !.pc = pc, !.dirty = t.dirty] = [t EXCEPT !.pc = pc]
      BY <2>2 DEF TriageStates
    <3> QED BY <2>3, <3>1 DEF Go
  <2>4. UNCHANGED <<row, queue, cut>>
    BY <1>4 DEF Negative, NotSynced, OpenGate, history, still
  <2>5. \/ t.pc = "classify" /\ Go(w, "optout")
        \/ t.pc = "crm" /\ Go(w, "gate")
        \/ t.pc = "gate" /\ Go(w, "notified")
    BY <1>4 DEF Negative, NotSynced, OpenGate
  <2> QED BY <1>3, <2>1, <2>2, <2>3, <2>4, <2>5
\* The worker writes its decision: a positive one is still on its way.
<1>5. ASSUME NEW s \in {"negative", "objection", "positive"}, NEW x,
             t.pc # "idle",
             task' = [task EXCEPT ![w] = x],
             row' = [row EXCEPT ![t.id].sentiment = IF t.seen = s THEN @ ELSE s],
             UNCHANGED <<queue, cut>>,
             IF s = "positive" THEN x.id = t.id /\ x.pc \in {"crm", "gate"}
                               ELSE t.pc \in {"classify", "optout"}
      PROVE  PositivesArePending'
  <2>1. t.id \in Ids /\ row \in [Ids -> Rows]
    BY <1>5, AtWork
  <2>2. /\ \A id \in Ids : row'[id].request = row[id].request
        /\ \A id \in Ids : id # t.id => row'[id].sentiment = row[id].sentiment
        /\ row'[t.id].sentiment = IF t.seen = s THEN row[t.id].sentiment ELSE s
    BY <1>5, <2>1 DEF Rows
  <2>3. \A id \in Ids : id # t.id => ~OnItsWay(t, id)
    BY DEF OnItsWay
  <2>4. CASE s = "positive"
    <3>1. OnItsWay(x, t.id)
      BY <1>5, <2>4 DEF OnItsWay
    <3> HIDE DEF t
    <3>2. \A id \in Ids : row'[id].sentiment = "positive" =>
             \/ row'[id].request \/ id \in cut' \/ queue'[id] > 0 \/ OnItsWay(x, id)
             \/ /\ row[id].sentiment = "positive" /\ ~row[id].request /\ id \notin cut
                /\ ~(queue[id] > 0) /\ ~OnItsWay(t, id)
      BY <1>5, <2>2, <2>3, <3>1
    <3> QED BY <1>5, <3>2, WorkerGoesOn DEF t
  <2>5. CASE s # "positive"
    <3>1. row'[t.id].sentiment = "positive" =>
            row[t.id].sentiment = "positive" /\ ~OnItsWay(t, t.id)
      BY <1>5, <2>2, <2>5 DEF OnItsWay
    <3> HIDE DEF t
    <3>2. \A id \in Ids : row'[id].sentiment = "positive" =>
             \/ row'[id].request \/ id \in cut' \/ queue'[id] > 0 \/ OnItsWay(x, id)
             \/ /\ row[id].sentiment = "positive" /\ ~row[id].request /\ id \notin cut
                /\ ~(queue[id] > 0) /\ ~OnItsWay(t, id)
      BY <1>5, <2>2, <2>3, <3>1
    <3> QED BY <1>5, <3>2, WorkerGoesOn DEF t
  <2> QED BY <2>4, <2>5
<1>6. ASSUME NegativeAndListed(w) \/ CommitOptOut(w) \/ Objection(w) PROVE PositivesArePending'
  <2>1. /\ t.pc \in {"classify", "optout"} /\ task' = [task EXCEPT ![w] = NoTask]
        /\ UNCHANGED <<queue, cut>>
    BY <1>6 DEF NegativeAndListed, CommitOptOut, Objection, Done, history, still
  <2>2. \E s \in {"negative", "objection"} :
          row' = [row EXCEPT ![t.id].sentiment = IF t.seen = s THEN @ ELSE s]
    BY <1>6 DEF NegativeAndListed, CommitOptOut, Objection, Written
  <2> QED BY <1>5, <2>1, <2>2
<1>7. ASSUME Positive(w) \/ Synced(w) PROVE PositivesArePending'
  <2>1. t.pc \in {"classify", "crm"} /\ UNCHANGED <<queue, cut>>
    BY <1>7 DEF Positive, Synced, history, still
  <2>2. t \in TriageStates /\ t.dirty \in BOOLEAN /\ task \in [Workers -> TriageStates]
    BY <2>1, AtWork DEF TriageStates
  <2>3. PICK pc \in {"crm", "gate"}, dirty \in BOOLEAN :
          task' = [task EXCEPT ![w] = [t EXCEPT !.pc = pc, !.dirty = dirty]]
    <3>1. CASE Go(w, "crm")
      <4>1. [t EXCEPT !.pc = "crm", !.dirty = t.dirty] = [t EXCEPT !.pc = "crm"]
        BY <2>2 DEF TriageStates
      <4>2. task' = [task EXCEPT ![w] = [t EXCEPT !.pc = "crm", !.dirty = t.dirty]]
        BY <3>1, <4>1 DEF Go
      <4> QED BY <2>2, <4>2
    <3>2. CASE task' = [task EXCEPT ![w].pc = "crm", ![w].dirty = TRUE]
      <4>1. task' = [task EXCEPT ![w] = [t EXCEPT !.pc = "crm", !.dirty = TRUE]]
        BY <2>2, <3>2
      <4> QED BY <4>1
    <3>3. CASE task' = [task EXCEPT ![w].pc = "gate", ![w].dirty = FALSE]
      <4>1. task' = [task EXCEPT ![w] = [t EXCEPT !.pc = "gate", !.dirty = FALSE]]
        BY <2>2, <3>3
      <4> QED BY <4>1
    <3> QED BY <1>7, <3>1, <3>2, <3>3 DEF Positive, Synced
  <2> DEFINE x == [t EXCEPT !.pc = pc, !.dirty = dirty]
  <2>4. x.id = t.id /\ x.pc = pc
    BY <2>2 DEF TriageStates
  <2>5. \/ row' = row
        \/ row' = [row EXCEPT ![t.id].sentiment = IF t.seen = "positive" THEN @ ELSE "positive"]
    BY <1>7 DEF Positive, Synced, Written
  <2> HIDE DEF x
  <2>6. task' = [task EXCEPT ![w] = x]
    BY <2>3 DEF x
  <2>7. CASE row' = row
    BY <1>3, <2>1, <2>3, <2>7
  <2>8. CASE row' = [row EXCEPT ![t.id].sentiment = IF t.seen = "positive" THEN @ ELSE "positive"]
    BY <1>5, <2>1, <2>4, <2>6, <2>8
  <2> QED BY <2>5, <2>7, <2>8
<1>8. ASSUME CommitGate(w) PROVE PositivesArePending'
  <2>1. /\ t.pc = "notified" /\ task' = [task EXCEPT ![w] = NoTask] /\ UNCHANGED <<queue, cut>>
        /\ row' = [row EXCEPT ![t.id].request = TRUE,
                     ![t.id].sentiment = IF t.dirty /\ t.seen # "positive" THEN "positive" ELSE @]
    BY <1>8 DEF CommitGate, Requested, Done, history, still
  <2>2. t.id \in Ids /\ row \in [Ids -> Rows]
    BY <2>1, AtWork
  <2>3. row'[t.id].request /\ \A id \in Ids : id # t.id => row'[id] = row[id] /\ ~OnItsWay(t, id)
    BY <2>1, <2>2 DEF OnItsWay, Rows
  <2> HIDE DEF t
  <2>4. \A id \in Ids : row'[id].sentiment = "positive" =>
           \/ row'[id].request \/ id \in cut' \/ queue'[id] > 0 \/ OnItsWay(NoTask, id)
           \/ /\ row[id].sentiment = "positive" /\ ~row[id].request /\ id \notin cut
              /\ ~(queue[id] > 0) /\ ~OnItsWay(t, id)
    BY <2>1, <2>3
  <2> QED BY <2>1, <2>4, WorkerGoesOn DEF t
<1>9. ASSUME Redeliver(w) PROVE PositivesArePending'
  <2>1. queue \in [Ids -> Nat]
    BY DEF ReplyInv, TriageInv, TypeOK
  <2>2. UNCHANGED <<row, task, cut>> /\ \A id \in Ids : queue[id] > 0 => queue'[id] > 0
    BY <1>9, <2>1 DEF Redeliver, Published
  <2> QED BY <2>2, OthersLeaveIt
<1>10. ASSUME NEW back \in BOOLEAN, WorkerCrash(w, back) PROVE PositivesArePending'
  <2>1. t.pc # "idle" /\ task' = [task EXCEPT ![w] = NoTask] /\ row' = row
    BY <1>10 DEF WorkerCrash
  <2>2. t.id \in Ids /\ queue \in [Ids -> Nat]
    BY <2>1, AtWork
  <2>3. /\ t.id \in cut' \/ queue'[t.id] > 0
        /\ \A id \in Ids : queue[id] > 0 => queue'[id] > 0
        /\ cut \subseteq cut'
    BY <1>10, <2>2 DEF WorkerCrash, Hit, Published
  <2>4. \A id \in Ids : id # t.id => ~OnItsWay(t, id)
    BY DEF OnItsWay
  <2> HIDE DEF t
  <2>5. \A id \in Ids : row'[id].sentiment = "positive" =>
           \/ row'[id].request \/ id \in cut' \/ queue'[id] > 0 \/ OnItsWay(NoTask, id)
           \/ /\ row[id].sentiment = "positive" /\ ~row[id].request /\ id \notin cut
              /\ ~(queue[id] > 0) /\ ~OnItsWay(t, id)
    BY <2>1, <2>2, <2>3, <2>4
  <2> QED BY <2>1, <2>5, WorkerGoesOn DEF t
<1> QED BY <1>1, <1>2, <1>4, <1>6, <1>7, <1>8, <1>9, <1>10 DEF TriageStep

\* Rows are stored with no sentiment, and tasks are published; nothing else of the
\* mailbox and the webhook concerns a triaged reply.
LEMMA IntakePending ==
  ASSUME ReplyInv,
         \/ \E m \in Mails : Receive(m) \/ Push(m)
         \/ \E p \in Polls : PollStep(p) \/ FetchError(p) \/ PollCrash(p)
         \/ \E id \in Ids : PushPublished(id) \/ PushCrash(id)
         \/ \E i \in DOMAIN box : Expunge(i)
         \/ \E l \in Leads : Unsubscribe(l) \/ LateSend(l)
  PROVE  PositivesArePending'
<1>0. row \in [Ids -> Rows] /\ queue \in [Ids -> Nat]
  BY DEF ReplyInv, TriageInv, TypeOK
<1>1. task' = task /\ cut \subseteq cut'
  <2>1. ASSUME NEW p \in Polls, PollStep(p) PROVE task' = task /\ cut' = cut
    BY <2>1 DEF PollStep, BeginPoll, Fetch, LookUp, Store, StoreClash, Publish, triage, history, still
  <2>2. ASSUME NEW p \in Polls, FetchError(p) \/ PollCrash(p) PROVE task' = task /\ cut \subseteq cut'
    BY <2>2 DEF FetchError, PollCrash, triage
  <2>3. ASSUME NEW m \in Mails, Receive(m) \/ Push(m) PROVE task' = task /\ cut' = cut
    BY <2>3 DEF Receive, Push, triage, history, still
  <2>4. ASSUME NEW id \in Ids, PushPublished(id) \/ PushCrash(id)
        PROVE  task' = task /\ cut \subseteq cut'
    BY <2>4 DEF PushPublished, PushCrash, triage, history, still
  <2>5. ASSUME NEW i \in DOMAIN box, Expunge(i) PROVE task' = task /\ cut' = cut
    BY <2>5 DEF Expunge, triage
  <2>6. ASSUME NEW l \in Leads, Unsubscribe(l) \/ LateSend(l)
        PROVE  task' = task /\ cut' = cut
    BY <2>6 DEF Unsubscribe, LateSend, history, still
  <2> QED BY <2>1, <2>2, <2>3, <2>4, <2>5, <2>6
<1>2. \A id \in Ids : queue[id] > 0 => queue'[id] > 0
  <2>1. queue' = queue \/ \E id \in Ids : queue' = Published({id})
    BY DEF PollStep, BeginPoll, Fetch, LookUp, Store, StoreClash, Publish, FetchError, PollCrash,
           Receive, Push, PushPublished, PushCrash, Expunge, Unsubscribe, LateSend
  <2> QED BY <1>0, <2>1 DEF Published
<1>3. \A id \in Ids : \/ row'[id].sentiment = "unset" /\ ~row[id].request
                      \/ row'[id].sentiment = row[id].sentiment /\ row'[id].request = row[id].request
  <2>1. ASSUME NEW m \in Mails, Push(m)
        PROVE  \A id \in Ids : /\ row'[id].sentiment = row[id].sentiment
                               /\ row'[id].request = row[id].request
    BY <1>0, <2>1 DEF Push, Rows
  <2>2. ASSUME NEW p \in Polls, Store(p)
        PROVE  \A id \in Ids : \/ row'[id] = row[id]
                               \/ row'[id].sentiment = "unset" /\ ~row[id].request
    <3> DEFINE ids == {FreeCopy(f[1]) : f \in poll[p].got}
               num(id) == (CHOOSE f \in poll[p].got : f[1] = id[1])[2]
    <3>1. \A id \in ids : ~row[id].there /\ id \in Ids
      BY <2>2 DEF Store, FreeCopy, FreeCopies
    <3>2. \A id \in ids : ~row[id].request
      BY <3>1 DEF ReplyInv, TriageInv, OnlyStored, Stored
    <3>3. \A id \in Ids : row'[id] = IF id \in ids THEN [NoRow EXCEPT !.there = TRUE, !.num = num(id)]
                                                  ELSE row[id]
      BY <2>2 DEF Store
    <3> HIDE DEF ids, num
    <3> QED BY <3>2, <3>3 DEF NoRow
  <2>3. row' = row \/ (\E m \in Mails : Push(m)) \/ (\E p \in Polls : Store(p))
    BY DEF PollStep, BeginPoll, Fetch, LookUp, StoreClash, Publish, FetchError, PollCrash,
           Receive, PushPublished, PushCrash, Expunge, Unsubscribe, LateSend
  <2> QED BY <2>1, <2>2, <2>3
<1> QED BY <1>1, <1>2, <1>3, OthersLeaveIt

\* Every step leaves a positive reply with its request, or on its way.
LEMMA NextKeepsPending == ReplyInv /\ [Next]_vars => PositivesArePending'
<1> SUFFICES ASSUME ReplyInv, [Next]_vars PROVE PositivesArePending'
  OBVIOUS
<1>1. CASE UNCHANGED vars
  BY <1>1, OthersLeaveIt DEF vars, triage, history, still
<1>2. CASE Disturbance
  BY <1>2, WorkerPending, IntakePending DEF Disturbance
<1>3. CASE Next /\ ~Disturbance
  BY <1>3, WorkerPending, IntakePending DEF Next
<1> QED BY <1>1, <1>2, <1>3

\* A reply that reads positive has its request, or somebody is still at it.
THEOREM PendingInvariant == Spec => []ReplyInv
<1>1. Init => ReplyInv
  BY InitTriage DEF ReplyInv, PositivesArePending, Init, NoRow
<1>2. ReplyInv /\ [Next]_vars => ReplyInv'
  BY NextKeepsTriage, NextKeepsPending DEF ReplyInv
<1> QED BY <1>1, <1>2, PTL DEF Spec

\* A positive reply nobody works on any more has its approval request.
THEOREM PositivesAreRequested == Spec => []PositiveIsRequested
<1>1. ReplyInv => PositiveIsRequested
  <2> SUFFICES ASSUME ReplyInv, NEW id \in Ids, AtRest(id), row[id].sentiment = "positive"
               PROVE  row[id].request \/ id \in cut
    BY DEF PositiveIsRequested
  <2>1. Pending(id)
    BY DEF ReplyInv, PositivesArePending
  <2>2. queue[id] = 0 /\ \A w \in Workers : task[w].id # id
    BY DEF AtRest
  <2> QED BY <2>1, <2>2 DEF Pending, OnItsWay
<1> QED BY <1>1, PendingInvariant, PTL

===============================================================================
