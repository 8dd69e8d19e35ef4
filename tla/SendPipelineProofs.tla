-------------------------- MODULE SendPipelineProofs --------------------------
(***************************************************************************)
(* The gates of the cold email pipeline and its counts, for any leads,     *)
(* messages, workers, variants and faults: SendInv is inductive, with it   *)
(* what becomes of a QUEUED message, and CountInv, which adds how often    *)
(* each message can still be mailed and what its row says of the email.    *)
(***************************************************************************)
EXTENDS SendPipeline, Counting, FiniteSetTheorems, TLAPS

USE SendPipelineAssumption

\* Workers have tasks; and a message that is not drafted, or flagged and not cleared,
\* has no task anywhere.
Held == WorkersHaveTasks /\ UndraftedIsUntouched /\ UnreviewedIsHeld

\* SendInv without ReviewBeforeSend, which follows from the other parts.
Gates == TypeOK /\ Held /\ SentLeadIsArmed /\ SuppressionGate

\* Every part of SendInv is in Gates, or is what Held says of a flagged message.
LEMMA GatesSuffice == Gates => SendInv
<1> SUFFICES ASSUME Gates PROVE SendInv
  OBVIOUS
<1>1. ReviewBeforeSend
  BY DEF Gates, Held, TypeOK, UnreviewedIsHeld, ReviewBeforeSend, Waiting
<1> QED BY <1>1 DEF Gates, Held, GateInv, SendInv

\* Nothing has happened to a new database.
LEMMA InitGates == Init => Gates
<1> SUFFICES ASSUME Init PROVE Gates
  OBVIOUS
<1>1. TypeOK
  BY DEF Init, TypeOK, MessageStatuses, LeadStatuses, WorkerPC
<1>2. Held
  BY DEF Init, Held, WorkersHaveTasks, UndraftedIsUntouched, UnreviewedIsHeld,
     Waiting, Running
<1>3. SentLeadIsArmed /\ SuppressionGate
  BY DEF Init, SentLeadIsArmed, SuppressionGate
<1> QED BY <1>1, <1>2, <1>3 DEF Gates

-----------------------------------------------------------------------------
(* Enrichment.                                                              *)

\* A suppressed lead is opted out instead of drafted for.
LEMMA EnrichSuppressedKeeps ==
  ASSUME Gates, NEW l \in Leads, EnrichSuppressed(l)
  PROVE  Gates'
<1>1. TypeOK'
  BY DEF EnrichSuppressed, SetLead, messageVars, handlers, workerVars, history,
     TypeOK, Gates, LeadStatuses
<1>2. Held'
  BY DEF EnrichSuppressed, messageVars, handlers, workerVars, history, Msg, Gates,
     Held, WorkersHaveTasks, UndraftedIsUntouched, UnreviewedIsHeld, Waiting, Running
<1>3. SentLeadIsArmed' /\ SuppressionGate'
  BY DEF EnrichSuppressed, SetLead, workerVars, history, Msg, LeadOfTask, Gates,
     SentLeadIsArmed, SuppressionGate
<1> QED BY <1>1, <1>2, <1>3 DEF Gates

\* A draft is under way; no row is written.
LEMMA StartDraftingKeeps ==
  ASSUME Gates, NEW l \in Leads, StartDrafting(l)
  PROVE  Gates'
<1>1. TypeOK'
  BY DEF StartDrafting, messageVars, leadVars, handlers, workerVars, history, TypeOK,
     Gates
<1>2. Held'
  BY DEF StartDrafting, messageVars, handlers, workerVars, history, Msg, Gates, Held,
     WorkersHaveTasks, UndraftedIsUntouched, UnreviewedIsHeld, Waiting, Running
<1>3. SentLeadIsArmed' /\ SuppressionGate'
  BY DEF StartDrafting, leadVars, workerVars, history, Msg, LeadOfTask, Gates,
     SentLeadIsArmed, SuppressionGate
<1> QED BY <1>1, <1>2, <1>3 DEF Gates

\* The draft under way is lost.
LEMMA DraftingFailsKeeps ==
  ASSUME Gates, NEW l \in Leads, DraftingFails(l)
  PROVE  Gates'
<1>1. TypeOK'
  BY DEF DraftingFails, Spend, messageVars, leadVars, handlers, workerVars, history,
     TypeOK, Gates, FaultKinds
<1>2. Held'
  BY DEF DraftingFails, messageVars, handlers, workerVars, history, Msg, Gates, Held,
     WorkersHaveTasks, UndraftedIsUntouched, UnreviewedIsHeld, Waiting, Running
<1>3. SentLeadIsArmed' /\ SuppressionGate'
  BY DEF DraftingFails, leadVars, workerVars, history, Msg, LeadOfTask, Gates,
     SentLeadIsArmed, SuppressionGate
<1> QED BY <1>1, <1>2, <1>3 DEF Gates

\* A draft is saved, flagged or not; nothing has been sent of it.
LEMMA SaveDraftKeeps ==
  ASSUME Gates, NEW m \in Messages, NEW spam \in BOOLEAN, SaveDraft(m, spam)
  PROVE  Gates'
<1>1. TypeOK'
  BY DEF SaveDraft, SetMessage, SetLead, handlers, workerVars, history, TypeOK, Gates,
     LeadStatuses, MessageStatuses
<1>2. Held'
  BY DEF SaveDraft, SetMessage, handlers, workerVars, history, Msg, Gates, TypeOK,
     Held, WorkersHaveTasks, UndraftedIsUntouched, UnreviewedIsHeld, Waiting, Running
<1>3. SentLeadIsArmed' /\ SuppressionGate'
  BY DEF SaveDraft, SetLead, workerVars, history, Msg, LeadOfTask, Gates, TypeOK,
     SentLeadIsArmed, SuppressionGate
<1> QED BY <1>1, <1>2, <1>3 DEF Gates

-----------------------------------------------------------------------------
(* The outbound API.                                                        *)

\* A human opens a flagged message.
LEMMA LoadForReviewKeeps ==
  ASSUME Gates, NEW m \in Messages, LoadForReview(m)
  PROVE  Gates'
<1>1. TypeOK'
  BY DEF LoadForReview, messageVars, leadVars, workerVars, history, TypeOK, Gates
<1>2. Held'
  BY DEF LoadForReview, messageVars, workerVars, history, Msg, Gates, Held,
     WorkersHaveTasks, UndraftedIsUntouched, UnreviewedIsHeld, Waiting, Running
<1>3. SentLeadIsArmed' /\ SuppressionGate'
  BY DEF LoadForReview, leadVars, workerVars, history, Msg, LeadOfTask, Gates,
     SentLeadIsArmed, SuppressionGate
<1> QED BY <1>1, <1>2, <1>3 DEF Gates

\* A human clears it: it may be sent from now on.
LEMMA ApproveReviewKeeps ==
  ASSUME Gates, NEW m \in Messages, ApproveReview(m)
  PROVE  Gates'
<1>1. TypeOK'
  BY DEF ApproveReview, SetMessage, leadVars, workerVars, mishaps, TypeOK, Gates,
     MessageStatuses
<1>2. Held'
  BY DEF ApproveReview, SetMessage, workerVars, Msg, Gates, TypeOK, Held,
     WorkersHaveTasks, UndraftedIsUntouched, UnreviewedIsHeld, Waiting, Running
<1>3. SentLeadIsArmed' /\ SuppressionGate'
  BY DEF ApproveReview, leadVars, workerVars, mishaps, Msg, LeadOfTask, Gates,
     SentLeadIsArmed, SuppressionGate
<1> QED BY <1>1, <1>2, <1>3 DEF Gates

\* A send is asked for, of a message that is not held.
LEMMA RequestSendKeeps ==
  ASSUME Gates, NEW m \in Messages, RequestSend(m)
  PROVE  Gates'
<1>1. TypeOK'
  <2>1. [msg |-> m, try |-> 0] \in Jobs
    BY DEF Jobs
  <2>2. ready' \in [Jobs -> Nat]
    BY <2>1 DEF RequestSend, Gates, TypeOK
  <2> QED
    BY <2>1, <2>2 DEF RequestSend, messageVars, leadVars, handlers, workerVars,
       mishaps, TypeOK, Gates
<1>2. Held'
  BY DEF RequestSend, messageVars, handlers, workerVars, Msg, Gates, Held,
     WorkersHaveTasks, UndraftedIsUntouched, UnreviewedIsHeld, Waiting, Running
<1>3. SentLeadIsArmed' /\ SuppressionGate'
  BY DEF RequestSend, leadVars, workerVars, mishaps, Msg, LeadOfTask, Gates,
     SentLeadIsArmed, SuppressionGate
<1> QED BY <1>1, <1>2, <1>3 DEF Gates

-----------------------------------------------------------------------------
(* send_email_task.                                                         *)

\* A task whose message is gone on already is dropped.
LEMMA SkipKeeps ==
  ASSUME Gates, NEW w \in Workers, NEW j \in Jobs, Skip(w, j)
  PROVE  Gates'
<1>1. TypeOK'
  <2>1. ready' \in [Jobs -> Nat]
    BY DEF Skip, Gates, TypeOK
  <2> QED
    BY <2>1 DEF Skip, messageVars, leadVars, handlers, workerVars, history, TypeOK,
       Gates
<1>2. Held'
  BY DEF Skip, messageVars, handlers, workerVars, history, Msg, Gates, Held,
     WorkersHaveTasks, UndraftedIsUntouched, UnreviewedIsHeld, Waiting, Running
<1>3. SentLeadIsArmed' /\ SuppressionGate'
  BY DEF Skip, leadVars, workerVars, history, Msg, LeadOfTask, Gates, SentLeadIsArmed,
     SuppressionGate
<1> QED BY <1>1, <1>2, <1>3 DEF Gates

\* A worker takes a task for a message that is a draft or queued.
LEMMA StartKeeps ==
  ASSUME Gates, NEW w \in Workers, NEW j \in Jobs, Start(w, j)
  PROVE  Gates'
<1>1. TypeOK'
  <2>1. ready' \in [Jobs -> Nat]
    BY DEF Start, Gates, TypeOK
  <2>2. mstatus[j.msg] \in {"draft", "queued"} /\ wseen' \in [Workers -> {"none", "draft", "queued"}]
    BY DEF Start, Gates, TypeOK
  <2> QED
    BY <2>1, <2>2 DEF Start, messageVars, leadVars, handlers, history, TypeOK, Gates,
       WorkerPC
<1>2. Held'
  BY DEF Start, messageVars, handlers, history, Msg, Gates, TypeOK, Held,
     WorkersHaveTasks, UndraftedIsUntouched, UnreviewedIsHeld, Waiting, Running
<1>3. SentLeadIsArmed' /\ SuppressionGate'
  BY DEF Start, leadVars, history, Msg, LeadOfTask, Gates, SentLeadIsArmed,
     SuppressionGate, PastGate
<1> QED BY <1>1, <1>2, <1>3 DEF Gates

\* The recipient is suppressed: the message fails and the lead is opted out.
LEMMA RejectSuppressedKeeps ==
  ASSUME Gates, NEW w \in Workers, RejectSuppressed(w)
  PROVE  Gates'
<1>1. TypeOK'
  BY DEF RejectSuppressed, SetMessage, SetLead, Release, Msg, handlers, history,
     TypeOK, Gates, Held, WorkersHaveTasks, LeadStatuses, MessageStatuses, WorkerPC,
     Jobs
<1>2. Held'
  BY DEF RejectSuppressed, SetMessage, Release, Msg, handlers, history, Gates, TypeOK,
     Held, WorkersHaveTasks, UndraftedIsUntouched, UnreviewedIsHeld, Waiting, Running
<1>3. SentLeadIsArmed' /\ SuppressionGate'
  BY DEF RejectSuppressed, SetLead, Release, Msg, LeadOfTask, history, Gates,
     SentLeadIsArmed, SuppressionGate, PastGate
<1> QED BY <1>1, <1>2, <1>3 DEF Gates

\* The suppression list has been asked: the message is queued.
LEMMA MarkQueuedKeeps ==
  ASSUME Gates, NEW w \in Workers, MarkQueued(w)
  PROVE  Gates'
<1>1. TypeOK'
  BY DEF MarkQueued, SetMessage, Goto, leadVars, handlers, history, TypeOK, Gates,
     MessageStatuses, WorkerPC
<1>2. Held'
  BY DEF MarkQueued, SetMessage, Goto, Msg, handlers, history, Gates, TypeOK, Held,
     WorkersHaveTasks, UndraftedIsUntouched, UnreviewedIsHeld, Waiting, Running
<1>3. SentLeadIsArmed' /\ SuppressionGate'
  BY DEF MarkQueued, Goto, Msg, LeadOfTask, leadVars, history, Gates, SentLeadIsArmed,
     SuppressionGate
<1> QED BY <1>1, <1>2, <1>3 DEF Gates

\* No account can send: the message fails.
LEMMA NoHealthySenderKeeps ==
  ASSUME Gates, NEW w \in Workers, NoHealthySender(w)
  PROVE  Gates'
<1>1. TypeOK'
  BY DEF NoHealthySender, SetMessage, Spend, Release, Msg, leadVars, handlers,
     history, TypeOK, Gates, Held, WorkersHaveTasks, MessageStatuses, WorkerPC, Jobs,
     FaultKinds
<1>2. Held'
  BY DEF NoHealthySender, SetMessage, Release, Msg, handlers, history, Gates, TypeOK,
     Held, WorkersHaveTasks, UndraftedIsUntouched, UnreviewedIsHeld, Waiting, Running
<1>3. SentLeadIsArmed' /\ SuppressionGate'
  BY DEF NoHealthySender, Release, Msg, leadVars, history, LeadOfTask, Gates, TypeOK,
     SentLeadIsArmed, SuppressionGate, PastGate
<1> QED BY <1>1, <1>2, <1>3 DEF Gates

\* The server takes the mail.
LEMMA SmtpAcceptKeeps ==
  ASSUME Gates, NEW w \in Workers, SmtpAccept(w)
  PROVE  Gates'
<1>1. TypeOK'
  BY DEF SmtpAccept, Goto, Msg, messageVars, leadVars, handlers, history, TypeOK,
     Gates, Held, WorkersHaveTasks, WorkerPC, Jobs
<1>2. Held'
  BY DEF SmtpAccept, Goto, Msg, messageVars, handlers, history, Gates, Held,
     WorkersHaveTasks, UndraftedIsUntouched, UnreviewedIsHeld, Waiting, Running
<1>3. SentLeadIsArmed' /\ SuppressionGate'
  BY DEF SmtpAccept, Goto, Msg, leadVars, history, LeadOfTask, Gates, TypeOK,
     SentLeadIsArmed, SuppressionGate, PastGate
<1> QED BY <1>1, <1>2, <1>3 DEF Gates

\* The server refuses it for good.
LEMMA SmtpRefuseKeeps ==
  ASSUME Gates, NEW w \in Workers, SmtpRefuse(w)
  PROVE  Gates'
<1>1. TypeOK'
  BY DEF SmtpRefuse, Spend, Goto, messageVars, leadVars, handlers, history, TypeOK,
     Gates, WorkerPC, FaultKinds
<1>2. Held'
  BY DEF SmtpRefuse, Goto, messageVars, handlers, history, Msg, Gates, Held,
     WorkersHaveTasks, UndraftedIsUntouched, UnreviewedIsHeld, Waiting, Running
<1>3. SentLeadIsArmed' /\ SuppressionGate'
  BY DEF SmtpRefuse, Goto, leadVars, history, Msg, LeadOfTask, Gates, TypeOK,
     SentLeadIsArmed, SuppressionGate, PastGate
<1> QED BY <1>1, <1>2, <1>3 DEF Gates

\* The server cannot be reached: the next attempt, or the task ends.
LEMMA SmtpTransientKeeps ==
  ASSUME Gates, NEW w \in Workers, SmtpTransient(w)
  PROVE  Gates'
<1>1. TypeOK'
  <2>1. wpc' \in [Workers -> WorkerPC] /\ wjob' \in [Workers -> Jobs \cup {NoJob}]
    BY DEF SmtpTransient, NextAttempt, Goto, Release, Gates, TypeOK, WorkerPC
  <2>2. watt' \in [Workers -> 0..MaxAttempts]
    BY DEF SmtpTransient, NextAttempt, Release, Gates, TypeOK
  <2> QED
    BY <2>1, <2>2 DEF SmtpTransient, Spend, NextAttempt, Release, Goto, Msg,
       messageVars, leadVars, handlers, TypeOK, Gates, Held, WorkersHaveTasks, Jobs,
       FaultKinds
<1>2. Held'
  <2>1. wjob[w] \in Jobs /\ Msg(w) \in Messages /\ Running(Msg(w))
    BY DEF SmtpTransient, Gates, Held, WorkersHaveTasks, Running, Msg, Jobs
  <2>2. \A m \in Messages : Running(m)' => Running(m)
    BY DEF SmtpTransient, NextAttempt, Goto, Release, Gates, TypeOK, Running, Msg
  <2>3. WorkersHaveTasks'
    BY DEF SmtpTransient, NextAttempt, Goto, Release, Gates, TypeOK, Held,
       WorkersHaveTasks
  <2>4. \A m \in Messages : Waiting(m)' = Waiting(m)
    BY DEF SmtpTransient, Waiting
  <2> QED
    BY <2>1, <2>2, <2>3, <2>4 DEF SmtpTransient, messageVars, handlers, history,
       Gates, Held, UndraftedIsUntouched, UnreviewedIsHeld
<1>3. SentLeadIsArmed' /\ SuppressionGate'
  BY DEF SmtpTransient, NextAttempt, Release, Goto, leadVars, history, Msg,
     LeadOfTask, Gates, TypeOK, SentLeadIsArmed, SuppressionGate, PastGate
<1> QED BY <1>1, <1>2, <1>3 DEF Gates

\* The server takes the mail and its answer is lost.
LEMMA SmtpLostAckKeeps ==
  ASSUME Gates, NEW w \in Workers, SmtpLostAck(w)
  PROVE  Gates'
<1>1. TypeOK'
  <2>1. wpc' \in [Workers -> WorkerPC] /\ wjob' \in [Workers -> Jobs \cup {NoJob}]
    BY DEF SmtpLostAck, NextAttempt, Goto, Release, Gates, TypeOK, WorkerPC
  <2>2. watt' \in [Workers -> 0..MaxAttempts]
    BY DEF SmtpLostAck, NextAttempt, Release, Gates, TypeOK
  <2> QED
    BY <2>1, <2>2 DEF SmtpLostAck, Spend, NextAttempt, Release, Goto, Msg,
       messageVars, leadVars, handlers, TypeOK, Gates, Held, WorkersHaveTasks, Jobs,
       FaultKinds
<1>2. Held'
  <2>1. wjob[w] \in Jobs /\ Msg(w) \in Messages /\ Running(Msg(w))
    BY DEF SmtpLostAck, Gates, Held, WorkersHaveTasks, Running, Msg, Jobs
  <2>2. \A m \in Messages : Running(m)' => Running(m)
    BY DEF SmtpLostAck, NextAttempt, Goto, Release, Gates, TypeOK, Running, Msg
  <2>3. WorkersHaveTasks'
    BY DEF SmtpLostAck, NextAttempt, Goto, Release, Gates, TypeOK, Held,
       WorkersHaveTasks
  <2>4. \A m \in Messages : Waiting(m)' = Waiting(m)
    BY DEF SmtpLostAck, Waiting
  <2> QED
    BY <2>1, <2>2, <2>3, <2>4 DEF SmtpLostAck, messageVars, handlers, Gates, Held,
       UndraftedIsUntouched, UnreviewedIsHeld
<1>3. SentLeadIsArmed' /\ SuppressionGate'
  BY DEF SmtpLostAck, NextAttempt, Release, Goto, Msg, leadVars, LeadOfTask, Gates,
     TypeOK, SentLeadIsArmed, SuppressionGate, PastGate
<1> QED BY <1>1, <1>2, <1>3 DEF Gates

\* The server takes the mail and the connection ends before its answer.
LEMMA SmtpAcceptedYetRefusedKeeps ==
  ASSUME Gates, NEW w \in Workers, SmtpAcceptedYetRefused(w)
  PROVE  Gates'
<1>1. TypeOK'
  BY DEF SmtpAcceptedYetRefused, Spend, Goto, Msg, messageVars, leadVars, handlers,
     mishaps, TypeOK, Gates, Held, WorkersHaveTasks, WorkerPC, Jobs, FaultKinds
<1>2. Held'
  BY DEF SmtpAcceptedYetRefused, Goto, Msg, messageVars, handlers, mishaps, Gates, Held,
     WorkersHaveTasks, UndraftedIsUntouched, UnreviewedIsHeld, Waiting, Running
<1>3. SentLeadIsArmed' /\ SuppressionGate'
  BY DEF SmtpAcceptedYetRefused, Goto, Msg, leadVars, mishaps, LeadOfTask, Gates,
     TypeOK, SentLeadIsArmed, SuppressionGate, PastGate
<1> QED BY <1>1, <1>2, <1>3 DEF Gates

\* The message is marked failed before the retry.
LEMMA MarkFailedKeeps ==
  ASSUME Gates, NEW w \in Workers, MarkFailed(w)
  PROVE  Gates'
<1>1. TypeOK'
  BY DEF MarkFailed, SetMessage, Goto, leadVars, handlers, history, TypeOK, Gates,
     MessageStatuses, WorkerPC
<1>2. Held'
  BY DEF MarkFailed, SetMessage, Goto, Msg, handlers, history, Gates, Held,
     WorkersHaveTasks, UndraftedIsUntouched, UnreviewedIsHeld, Waiting, Running
<1>3. SentLeadIsArmed' /\ SuppressionGate'
  BY DEF MarkFailed, Goto, Msg, leadVars, history, LeadOfTask, Gates, TypeOK,
     SentLeadIsArmed, SuppressionGate, PastGate
<1> QED BY <1>1, <1>2, <1>3 DEF Gates

\* The task comes back with one retry less.
LEMMA RetryKeeps ==
  ASSUME Gates, NEW w \in Workers, Retry(w)
  PROVE  Gates'
<1>1. TypeOK'
  <2>1. wjob[w] \in Jobs
    BY DEF Retry, Gates, Held, WorkersHaveTasks
  <2>2. wjob[w].try < MaxRetries => [wjob[w] EXCEPT !.try = @ + 1] \in Jobs
    BY <2>1 DEF Jobs
  <2>3. ready' \in [Jobs -> Nat]
    BY <2>2 DEF Retry, Gates, TypeOK
  <2> QED
    BY <2>1, <2>2, <2>3 DEF Retry, Release, messageVars, leadVars, handlers, history,
       TypeOK, Gates, WorkerPC
<1>2. Held'
  BY DEF Retry, Release, messageVars, handlers, history, Msg, Gates, TypeOK, Held,
     WorkersHaveTasks, UndraftedIsUntouched, UnreviewedIsHeld, Waiting, Running, Jobs
<1>3. SentLeadIsArmed' /\ SuppressionGate'
  BY DEF Retry, Release, leadVars, history, Msg, LeadOfTask, Gates, TypeOK,
     SentLeadIsArmed, SuppressionGate, PastGate
<1> QED BY <1>1, <1>2, <1>3 DEF Gates

\* Message and lead read SENT; the follow-up is still to be armed.
LEMMA CommitSentCountKeeps ==
  ASSUME Gates, NEW w \in Workers, CommitSentCount(w)
  PROVE  Gates'
<1>1. TypeOK'
  BY DEF CommitSentCount, SetMessage, SetLead, Goto, handlers, history, TypeOK, Gates,
     LeadStatuses, MessageStatuses, WorkerPC
<1>2. Held'
  BY DEF CommitSentCount, SetMessage, Goto, Msg, handlers, history, Gates, Held,
     WorkersHaveTasks, UndraftedIsUntouched, UnreviewedIsHeld, Waiting, Running
<1>3. SentLeadIsArmed' /\ SuppressionGate'
  BY DEF CommitSentCount, SetLead, Goto, Msg, LeadOfTask, history, Gates, TypeOK,
     SentLeadIsArmed, SuppressionGate, PastGate
<1> QED BY <1>1, <1>2, <1>3 DEF Gates

\* The follow-up of the lead is armed.
LEMMA CommitArmedKeeps ==
  ASSUME Gates, NEW w \in Workers, CommitArmed(w)
  PROVE  Gates'
<1>1. TypeOK'
  BY DEF CommitArmed, Release, LeadOfTask, Msg, messageVars, handlers, history,
     TypeOK, Gates, Held, WorkersHaveTasks, WorkerPC, Jobs
<1>2. Held'
  BY DEF CommitArmed, Release, Msg, messageVars, handlers, history, Gates, TypeOK,
     Held, WorkersHaveTasks, UndraftedIsUntouched, UnreviewedIsHeld, Waiting, Running
<1>3. SentLeadIsArmed' /\ SuppressionGate'
  BY DEF CommitArmed, Release, LeadOfTask, Msg, history, Gates, TypeOK,
     SentLeadIsArmed, SuppressionGate, PastGate
<1> QED BY <1>1, <1>2, <1>3 DEF Gates

\* Message, lead and follow-up are written at once.
LEMMA CommitSentAndArmedKeeps ==
  ASSUME Gates, NEW w \in Workers, CommitSentAndArmed(w)
  PROVE  Gates'
<1>1. TypeOK'
  BY DEF CommitSentAndArmed, SetMessage, SetLead, Release, Msg, LeadOfTask, handlers,
     history, TypeOK, Gates, Held, WorkersHaveTasks, LeadStatuses, MessageStatuses,
     WorkerPC, Jobs
<1>2. Held'
  BY DEF CommitSentAndArmed, SetMessage, Release, Msg, handlers, history, Gates,
     TypeOK, Held, WorkersHaveTasks, UndraftedIsUntouched, UnreviewedIsHeld, Waiting,
     Running
<1>3. SentLeadIsArmed' /\ SuppressionGate'
  BY DEF CommitSentAndArmed, SetLead, Release, Msg, LeadOfTask, history, Gates,
     TypeOK, SentLeadIsArmed, SuppressionGate, PastGate
<1> QED BY <1>1, <1>2, <1>3 DEF Gates

-----------------------------------------------------------------------------
(* The prospect and the suppression list.                                   *)

\* An opening is reported: the lead's status is read.
LEMMA LoadOpenKeeps ==
  ASSUME Gates, NEW m \in Messages, LoadOpen(m)
  PROVE  Gates'
<1>1. TypeOK'
  <2>1. (lstatus[LeadOf[m]] = "sent") \in BOOLEAN
    OBVIOUS
  <2>2. <<m, lstatus[LeadOf[m]] = "sent">> \in Messages \X BOOLEAN
    BY <2>1
  <2>3. opening' \in SUBSET (Messages \X BOOLEAN)
    BY <2>2 DEF LoadOpen, Gates, TypeOK
  <2> QED
    BY <2>1, <2>2, <2>3 DEF LoadOpen, messageVars, leadVars, workerVars, history,
       TypeOK, Gates
<1>2. Held'
  BY DEF LoadOpen, messageVars, workerVars, history, Msg, Gates, Held,
     WorkersHaveTasks, UndraftedIsUntouched, UnreviewedIsHeld, Waiting, Running
<1>3. SentLeadIsArmed' /\ SuppressionGate'
  BY DEF LoadOpen, leadVars, workerVars, history, Msg, LeadOfTask, Gates,
     SentLeadIsArmed, SuppressionGate
<1> QED BY <1>1, <1>2, <1>3 DEF Gates

\* The opening is written, with the status as it was read.
LEMMA TrackOpenKeeps ==
  ASSUME Gates, NEW o \in opening, TrackOpen(o)
  PROVE  Gates'
<1>1. TypeOK'
  BY DEF TrackOpen, SetMessage, SetLead, workerVars, history, TypeOK, Gates,
     LeadStatuses, MessageStatuses
<1>2. Held'
  BY DEF TrackOpen, SetMessage, workerVars, history, Msg, Gates, TypeOK, Held,
     WorkersHaveTasks, UndraftedIsUntouched, UnreviewedIsHeld, Waiting, Running
<1>3. SentLeadIsArmed' /\ SuppressionGate'
  BY DEF TrackOpen, SetLead, workerVars, history, Msg, LeadOfTask, Gates, TypeOK,
     SentLeadIsArmed, SuppressionGate
<1> QED BY <1>1, <1>2, <1>3 DEF Gates

\* A mail comes back.
LEMMA ReportBounceKeeps ==
  ASSUME Gates, NEW m \in Messages, ReportBounce(m)
  PROVE  Gates'
<1>1. TypeOK'
  BY DEF ReportBounce, SetMessage, leadVars, handlers, workerVars, history, TypeOK,
     Gates, MessageStatuses
<1>2. Held'
  BY DEF ReportBounce, SetMessage, handlers, workerVars, history, Msg, Gates, Held,
     WorkersHaveTasks, UndraftedIsUntouched, UnreviewedIsHeld, Waiting, Running
<1>3. SentLeadIsArmed' /\ SuppressionGate'
  BY DEF ReportBounce, leadVars, workerVars, history, Msg, LeadOfTask, Gates,
     SentLeadIsArmed, SuppressionGate
<1> QED BY <1>1, <1>2, <1>3 DEF Gates

\* The visit of the unsubscribe link loads the lead.
LEMMA LoadUnsubscribeKeeps ==
  ASSUME Gates, NEW u \in Unsubscribers, NEW l \in Leads, LoadUnsubscribe(u, l)
  PROVE  Gates'
<1>1. TypeOK'
  <2>1. [lead |-> l, out |-> lstatus[l] = "opted_out", dated |-> l \in armed,
         entry |-> "unread"] \in Visits
    BY DEF Visits
  <2>2. leaving' \in [Unsubscribers -> Visits \cup {NoVisit}]
    BY <2>1 DEF LoadUnsubscribe, Gates, TypeOK
  <2> QED
    BY <2>2 DEF LoadUnsubscribe, messageVars, leadVars, workerVars, history, TypeOK,
       Gates
<1>2. Held'
  BY DEF LoadUnsubscribe, messageVars, workerVars, history, Msg, Gates, Held,
     WorkersHaveTasks, UndraftedIsUntouched, UnreviewedIsHeld, Waiting, Running
<1>3. SentLeadIsArmed' /\ SuppressionGate'
  BY DEF LoadUnsubscribe, leadVars, workerVars, history, Msg, LeadOfTask, Gates,
     SentLeadIsArmed, SuppressionGate
<1> QED BY <1>1, <1>2, <1>3 DEF Gates

\* It looks for an entry of the address.
LEMMA LookUpEntryKeeps ==
  ASSUME Gates, NEW u \in Unsubscribers, LookUpEntry(u)
  PROVE  Gates'
<1>1. TypeOK'
  <2>1. leaving[u] \in Visits
    BY DEF LookUpEntry, Gates, TypeOK
  <2>2. \A e \in {"none", "found"} : [leaving[u] EXCEPT !.entry = e] \in Visits
    BY <2>1 DEF Visits
  <2>3. leaving' \in [Unsubscribers -> Visits \cup {NoVisit}]
    BY <2>2 DEF LookUpEntry, Gates, TypeOK
  <2> QED
    BY <2>3 DEF LookUpEntry, messageVars, leadVars, workerVars, history, TypeOK, Gates
<1>2. Held'
  BY DEF LookUpEntry, messageVars, workerVars, history, Msg, Gates, Held,
     WorkersHaveTasks, UndraftedIsUntouched, UnreviewedIsHeld, Waiting, Running
<1>3. SentLeadIsArmed' /\ SuppressionGate'
  BY DEF LookUpEntry, leadVars, workerVars, history, Msg, LeadOfTask, Gates,
     SentLeadIsArmed, SuppressionGate
<1> QED BY <1>1, <1>2, <1>3 DEF Gates

\* It commits: a lead that stays SENT although its date is cleared is on record.
LEMMA CommitUnsubscribeKeeps ==
  ASSUME Gates, NEW u \in Unsubscribers, CommitUnsubscribe(u)
  PROVE  Gates'
<1> DEFINE l == leaving[u].lead
<1>1. l \in Leads /\ leaving[u] \in Visits
  BY DEF CommitUnsubscribe, Gates, TypeOK, NoVisit, Visits
<1>2. TypeOK'
  BY <1>1 DEF CommitUnsubscribe, SetLead, Suppress, Spend, messageVars, workerVars,
     TypeOK, Gates, LeadStatuses, FaultKinds
<1>3. Held'
  BY DEF CommitUnsubscribe, Msg, messageVars, workerVars, Gates, Held,
     WorkersHaveTasks, UndraftedIsUntouched, UnreviewedIsHeld, Waiting, Running
<1>4. SentLeadIsArmed'
  <2> SUFFICES ASSUME NEW k \in Leads, lstatus'[k] = "sent"
               PROVE  \/ k \in armed' \/ k \in disarmed'
                      \/ \E w \in Workers : wpc[w] = "counted" /\ LeadOfTask(w) = k
                      \/ \E m \in lost : LeadOf[m] = k
    BY DEF CommitUnsubscribe, workerVars, SentLeadIsArmed, LeadOfTask, Msg
  <2>1. lstatus[k] = "sent"
    BY <1>1 DEF CommitUnsubscribe, SetLead, Gates, TypeOK
  <2>2. \/ k \in armed \/ k \in disarmed
        \/ \E w \in Workers : wpc[w] = "counted" /\ LeadOfTask(w) = k
        \/ \E m \in lost : LeadOf[m] = k
    BY <2>1 DEF Gates, SentLeadIsArmed
  <2>3. k \in armed => k \in armed' \/ k \in disarmed'
    BY DEF CommitUnsubscribe
  <2>4. k \in disarmed => k \in disarmed'
    BY DEF CommitUnsubscribe
  <2> QED BY <2>2, <2>3, <2>4
<1>5. SuppressionGate'
  BY DEF CommitUnsubscribe, Suppress, LeadOfTask, Msg, workerVars, Gates,
     SuppressionGate
<1> QED BY <1>2, <1>3, <1>4, <1>5 DEF Gates

\* Its insert is refused: nothing is committed.
LEMMA UnsubscribeClashKeeps ==
  ASSUME Gates, NEW u \in Unsubscribers, UnsubscribeClash(u)
  PROVE  Gates'
<1>1. TypeOK'
  BY DEF UnsubscribeClash, messageVars, leadVars, workerVars, history, TypeOK, Gates
<1>2. Held'
  BY DEF UnsubscribeClash, messageVars, workerVars, history, Msg, Gates, Held,
     WorkersHaveTasks, UndraftedIsUntouched, UnreviewedIsHeld, Waiting, Running
<1>3. SentLeadIsArmed' /\ SuppressionGate'
  BY DEF UnsubscribeClash, leadVars, workerVars, history, Msg, LeadOfTask, Gates,
     SentLeadIsArmed, SuppressionGate
<1> QED BY <1>1, <1>2, <1>3 DEF Gates

\* What no visit of the link touches.
LEMMA UnsubscribeFrame ==
  ASSUME NEW u \in Unsubscribers, Unsubscribe(u)
  PROVE  UNCHANGED <<mstatus, flagged, opened, reviewing, opening, ready, wpc, wjob,
                     mailed, reviews, requests, faults, lost>>
BY DEF Unsubscribe, LoadUnsubscribe, LookUpEntry, CommitUnsubscribe, UnsubscribeClash,
   messageVars, workerVars, history

\* The address is entered on the suppression list.
LEMMA AddSuppressionKeeps ==
  ASSUME Gates, NEW l \in Leads, AddSuppression(l)
  PROVE  Gates'
<1>1. TypeOK'
  BY DEF AddSuppression, Suppress, Spend, messageVars, leadVars, handlers, workerVars,
     history, TypeOK, Gates, FaultKinds
<1>2. Held'
  BY DEF AddSuppression, Msg, messageVars, handlers, workerVars, history, Gates, Held,
     WorkersHaveTasks, UndraftedIsUntouched, UnreviewedIsHeld, Waiting, Running
<1>3. SentLeadIsArmed' /\ SuppressionGate'
  BY DEF AddSuppression, Suppress, LeadOfTask, Msg, leadVars, workerVars, history,
     Gates, SentLeadIsArmed, SuppressionGate
<1> QED BY <1>1, <1>2, <1>3 DEF Gates

\* The address is taken off the list.
LEMMA RemoveSuppressionKeeps ==
  ASSUME Gates, NEW l \in Leads, RemoveSuppression(l)
  PROVE  Gates'
<1>1. TypeOK'
  BY DEF RemoveSuppression, messageVars, leadVars, handlers, workerVars, history,
     TypeOK, Gates
<1>2. Held'
  BY DEF RemoveSuppression, messageVars, handlers, workerVars, history, Msg, Gates,
     Held, WorkersHaveTasks, UndraftedIsUntouched, UnreviewedIsHeld, Waiting, Running
<1>3. SentLeadIsArmed' /\ SuppressionGate'
  BY DEF RemoveSuppression, leadVars, workerVars, history, Msg, LeadOfTask, Gates,
     SentLeadIsArmed, SuppressionGate
<1> QED BY <1>1, <1>2, <1>3 DEF Gates

-----------------------------------------------------------------------------
(* Crashes and the broker.                                                  *)

\* A worker dies with its task.
LEMMA WorkerCrashKeeps ==
  ASSUME Gates, NEW w \in Workers, WorkerCrash(w)
  PROVE  Gates'
<1>1. TypeOK'
  <2>1. wjob[w] \in Jobs /\ wjob[w].msg \in Messages
    BY DEF WorkerCrash, Gates, Held, WorkersHaveTasks, Jobs
  <2>2. ready' \in [Jobs -> Nat]
    BY <2>1 DEF WorkerCrash, Gates, TypeOK
  <2>3. faults' \in [Messages -> Nat]
    BY <2>1 DEF WorkerCrash, Gates, TypeOK
  <2> QED
    BY <2>1, <2>2, <2>3 DEF WorkerCrash, Spend, Release, messageVars, leadVars,
       handlers, TypeOK, Gates, WorkerPC, FaultKinds
<1>2. Held'
  BY DEF WorkerCrash, Release, messageVars, handlers, Msg, Gates, TypeOK, Held,
     WorkersHaveTasks, UndraftedIsUntouched, UnreviewedIsHeld, Waiting, Running
<1>3. SentLeadIsArmed' /\ SuppressionGate'
  BY DEF WorkerCrash, Release, leadVars, Msg, LeadOfTask, Gates, TypeOK,
     SentLeadIsArmed, SuppressionGate, PastGate
<1> QED BY <1>1, <1>2, <1>3 DEF Gates

\* The broker delivers a task again that is still running.
LEMMA RedeliverKeeps ==
  ASSUME Gates, NEW w \in Workers, Redeliver(w)
  PROVE  Gates'
<1>1. TypeOK'
  <2>1. wjob[w] \in Jobs /\ wjob[w].msg \in Messages
    BY DEF Redeliver, Gates, Held, WorkersHaveTasks, Jobs
  <2>2. ready' \in [Jobs -> Nat]
    BY <2>1 DEF Redeliver, Gates, TypeOK
  <2>3. faults' \in [Messages -> Nat]
    BY <2>1 DEF Redeliver, Gates, TypeOK, Msg
  <2> QED
    BY <2>1, <2>2, <2>3 DEF Redeliver, Spend, messageVars, leadVars, handlers,
       workerVars, mishaps, TypeOK, Gates, FaultKinds
<1>2. Held'
  BY DEF Redeliver, Msg, messageVars, handlers, workerVars, Gates, Held,
     WorkersHaveTasks, UndraftedIsUntouched, UnreviewedIsHeld, Waiting, Running
<1>3. SentLeadIsArmed' /\ SuppressionGate'
  BY DEF Redeliver, Msg, leadVars, workerVars, mishaps, LeadOfTask, Gates,
     SentLeadIsArmed, SuppressionGate
<1> QED BY <1>1, <1>2, <1>3 DEF Gates

-----------------------------------------------------------------------------
(* The theorems.                                                            *)

\* Every step keeps the gates.
LEMMA NextKeeps == Gates /\ [Next]_vars => Gates'
<1> SUFFICES ASSUME Gates, [Next]_vars PROVE Gates'
  OBVIOUS
<1>1. ASSUME NEW l \in Leads,
             Enrich(l) \/ AddSuppression(l) \/ RemoveSuppression(l)
      PROVE  Gates'
  BY <1>1, EnrichSuppressedKeeps, StartDraftingKeeps, DraftingFailsKeeps,
     SaveDraftKeeps, AddSuppressionKeeps, RemoveSuppressionKeeps DEF Enrich
<1>2. ASSUME NEW m \in Messages,
             \/ LoadForReview(m) \/ ApproveReview(m) \/ RequestSend(m)
             \/ LoadOpen(m) \/ ReportBounce(m)
      PROVE  Gates'
  BY <1>2, LoadForReviewKeeps, ApproveReviewKeeps, RequestSendKeeps, LoadOpenKeeps,
     ReportBounceKeeps
<1>3. ASSUME NEW o \in opening, TrackOpen(o) PROVE Gates'
  BY <1>3, TrackOpenKeeps
<1>4. ASSUME NEW w \in Workers, NEW j \in Jobs, Skip(w, j) \/ Start(w, j) PROVE Gates'
  BY <1>4, SkipKeeps, StartKeeps
<1>5. ASSUME NEW w \in Workers, WorkerStep(w) PROVE Gates'
  BY <1>5, RejectSuppressedKeeps, MarkQueuedKeeps, NoHealthySenderKeeps,
     SmtpAcceptKeeps, SmtpRefuseKeeps, SmtpTransientKeeps, SmtpLostAckKeeps,
     SmtpAcceptedYetRefusedKeeps, MarkFailedKeeps, RetryKeeps, CommitSentCountKeeps,
     CommitArmedKeeps, CommitSentAndArmedKeeps DEF WorkerStep
<1>6. ASSUME NEW w \in Workers, WorkerCrash(w) \/ Redeliver(w) PROVE Gates'
  BY <1>6, WorkerCrashKeeps, RedeliverKeeps
<1>7. ASSUME NEW u \in Unsubscribers, Unsubscribe(u) PROVE Gates'
  BY <1>7, LoadUnsubscribeKeeps, LookUpEntryKeeps, CommitUnsubscribeKeeps,
     UnsubscribeClashKeeps DEF Unsubscribe
<1>8. CASE UNCHANGED vars
  BY <1>8 DEF vars, Gates, TypeOK, Held, WorkersHaveTasks, UndraftedIsUntouched,
     UnreviewedIsHeld, Waiting, Running, Msg, LeadOfTask, SentLeadIsArmed,
     SuppressionGate
<1> QED BY <1>1, <1>2, <1>3, <1>4, <1>5, <1>6, <1>7, <1>8 DEF Next

\* The pipeline keeps its gates: the inductive invariant holds in every state.
THEOREM SendInvariant == Spec => []SendInv
BY InitGates, NextKeeps, GatesSuffice, PTL DEF Spec

\* What the processes of the pipeline hold: tasks of drafted messages, and a suppressed
\* lead's only if the entry was added after the check.
THEOREM GatesHold == Spec => []GateInv
<1>1. SendInv => GateInv
  BY DEF SendInv
<1> QED BY <1>1, SendInvariant, PTL

\* A flagged message is neither mailed nor waiting to be sent unless a human has
\* cleared it, whatever crashes, is redelivered, retried, opened or bounced.
THEOREM FlaggedNeedsReview == Spec => []ReviewBeforeSend
<1>1. SendInv => ReviewBeforeSend
  BY DEF SendInv
<1> QED BY <1>1, SendInvariant, PTL

\* A lead that reads SENT has its first follow-up armed, or a worker is about to
\* arm it, or one crashed between the two commits, or a visit of the unsubscribe link
\* that found the lead opted out cleared the date under it.
THEOREM SentLeadsAreArmed == Spec => []SentLeadIsArmed
<1>1. SendInv => SentLeadIsArmed
  BY DEF SendInv
<1> QED BY <1>1, SendInvariant, PTL

\* A worker that may still mail a suppressed lead asked the suppression list before
\* the entry was added.
THEOREM SuppressionIsAsked == Spec => []SuppressionGate
<1>1. SendInv => SuppressionGate
  BY DEF SendInv, GateInv
<1> QED BY <1>1, SendInvariant, PTL

-----------------------------------------------------------------------------
(* A message that reads QUEUED.                                             *)

\* The points of send_email_task after which the row is written again.
WritesLater == {"loaded", "queued", "accepted", "refused"}

\* What QueuedIsUnderWay says of one message.
SeenTo(m) ==
  \/ Waiting(m)
  \/ \E w \in Workers : Msg(w) = m /\ wpc[w] \in WritesLater
  \/ m \in lost \cup escaped

\* A step that neither writes a row nor moves a task.
LEMMA NobodyMoves ==
  ASSUME QueuedIsUnderWay, UNCHANGED <<mstatus, ready, wpc, wjob, lost, escaped>>
  PROVE  QueuedIsUnderWay'
  BY DEF QueuedIsUnderWay, Waiting, Msg

\* A step that writes one row, not as QUEUED, and moves no task.
LEMMA RowIsWritten ==
  ASSUME QueuedIsUnderWay, NEW x \in Messages, NEW s, s # "queued",
         mstatus \in [Messages -> MessageStatuses],
         SetMessage(x, s), UNCHANGED <<ready, wpc, wjob, lost, escaped>>
  PROVE  QueuedIsUnderWay'
  BY DEF SetMessage, QueuedIsUnderWay, Waiting, Msg

\* A worker goes on, to a point from which it still writes the row.
LEMMA WorkerGoesOn ==
  ASSUME QueuedIsUnderWay, wpc \in [Workers -> WorkerPC], NEW w \in Workers,
         NEW pc \in WritesLater, Goto(w, pc), UNCHANGED <<mstatus, ready, lost>>,
         escaped \subseteq escaped'
  PROVE  QueuedIsUnderWay'
  BY DEF Goto, QueuedIsUnderWay, Waiting, Msg, WritesLater

\* A worker writes the row of its message, not as QUEUED, and ends or goes on.
LEMMA WorkerAnswers ==
  ASSUME QueuedIsUnderWay, TypeOK, NEW w \in Workers, NEW s, s # "queued",
         Msg(w) \in Messages, SetMessage(Msg(w), s),
         Release(w) \/ \E pc \in WorkerPC : Goto(w, pc),
         UNCHANGED <<ready, lost, escaped>>
  PROVE  QueuedIsUnderWay'
<1> SUFFICES ASSUME NEW m \in Messages, mstatus'[m] = "queued"
             PROVE  SeenTo(m)'
  BY DEF QueuedIsUnderWay, SeenTo, WritesLater
<1>1. m # Msg(w) /\ mstatus[m] = "queued"
  BY DEF SetMessage, TypeOK
<1>2. SeenTo(m)
  BY <1>1 DEF QueuedIsUnderWay, SeenTo, WritesLater
<1>3. ASSUME NEW v \in Workers, v # w PROVE wpc'[v] = wpc[v] /\ Msg(v)' = Msg(v)
  <2>1. wpc \in [Workers -> WorkerPC] /\ wjob \in [Workers -> Jobs \cup {NoJob}]
    BY DEF TypeOK
  <2>2. CASE Release(w)
    BY <1>3, <2>1, <2>2 DEF Release, Msg
  <2>3. CASE \E pc \in WorkerPC : Goto(w, pc)
    BY <1>3, <2>1, <2>3 DEF Goto, Msg
  <2> QED BY <2>2, <2>3
<1>4. Waiting(m)' = Waiting(m) /\ lost' = lost /\ escaped' = escaped
  BY DEF Waiting
<1>5. \A v \in Workers : Msg(v) = m => v # w
  BY <1>1
<1> QED BY <1>2, <1>3, <1>4, <1>5 DEF SeenTo

\* A worker ends its task, whose message somebody else sees to or is known to be stuck.
LEMMA WorkerEnds ==
  ASSUME QueuedIsUnderWay, wpc \in [Workers -> WorkerPC], NEW w \in Workers, Release(w),
         UNCHANGED mstatus, lost \subseteq lost', escaped \subseteq escaped',
         \A j \in Jobs : ready[j] > 0 => ready'[j] > 0,
         wpc[w] \in WritesLater => Msg(w) \in lost' \cup escaped'
  PROVE  QueuedIsUnderWay'
<1> SUFFICES ASSUME NEW m \in Messages, mstatus[m] = "queued"
             PROVE  SeenTo(m)'
  BY DEF QueuedIsUnderWay, SeenTo, WritesLater
<1>1. SeenTo(m)
  BY DEF QueuedIsUnderWay, SeenTo, WritesLater
<1> QED BY <1>1 DEF SeenTo, Release, Waiting, Msg

\* The two ways out of a failed attempt: again, or out of the task.
LEMMA AttemptKeeps ==
  ASSUME QueuedIsUnderWay, TypeOK, NEW w \in Workers, NextAttempt(w),
         UNCHANGED <<mstatus, ready, lost>>
  PROVE  QueuedIsUnderWay'
<1>1. CASE Goto(w, "queued") /\ UNCHANGED escaped
  BY <1>1, WorkerGoesOn DEF TypeOK, WritesLater
<1>2. CASE escaped' = escaped \cup {Msg(w)} /\ Release(w)
  BY <1>2, WorkerEnds DEF TypeOK
<1> QED BY <1>1, <1>2 DEF NextAttempt

\* Every step of a worker's own.
LEMMA WorkerStepSeesTo ==
  ASSUME Gates, QueuedIsUnderWay, NEW w \in Workers, WorkerStep(w)
  PROVE  QueuedIsUnderWay'
<1>1. TypeOK /\ wpc \in [Workers -> WorkerPC] /\ mstatus \in [Messages -> MessageStatuses]
  BY DEF Gates, TypeOK
<1>2. wpc[w] # "idle" => Msg(w) \in Messages
  BY DEF Gates, Held, WorkersHaveTasks, Jobs, Msg
<1>3. CASE RejectSuppressed(w)
  BY <1>1, <1>2, <1>3, WorkerAnswers DEF RejectSuppressed, history
<1>4. CASE MarkQueued(w)
  <2>1. Goto(w, "queued") /\ UNCHANGED <<ready, lost, escaped>>
    BY <1>4 DEF MarkQueued, history
  <2>2. CASE UNCHANGED mstatus
    BY <1>1, <2>1, <2>2, WorkerGoesOn DEF WritesLater
  <2>3. CASE SetMessage(Msg(w), "queued")
    <3> SUFFICES ASSUME NEW m \in Messages, mstatus'[m] = "queued"
                 PROVE  SeenTo(m)'
      BY DEF QueuedIsUnderWay, SeenTo, WritesLater
    <3>1. CASE m = Msg(w)
      BY <1>1, <2>1, <3>1 DEF SeenTo, Goto, Msg, WritesLater
    <3>2. CASE m # Msg(w)
      <4>1. SeenTo(m)
        BY <1>1, <2>3, <3>2 DEF SetMessage, QueuedIsUnderWay, SeenTo, WritesLater
      <4> QED BY <1>1, <2>1, <3>2, <4>1 DEF SeenTo, Goto, Waiting, Msg
    <3> QED BY <3>1, <3>2
  <2> QED BY <1>4, <2>2, <2>3 DEF MarkQueued
<1>5. CASE NoHealthySender(w)
  BY <1>1, <1>2, <1>5, WorkerAnswers DEF NoHealthySender, history
<1>6. CASE SmtpAccept(w)
  BY <1>1, <1>6, WorkerGoesOn DEF SmtpAccept, messageVars, history, WritesLater
<1>7. CASE SmtpRefuse(w)
  BY <1>1, <1>7, WorkerGoesOn DEF SmtpRefuse, messageVars, history, WritesLater
<1>8. CASE SmtpTransient(w)
  BY <1>1, <1>8, AttemptKeeps DEF SmtpTransient, messageVars
<1>9. CASE SmtpLostAck(w)
  BY <1>1, <1>9, AttemptKeeps DEF SmtpLostAck, messageVars
<1>10. CASE SmtpAcceptedYetRefused(w)
  BY <1>1, <1>10, WorkerGoesOn DEF SmtpAcceptedYetRefused, messageVars, mishaps, WritesLater
<1>11. CASE MarkFailed(w)
  <2>1. /\ Msg(w) \in Messages /\ SetMessage(Msg(w), "failed") /\ Goto(w, "retrying")
        /\ UNCHANGED <<ready, lost, escaped>>
    BY <1>2, <1>11 DEF MarkFailed, history
  <2> QED BY <1>1, <2>1, WorkerAnswers DEF WorkerPC
<1>12. CASE Retry(w)
  <2>1. \A j \in Jobs : ready[j] > 0 => ready'[j] > 0
    BY <1>1, <1>12 DEF Retry, TypeOK
  <2> QED BY <1>1, <1>12, <2>1, WorkerEnds DEF Retry, messageVars, history, WritesLater
<1>13. CASE CommitSentCount(w)
  <2>1. /\ Msg(w) \in Messages /\ SetMessage(Msg(w), "sent") /\ Goto(w, "counted")
        /\ UNCHANGED <<ready, lost, escaped>>
    BY <1>2, <1>13 DEF CommitSentCount, history
  <2> QED BY <1>1, <2>1, WorkerAnswers DEF WorkerPC
<1>14. CASE CommitArmed(w)
  BY <1>1, <1>14, WorkerEnds DEF CommitArmed, messageVars, WritesLater
<1>15. CASE CommitSentAndArmed(w)
  BY <1>1, <1>2, <1>15, WorkerAnswers DEF CommitSentAndArmed
<1> QED
  BY <1>3, <1>4, <1>5, <1>6, <1>7, <1>8, <1>9, <1>10, <1>11, <1>12, <1>13, <1>14, <1>15
     DEF WorkerStep

\* The broker and its workers: a task taken is a task somebody runs, and one that a
\* crash ended is recorded as lost.
LEMMA BrokerSeesTo ==
  ASSUME Gates, QueuedIsUnderWay, NEW w \in Workers,
         \/ \E j \in Jobs : Skip(w, j) \/ Start(w, j)
         \/ WorkerCrash(w) \/ Redeliver(w)
  PROVE  QueuedIsUnderWay'
<1>1. TypeOK /\ wpc \in [Workers -> WorkerPC] /\ ready \in [Jobs -> Nat]
  BY DEF Gates, TypeOK
<1>2. ASSUME NEW j \in Jobs, Skip(w, j) PROVE QueuedIsUnderWay'
  <2> SUFFICES ASSUME NEW m \in Messages, mstatus[m] = "queued"
               PROVE  SeenTo(m)'
    BY <1>2 DEF Skip, messageVars, QueuedIsUnderWay, SeenTo, WritesLater
  <2>1. SeenTo(m) /\ j.msg # m
    BY <1>2 DEF Skip, QueuedIsUnderWay, SeenTo, WritesLater
  <2> QED BY <1>1, <1>2, <2>1 DEF Skip, SeenTo, Waiting, Msg, workerVars, history
<1>3. ASSUME NEW j \in Jobs, Start(w, j) PROVE QueuedIsUnderWay'
  <2> SUFFICES ASSUME NEW m \in Messages, mstatus[m] = "queued"
               PROVE  SeenTo(m)'
    BY <1>3 DEF Start, messageVars, QueuedIsUnderWay, SeenTo, WritesLater
  <2>1. SeenTo(m)
    BY DEF QueuedIsUnderWay, SeenTo, WritesLater
  <2>2. wpc' = [wpc EXCEPT ![w] = "loaded"] /\ wjob' = [wjob EXCEPT ![w] = j]
    BY <1>3 DEF Start
  <2>3. CASE j.msg = m
    BY <1>1, <2>2, <2>3 DEF SeenTo, Msg, WritesLater, Gates, TypeOK
  <2>4. CASE j.msg # m
    <3>1. wpc[w] = "idle" /\ lost' = lost /\ escaped' = escaped
      BY <1>3 DEF Start, history
    <3>2. Waiting(m) => Waiting(m)'
      BY <1>1, <1>3, <2>4 DEF Start, Waiting
    <3> QED BY <1>1, <2>1, <2>2, <3>1, <3>2 DEF SeenTo, Msg, WritesLater, Gates, TypeOK
  <2> QED BY <2>3, <2>4
<1>4. CASE WorkerCrash(w)
  <2>1. \A j \in Jobs : ready[j] > 0 => ready'[j] > 0
    BY <1>1, <1>4 DEF WorkerCrash, TypeOK
  <2> QED BY <1>1, <1>4, <2>1, WorkerEnds DEF WorkerCrash, messageVars, Msg
<1>5. CASE Redeliver(w)
  <2>1. \A j \in Jobs : ready[j] > 0 => ready'[j] > 0
    BY <1>1, <1>5 DEF Redeliver
  <2> QED
    BY <1>5, <2>1 DEF Redeliver, messageVars, workerVars, mishaps, QueuedIsUnderWay,
       Waiting, Msg
<1> QED BY <1>2, <1>3, <1>4, <1>5

\* Every step leaves a queued message to somebody.
LEMMA SeenToKept == Gates /\ QueuedIsUnderWay /\ [Next]_vars => QueuedIsUnderWay'
<1> SUFFICES ASSUME Gates, QueuedIsUnderWay, [Next]_vars PROVE QueuedIsUnderWay'
  OBVIOUS
<1>1. mstatus \in [Messages -> MessageStatuses] /\ ready \in [Jobs -> Nat]
  BY DEF Gates, TypeOK
<1>2. ASSUME NEW l \in Leads, Enrich(l) \/ AddSuppression(l) \/ RemoveSuppression(l)
      PROVE  QueuedIsUnderWay'
  <2>1. ASSUME NEW m \in Messages, NEW spam \in BOOLEAN, SaveDraft(m, spam)
        PROVE  QueuedIsUnderWay'
    BY <1>1, <2>1, RowIsWritten DEF SaveDraft, workerVars, history
  <2>2. CASE \/ EnrichSuppressed(l) \/ StartDrafting(l) \/ DraftingFails(l)
             \/ AddSuppression(l) \/ RemoveSuppression(l)
    BY <2>2, NobodyMoves DEF EnrichSuppressed, StartDrafting, DraftingFails,
       AddSuppression, RemoveSuppression, messageVars, workerVars, history
  <2> QED BY <1>2, <2>1, <2>2 DEF Enrich
<1>3. ASSUME NEW u \in Unsubscribers, Unsubscribe(u) PROVE QueuedIsUnderWay'
  BY <1>3, NobodyMoves DEF Unsubscribe, LoadUnsubscribe, LookUpEntry, CommitUnsubscribe,
     UnsubscribeClash, messageVars, workerVars, history
<1>4. ASSUME NEW m \in Messages, LoadForReview(m) \/ LoadOpen(m) PROVE QueuedIsUnderWay'
  BY <1>4, NobodyMoves DEF LoadForReview, LoadOpen, messageVars, workerVars, history
<1>5. ASSUME NEW m \in Messages, ApproveReview(m) \/ ReportBounce(m)
      PROVE  QueuedIsUnderWay'
  BY <1>1, <1>5, RowIsWritten DEF ApproveReview, ReportBounce, workerVars, history, mishaps
<1>6. ASSUME NEW m \in Messages, RequestSend(m) PROVE QueuedIsUnderWay'
  <2>1. \A j \in Jobs : ready[j] > 0 => ready'[j] > 0
    BY <1>1, <1>6 DEF RequestSend
  <2> QED
    BY <1>6, <2>1 DEF RequestSend, messageVars, workerVars, mishaps, QueuedIsUnderWay,
       Waiting, Msg
<1>7. ASSUME NEW o \in opening, TrackOpen(o) PROVE QueuedIsUnderWay'
  <2>1. o[1] \in Messages
    BY DEF Gates, TypeOK
  <2> QED BY <1>1, <1>7, <2>1, RowIsWritten DEF TrackOpen, workerVars, history
<1>8. ASSUME NEW w \in Workers, NEW j \in Jobs, Skip(w, j) \/ Start(w, j)
      PROVE  QueuedIsUnderWay'
  BY <1>8, BrokerSeesTo
<1>9. ASSUME NEW w \in Workers, WorkerStep(w) \/ WorkerCrash(w) \/ Redeliver(w)
      PROVE  QueuedIsUnderWay'
  BY <1>9, WorkerStepSeesTo, BrokerSeesTo
<1>10. CASE UNCHANGED vars
  BY <1>10, NobodyMoves DEF vars
<1> QED BY <1>2, <1>3, <1>4, <1>5, <1>6, <1>7, <1>8, <1>9, <1>10 DEF Next

\* A message that reads QUEUED has a task that waits or runs, unless a crash ended one
\* of its tasks or an error none of the handlers catches escaped from its last attempt.
THEOREM QueuedIsSeenTo == Spec => []QueuedIsUnderWay
<1>1. Init => QueuedIsUnderWay
  BY DEF Init, QueuedIsUnderWay
<1> QED BY <1>1, InitGates, NextKeeps, SeenToKept, PTL DEF Spec

-----------------------------------------------------------------------------
(* Counting.  How often a message can still be mailed is the size of two    *)
(* sets: the copies of its task that wait in the broker, and the workers    *)
(* that have not been answered yet.                                         *)

\* A counter that goes up.
LEMMA CounterUp ==
  ASSUME NEW S, NEW f \in [S -> Nat], NEW x \in S
  PROVE  [f EXCEPT ![x] = @ + 1] \in [S -> Nat]
  OBVIOUS

\* The workers that run a task of message m at one of the points pcs.
At(m, pcs) == {w \in Workers : wpc[w] \in pcs /\ Msg(w) = m}

\* Not answered yet: such a worker can still mail the message, or retry.
AblePC == {"loaded", "queued", "refused", "retrying"}

\* The copies of m's task messages that wait in the broker.
WaitingFor(m) == Copies(ready, {j \in Jobs : j.msg = m})

\* Every email sent and every way left to send one is paid for: by a request,
\* or by a redelivery, a crash or a lost answer.
Chances(m) ==
  /\ IsFiniteSet(WaitingFor(m)) /\ IsFiniteSet(At(m, AblePC))
  /\ mailed[m] + Cardinality(WaitingFor(m)) + Cardinality(At(m, AblePC))
       <= requests[m] + faults[m]

\* A worker that moves, or ends its task, is all that changes among them.
LEMMA WorkerMoves ==
  ASSUME TypeOK, NEW w \in Workers,
         Release(w) \/ \E pc \in WorkerPC : Goto(w, pc),
         NEW m \in Messages, NEW pcs, IsFiniteSet(At(m, pcs))
  PROVE  /\ IsFiniteSet(At(m, pcs)')
         /\ Cardinality(At(m, pcs)) \in Nat /\ Cardinality(At(m, pcs)') \in Nat
         /\ Cardinality(At(m, pcs)')
              = Cardinality(At(m, pcs)) + One(w \in At(m, pcs)') - One(w \in At(m, pcs))
<1>1. At(m, pcs) \ {w} = At(m, pcs)' \ {w}
  BY DEF At, Release, Goto, TypeOK, Msg
<1> QED
  BY <1>1, OneElement

\* The worker that takes a message is the only one to move.
LEMMA WorkerStarts ==
  ASSUME TypeOK, NEW w \in Workers, NEW j \in Jobs, Start(w, j),
         NEW m \in Messages, NEW pcs, IsFiniteSet(At(m, pcs)), "idle" \notin pcs
  PROVE  /\ IsFiniteSet(At(m, pcs)')
         /\ Cardinality(At(m, pcs)) \in Nat /\ Cardinality(At(m, pcs)') \in Nat
         /\ Cardinality(At(m, pcs)')
              = Cardinality(At(m, pcs)) + One("loaded" \in pcs /\ j.msg = m)
<1>1. At(m, pcs) \ {w} = At(m, pcs)' \ {w}
  BY DEF At, Start, TypeOK, Msg
<1>2. w \notin At(m, pcs) /\ (w \in At(m, pcs)' <=> "loaded" \in pcs /\ j.msg = m)
  BY DEF At, Start, TypeOK, Msg
<1>3. /\ IsFiniteSet(At(m, pcs)')
      /\ Cardinality(At(m, pcs)) \in Nat /\ Cardinality(At(m, pcs)') \in Nat
      /\ Cardinality(At(m, pcs)')
           = Cardinality(At(m, pcs)) + One(w \in At(m, pcs)') - One(w \in At(m, pcs))
  BY <1>1, OneElement
<1> QED
  BY <1>2, <1>3 DEF One

\* What the broker does: a copy of a message is put in, or handed out.
Put(j) == ready' = [ready EXCEPT ![j] = @ + 1]
HandOut(j) == ready[j] > 0 /\ ready' = [ready EXCEPT ![j] = @ - 1]

\* A task that is published counts for its message.
LEMMA Published ==
  ASSUME TypeOK, NEW j \in Jobs, Put(j), NEW m \in Messages, IsFiniteSet(WaitingFor(m))
  PROVE  /\ IsFiniteSet(WaitingFor(m)')
         /\ Cardinality(WaitingFor(m)) \in Nat /\ Cardinality(WaitingFor(m)') \in Nat
         /\ Cardinality(WaitingFor(m)') = Cardinality(WaitingFor(m)) + One(j.msg = m)
<1> DEFINE S == {i \in Jobs : i.msg = m}
<1>1. /\ ready \in [Jobs -> Nat] /\ ready' \in [Jobs -> Nat]
      /\ ready'[j] = ready[j] + 1 /\ \A i \in Jobs \ {j} : ready'[i] = ready[i]
      /\ S \in SUBSET Jobs /\ (j \in S <=> j.msg = m)
  BY CounterUp DEF TypeOK, Put
<1>2. WaitingFor(m) = Copies(ready, S) /\ WaitingFor(m)' = Copies(ready', S)
  BY DEF WaitingFor, Copies
<1> HIDE DEF S
<1>3. /\ IsFiniteSet(Copies(ready', S))
      /\ Cardinality(Copies(ready, S)) \in Nat /\ Cardinality(Copies(ready', S)) \in Nat
      /\ Cardinality(Copies(ready', S)) = Cardinality(Copies(ready, S)) + One(j \in S)
  BY <1>1, <1>2, CopiesUp
<1> QED
  BY <1>1, <1>2, <1>3 DEF One

\* A task that is taken no longer does.
LEMMA Taken ==
  ASSUME TypeOK, NEW j \in Jobs, HandOut(j), NEW m \in Messages, IsFiniteSet(WaitingFor(m))
  PROVE  /\ IsFiniteSet(WaitingFor(m)')
         /\ Cardinality(WaitingFor(m)) \in Nat /\ Cardinality(WaitingFor(m)') \in Nat
         /\ Cardinality(WaitingFor(m)') = Cardinality(WaitingFor(m)) - One(j.msg = m)
<1> DEFINE S == {i \in Jobs : i.msg = m}
<1>1. /\ ready \in [Jobs -> Nat] /\ ready' \in [Jobs -> Nat]
      /\ ready[j] = ready'[j] + 1 /\ \A i \in Jobs \ {j} : ready'[i] = ready[i]
      /\ S \in SUBSET Jobs /\ (j \in S <=> j.msg = m)
  BY CounterDown DEF TypeOK, HandOut
<1>2. WaitingFor(m) = Copies(ready, S) /\ WaitingFor(m)' = Copies(ready', S)
  BY DEF WaitingFor, Copies
<1> HIDE DEF S
<1>3. /\ IsFiniteSet(Copies(ready', S))
      /\ Cardinality(Copies(ready, S)) \in Nat /\ Cardinality(Copies(ready', S)) \in Nat
      /\ Cardinality(Copies(ready', S)) = Cardinality(Copies(ready, S)) - One(j \in S)
  BY <1>1, <1>2, CopiesDown
<1> QED
  BY <1>1, <1>2, <1>3 DEF One

\* The parts of Chances are sizes.
LEMMA ChanceSizes ==
  ASSUME NEW m \in Messages, Chances(m)
  PROVE  Cardinality(WaitingFor(m)) \in Nat /\ Cardinality(At(m, AblePC)) \in Nat
  BY FS_CardinalityType DEF Chances

\* The history of a message only grows.
LEMMA HistoryGrows ==
  ASSUME Gates, Next, NEW m \in Messages
  PROVE  /\ mailed[m] \in Nat /\ mailed'[m] \in Nat /\ mailed[m] <= mailed'[m]
         /\ requests[m] \in Nat /\ requests'[m] \in Nat /\ requests[m] <= requests'[m]
         /\ reviews[m] \in Nat /\ reviews'[m] \in Nat /\ reviews[m] <= reviews'[m]
         /\ faults[m] \in Nat /\ faults'[m] \in Nat /\ faults[m] <= faults'[m]
         /\ lost \subseteq lost'
<1> DEFINE Up(x, y) == \/ x' = x
                       \/ \E i \in Messages : x' = [x EXCEPT ![i] = @ + 1]
<1>1. /\ mailed \in [Messages -> Nat] /\ requests \in [Messages -> Nat]
      /\ reviews \in [Messages -> Nat] /\ faults \in [Messages -> Nat]
  BY DEF Gates, TypeOK
<1>2. \A w \in Workers : wpc[w] # "idle" => wjob[w] \in Jobs /\ Msg(w) \in Messages
                                              /\ wjob[w].msg \in Messages
  BY DEF Gates, Held, WorkersHaveTasks, Msg, Jobs
<1>3. UNCHANGED mailed \/ \E i \in Messages : mailed' = [mailed EXCEPT ![i] = @ + 1]
  BY <1>2, UnsubscribeFrame DEF Next, Enrich, WorkerStep, history, mishaps,
     EnrichSuppressed, StartDrafting, DraftingFails, SaveDraft, LoadForReview,
     ApproveReview, RequestSend, Skip, Start, RejectSuppressed, MarkQueued,
     NoHealthySender, SmtpAccept, SmtpRefuse, SmtpTransient, SmtpLostAck,
     SmtpAcceptedYetRefused, MarkFailed, Retry, CommitSentCount, CommitArmed,
     CommitSentAndArmed, LoadOpen, TrackOpen, ReportBounce, AddSuppression,
     RemoveSuppression, WorkerCrash, Redeliver
<1>4. UNCHANGED faults \/ \E i \in Messages : faults' = [faults EXCEPT ![i] = @ + 1]
  BY <1>2, UnsubscribeFrame DEF Next, Enrich, WorkerStep, history, mishaps,
     EnrichSuppressed, StartDrafting, DraftingFails, SaveDraft, LoadForReview,
     ApproveReview, RequestSend, Skip, Start, RejectSuppressed, MarkQueued,
     NoHealthySender, SmtpAccept, SmtpRefuse, SmtpTransient, SmtpLostAck,
     SmtpAcceptedYetRefused, MarkFailed, Retry, CommitSentCount, CommitArmed,
     CommitSentAndArmed, LoadOpen, TrackOpen, ReportBounce, AddSuppression,
     RemoveSuppression, WorkerCrash, Redeliver
<1>5. /\ UNCHANGED requests \/ \E i \in Messages : requests' = [requests EXCEPT ![i] = @ + 1]
      /\ UNCHANGED reviews \/ \E i \in Messages : reviews' = [reviews EXCEPT ![i] = @ + 1]
      /\ lost \subseteq lost'
  BY UnsubscribeFrame DEF Next, Enrich, WorkerStep, history, mishaps, EnrichSuppressed,
     StartDrafting, DraftingFails, SaveDraft, LoadForReview, ApproveReview, RequestSend,
     Skip, Start, RejectSuppressed, MarkQueued, NoHealthySender, SmtpAccept, SmtpRefuse,
     SmtpTransient, SmtpLostAck, SmtpAcceptedYetRefused, MarkFailed, Retry,
     CommitSentCount, CommitArmed, CommitSentAndArmed, LoadOpen, TrackOpen,
     ReportBounce, AddSuppression, RemoveSuppression, WorkerCrash, Redeliver
<1>6. ASSUME NEW f \in [Messages -> Nat], NEW g,
             g = f \/ \E i \in Messages : g = [f EXCEPT ![i] = @ + 1]
      PROVE  g[m] \in Nat /\ f[m] \in Nat /\ f[m] <= g[m]
  <2>1. CASE g = f
    BY <2>1
  <2>2. ASSUME NEW i \in Messages, g = [f EXCEPT ![i] = @ + 1]
        PROVE  g[m] \in Nat /\ f[m] \in Nat /\ f[m] <= g[m]
    BY <2>2
  <2> QED
    BY <1>6, <2>1, <2>2
<1> QED
  BY <1>1, <1>3, <1>4, <1>5, <1>6

\* No step sends an email, or makes one possible, that is not paid for.
LEMMA ChanceStep ==
  ASSUME Gates, Next, NEW m \in Messages, Chances(m)
  PROVE  Chances(m)'
<1> DEFINE W == Cardinality(WaitingFor(m))
           A == Cardinality(At(m, AblePC))
<1>a. W \in Nat /\ A \in Nat
  BY ChanceSizes
<1>b. TypeOK /\ mailed[m] \in Nat /\ requests[m] \in Nat /\ faults[m] \in Nat
  BY DEF Gates, TypeOK
<1>c. ASSUME UNCHANGED ready  PROVE WaitingFor(m)' = WaitingFor(m)
  BY <1>c DEF WaitingFor, Copies
<1>d. ASSUME UNCHANGED <<wpc, wjob>>  PROVE At(m, AblePC)' = At(m, AblePC)
  BY <1>d DEF At, Msg
<1>1. CASE UNCHANGED <<ready, wpc, wjob, mailed, requests, faults>>
  BY <1>1, <1>c, <1>d DEF Chances
<1>2. ASSUME NEW i \in Messages, RequestSend(i)  PROVE Chances(m)'
  <2> DEFINE j == [msg |-> i, try |-> 0]
  <2>1. j \in Jobs /\ j.msg = i
    BY DEF Jobs
  <2>2. ready' = [ready EXCEPT ![j] = @ + 1] /\ requests' = [requests EXCEPT ![i] = @ + 1]
        /\ UNCHANGED <<wpc, wjob, mailed, faults>>
    BY <1>2 DEF RequestSend, workerVars
  <2> HIDE DEF j
  <2>3. IsFiniteSet(WaitingFor(m)') /\ Cardinality(WaitingFor(m)') = W + One(j.msg = m)
    BY <1>b, <2>1, <2>2, Published DEF Chances, Put
  <2>4. requests'[m] = requests[m] + One(i = m)
    BY <1>b, <2>2 DEF TypeOK, One
  <2> QED
    BY <1>a, <1>b, <1>d, <2>1, <2>2, <2>3, <2>4 DEF Chances, One
<1>3. ASSUME NEW w \in Workers, NEW j \in Jobs, Skip(w, j) \/ Start(w, j)
      PROVE  Chances(m)'
  <2>1. UNCHANGED <<mailed, requests, faults>> /\ ready[j] > 0
        /\ ready' = [ready EXCEPT ![j] = @ - 1]
    BY <1>3 DEF Skip, Start, history
  <2>2. /\ IsFiniteSet(WaitingFor(m)') /\ Cardinality(WaitingFor(m)') \in Nat
        /\ Cardinality(WaitingFor(m)') = W - One(j.msg = m)
    BY <1>b, <2>1, Taken DEF Chances, HandOut
  <2>3. /\ IsFiniteSet(At(m, AblePC)') /\ Cardinality(At(m, AblePC)') \in Nat
        /\ Cardinality(At(m, AblePC)') <= A + One(j.msg = m)
    <3>1. CASE Skip(w, j)
      BY <3>1, <1>a, <1>d DEF Skip, workerVars, Chances, One
    <3>2. CASE Start(w, j)
      <4>1. "idle" \notin AblePC /\ "loaded" \in AblePC
        BY DEF AblePC
      <4> QED
        BY <1>a, <1>b, <3>2, <4>1, WorkerStarts DEF Chances, One
    <3> QED
      BY <1>3, <3>1, <3>2
  <2> QED
    BY <1>a, <1>b, <2>1, <2>2, <2>3 DEF Chances, One
<1>4. ASSUME NEW w \in Workers, WorkerStep(w) \/ WorkerCrash(w)  PROVE Chances(m)'
  <2> DEFINE j == wjob[w]
             one == One(j.msg = m)
  <2>1. j \in Jobs /\ j.msg \in Messages /\ Msg(w) = j.msg /\ wpc[w] # "idle"
    BY <1>4 DEF Gates, Held, WorkersHaveTasks, Jobs, Msg, WorkerStep, RejectSuppressed,
       MarkQueued, NoHealthySender, SmtpAccept, SmtpRefuse, SmtpTransient, SmtpLostAck,
       SmtpAcceptedYetRefused, MarkFailed, Retry, CommitSentCount, CommitArmed,
       CommitSentAndArmed, WorkerCrash
  <2>2. UNCHANGED requests
    BY <1>4 DEF WorkerStep, RejectSuppressed, MarkQueued, NoHealthySender, SmtpAccept,
       SmtpRefuse, SmtpTransient, SmtpLostAck, SmtpAcceptedYetRefused, MarkFailed,
       Retry, CommitSentCount, CommitArmed, CommitSentAndArmed, WorkerCrash, history
  <2>3. Release(w) \/ \E pc \in WorkerPC : Goto(w, pc)
    BY <1>4 DEF WorkerStep, RejectSuppressed, MarkQueued, NoHealthySender, SmtpAccept,
       SmtpRefuse, SmtpTransient, SmtpLostAck, SmtpAcceptedYetRefused, NextAttempt,
       MarkFailed, Retry, CommitSentCount, CommitArmed, CommitSentAndArmed, WorkerCrash,
       WorkerPC
  <2>4. /\ IsFiniteSet(At(m, AblePC)') /\ Cardinality(At(m, AblePC)') \in Nat
        /\ Cardinality(At(m, AblePC)')
             = A + One(w \in At(m, AblePC)') - One(w \in At(m, AblePC))
    BY <1>b, <2>3, WorkerMoves DEF Chances
  <2>5. \* unable before, unable after
        ASSUME UNCHANGED <<ready, mailed, faults>>,
               w \in At(m, AblePC)' => w \in At(m, AblePC)
        PROVE  Chances(m)'
    BY <1>a, <1>b, <1>c, <2>2, <2>4, <2>5 DEF Chances, One
  <2>6. CASE \/ RejectSuppressed(w) \/ MarkQueued(w) \/ NoHealthySender(w) \/ SmtpRefuse(w)
             \/ SmtpTransient(w) \/ MarkFailed(w) \/ CommitSentCount(w) \/ CommitArmed(w)
             \/ CommitSentAndArmed(w)
    <3>1. UNCHANGED <<ready, mailed, faults>>
      BY <2>6 DEF RejectSuppressed, MarkQueued, NoHealthySender, SmtpRefuse,
         SmtpTransient, MarkFailed, CommitSentCount, CommitArmed, CommitSentAndArmed,
         history
    <3>2. w \in At(m, AblePC)' => w \in At(m, AblePC)
      BY <1>b, <2>6
         DEF RejectSuppressed, MarkQueued, NoHealthySender, SmtpRefuse, SmtpTransient,
             NextAttempt, MarkFailed, CommitSentCount, CommitArmed, CommitSentAndArmed,
             Goto, Release, At, AblePC, TypeOK, Msg
    <3> QED
      BY <2>5, <3>1, <3>2
  <2>7. CASE SmtpAccept(w)
    <3>1. UNCHANGED <<ready, faults>> /\ mailed'[m] = mailed[m] + one
      BY <1>b, <2>1, <2>7 DEF SmtpAccept, history, TypeOK, One
    <3>2. w \notin At(m, AblePC)' /\ One(w \in At(m, AblePC)) = one
      BY <1>b, <2>7 DEF SmtpAccept, Goto, At, AblePC, TypeOK, One, Msg
    <3> QED
      BY <1>a, <1>b, <1>c, <2>2, <2>4, <3>1, <3>2 DEF Chances, One
  <2>8. CASE SmtpLostAck(w) \/ SmtpAcceptedYetRefused(w)
    <3>1. UNCHANGED ready /\ mailed'[m] = mailed[m] + one /\ faults'[m] = faults[m] + one
      BY <1>b, <2>1, <2>8 DEF SmtpLostAck, SmtpAcceptedYetRefused, TypeOK, One
    <3>2. w \in At(m, AblePC)' => w \in At(m, AblePC)
      BY <1>b, <2>8 DEF SmtpLostAck, SmtpAcceptedYetRefused, NextAttempt, Goto, Release,
         At, AblePC, TypeOK, Msg
    <3> QED
      BY <1>a, <1>b, <1>c, <2>2, <2>4, <3>1, <3>2 DEF Chances, One
  <2>9. CASE Retry(w)
    <3> DEFINE next == [j EXCEPT !.try = @ + 1]
    <3>1. UNCHANGED <<mailed, faults>>
      BY <2>9 DEF Retry, history
    <3>2. w \notin At(m, AblePC)' /\ One(w \in At(m, AblePC)) = one
      BY <1>b, <2>9 DEF Retry, Release, At, AblePC, TypeOK, One, Msg
    <3>3. CASE j.try < MaxRetries
      <4>1. next \in Jobs /\ next.msg = j.msg
        BY <2>1, <3>3 DEF Jobs
      <4>2. ready' = [ready EXCEPT ![next] = @ + 1]
        BY <2>9, <3>3 DEF Retry
      <4> HIDE DEF next
      <4>3. IsFiniteSet(WaitingFor(m)')
            /\ Cardinality(WaitingFor(m)') = W + One(next.msg = m)
        BY <1>b, <4>1, <4>2, Published DEF Chances, Put
      <4> QED
        BY <1>a, <1>b, <2>2, <2>4, <3>1, <3>2, <4>1, <4>3 DEF Chances, One
    <3>4. CASE ~(j.try < MaxRetries)
      <4>1. UNCHANGED ready
        BY <2>9, <3>4 DEF Retry
      <4> QED
        BY <2>5, <3>1, <3>2, <4>1
    <3> QED
      BY <3>3, <3>4
  <2>10. CASE WorkerCrash(w)
    <3>1. UNCHANGED mailed
      BY <2>10 DEF WorkerCrash
    <3>2. w \notin At(m, AblePC)'
      BY <1>b, <2>10 DEF WorkerCrash, Release, At, AblePC, TypeOK, Msg
    <3>3. CASE UNCHANGED <<ready, faults>>
      BY <2>5, <3>1, <3>2, <3>3
    <3>4. CASE ready' = [ready EXCEPT ![j] = @ + 1]
               /\ faults' = [faults EXCEPT ![j.msg] = @ + 1]
      <4>1. IsFiniteSet(WaitingFor(m)') /\ Cardinality(WaitingFor(m)') = W + one
        BY <1>b, <2>1, <3>4, Published DEF Chances, Put
      <4>2. faults'[m] = faults[m] + one
        BY <1>b, <2>1, <3>4 DEF TypeOK, One
      <4> QED
        BY <1>a, <1>b, <2>2, <2>4, <3>1, <3>2, <4>1, <4>2 DEF Chances, One
    <3> QED
      BY <2>10, <3>3, <3>4 DEF WorkerCrash
  <2> QED
    BY <1>4, <2>6, <2>7, <2>8, <2>9, <2>10 DEF WorkerStep
<1>5. ASSUME NEW w \in Workers, Redeliver(w)  PROVE Chances(m)'
  <2> DEFINE j == wjob[w]
  <2>1. j \in Jobs /\ j.msg \in Messages
    BY <1>5 DEF Redeliver, Gates, Held, WorkersHaveTasks, Jobs
  <2>2. UNCHANGED <<wpc, wjob, mailed, requests>>
        /\ ready' = [ready EXCEPT ![j] = @ + 1]
        /\ faults' = [faults EXCEPT ![j.msg] = @ + 1]
    BY <1>5 DEF Redeliver, workerVars, Msg
  <2>3. IsFiniteSet(WaitingFor(m)') /\ Cardinality(WaitingFor(m)') = W + One(j.msg = m)
    BY <1>b, <2>1, <2>2, Published DEF Chances, Put
  <2>4. faults'[m] = faults[m] + One(j.msg = m)
    BY <1>b, <2>1, <2>2 DEF TypeOK, One
  <2> QED
    BY <1>a, <1>b, <1>d, <2>2, <2>3, <2>4 DEF Chances, One
<1>6. ASSUME NEW l \in Leads,
             Enrich(l) \/ AddSuppression(l) \/ RemoveSuppression(l)
      PROVE  UNCHANGED <<ready, wpc, wjob, mailed, requests, faults>>
  BY <1>6 DEF Enrich, EnrichSuppressed, StartDrafting, DraftingFails, SaveDraft,
     AddSuppression, RemoveSuppression, workerVars, history
<1>7. ASSUME NEW i \in Messages,
             LoadForReview(i) \/ ApproveReview(i) \/ LoadOpen(i) \/ ReportBounce(i)
      PROVE  UNCHANGED <<ready, wpc, wjob, mailed, requests, faults>>
  BY <1>7 DEF LoadForReview, ApproveReview, LoadOpen, ReportBounce, workerVars, history
<1>8. ASSUME NEW o \in opening, TrackOpen(o)
      PROVE  UNCHANGED <<ready, wpc, wjob, mailed, requests, faults>>
  BY <1>8 DEF TrackOpen, workerVars, history
<1>9. ASSUME NEW u \in Unsubscribers, Unsubscribe(u)
      PROVE  UNCHANGED <<ready, wpc, wjob, mailed, requests, faults>>
  BY <1>9, UnsubscribeFrame
<1> QED
  BY <1>1, <1>2, <1>3, <1>4, <1>5, <1>6, <1>7, <1>8, <1>9 DEF Next

-----------------------------------------------------------------------------
(* What the row of a message says of its email.                             *)

Delivered == {"sent", "opened", "bounced"}

\* Asked for once, cleared once, and no fault has touched it.
Calm(m) == requests[m] <= 1 /\ reviews[m] <= 1 /\ faults[m] = 0 /\ m \notin lost

\* Only what was flagged is reviewed.
OnlyFlagged(m) == reviewing[m] > 0 \/ mstatus[m] = "needs_review" => flagged[m]

\* Everything that lets a row read delivered comes after an email.
NothingUnsent(m) ==
  /\ \A b \in BOOLEAN : <<m, b>> \in opening => mailed[m] > 0
  /\ At(m, {"accepted", "counted"}) # {} => mailed[m] > 0
  /\ mstatus[m] \in Delivered => mailed[m] > 0

\* A calm message that has left reads delivered, or a worker is about to write it.
NothingHidden(m) ==
  Calm(m) /\ mailed[m] > 0 => mstatus[m] \in Delivered \/ At(m, {"accepted"}) # {}

Truth(m) == OnlyFlagged(m) /\ NothingUnsent(m) /\ NothingHidden(m)

\* Who may write a message row, and what.
LEMMA RowMoves ==
  ASSUME Gates, Next, NEW m \in Messages
  PROVE  \/ mstatus'[m] = mstatus[m]
         \/ mstatus[m] = "absent" /\ mstatus'[m] \notin Delivered
              /\ (mstatus'[m] = "needs_review" => flagged'[m])
         \/ reviewing[m] > 0 /\ reviews'[m] = reviews[m] + 1 /\ mstatus'[m] = "draft"
         \/ At(m, AblePC) # {} /\ mstatus'[m] \in {"queued", "failed"}
         \/ At(m, {"accepted"}) # {} /\ mstatus'[m] = "sent"
         \/ (\E b \in BOOLEAN : <<m, b>> \in opening) /\ mstatus'[m] = "opened"
         \/ mailed[m] > 0 /\ mstatus'[m] = "bounced"
<1>1. TypeOK /\ mstatus \in [Messages -> MessageStatuses]
      /\ flagged \in [Messages -> BOOLEAN] /\ reviews \in [Messages -> Nat]
      /\ opening \in SUBSET (Messages \X BOOLEAN)
  BY DEF Gates, TypeOK
<1>2. \A w \in Workers : wpc[w] # "idle" => Msg(w) \in Messages
  BY DEF Gates, Held, WorkersHaveTasks, Msg, Jobs
<1> DEFINE Goal == \/ mstatus'[m] = mstatus[m]
                   \/ mstatus[m] = "absent" /\ mstatus'[m] \notin Delivered
                        /\ (mstatus'[m] = "needs_review" => flagged'[m])
                   \/ reviewing[m] > 0 /\ reviews'[m] = reviews[m] + 1 /\ mstatus'[m] = "draft"
                   \/ At(m, AblePC) # {} /\ mstatus'[m] \in {"queued", "failed"}
                   \/ At(m, {"accepted"}) # {} /\ mstatus'[m] = "sent"
                   \/ (\E b \in BOOLEAN : <<m, b>> \in opening) /\ mstatus'[m] = "opened"
                   \/ mailed[m] > 0 /\ mstatus'[m] = "bounced"
<1>3. ASSUME UNCHANGED mstatus  PROVE Goal
  BY <1>3
<1>4. ASSUME NEW i \in Messages, NEW spam \in BOOLEAN, SaveDraft(i, spam)  PROVE Goal
  BY <1>1, <1>4 DEF SaveDraft, SetMessage, Delivered
<1>5. ASSUME NEW i \in Messages, ApproveReview(i)  PROVE Goal
  BY <1>1, <1>5 DEF ApproveReview, SetMessage
<1>6. ASSUME NEW i \in Messages, ReportBounce(i)  PROVE Goal
  BY <1>1, <1>6 DEF ReportBounce, SetMessage
<1>7. ASSUME NEW o \in opening, TrackOpen(o)  PROVE Goal
  <2>1. PICK i \in Messages, b \in BOOLEAN : o = <<i, b>>
    BY <1>1
  <2>2. mstatus' = [mstatus EXCEPT ![i] = "opened"] /\ <<i, b>> \in opening
    BY <1>7, <2>1 DEF TrackOpen, SetMessage
  <2> QED
    BY <1>1, <2>2
<1>8. ASSUME NEW w \in Workers, WorkerStep(w)  PROVE Goal
  <2>1. CASE \/ RejectSuppressed(w) \/ MarkQueued(w) \/ NoHealthySender(w) \/ MarkFailed(w)
    <3>1. Msg(w) \in Messages /\ wpc[w] \in AblePC
      BY <1>2, <2>1 DEF RejectSuppressed, MarkQueued, NoHealthySender, MarkFailed, AblePC
    <3>2. UNCHANGED mstatus \/ \E s \in {"queued", "failed"} :
                                 mstatus' = [mstatus EXCEPT ![Msg(w)] = s]
      BY <2>1 DEF RejectSuppressed, MarkQueued, NoHealthySender, MarkFailed, SetMessage
    <3>3. Msg(w) = m => At(m, AblePC) # {}
      BY <3>1 DEF At
    <3> QED
      BY <1>1, <3>1, <3>2, <3>3
  <2>2. CASE CommitSentCount(w) \/ CommitSentAndArmed(w)
    <3>1. Msg(w) \in Messages /\ wpc[w] = "accepted"
          /\ mstatus' = [mstatus EXCEPT ![Msg(w)] = "sent"]
      BY <1>2, <2>2 DEF CommitSentCount, CommitSentAndArmed, SetMessage
    <3>2. Msg(w) = m => At(m, {"accepted"}) # {}
      BY <3>1 DEF At
    <3> QED
      BY <1>1, <3>1, <3>2
  <2>3. CASE \/ SmtpAccept(w) \/ SmtpRefuse(w) \/ SmtpTransient(w) \/ SmtpLostAck(w)
             \/ SmtpAcceptedYetRefused(w) \/ Retry(w) \/ CommitArmed(w)
    BY <1>3, <2>3 DEF SmtpAccept, SmtpRefuse, SmtpTransient, SmtpLostAck,
                      SmtpAcceptedYetRefused, Retry, CommitArmed, messageVars
  <2> QED
    BY <1>8, <2>1, <2>2, <2>3 DEF WorkerStep
<1> HIDE DEF Goal
<1>9. ASSUME NEW l \in Leads,
             Enrich(l) \/ AddSuppression(l) \/ RemoveSuppression(l)
      PROVE  UNCHANGED mstatus \/ \E i \in Messages, spam \in BOOLEAN : SaveDraft(i, spam)
  BY <1>9 DEF Enrich, EnrichSuppressed, StartDrafting, DraftingFails,
     AddSuppression, RemoveSuppression, messageVars
<1>10. ASSUME NEW i \in Messages, LoadForReview(i) \/ RequestSend(i) \/ LoadOpen(i)
       PROVE  UNCHANGED mstatus
  BY <1>10 DEF LoadForReview, RequestSend, LoadOpen, messageVars
<1>11. ASSUME NEW w \in Workers, NEW j \in Jobs, Skip(w, j) \/ Start(w, j)
       PROVE  UNCHANGED mstatus
  BY <1>11 DEF Skip, Start, messageVars
<1>12. ASSUME NEW w \in Workers, WorkerCrash(w) \/ Redeliver(w)
       PROVE  UNCHANGED mstatus
  BY <1>12 DEF WorkerCrash, Redeliver, messageVars
<1>13. ASSUME NEW u \in Unsubscribers, Unsubscribe(u)  PROVE UNCHANGED mstatus
  BY <1>13, UnsubscribeFrame
<1>14. Goal
  BY <1>3, <1>4, <1>5, <1>6, <1>7, <1>8, <1>9, <1>10, <1>11, <1>12, <1>13 DEF Next
<1> QED
  BY <1>14 DEF Goal

\* What runs a task past the mail server was sent there by an email.
LEMMA AcceptedIsMailed ==
  ASSUME Gates, Next, NEW m \in Messages, At(m, {"accepted", "counted"})' # {}
  PROVE  At(m, {"accepted", "counted"}) # {} \/ mailed'[m] > 0
<1>1. TypeOK /\ mailed \in [Messages -> Nat]
  BY DEF Gates, TypeOK
<1>2. PICK v \in Workers : wpc'[v] \in {"accepted", "counted"} /\ wjob'[v].msg = m
  BY DEF At, Msg
<1> DEFINE Was == wpc[v] \in {"accepted", "counted"} /\ Msg(v) = m
<1>3. Was => At(m, {"accepted", "counted"}) # {}
  BY DEF At
<1> SUFFICES Was \/ mailed'[m] > 0
  BY <1>3
<1>4. CASE UNCHANGED <<wpc, wjob>>
  BY <1>2, <1>4 DEF Msg
<1>5. ASSUME NEW w \in Workers, WorkerStep(w) \/ WorkerCrash(w)  PROVE Was \/ mailed'[m] > 0
  <2>1. CASE SmtpAccept(w)
    BY <1>1, <1>2, <2>1 DEF SmtpAccept, Goto, Msg, TypeOK
  <2>2. CASE ~SmtpAccept(w)
    BY <1>1, <1>2, <1>5, <2>2
       DEF WorkerStep, RejectSuppressed, MarkQueued, NoHealthySender, SmtpRefuse,
           SmtpTransient, SmtpLostAck, SmtpAcceptedYetRefused, NextAttempt, MarkFailed,
           Retry, CommitSentCount, CommitArmed, CommitSentAndArmed, WorkerCrash,
           Release, Goto, Msg, TypeOK
  <2> QED
    BY <2>1, <2>2
<1>6. ASSUME NEW w \in Workers, NEW j \in Jobs, Skip(w, j) \/ Start(w, j)
      PROVE  Was \/ mailed'[m] > 0
  BY <1>1, <1>2, <1>6 DEF Skip, Start, workerVars, Msg, TypeOK
<1> HIDE DEF Was
<1>7. ASSUME NEW l \in Leads,
             Enrich(l) \/ AddSuppression(l) \/ RemoveSuppression(l)
      PROVE  UNCHANGED <<wpc, wjob>>
  BY <1>7 DEF Enrich, EnrichSuppressed, StartDrafting, DraftingFails, SaveDraft,
     AddSuppression, RemoveSuppression, workerVars
<1>8. ASSUME NEW i \in Messages, \/ LoadForReview(i) \/ ApproveReview(i) \/ RequestSend(i)
                                 \/ LoadOpen(i) \/ ReportBounce(i)
      PROVE  UNCHANGED <<wpc, wjob>>
  BY <1>8 DEF LoadForReview, ApproveReview, RequestSend, LoadOpen, ReportBounce,
     workerVars
<1>9. ASSUME NEW o \in opening, TrackOpen(o)  PROVE UNCHANGED <<wpc, wjob>>
  BY <1>9 DEF TrackOpen, workerVars
<1>10. ASSUME NEW w \in Workers, Redeliver(w)  PROVE UNCHANGED <<wpc, wjob>>
  BY <1>10 DEF Redeliver, workerVars
<1>11. ASSUME NEW u \in Unsubscribers, Unsubscribe(u)  PROVE UNCHANGED <<wpc, wjob>>
  BY <1>11, UnsubscribeFrame
<1> QED
  BY <1>4, <1>5, <1>6, <1>7, <1>8, <1>9, <1>10, <1>11 DEF Next

\* An email leaves with an answer, which a worker keeps, or the answer is lost.
LEMMA AnswerOrFault ==
  ASSUME Gates, Next, NEW m \in Messages, mailed'[m] # mailed[m]
  PROVE  At(m, {"accepted"})' # {} \/ faults'[m] > 0
<1>1. TypeOK /\ mailed \in [Messages -> Nat] /\ faults \in [Messages -> Nat]
  BY DEF Gates, TypeOK
<1>2. \A w \in Workers : wpc[w] # "idle" => Msg(w) \in Messages
  BY DEF Gates, Held, WorkersHaveTasks, Msg, Jobs
<1>3. PICK w \in Workers : SmtpAccept(w) \/ SmtpLostAck(w) \/ SmtpAcceptedYetRefused(w)
  BY UnsubscribeFrame DEF Next, Enrich, WorkerStep, history, mishaps, EnrichSuppressed,
     StartDrafting, DraftingFails, SaveDraft, LoadForReview, ApproveReview, RequestSend,
     Skip, Start, RejectSuppressed, MarkQueued, NoHealthySender, SmtpRefuse,
     SmtpTransient, MarkFailed, Retry, CommitSentCount, CommitArmed, CommitSentAndArmed,
     LoadOpen, TrackOpen, ReportBounce, AddSuppression, RemoveSuppression, WorkerCrash,
     Redeliver
<1>4. Msg(w) = m
  BY <1>1, <1>2, <1>3 DEF SmtpAccept, SmtpLostAck, SmtpAcceptedYetRefused
<1>5. CASE SmtpAccept(w)
  BY <1>1, <1>4, <1>5 DEF SmtpAccept, Goto, At, Msg, TypeOK
<1>6. CASE SmtpLostAck(w) \/ SmtpAcceptedYetRefused(w)
  BY <1>1, <1>4, <1>6 DEF SmtpLostAck, SmtpAcceptedYetRefused, TypeOK
<1> QED
  BY <1>3, <1>5, <1>6

\* The worker with the answer writes it, unless it crashes.
LEMMA AnswerIsWritten ==
  ASSUME Gates, Next, NEW m \in Messages, At(m, {"accepted"}) # {}
  PROVE  At(m, {"accepted"})' # {} \/ mstatus'[m] = "sent" \/ m \in lost'
<1>1. TypeOK /\ mstatus \in [Messages -> MessageStatuses]
  BY DEF Gates, TypeOK
<1>2. PICK v \in Workers : wpc[v] = "accepted" /\ wjob[v].msg = m
  BY DEF At, Msg
<1> DEFINE Still == wpc'[v] = "accepted" /\ wjob'[v].msg = m
           Goal == Still \/ mstatus'[m] = "sent" \/ m \in lost'
<1>3. Still => At(m, {"accepted"})' # {}
  BY DEF At, Msg
<1> SUFFICES Goal
  BY <1>3
<1>4. ASSUME UNCHANGED <<wpc, wjob>>  PROVE Goal
  BY <1>2, <1>4
<1>5. ASSUME NEW w \in Workers, WorkerStep(w) \/ WorkerCrash(w)  PROVE Goal
  <2>1. CASE w # v
    BY <1>1, <1>2, <1>5, <2>1
       DEF WorkerStep, RejectSuppressed, MarkQueued, NoHealthySender, SmtpAccept, SmtpRefuse,
           SmtpTransient, SmtpLostAck, SmtpAcceptedYetRefused, NextAttempt, MarkFailed,
           Retry, CommitSentCount, CommitArmed, CommitSentAndArmed, WorkerCrash,
           Release, Goto, TypeOK
  <2>2. CASE w = v
    <3>1. CommitSentCount(v) \/ CommitSentAndArmed(v) \/ WorkerCrash(v)
      BY <1>2, <1>5, <2>2
         DEF WorkerStep, RejectSuppressed, MarkQueued, NoHealthySender, SmtpAccept,
             SmtpRefuse, SmtpTransient, SmtpLostAck, SmtpAcceptedYetRefused, MarkFailed,
             Retry, CommitArmed
    <3> QED
      BY <1>1, <1>2, <3>1 DEF CommitSentCount, CommitSentAndArmed, WorkerCrash,
         SetMessage, Msg
  <2> QED
    BY <2>1, <2>2
<1>6. ASSUME NEW w \in Workers, NEW j \in Jobs, Skip(w, j) \/ Start(w, j)
      PROVE  Goal
  BY <1>1, <1>2, <1>6 DEF Skip, Start, workerVars, TypeOK
<1> HIDE DEF Goal
<1>7. ASSUME NEW l \in Leads,
             Enrich(l) \/ AddSuppression(l) \/ RemoveSuppression(l)
      PROVE  UNCHANGED <<wpc, wjob>>
  BY <1>7 DEF Enrich, EnrichSuppressed, StartDrafting, DraftingFails, SaveDraft,
     AddSuppression, RemoveSuppression, workerVars
<1>8. ASSUME NEW i \in Messages, \/ LoadForReview(i) \/ ApproveReview(i) \/ RequestSend(i)
                                 \/ LoadOpen(i) \/ ReportBounce(i)
      PROVE  UNCHANGED <<wpc, wjob>>
  BY <1>8 DEF LoadForReview, ApproveReview, RequestSend, LoadOpen, ReportBounce,
     workerVars
<1>9. ASSUME NEW o \in opening, TrackOpen(o)  PROVE UNCHANGED <<wpc, wjob>>
  BY <1>9 DEF TrackOpen, workerVars
<1>10. ASSUME NEW w \in Workers, Redeliver(w)  PROVE UNCHANGED <<wpc, wjob>>
  BY <1>10 DEF Redeliver, workerVars
<1>11. ASSUME NEW u \in Unsubscribers, Unsubscribe(u)  PROVE UNCHANGED <<wpc, wjob>>
  BY <1>11, UnsubscribeFrame
<1> QED
  BY <1>4, <1>5, <1>6, <1>7, <1>8, <1>9, <1>10, <1>11 DEF Next

\* A report is prepared for what was mailed only.
LEMMA OpeningIsMailed ==
  ASSUME Gates, Next, NEW m \in Messages, NEW b \in BOOLEAN, <<m, b>> \in opening'
  PROVE  <<m, b>> \in opening \/ mailed'[m] > 0
<1>1. \/ UNCHANGED opening
      \/ \E i \in Messages : LoadOpen(i)
      \/ \E o \in opening : TrackOpen(o)
  BY UnsubscribeFrame DEF Next, Enrich, WorkerStep, handlers, EnrichSuppressed,
     StartDrafting, DraftingFails, SaveDraft, LoadForReview, ApproveReview, RequestSend,
     Skip, Start, RejectSuppressed, MarkQueued, NoHealthySender, SmtpAccept, SmtpRefuse,
     SmtpTransient, SmtpLostAck, SmtpAcceptedYetRefused, MarkFailed, Retry,
     CommitSentCount, CommitArmed, CommitSentAndArmed, ReportBounce, AddSuppression,
     RemoveSuppression, WorkerCrash, Redeliver
<1>2. ASSUME NEW i \in Messages, LoadOpen(i)
      PROVE  <<m, b>> \in opening \/ mailed'[m] > 0
  BY <1>2 DEF LoadOpen
<1>3. ASSUME NEW o \in opening, TrackOpen(o)  PROVE <<m, b>> \in opening
  BY <1>3 DEF TrackOpen
<1> QED
  BY <1>1, <1>2, <1>3

\* A human opens what is held; only a new draft is flagged or not.
LEMMA ReviewMoves ==
  ASSUME Gates, Next, NEW m \in Messages
  PROVE  /\ reviewing'[m] > 0 => reviewing[m] > 0 \/ mstatus[m] = "needs_review"
         /\ mstatus[m] # "absent" => flagged'[m] = flagged[m]
<1>1. /\ reviewing \in [Messages -> 0..MaxReviewers] /\ flagged \in [Messages -> BOOLEAN]
  BY DEF Gates, TypeOK
<1>2. \/ UNCHANGED reviewing
      \/ \E i \in Messages : LoadForReview(i) \/ ApproveReview(i)
  BY UnsubscribeFrame DEF Next, Enrich, WorkerStep, handlers, EnrichSuppressed,
     StartDrafting, DraftingFails, SaveDraft, RequestSend, Skip, Start,
     RejectSuppressed, MarkQueued, NoHealthySender, SmtpAccept, SmtpRefuse,
     SmtpTransient, SmtpLostAck, SmtpAcceptedYetRefused, MarkFailed, Retry,
     CommitSentCount, CommitArmed, CommitSentAndArmed, LoadOpen, TrackOpen,
     ReportBounce, AddSuppression, RemoveSuppression, WorkerCrash, Redeliver
<1>3. ASSUME NEW i \in Messages, LoadForReview(i) \/ ApproveReview(i), reviewing'[m] > 0
      PROVE  reviewing[m] > 0 \/ mstatus[m] = "needs_review"
  BY <1>1, <1>3 DEF LoadForReview, ApproveReview
<1>4. \/ UNCHANGED flagged
      \/ \E i \in Messages, spam \in BOOLEAN : SaveDraft(i, spam)
  BY UnsubscribeFrame DEF Next, Enrich, WorkerStep, messageVars, EnrichSuppressed,
     StartDrafting, DraftingFails, LoadForReview, ApproveReview, RequestSend, Skip,
     Start, RejectSuppressed, MarkQueued, NoHealthySender, SmtpAccept, SmtpRefuse,
     SmtpTransient, SmtpLostAck, SmtpAcceptedYetRefused, MarkFailed, Retry,
     CommitSentCount, CommitArmed, CommitSentAndArmed, LoadOpen, TrackOpen,
     ReportBounce, AddSuppression, RemoveSuppression, WorkerCrash, Redeliver
<1>5. ASSUME NEW i \in Messages, NEW spam \in BOOLEAN, SaveDraft(i, spam),
             mstatus[m] # "absent"
      PROVE  flagged'[m] = flagged[m]
  BY <1>1, <1>5 DEF SaveDraft
<1> QED
  BY <1>2, <1>3, <1>4, <1>5

\* A calm message that has left has no task left that could still mail it.
LEMMA CalmIsSpent ==
  ASSUME Gates, NEW m \in Messages, Chances(m), Calm(m), mailed[m] > 0
  PROVE  At(m, AblePC) = {}
<1>1. mailed[m] \in Nat /\ requests[m] \in Nat /\ faults[m] \in Nat
  BY DEF Gates, TypeOK
<1>2. Cardinality(At(m, AblePC)) = 0
  BY <1>1, ChanceSizes DEF Chances, Calm
<1> QED
  BY <1>2, FS_EmptySet DEF Chances

\* Every step keeps row and email together.
LEMMA TruthStep ==
  ASSUME Gates, Next, NEW m \in Messages, Chances(m), Truth(m)
  PROVE  Truth(m)'
<1>1. /\ mailed[m] \in Nat /\ mailed'[m] \in Nat /\ mailed[m] <= mailed'[m]
      /\ requests[m] \in Nat /\ requests'[m] \in Nat /\ requests[m] <= requests'[m]
      /\ reviews[m] \in Nat /\ reviews'[m] \in Nat /\ reviews[m] <= reviews'[m]
      /\ faults[m] \in Nat /\ faults'[m] \in Nat /\ faults[m] <= faults'[m]
      /\ lost \subseteq lost'
  BY HistoryGrows
<1>2. mstatus[m] = "absent" => mailed[m] = 0 /\ reviewing[m] = 0
  BY DEF Gates, Held, UndraftedIsUntouched
<1>3. flagged[m] /\ reviews[m] = 0 => mailed[m] = 0
  BY DEF Gates, Held, UnreviewedIsHeld
<1>4. \/ mstatus'[m] = mstatus[m]
      \/ mstatus[m] = "absent" /\ mstatus'[m] \notin Delivered
           /\ (mstatus'[m] = "needs_review" => flagged'[m])
      \/ reviewing[m] > 0 /\ reviews'[m] = reviews[m] + 1 /\ mstatus'[m] = "draft"
      \/ At(m, AblePC) # {} /\ mstatus'[m] \in {"queued", "failed"}
      \/ At(m, {"accepted"}) # {} /\ mstatus'[m] = "sent"
      \/ (\E b \in BOOLEAN : <<m, b>> \in opening) /\ mstatus'[m] = "opened"
      \/ mailed[m] > 0 /\ mstatus'[m] = "bounced"
  BY RowMoves
<1>5. OnlyFlagged(m)'
  <2>1. /\ reviewing'[m] > 0 => reviewing[m] > 0 \/ mstatus[m] = "needs_review"
        /\ mstatus[m] # "absent" => flagged'[m] = flagged[m]
    BY ReviewMoves
  <2>2. ASSUME reviewing'[m] > 0  PROVE flagged'[m]
    BY <1>2, <2>1, <2>2 DEF Truth, OnlyFlagged
  <2>3. ASSUME mstatus'[m] = "needs_review"  PROVE flagged'[m]
    BY <1>2, <1>4, <2>1, <2>3 DEF Truth, OnlyFlagged
  <2> QED
    BY <2>2, <2>3 DEF OnlyFlagged
<1>6. At(m, {"accepted"}) # {} => At(m, {"accepted", "counted"}) # {}
  BY DEF At
<1>7. NothingUnsent(m)'
  <2>1. \A b \in BOOLEAN : <<m, b>> \in opening' => mailed'[m] > 0
    BY <1>1, OpeningIsMailed DEF Truth, NothingUnsent
  <2>2. At(m, {"accepted", "counted"})' # {} => mailed'[m] > 0
    BY <1>1, AcceptedIsMailed DEF Truth, NothingUnsent
  <2>3. mstatus'[m] \in Delivered => mailed'[m] > 0
    <3>1. /\ (\E b \in BOOLEAN : <<m, b>> \in opening) => mailed[m] > 0
          /\ At(m, {"accepted"}) # {} => mailed[m] > 0
          /\ mstatus[m] \in Delivered => mailed[m] > 0
      BY <1>6 DEF Truth, NothingUnsent
    <3> QED
      BY <1>1, <1>4, <3>1 DEF Delivered
  <2> QED
    BY <2>1, <2>2, <2>3 DEF NothingUnsent, Delivered
<1>8. NothingHidden(m)'
  <2> SUFFICES ASSUME Calm(m)', mailed'[m] > 0
               PROVE  mstatus'[m] \in Delivered \/ At(m, {"accepted"})' # {}
    BY DEF NothingHidden, Delivered
  <2>1. Calm(m)
    BY <1>1 DEF Calm
  <2>2. CASE mailed[m] = 0
    BY <1>1, <2>2, AnswerOrFault DEF Calm
  <2>3. CASE mailed[m] > 0
    <3>1. At(m, AblePC) = {} /\ ~(flagged[m] /\ reviews[m] = 0) /\ mstatus[m] # "absent"
      BY <1>1, <1>2, <1>3, <2>1, <2>3, CalmIsSpent
    <3>2. ~(reviewing[m] > 0 /\ reviews'[m] = reviews[m] + 1)
      BY <1>1, <3>1 DEF Truth, OnlyFlagged, Calm
    <3>3. mstatus[m] \in Delivered => mstatus'[m] \in Delivered
      BY <1>4, <3>1, <3>2 DEF Delivered
    <3>4. At(m, {"accepted"}) # {} => At(m, {"accepted"})' # {} \/ mstatus'[m] = "sent"
      BY AnswerIsWritten DEF Calm
    <3> QED
      BY <2>1, <2>3, <3>3, <3>4 DEF Truth, NothingHidden, Delivered
  <2> QED
    BY <1>1, <2>2, <2>3
<1> QED
  BY <1>5, <1>7, <1>8 DEF Truth

\* The gates, and for every message its chances and the truth of its row: every
\* step keeps it.
CountInv == Gates /\ \A m \in Messages : Chances(m) /\ Truth(m)

\* Nothing was asked for yet, and nothing waits.
LEMMA InitCounts ==
  ASSUME Init
  PROVE  CountInv
<1>1. Gates
  BY InitGates
<1>2. ASSUME NEW m \in Messages  PROVE Chances(m)
  <2>1. \A j \in Jobs : 1..ready[j] = {}
    BY DEF Init
  <2>2. WaitingFor(m) = {}
    BY <2>1 DEF WaitingFor, Copies
  <2>3. At(m, AblePC) = {}
    BY DEF Init, At, AblePC
  <2> QED
    BY <2>2, <2>3, FS_EmptySet DEF Init, Chances
<1>3. ASSUME NEW m \in Messages  PROVE Truth(m)
  BY DEF Init, Truth, OnlyFlagged, NothingUnsent, NothingHidden, At, Delivered
<1> QED
  BY <1>1, <1>2, <1>3 DEF CountInv

\* Every step keeps the counts.
LEMMA CountsKept ==
  ASSUME CountInv, [Next]_vars
  PROVE  CountInv'
<1>1. Gates'
  BY NextKeeps DEF CountInv
<1>2. ASSUME Next  PROVE CountInv'
  BY <1>1, <1>2, ChanceStep, TruthStep DEF CountInv
<1>3. ASSUME UNCHANGED vars, NEW m \in Messages  PROVE (Chances(m) /\ Truth(m))'
  <2>1. \A pcs : At(m, pcs)' = At(m, pcs)
    BY <1>3 DEF vars, At, Msg
  <2>2. WaitingFor(m)' = WaitingFor(m)
    BY <1>3 DEF vars, WaitingFor, Copies
  <2> QED
    BY <1>3, <2>1, <2>2 DEF vars, CountInv, Chances, Truth, OnlyFlagged, NothingUnsent,
       NothingHidden, Calm, Delivered, AblePC
<1> QED
  BY <1>1, <1>2, <1>3 DEF CountInv

\* Whatever is requested, retried, refused, redelivered or lost, and wherever the
\* workers crash: the inductive invariant holds in every state.
THEOREM CountInvariant == Spec => []CountInv
BY InitCounts, CountsKept, PTL DEF Spec

\* A prospect gets one email per click on send, and one more only for a crash, a
\* redelivery or a lost answer: the worker's own retries never mail twice.
THEOREM RetriesNeverMailTwice == Spec => []OneMailPerRequest
<1>1. ASSUME CountInv  PROVE OneMailPerRequest
  <2> SUFFICES ASSUME NEW m \in Messages  PROVE mailed[m] <= requests[m] + faults[m]
    BY DEF OneMailPerRequest
  <2>1. Chances(m) /\ mailed[m] \in Nat /\ requests[m] \in Nat /\ faults[m] \in Nat
    BY <1>1 DEF CountInv, Gates, TypeOK
  <2> QED
    BY <2>1, ChanceSizes DEF Chances
<1> QED
  BY <1>1, CountInvariant, PTL

\* Of a message that was asked for and cleared at most once, and that no fault
\* touched, the row says whether the prospect got the email.
THEOREM RowsTellTheTruth == Spec => []StatusTellsTheTruth
<1>1. ASSUME CountInv  PROVE StatusTellsTheTruth
  <2> SUFFICES ASSUME NEW m \in Messages, Undisturbed(m)
               PROVE  /\ mailed[m] > 0 <=> mstatus[m] \in Delivered
                      /\ mstatus[m] = "failed" => mailed[m] = 0
    BY DEF StatusTellsTheTruth, Delivered
  <2>1. Truth(m) /\ Calm(m) /\ At(m, {"accepted"}) = {} /\ mailed[m] \in Nat
    BY <1>1 DEF CountInv, Undisturbed, Calm, At, Gates, TypeOK
  <2> QED
    BY <2>1 DEF Truth, NothingUnsent, NothingHidden, Delivered
<1> QED
  BY <1>1, CountInvariant, PTL
=============================================================================
