------------------------- MODULE ApprovalFlowProofs -------------------------
(***************************************************************************)
(* FlowInv is an inductive invariant of ApprovalFlow, for any number of    *)
(* requests, handlers and workers, any retry limit and any budget of       *)
(* faults; the safety properties that the runs check on small instances    *)
(* follow from it, and so does the refinement of ApprovalGate.  CountInv   *)
(* adds what has to be counted: how often a request can still be mailed,   *)
(* and which message rows are still to be marked.                          *)
(*                                                                         *)
(* The step from FlowInv to FlowInv' is proved one group of conjuncts at a *)
(* time: in each lemma one step per action that changes a variable of the  *)
(* group, and one step for all the others.                                 *)
(***************************************************************************)
EXTENDS ApprovalFlow, Counting, FiniteSetTheorems, TLAPS

\* Counters: the shape of most updates in the module.
LEMMA CounterUp ==
  ASSUME NEW S, NEW f \in [S -> Nat], NEW x \in S
  PROVE  [f EXCEPT ![x] = @ + 1] \in [S -> Nat]
  OBVIOUS

\* No request is open and nobody acts: the invariant holds at the start.
LEMMA InitFlowInv == Init => FlowInv
BY ApprovalFlowAssumption
   DEF Init, FlowInv, ApprovalFlowAssumption, TypeOK, StatusFollowsDecision,
       WinnersApproved, OneDecision, TasksFollowApproval, NoMailWithoutApproval,
       MailSaysWhatWasApproved, SuppressionGate, Jobs, Statuses, RowCounts,
       HandlerPC, WorkerPC, PastGate, Edits, Drafts, Bodies

\* A fault that is spent leaves a budget.
LEMMA SpendType ==
  ASSUME budget \in [FaultKinds -> Nat], NEW k \in FaultKinds, Spend(k)
  PROVE  budget' \in [FaultKinds -> Nat]
  BY CounterDown DEF Spend

\* Where a worker goes, its variables keep their types.
LEMMA GotoTypes ==
  ASSUME TypeOK, NEW w \in Workers, NEW pc \in WorkerPC, Goto(w, pc)
  PROVE  /\ wpc' \in [Workers -> WorkerPC]
         /\ wjob' \in [Workers -> Jobs \cup {NoJob}]
         /\ late' \in SUBSET Workers
  BY DEF TypeOK, Goto

\* A worker that ends its task keeps the types of its variables.
LEMMA ReleaseTypes ==
  ASSUME TypeOK, NEW w \in Workers, Release(w)
  PROVE  /\ wpc' \in [Workers -> WorkerPC]
         /\ wjob' \in [Workers -> Jobs \cup {NoJob}]
         /\ watt' \in [Workers -> 0..MaxAttempts]
         /\ late' \in SUBSET Workers
  <1>1. 0 \in 0..MaxAttempts
    BY ApprovalFlowAssumption DEF ApprovalFlowAssumption
  <1> QED
    BY <1>1 DEF TypeOK, Release, WorkerPC

\* A handler that moves, keeping or dropping its decision, keeps its types.
LEMMA HandlerTypes ==
  ASSUME TypeOK, NEW h \in Handlers, NEW pc \in HandlerPC,
         hpc' = [hpc EXCEPT ![h] = pc],
         hreq' = [hreq EXCEPT ![h] = NoDecision] \/ UNCHANGED hreq
  PROVE  /\ hpc' \in [Handlers -> HandlerPC]
         /\ hreq' \in [Handlers -> Decisions \cup {NoDecision}]
  BY DEF TypeOK

\* Committing or marking a message row keeps the three counts naturals.
LEMMA RowTypes ==
  ASSUME TypeOK, NEW a \in Approvals, NEW s \in RowCounts,
         CommitRow(a) \/ MarkRow(a, s)
  PROVE  rows' \in [Approvals -> [RowCounts -> Nat]]
  <1>1. PICK r \in RowCounts : rows' = [rows EXCEPT ![a][r] = @ + 1]
    BY DEF CommitRow, MarkRow, RowCounts
  <1>2. [rows[a] EXCEPT ![r] = @ + 1] \in [RowCounts -> Nat]
    BY CounterUp DEF TypeOK
  <1> QED
    BY <1>1, <1>2 DEF TypeOK

\* An accepted email is one of the texts an email can carry.
LEMMA MailTypes ==
  ASSUME TypeOK, NEW a \in Approvals, Accept(a)
  PROVE  /\ mailed' \in [Approvals -> Nat]
         /\ bodies' \in [Approvals -> SUBSET Bodies]
  <1>1. FinalBody(a) \in Bodies
    BY DEF TypeOK, FinalBody, Bodies, Drafts
  <1> QED
    BY <1>1, CounterUp DEF TypeOK, Accept

\* A failed attempt, the last one included, keeps the types of the worker and
\* of the rows.
LEMMA AttemptTypes ==
  ASSUME TypeOK, NEW w \in Workers, wjob[w] \in Jobs, wpc[w] = "gated", NextAttempt(w)
  PROVE  /\ rows' \in [Approvals -> [RowCounts -> Nat]]
         /\ wpc' \in [Workers -> WorkerPC]
         /\ wjob' \in [Workers -> Jobs \cup {NoJob}]
         /\ watt' \in [Workers -> 0..MaxAttempts]
         /\ late' \in SUBSET Workers
  <1>1. CASE watt[w] + 1 < MaxAttempts
    <2>1. Goto(w, "gated") /\ "gated" \in WorkerPC
      BY <1>1 DEF NextAttempt, WorkerPC
    <2>2. watt' = [watt EXCEPT ![w] = @ + 1] /\ UNCHANGED rows
      BY <1>1 DEF NextAttempt
    <2>3. watt[w] + 1 \in 0..MaxAttempts
      BY <1>1, ApprovalFlowAssumption DEF TypeOK, ApprovalFlowAssumption
    <2> QED
      BY <2>1, <2>2, <2>3, GotoTypes DEF TypeOK
  <1>2. CASE ~(watt[w] + 1 < MaxAttempts)
    <2>1. CommitRow(wjob[w].appr) /\ Release(w)
      BY <1>2 DEF NextAttempt
    <2>2. wjob[w].appr \in Approvals /\ "committed" \in RowCounts
      BY DEF Jobs, RowCounts
    <2> QED
      BY <2>1, <2>2, RowTypes, ReleaseTypes
  <1> QED
    BY <1>1, <1>2

\* Every step of the system keeps the type invariant.
LEMMA TypeStep ==
  ASSUME FlowInv, Next
  PROVE  TypeOK'
<1> USE DEF FlowInv
<1>1. ASSUME NEW a \in Approvals, OpenApprovalGate(a)  PROVE TypeOK'
  BY <1>1 DEF TypeOK, OpenApprovalGate, handlerVars, workerVars, world, Statuses
<1>2. ASSUME NEW a \in Approvals, Suppress(a) \/ Unsuppress(a)  PROVE TypeOK'
  <2>1. budget' \in [FaultKinds -> Nat]
    BY <1>2, SpendType DEF Suppress, Unsuppress, TypeOK, FaultKinds
  <2> QED
    BY <1>2, <2>1 DEF TypeOK, Suppress, Unsuppress, db, handlerVars, workerVars, world
<1>3. ASSUME NEW h \in Handlers, NEW d \in Decisions, LoadApproval(h, d)  PROVE TypeOK'
  BY <1>3 DEF TypeOK, LoadApproval, db, workerVars, world, HandlerPC
<1>4. ASSUME NEW h \in Handlers, WinDecision(h)  PROVE TypeOK'
  <2>1. hreq[h] \in Decisions
    BY <1>4 DEF WinDecision, Decide, WinnersApproved
  <2>2. hreq[h].appr \in Approvals /\ hreq[h].edit \in Edits
        /\ hreq[h].action \in {"approve", "reject"}
    BY <2>1 DEF Decisions
  <2> QED
    BY <1>4, <2>2 DEF TypeOK, WinDecision, Decide, workerVars, world, HandlerPC, Statuses
<1>5. ASSUME NEW h \in Handlers, LoseDecision(h)  PROVE TypeOK'
  BY <1>5, HandlerTypes DEF TypeOK, LoseDecision, db, workerVars, world, HandlerPC
<1>6. ASSUME NEW h \in Handlers, EnqueueSend(h)  PROVE TypeOK'
  <2>1. [appr |-> hreq[h].appr, try |-> 0] \in Jobs
    BY <1>6, ApprovalFlowAssumption
       DEF EnqueueSend, WinnersApproved, Decisions, Jobs, ApprovalFlowAssumption
  <2>2. ready' \in [Jobs -> Nat]
    BY <1>6, <2>1, CounterUp DEF EnqueueSend, TypeOK
  <2> QED
    BY <1>6, <2>2, HandlerTypes DEF TypeOK, EnqueueSend, db, workerVars, world, HandlerPC
<1>7. ASSUME NEW h \in Handlers, HandlerCrash(h)  PROVE TypeOK'
  <2>1. budget' \in [FaultKinds -> Nat]
    BY <1>7, SpendType DEF HandlerCrash, TypeOK, FaultKinds
  <2> QED
    BY <1>7, <2>1, HandlerTypes DEF TypeOK, HandlerCrash, db, workerVars, world, HandlerPC
<1>8. ASSUME NEW w \in Workers, NEW j \in Jobs, Skip(w, j)  PROVE TypeOK'
  <2>1. ready' \in [Jobs -> Nat]
    BY <1>8, CounterDown DEF Skip, TypeOK
  <2> QED
    BY <1>8, <2>1 DEF TypeOK, Skip, db, handlerVars, workerVars, world
<1>9. ASSUME NEW w \in Workers, NEW j \in Jobs, Start(w, j)  PROVE TypeOK'
  <2>1. ready' \in [Jobs -> Nat]
    BY <1>9, CounterDown DEF Start, TypeOK
  <2> QED
    BY <1>9, <2>1 DEF TypeOK, Start, db, handlerVars, world, WorkerPC
<1>10. ASSUME NEW w \in Workers, RejectSuppressed(w)  PROVE TypeOK'
  BY <1>10, ReleaseTypes
     DEF TypeOK, RejectSuppressed, handlerVars, world, Statuses
<1>11. ASSUME NEW w \in Workers, PassGate(w)  PROVE TypeOK'
  BY <1>11, GotoTypes DEF TypeOK, PassGate, Goto, db, handlerVars, world, WorkerPC
<1>12. ASSUME NEW w \in Workers, NoHealthySender(w)  PROVE TypeOK'
  <2> DEFINE a == wjob[w].appr
  <2>1. a \in Approvals
    BY <1>12 DEF NoHealthySender, Jobs
  <2>2. rows' = [rows EXCEPT ![a] = [rows[a] EXCEPT !["committed"] = @ + 1,
                                                    !["failed"] = @ + 1]]
    BY <1>12, <2>1 DEF NoHealthySender, TypeOK
  <2>3. [rows[a] EXCEPT !["committed"] = @ + 1, !["failed"] = @ + 1]
          \in [RowCounts -> Nat]
    BY <2>1 DEF TypeOK, RowCounts
  <2>4. rows' \in [Approvals -> [RowCounts -> Nat]]
    BY <2>2, <2>3 DEF TypeOK
  <2>5. budget' \in [FaultKinds -> Nat]
    BY <1>12, SpendType DEF NoHealthySender, TypeOK, FaultKinds
  <2> QED
    BY <1>12, <2>4, <2>5, ReleaseTypes
       DEF TypeOK, NoHealthySender, db, handlerVars, world
<1>13. ASSUME NEW w \in Workers, SmtpAccept(w)  PROVE TypeOK'
  <2>1. wjob[w].appr \in Approvals
    BY <1>13 DEF SmtpAccept, Jobs
  <2>2. mailed' \in [Approvals -> Nat] /\ bodies' \in [Approvals -> SUBSET Bodies]
    BY <1>13, <2>1, MailTypes DEF SmtpAccept
  <2> QED
    BY <1>13, <2>2, GotoTypes DEF TypeOK, SmtpAccept, Goto, db, handlerVars, WorkerPC
<1>14. ASSUME NEW w \in Workers, SmtpRefuse(w)  PROVE TypeOK'
  <2>1. budget' \in [FaultKinds -> Nat]
    BY <1>14, SpendType DEF SmtpRefuse, TypeOK, FaultKinds
  <2> QED
    BY <1>14, <2>1, GotoTypes
       DEF TypeOK, SmtpRefuse, Goto, db, handlerVars, world, WorkerPC
<1>15. ASSUME NEW w \in Workers, SmtpTransient(w)  PROVE TypeOK'
  <2>1. budget' \in [FaultKinds -> Nat]
    BY <1>15, SpendType DEF SmtpTransient, TypeOK, FaultKinds
  <2>2. wjob[w] \in Jobs
    BY <1>15 DEF SmtpTransient
  <2> QED
    BY <1>15, <2>1, <2>2, AttemptTypes
       DEF TypeOK, SmtpTransient, db, handlerVars, world
<1>16. ASSUME NEW w \in Workers, SmtpLostAck(w)  PROVE TypeOK'
  <2>1. budget' \in [FaultKinds -> Nat]
    BY <1>16, SpendType DEF SmtpLostAck, TypeOK, FaultKinds
  <2>2. wjob[w] \in Jobs /\ wjob[w].appr \in Approvals
    BY <1>16 DEF SmtpLostAck, Jobs
  <2>3. mailed' \in [Approvals -> Nat] /\ bodies' \in [Approvals -> SUBSET Bodies]
    BY <1>16, <2>2, MailTypes DEF SmtpLostAck
  <2>4. faults' \in [Approvals -> Nat]
    BY <1>16, <2>2, CounterUp DEF SmtpLostAck, TypeOK
  <2> QED
    BY <1>16, <2>1, <2>2, <2>3, <2>4, AttemptTypes
       DEF TypeOK, SmtpLostAck, db, handlerVars
<1>17. ASSUME NEW w \in Workers,
              CommitUsage(w) \/ CommitFailedUsage(w) \/ CommitFailed(w)
       PROVE  TypeOK'
  <2>1. wjob[w].appr \in Approvals /\ "failed" \in RowCounts
    BY <1>17 DEF CommitUsage, CommitFailedUsage, CommitFailed, Jobs, RowCounts
  <2>2. rows' \in [Approvals -> [RowCounts -> Nat]]
    BY <1>17, <2>1, RowTypes DEF CommitUsage, CommitFailedUsage, CommitFailed
  <2>3. \E pc \in WorkerPC : Goto(w, pc)
    BY <1>17 DEF CommitUsage, CommitFailedUsage, CommitFailed, WorkerPC
  <2> QED
    BY <1>17, <2>2, <2>3, GotoTypes
       DEF TypeOK, CommitUsage, CommitFailedUsage, CommitFailed, db, handlerVars, world
<1>18. ASSUME NEW w \in Workers, CommitSent(w)  PROVE TypeOK'
  <2>1. wjob[w].appr \in Approvals /\ "sent" \in RowCounts
    BY <1>18 DEF CommitSent, Jobs, RowCounts
  <2>2. rows' \in [Approvals -> [RowCounts -> Nat]]
    BY <1>18, <2>1, RowTypes DEF CommitSent
  <2> QED
    BY <1>18, <2>2, ReleaseTypes
       DEF TypeOK, CommitSent, handlerVars, world, Statuses
<1>19. ASSUME NEW w \in Workers, Retry(w)  PROVE TypeOK'
  <2>1. wjob[w] \in Jobs
    BY <1>19 DEF Retry
  <2>2. ready' \in [Jobs -> Nat]
    <3>1. CASE wjob[w].try < MaxRetries
      <4>1. [wjob[w] EXCEPT !.try = @ + 1] \in Jobs
        BY <2>1, <3>1, ApprovalFlowAssumption DEF Jobs, ApprovalFlowAssumption
      <4> QED
        BY <1>19, <3>1, <4>1, CounterUp DEF Retry, TypeOK
    <3>2. CASE ~(wjob[w].try < MaxRetries)
      BY <1>19, <3>2 DEF Retry, TypeOK
    <3> QED
      BY <3>1, <3>2
  <2> QED
    BY <1>19, <2>2, ReleaseTypes
       DEF TypeOK, Retry, db, handlerVars, world
<1>20. ASSUME NEW w \in Workers, WorkerCrash(w) \/ Redeliver(w)  PROVE TypeOK'
  <2>1. wjob[w] \in Jobs /\ wjob[w].appr \in Approvals
    BY <1>20 DEF WorkerCrash, Redeliver, Jobs
  <2>2. budget' \in [FaultKinds -> Nat]
    BY <1>20, SpendType DEF WorkerCrash, Redeliver, TypeOK, FaultKinds
  <2>3. ready' \in [Jobs -> Nat] /\ faults' \in [Approvals -> Nat]
    BY <1>20, <2>1, CounterUp DEF WorkerCrash, Redeliver, TypeOK
  <2>4. /\ wpc' \in [Workers -> WorkerPC]
        /\ wjob' \in [Workers -> Jobs \cup {NoJob}]
        /\ watt' \in [Workers -> 0..MaxAttempts]
        /\ late' \in SUBSET Workers
    BY <1>20, ReleaseTypes DEF WorkerCrash, Redeliver, workerVars, TypeOK
  <2> QED
    BY <1>20, <2>2, <2>3, <2>4
       DEF TypeOK, WorkerCrash, Redeliver, db, handlerVars, world
<1>21. ASSUME NEW w \in Workers, SmtpAcceptedYetRefused(w)  PROVE TypeOK'
  <2>1. budget' \in [FaultKinds -> Nat]
    BY <1>21, SpendType DEF SmtpAcceptedYetRefused, TypeOK, FaultKinds
  <2>2. wjob[w].appr \in Approvals
    BY <1>21 DEF SmtpAcceptedYetRefused, Jobs
  <2>3. mailed' \in [Approvals -> Nat] /\ bodies' \in [Approvals -> SUBSET Bodies]
    BY <1>21, <2>2, MailTypes DEF SmtpAcceptedYetRefused
  <2>4. faults' \in [Approvals -> Nat]
    BY <1>21, <2>2, CounterUp DEF SmtpAcceptedYetRefused, TypeOK
  <2> QED
    BY <1>21, <2>1, <2>3, <2>4, GotoTypes
       DEF TypeOK, SmtpAcceptedYetRefused, Goto, db, handlerVars, WorkerPC
<1>22. ASSUME NEW w \in Workers, SmtpUnexpected(w)  PROVE TypeOK'
  <2>1. budget' \in [FaultKinds -> Nat]
    BY <1>22, SpendType DEF SmtpUnexpected, TypeOK, FaultKinds
  <2>2. wjob[w].appr \in Approvals /\ "committed" \in RowCounts
    BY <1>22 DEF SmtpUnexpected, Jobs, RowCounts
  <2>3. mailed' \in [Approvals -> Nat] /\ bodies' \in [Approvals -> SUBSET Bodies]
    BY <1>22, <2>2, MailTypes DEF SmtpUnexpected, world, TypeOK
  <2>4. rows' \in [Approvals -> [RowCounts -> Nat]]
    BY <1>22, <2>2, RowTypes DEF SmtpUnexpected
  <2> QED
    BY <1>22, <2>1, <2>3, <2>4, ReleaseTypes
       DEF TypeOK, SmtpUnexpected, db, handlerVars
<1> QED
  BY <1>1, <1>2, <1>3, <1>4, <1>5, <1>6, <1>7, <1>8, <1>9, <1>10, <1>11, <1>12,
     <1>13, <1>14, <1>15, <1>16, <1>17, <1>18, <1>19, <1>20, <1>21, <1>22
     DEF Next, HandlerStep, Take, WorkerStep

\* The decision: status, version and verdict of a request, and the handlers.
LEMMA DecisionStep ==
  ASSUME FlowInv, Next
  PROVE  StatusFollowsDecision' /\ WinnersApproved' /\ OneDecision'
<1> USE DEF FlowInv, StatusFollowsDecision, WinnersApproved, OneDecision, TypeOK
<1> DEFINE Goal == StatusFollowsDecision' /\ WinnersApproved' /\ OneDecision'
<1>1. ASSUME NEW a \in Approvals, OpenApprovalGate(a)  PROVE Goal
  BY <1>1 DEF OpenApprovalGate, handlerVars
<1>2. ASSUME NEW h \in Handlers, NEW d \in Decisions, LoadApproval(h, d)  PROVE Goal
  BY <1>2 DEF LoadApproval, db
<1>3. ASSUME NEW h \in Handlers, WinDecision(h)  PROVE Goal
  <2>1. hreq[h].appr \in Approvals /\ hreq[h].action \in {"approve", "reject"}
    BY <1>3 DEF WinDecision, Decide, Decisions
  <2>2. \A g \in Handlers : hpc[g] # "idle" => hreq[g].appr \in Approvals
    BY DEF Decisions
  <2>3. StatusFollowsDecision'
    BY <1>3, <2>1 DEF WinDecision, Decide
  <2>4. WinnersApproved'
    BY <1>3, <2>1, <2>2 DEF WinDecision, Decide
  <2>5. OneDecision'
    \* the request was pending, so nobody had won it
    BY <1>3, <2>1, <2>2 DEF WinDecision, Decide
  <2> QED
    BY <2>3, <2>4, <2>5
<1>4. ASSUME NEW h \in Handlers,
             LoseDecision(h) \/ EnqueueSend(h) \/ HandlerCrash(h)
      PROVE  Goal
  <2>1. /\ hpc' = [hpc EXCEPT ![h] = "idle"]
        /\ hreq' = [hreq EXCEPT ![h] = NoDecision]
        /\ UNCHANGED <<status, version, verdict>>
    BY <1>4 DEF LoseDecision, EnqueueSend, HandlerCrash, db
  <2>2. \A g \in Handlers : hpc'[g] # "idle" => hpc'[g] = hpc[g] /\ hreq'[g] = hreq[g]
    BY <2>1
  <2> QED
    BY <2>1, <2>2
<1>5. ASSUME NEW w \in Workers, RejectSuppressed(w) \/ CommitSent(w)  PROVE Goal
  <2>1. wjob[w].appr \in Approvals /\ verdict[wjob[w].appr] = "approve"
    BY <1>5 DEF RejectSuppressed, CommitSent, TasksFollowApproval, Jobs
  <2> QED
    <3>1. \E s \in {"rejected", "sent"} : status' = [status EXCEPT ![wjob[w].appr] = s]
      BY <1>5 DEF RejectSuppressed, CommitSent
    <3>2. UNCHANGED <<version, verdict, hpc, hreq>>
      BY <1>5 DEF RejectSuppressed, CommitSent, handlerVars
    <3> QED
      BY <2>1, <3>1, <3>2
<1>6. CASE UNCHANGED <<status, version, verdict, hpc, hreq>>
  BY <1>6
<1>7. ASSUME NEW w \in Workers,
             \/ Take(w) \/ WorkerCrash(w) \/ Redeliver(w)
             \/ WorkerStep(w) /\ ~RejectSuppressed(w) /\ ~CommitSent(w)
      PROVE  UNCHANGED <<status, version, verdict, hpc, hreq>>
  BY <1>7
     DEF Take, WorkerStep, db, handlerVars, Skip, Start, PassGate,
         NoHealthySender, SmtpAccept, SmtpRefuse, SmtpTransient, SmtpLostAck,
         SmtpAcceptedYetRefused, SmtpUnexpected,
         CommitUsage, CommitFailedUsage, CommitFailed, Retry, WorkerCrash,
         Redeliver
<1>8. ASSUME NEW a \in Approvals, Suppress(a) \/ Unsuppress(a)
      PROVE  UNCHANGED <<status, version, verdict, hpc, hreq>>
  BY <1>8 DEF Suppress, Unsuppress, db, handlerVars
<1> QED
  BY <1>1, <1>2, <1>3, <1>4, <1>5, <1>6, <1>7, <1>8 DEF Next, HandlerStep

\* The messages in the broker and the tasks the workers run.
LEMMA TaskStep ==
  ASSUME FlowInv, Next
  PROVE  /\ \A w \in Workers : wpc'[w] # "idle" => wjob'[w] \in Jobs
         /\ TasksFollowApproval'
<1> USE DEF FlowInv, TasksFollowApproval, TypeOK
<1> DEFINE Goal == /\ \A w \in Workers : wpc'[w] # "idle" => wjob'[w] \in Jobs
                   /\ TasksFollowApproval'
<1>0. \A j \in Jobs : j.appr \in Approvals
  BY DEF Jobs
<1>1. ASSUME NEW h \in Handlers, WinDecision(h)  PROVE Goal
  \* the verdict of an undecided request changes: nothing runs for it yet
  BY <1>0, <1>1 DEF WinDecision, Decide, StatusFollowsDecision, workerVars
<1>2. ASSUME NEW h \in Handlers, EnqueueSend(h)  PROVE Goal
  BY <1>0, <1>2 DEF EnqueueSend, WinnersApproved, db, workerVars
<1>3. ASSUME NEW w \in Workers, NEW j \in Jobs, Skip(w, j) \/ Start(w, j)  PROVE Goal
  <2>1. ready[j] > 0 /\ ready' = [ready EXCEPT ![j] = @ - 1] /\ UNCHANGED verdict
    BY <1>3 DEF Skip, Start
  <2>2. verdict[j.appr] = "approve"
    BY <2>1
  <2>3. \/ UNCHANGED <<wpc, wjob>>
        \/ wpc' = [wpc EXCEPT ![w] = "loaded"] /\ wjob' = [wjob EXCEPT ![w] = j]
    BY <1>3 DEF Skip, Start, workerVars
  <2>4. \A i \in Jobs : ready'[i] > 0 => ready[i] > 0
    BY <2>1
  <2> QED
    BY <2>1, <2>2, <2>3, <2>4
<1>4. ASSUME NEW w \in Workers, Retry(w)  PROVE Goal
  <2>1. [wjob[w] EXCEPT !.try = @ + 1].appr = wjob[w].appr
    BY <1>4 DEF Retry, Jobs
  <2> QED
    BY <1>4, <2>1 DEF Retry, Release
<1>5. ASSUME NEW w \in Workers, WorkerCrash(w) \/ Redeliver(w)  PROVE Goal
  BY <1>5 DEF WorkerCrash, Redeliver, Release, workerVars
<1>6. ASSUME NEW w \in Workers, UNCHANGED <<ready, verdict>>,
             Release(w) \/ (wpc[w] # "idle" /\ \E pc \in WorkerPC : Goto(w, pc))
      PROVE  Goal
  BY <1>6 DEF Release, Goto
<1>7. CASE UNCHANGED <<ready, wpc, wjob, verdict>>
  BY <1>7
<1>8. ASSUME NEW w \in Workers, WorkerStep(w)  PROVE Goal
  BY <1>4, <1>6, <1>8
     DEF WorkerStep, RejectSuppressed, PassGate, NoHealthySender, SmtpAccept,
         SmtpRefuse, SmtpTransient, SmtpLostAck,
         SmtpAcceptedYetRefused, SmtpUnexpected, NextAttempt, CommitUsage,
         CommitSent, CommitFailedUsage, CommitFailed, Retry, WorkerPC,
         PastGate
<1> QED
  BY <1>1, <1>2, <1>3, <1>5, <1>7, <1>8
     DEF Next, HandlerStep, Take, OpenApprovalGate, Suppress, Unsuppress,
         LoadApproval, LoseDecision, HandlerCrash, workerVars

\* The emails: one goes out only for a task, and the text it carries is fixed
\* once the request is decided.
LEMMA MailStep ==
  ASSUME FlowInv, Next
  PROVE  NoMailWithoutApproval' /\ MailSaysWhatWasApproved'
<1> USE DEF FlowInv, NoMailWithoutApproval, MailSaysWhatWasApproved, FinalBody, TypeOK
<1> DEFINE Goal == NoMailWithoutApproval' /\ MailSaysWhatWasApproved'
<1>1. ASSUME NEW h \in Handlers, WinDecision(h)  PROVE Goal
  \* the request was pending: nothing has been mailed for it
  BY <1>1 DEF WinDecision, Decide, StatusFollowsDecision, world
<1>2. ASSUME NEW w \in Workers,
             \/ SmtpAccept(w) \/ SmtpLostAck(w) \/ SmtpAcceptedYetRefused(w)
             \/ SmtpUnexpected(w) /\ Accept(wjob[w].appr)
      PROVE  Goal
  <2>1. wjob[w].appr \in Approvals /\ verdict[wjob[w].appr] = "approve"
    BY <1>2 DEF SmtpAccept, SmtpLostAck, SmtpAcceptedYetRefused, SmtpUnexpected,
                TasksFollowApproval, Jobs
  <2>2. Accept(wjob[w].appr) /\ UNCHANGED <<draft, edited, verdict>>
    BY <1>2 DEF SmtpAccept, SmtpLostAck, SmtpAcceptedYetRefused, SmtpUnexpected, db
  <2> QED
    BY <2>1, <2>2 DEF Accept
<1>3. CASE UNCHANGED <<mailed, bodies, draft, edited, verdict>>
  BY <1>3
<1> QED
  BY <1>1, <1>2, <1>3
     DEF Next, HandlerStep, Take, WorkerStep, NextAttempt, Release, Goto, db,
         handlerVars, workerVars, world, OpenApprovalGate, Suppress,
         Unsuppress, LoadApproval, WinDecision, Decide, LoseDecision, EnqueueSend,
         HandlerCrash, Skip, Start, RejectSuppressed, PassGate,
         NoHealthySender, SmtpAccept, SmtpRefuse, SmtpTransient, SmtpLostAck,
         SmtpAcceptedYetRefused, SmtpUnexpected,
         CommitUsage, CommitSent, CommitFailedUsage, CommitFailed, Retry,
         WorkerCrash, Redeliver

\* The suppression check: who is past it for a suppressed lead is in late.
LEMMA GateStep ==
  ASSUME FlowInv, Next
  PROVE  SuppressionGate'
<1> USE DEF FlowInv, SuppressionGate, TypeOK, PastGate, WorkerPC
<1>1. ASSUME NEW a \in Approvals, Suppress(a)  PROVE SuppressionGate'
  BY <1>1 DEF Suppress, workerVars
<1>2. ASSUME NEW a \in Approvals, Unsuppress(a)  PROVE SuppressionGate'
  BY <1>2 DEF Unsuppress, workerVars
<1>3. ASSUME NEW w \in Workers, NEW j \in Jobs, Start(w, j)  PROVE SuppressionGate'
  BY <1>3 DEF Start
<1>4. ASSUME NEW w \in Workers, PassGate(w)  PROVE SuppressionGate'
  BY <1>4 DEF PassGate, Goto
<1>5. ASSUME NEW w \in Workers, Release(w), UNCHANGED suppressed
      PROVE  SuppressionGate'
  BY <1>5 DEF Release
<1>6. ASSUME NEW w \in Workers, NEW pc \in PastGate,
             wpc[w] \in PastGate, Goto(w, pc), UNCHANGED suppressed
      PROVE  SuppressionGate'
  BY <1>6 DEF Goto
<1>7. CASE UNCHANGED <<suppressed, wpc, wjob, late>>
  BY <1>7
<1>8. ASSUME NEW w \in Workers, WorkerStep(w)  PROVE SuppressionGate'
  BY <1>4, <1>5, <1>6, <1>8
     DEF WorkerStep, RejectSuppressed, PassGate, NoHealthySender, SmtpAccept,
         SmtpRefuse, SmtpTransient, SmtpLostAck,
         SmtpAcceptedYetRefused, SmtpUnexpected, NextAttempt, CommitUsage,
         CommitSent, CommitFailedUsage, CommitFailed, Retry, WorkerPC,
         PastGate
<1> QED
  BY <1>1, <1>2, <1>3, <1>5, <1>7, <1>8
     DEF Next, HandlerStep, Take, OpenApprovalGate, LoadApproval, WinDecision, Decide,
         LoseDecision, EnqueueSend, HandlerCrash, Skip, WorkerCrash, Redeliver,
         workerVars

\* The groups together: the invariant is inductive.
LEMMA NextFlowInv == FlowInv /\ [Next]_vars => FlowInv'
<1>1. ASSUME FlowInv, Next  PROVE FlowInv'
  BY <1>1, TypeStep, DecisionStep, TaskStep, MailStep, GateStep DEF FlowInv
<1>2. ASSUME FlowInv, UNCHANGED vars  PROVE FlowInv'
  BY <1>2
     DEF FlowInv, vars, TypeOK, StatusFollowsDecision, WinnersApproved,
         OneDecision, TasksFollowApproval, NoMailWithoutApproval,
         MailSaysWhatWasApproved, SuppressionGate, FinalBody
<1> QED
  BY <1>1, <1>2

\* FlowInv holds in every reachable state of the approval flow.
THEOREM FlowInvariant == Spec => []FlowInv
<1>1. Init => FlowInv
  BY InitFlowInv
<1>2. FlowInv /\ [Next]_vars => FlowInv'
  BY NextFlowInv
<1> QED
  BY <1>1, <1>2, PTL DEF Spec

\* "never sends an AI-drafted reply without explicit human approval": an
\* email, a message in the broker or a running task implies an approval.
THEOREM OnlyApprovedIsSent == Spec => [](NoMailWithoutApproval /\ TasksFollowApproval)
<1>1. FlowInv => NoMailWithoutApproval /\ TasksFollowApproval
  BY DEF FlowInv
<1> QED
  BY <1>1, FlowInvariant, PTL

\* However many handlers race, one decision is taken, and one
\* handler at most goes on to enqueue the task.
THEOREM DecidedOnce == Spec => []OneDecision
<1>1. FlowInv => OneDecision
  BY DEF FlowInv
<1> QED
  BY <1>1, FlowInvariant, PTL

\* Only a worker that had passed its check before the entry was added can
\* still mail a suppressed lead.
THEOREM StaleTasksAreStopped == Spec => []SuppressionGate
<1>1. FlowInv => SuppressionGate
  BY DEF FlowInv
<1> QED
  BY <1>1, FlowInvariant, PTL

\* A rejected request stays as it is: no later step changes its row or mails
\* anything for it.
THEOREM RejectedForever == Spec => RejectionIsFinal
<1> DEFINE Frozen(a) == /\ status'[a] = "rejected"
                        /\ edited'[a] = edited[a]
                        /\ mailed'[a] = mailed[a]
<1>1. ASSUME FlowInv, [Next]_vars, NEW a \in Approvals, verdict[a] = "reject"
      PROVE  Frozen(a)
  <2>1. status[a] = "rejected"
    BY <1>1 DEF FlowInv, TypeOK, StatusFollowsDecision, Statuses
  <2>2. \A w \in Workers : wpc[w] # "idle" =>
          wjob[w].appr \in Approvals /\ wjob[w].appr # a
    BY <1>1 DEF FlowInv, TasksFollowApproval, Jobs
  <2>3. CASE UNCHANGED vars
    BY <2>1, <2>3 DEF vars
  <2>4. ASSUME NEW b \in Approvals,
               OpenApprovalGate(b) \/ Suppress(b) \/ Unsuppress(b)
        PROVE  Frozen(a)
    BY <2>1, <2>4, <1>1
       DEF OpenApprovalGate, Suppress, Unsuppress, db, world, FlowInv, TypeOK
  <2>5. ASSUME NEW h \in Handlers, NEW d \in Decisions, LoadApproval(h, d)
        PROVE  Frozen(a)
    BY <2>1, <2>5 DEF LoadApproval, db, world
  <2>6. ASSUME NEW h \in Handlers, HandlerStep(h) \/ HandlerCrash(h)
        PROVE  Frozen(a)
    BY <2>1, <2>6, <1>1
       DEF HandlerStep, HandlerCrash, WinDecision, Decide, LoseDecision, EnqueueSend, db,
           world, FlowInv, TypeOK
  <2>7. ASSUME NEW w \in Workers, NEW j \in Jobs, Skip(w, j) \/ Start(w, j)
        PROVE  Frozen(a)
    BY <2>1, <2>7 DEF Skip, Start, db, world
  <2>8. ASSUME NEW w \in Workers, WorkerStep(w) \/ WorkerCrash(w) \/ Redeliver(w)
        PROVE  Frozen(a)
    <3>1. wpc[w] # "idle"
      BY <2>8 DEF WorkerStep, RejectSuppressed, PassGate, NoHealthySender, SmtpAccept,
           SmtpRefuse, SmtpTransient, SmtpLostAck,
           SmtpAcceptedYetRefused, SmtpUnexpected, CommitUsage, CommitSent,
           CommitFailedUsage, CommitFailed, Retry, WorkerCrash, Redeliver
    <3>2. wjob[w].appr \in Approvals /\ wjob[w].appr # a
      BY <2>2, <3>1
    <3> QED
      BY <2>1, <2>8, <3>2, <1>1
         DEF WorkerStep, RejectSuppressed, PassGate, NoHealthySender, SmtpAccept,
             SmtpRefuse, SmtpTransient, SmtpLostAck,
             SmtpAcceptedYetRefused, SmtpUnexpected, Accept, CommitUsage, CommitSent,
             CommitFailedUsage, CommitFailed, Retry, WorkerCrash, Redeliver, db,
             world, FlowInv, TypeOK
  <2> QED
    BY <1>1, <2>3, <2>4, <2>5, <2>6, <2>7, <2>8 DEF Next, Take
<1>2. FlowInv /\ [Next]_vars =>
        [\A a \in Approvals : verdict[a] = "reject" => Frozen(a)]_vars
  BY <1>1
<1> QED
  BY <1>2, FlowInvariant, PTL DEF Spec, RejectionIsFinal

-----------------------------------------------------------------------------
(* Counting.  How often a request can still be mailed is the size of a few  *)
(* sets: the copies of its task message that wait in the broker, the workers*)
(* that have not been answered yet, the handler about to enqueue its task.  *)
(* A step of the flow adds or removes one element of each.                  *)

\* The workers that run a task of request a at one of the points pcs.
At(a, pcs) == {w \in Workers : wpc[w] \in pcs /\ wjob[w].appr = a}

\* Not answered yet: such a worker can still mail the request, or retry.
AblePC == {"loaded", "gated", "refused", "marking", "retrying"}

\* The copies of a's task messages that wait in the broker.
WaitingFor(a) == Copies(ready, {j \in Jobs : j.appr = a})

\* The handlers about to enqueue the task of a.
Winners(a) == {h \in Handlers : hpc[h] = "won" /\ hreq[h].appr = a}

\* Every email sent and every way left to send one is paid for: by the one
\* approval, or by a redelivery, a crash or a lost answer.
Chances(a) ==
  /\ IsFiniteSet(WaitingFor(a)) /\ IsFiniteSet(At(a, AblePC)) /\ IsFiniteSet(Winners(a))
  /\ mailed[a] + Cardinality(WaitingFor(a)) + Cardinality(At(a, AblePC))
       + Cardinality(Winners(a)) <= One(verdict[a] = "approve") + faults[a]

\* A worker that moves, or ends its task, is all that changes among them.
LEMMA WorkerMoves ==
  ASSUME TypeOK, NEW w \in Workers, Release(w) \/ \E pc \in WorkerPC : Goto(w, pc),
         NEW a \in Approvals, NEW pcs, IsFiniteSet(At(a, pcs))
  PROVE  /\ IsFiniteSet(At(a, pcs)')
         /\ Cardinality(At(a, pcs)) \in Nat /\ Cardinality(At(a, pcs)') \in Nat
         /\ Cardinality(At(a, pcs)')
              = Cardinality(At(a, pcs)) + One(w \in At(a, pcs)') - One(w \in At(a, pcs))
<1>1. At(a, pcs) \ {w} = At(a, pcs)' \ {w}
  BY DEF At, Release, Goto, TypeOK
<1> QED
  BY <1>1, OneElement

\* The worker that takes a message is the only one to move.
LEMMA WorkerStarts ==
  ASSUME TypeOK, NEW w \in Workers, NEW j \in Jobs, Start(w, j),
         NEW a \in Approvals, NEW pcs, IsFiniteSet(At(a, pcs)), "idle" \notin pcs
  PROVE  /\ IsFiniteSet(At(a, pcs)')
         /\ Cardinality(At(a, pcs)) \in Nat /\ Cardinality(At(a, pcs)') \in Nat
         /\ Cardinality(At(a, pcs)')
              = Cardinality(At(a, pcs)) + One("loaded" \in pcs /\ j.appr = a)
<1>1. At(a, pcs) \ {w} = At(a, pcs)' \ {w}
  BY DEF At, Start, TypeOK
<1>2. w \notin At(a, pcs) /\ (w \in At(a, pcs)' <=> "loaded" \in pcs /\ j.appr = a)
  BY DEF At, Start, TypeOK
<1>3. /\ IsFiniteSet(At(a, pcs)')
      /\ Cardinality(At(a, pcs)) \in Nat /\ Cardinality(At(a, pcs)') \in Nat
      /\ Cardinality(At(a, pcs)')
           = Cardinality(At(a, pcs)) + One(w \in At(a, pcs)') - One(w \in At(a, pcs))
  BY <1>1, OneElement
<1> QED
  BY <1>2, <1>3 DEF One

\* What the broker does: a copy of a message is put in, or handed out.
Put(j) == ready' = [ready EXCEPT ![j] = @ + 1]
HandOut(j) == ready[j] > 0 /\ ready' = [ready EXCEPT ![j] = @ - 1]

\* A message that is published counts for its request.
LEMMA Published ==
  ASSUME TypeOK, NEW j \in Jobs, Put(j),
         NEW a \in Approvals, IsFiniteSet(WaitingFor(a))
  PROVE  /\ IsFiniteSet(WaitingFor(a)')
         /\ Cardinality(WaitingFor(a)) \in Nat /\ Cardinality(WaitingFor(a)') \in Nat
         /\ Cardinality(WaitingFor(a)') = Cardinality(WaitingFor(a)) + One(j.appr = a)
<1> DEFINE S == {i \in Jobs : i.appr = a}
<1>1. /\ ready \in [Jobs -> Nat] /\ ready' \in [Jobs -> Nat]
      /\ ready'[j] = ready[j] + 1 /\ \A i \in Jobs \ {j} : ready'[i] = ready[i]
      /\ S \in SUBSET Jobs /\ (j \in S <=> j.appr = a)
  BY CounterUp DEF TypeOK, Put
<1>2. WaitingFor(a) = Copies(ready, S) /\ WaitingFor(a)' = Copies(ready', S)
  BY DEF WaitingFor, Copies
<1> HIDE DEF S
<1>3. /\ IsFiniteSet(Copies(ready', S))
      /\ Cardinality(Copies(ready, S)) \in Nat /\ Cardinality(Copies(ready', S)) \in Nat
      /\ Cardinality(Copies(ready', S)) = Cardinality(Copies(ready, S)) + One(j \in S)
  BY <1>1, <1>2, CopiesUp
<1> QED
  BY <1>1, <1>2, <1>3 DEF One

\* A message that is taken no longer does.
LEMMA Taken ==
  ASSUME TypeOK, NEW j \in Jobs, HandOut(j),
         NEW a \in Approvals, IsFiniteSet(WaitingFor(a))
  PROVE  /\ IsFiniteSet(WaitingFor(a)')
         /\ Cardinality(WaitingFor(a)) \in Nat /\ Cardinality(WaitingFor(a)') \in Nat
         /\ Cardinality(WaitingFor(a)') = Cardinality(WaitingFor(a)) - One(j.appr = a)
<1> DEFINE S == {i \in Jobs : i.appr = a}
<1>1. /\ ready \in [Jobs -> Nat] /\ ready' \in [Jobs -> Nat]
      /\ ready[j] = ready'[j] + 1 /\ \A i \in Jobs \ {j} : ready'[i] = ready[i]
      /\ S \in SUBSET Jobs /\ (j \in S <=> j.appr = a)
  BY CounterDown DEF TypeOK, HandOut
<1>2. WaitingFor(a) = Copies(ready, S) /\ WaitingFor(a)' = Copies(ready', S)
  BY DEF WaitingFor, Copies
<1> HIDE DEF S
<1>3. /\ IsFiniteSet(Copies(ready', S))
      /\ Cardinality(Copies(ready, S)) \in Nat /\ Cardinality(Copies(ready', S)) \in Nat
      /\ Cardinality(Copies(ready', S)) = Cardinality(Copies(ready, S)) - One(j \in S)
  BY <1>1, <1>2, CopiesDown
<1> QED
  BY <1>1, <1>2, <1>3 DEF One

\* The same for a handler and its decision.
LEMMA HandlerMoves ==
  ASSUME TypeOK, NEW h \in Handlers,
         \A g \in Handlers \ {h} : hpc'[g] = hpc[g] /\ hreq'[g] = hreq[g],
         NEW a \in Approvals, IsFiniteSet(Winners(a))
  PROVE  /\ IsFiniteSet(Winners(a)')
         /\ Cardinality(Winners(a)) \in Nat /\ Cardinality(Winners(a)') \in Nat
         /\ Cardinality(Winners(a)')
              = Cardinality(Winners(a)) + One(h \in Winners(a)') - One(h \in Winners(a))
<1>1. Winners(a) \ {h} = Winners(a)' \ {h}
  BY DEF Winners
<1> QED
  BY <1>1, OneElement

\* The first parts of Chances are sizes.
LEMMA ChanceSizes ==
  ASSUME NEW a \in Approvals, Chances(a)
  PROVE  /\ Cardinality(WaitingFor(a)) \in Nat /\ Cardinality(At(a, AblePC)) \in Nat
         /\ Cardinality(Winners(a)) \in Nat
  BY FS_CardinalityType DEF Chances

\* No step sends an email, or makes one possible, that is not paid for.
LEMMA ChanceStep ==
  ASSUME FlowInv, Next, NEW a \in Approvals, Chances(a)
  PROVE  Chances(a)'
<1> DEFINE W == Cardinality(WaitingFor(a))
           A == Cardinality(At(a, AblePC))
           H == Cardinality(Winners(a))
<1>a. W \in Nat /\ A \in Nat /\ H \in Nat
  BY ChanceSizes
<1>b. TypeOK /\ mailed[a] \in Nat /\ faults[a] \in Nat
  BY DEF FlowInv, TypeOK
<1>c. ASSUME UNCHANGED <<ready, wpc, wjob>>
      PROVE  WaitingFor(a)' = WaitingFor(a) /\ At(a, AblePC)' = At(a, AblePC)
  BY <1>c DEF WaitingFor, Copies, At
<1>d. ASSUME UNCHANGED <<hpc, hreq>>  PROVE Winners(a)' = Winners(a)
  BY <1>d DEF Winners
<1>e. ASSUME UNCHANGED ready  PROVE WaitingFor(a)' = WaitingFor(a)
  BY <1>e DEF WaitingFor, Copies
<1>f. ASSUME UNCHANGED <<wpc, wjob>>  PROVE At(a, AblePC)' = At(a, AblePC)
  BY <1>f DEF At
<1>1. CASE UNCHANGED <<ready, wpc, wjob, hpc, hreq, mailed, verdict, faults>>
  BY <1>1, <1>c, <1>d DEF Chances
<1>2. ASSUME NEW h \in Handlers, NEW d \in Decisions, LoadApproval(h, d)  PROVE Chances(a)'
  <2>1. UNCHANGED <<ready, wpc, wjob, mailed, verdict, faults>>
    BY <1>2 DEF LoadApproval, db, workerVars, world
  <2>2. Winners(a)' = Winners(a)
    BY <1>2, <1>b DEF LoadApproval, Winners, TypeOK
  <2> QED
    BY <1>c, <2>1, <2>2 DEF Chances
<1>3. ASSUME NEW h \in Handlers, WinDecision(h)  PROVE Chances(a)'
  <2>1. UNCHANGED <<ready, wpc, wjob, mailed, faults>>
    BY <1>3 DEF WinDecision, Decide, workerVars, world
  <2>2. hreq[h] \in Decisions /\ hreq[h].appr \in Approvals
        /\ hreq[h].action \in {"approve", "reject"} /\ verdict[hreq[h].appr] = "none"
    BY <1>3 DEF WinDecision, Decide, Decisions, FlowInv, WinnersApproved, StatusFollowsDecision
  <2>3. h \notin Winners(a)
    BY <1>3 DEF WinDecision, Winners
  <2>4. h \in Winners(a)' <=> hreq[h].appr = a /\ hreq[h].action = "approve"
    BY <1>3, <1>b, <2>2 DEF WinDecision, Decide, Winners, TypeOK
  <2>5. /\ IsFiniteSet(Winners(a)')
        /\ Cardinality(Winners(a)') = H + One(h \in Winners(a)') - One(h \in Winners(a))
    <3>1. \A g \in Handlers \ {h} : hpc'[g] = hpc[g] /\ hreq'[g] = hreq[g]
      BY <1>3, <1>b DEF WinDecision, Decide, TypeOK
    <3> QED
      BY <1>b, <3>1, HandlerMoves DEF Chances
  <2>6. verdict'[a] = IF hreq[h].appr = a THEN hreq[h].action ELSE verdict[a]
    BY <1>3, <1>b, <2>2 DEF WinDecision, Decide, TypeOK
  <2> QED
    BY <1>a, <1>b, <1>c, <2>1, <2>2, <2>3, <2>4, <2>5, <2>6 DEF Chances, One
<1>4. ASSUME NEW h \in Handlers, LoseDecision(h) \/ HandlerCrash(h)  PROVE Chances(a)'
  <2>1. UNCHANGED <<ready, wpc, wjob, mailed, verdict, faults>>
    BY <1>4 DEF LoseDecision, HandlerCrash, db, workerVars, world
  <2>2. hpc' = [hpc EXCEPT ![h] = "idle"] /\ hreq' = [hreq EXCEPT ![h] = NoDecision]
    BY <1>4 DEF LoseDecision, HandlerCrash
  <2>3. h \notin Winners(a)'
    BY <1>b, <2>2 DEF Winners, TypeOK
  <2>4. /\ IsFiniteSet(Winners(a)')
        /\ Cardinality(Winners(a)') = H + One(h \in Winners(a)') - One(h \in Winners(a))
    BY <1>b, <2>2, HandlerMoves DEF Chances, TypeOK
  <2> QED
    BY <1>a, <1>b, <1>c, <2>1, <2>3, <2>4 DEF Chances, One
<1>5. ASSUME NEW h \in Handlers, EnqueueSend(h)  PROVE Chances(a)'
  <2> DEFINE j == [appr |-> hreq[h].appr, try |-> 0]
  <2>1. UNCHANGED <<wpc, wjob, mailed, verdict, faults>>
    BY <1>5 DEF EnqueueSend, db, workerVars, world
  <2>2. hpc' = [hpc EXCEPT ![h] = "idle"] /\ hreq' = [hreq EXCEPT ![h] = NoDecision]
    BY <1>5 DEF EnqueueSend
  <2>3. h \notin Winners(a)' /\ (h \in Winners(a) <=> j.appr = a)
    BY <1>b, <1>5, <2>2 DEF EnqueueSend, Winners, TypeOK
  <2>4. /\ IsFiniteSet(Winners(a)')
        /\ Cardinality(Winners(a)') = H + One(h \in Winners(a)') - One(h \in Winners(a))
    BY <1>b, <2>2, HandlerMoves DEF Chances, TypeOK
  <2>5. j \in Jobs /\ ready' = [ready EXCEPT ![j] = @ + 1]
    BY <1>5, ApprovalFlowAssumption
       DEF EnqueueSend, FlowInv, WinnersApproved, Decisions, Jobs, ApprovalFlowAssumption
  <2> HIDE DEF j
  <2>6. /\ IsFiniteSet(WaitingFor(a)')
        /\ Cardinality(WaitingFor(a)') = W + One(j.appr = a)
    BY <1>b, <2>5, Published DEF Chances, Put
  <2> QED
    BY <1>a, <1>b, <1>f, <2>1, <2>3, <2>4, <2>6 DEF Chances, One
<1>6. ASSUME NEW w \in Workers, NEW j \in Jobs, Skip(w, j) \/ Start(w, j)
      PROVE  Chances(a)'
  <2>1. UNCHANGED <<hpc, hreq, mailed, verdict, faults>> /\ ready[j] > 0
        /\ ready' = [ready EXCEPT ![j] = @ - 1]
    BY <1>6 DEF Skip, Start, db, handlerVars, world
  <2>2. /\ IsFiniteSet(WaitingFor(a)')
        /\ Cardinality(WaitingFor(a)') \in Nat
        /\ Cardinality(WaitingFor(a)') = W - One(j.appr = a)
    BY <1>b, <2>1, Taken DEF Chances, HandOut
  <2>3. /\ IsFiniteSet(At(a, AblePC)')
        /\ Cardinality(At(a, AblePC)') \in Nat
        /\ Cardinality(At(a, AblePC)') <= A + One(j.appr = a)
    <3>1. CASE Skip(w, j)
      BY <3>1, <1>a, <1>f DEF Skip, workerVars, Chances, One
    <3>2. CASE Start(w, j)
      <4>1. "idle" \notin AblePC /\ "loaded" \in AblePC
        BY DEF AblePC
      <4> QED
        BY <1>a, <1>b, <3>2, <4>1, WorkerStarts DEF Chances, One
    <3> QED
      BY <1>6, <3>1, <3>2
  <2> QED
    BY <1>a, <1>b, <1>d, <2>1, <2>2, <2>3 DEF Chances, One
<1>7. ASSUME NEW w \in Workers, WorkerStep(w) \/ WorkerCrash(w)  PROVE Chances(a)'
  <2> DEFINE j == wjob[w]
             one == One(j.appr = a)
  <2>1. j \in Jobs /\ j.appr \in Approvals /\ wpc[w] # "idle"
    BY <1>7 DEF FlowInv, Jobs, WorkerStep, RejectSuppressed, PassGate, NoHealthySender,
         SmtpAccept, SmtpRefuse, SmtpTransient, SmtpLostAck,
         SmtpAcceptedYetRefused, SmtpUnexpected, CommitUsage, CommitSent,
         CommitFailedUsage, CommitFailed, Retry, WorkerCrash
  <2>2. UNCHANGED <<hpc, hreq, verdict>>
    BY <1>7 DEF WorkerStep, RejectSuppressed, PassGate, NoHealthySender,
         SmtpAccept, SmtpRefuse, SmtpTransient, SmtpLostAck,
         SmtpAcceptedYetRefused, SmtpUnexpected, CommitUsage, CommitSent,
         CommitFailedUsage, CommitFailed, Retry, WorkerCrash, handlerVars
  <2>3. Release(w) \/ \E pc \in WorkerPC : Goto(w, pc)
    BY <1>7 DEF WorkerStep, RejectSuppressed, PassGate, NoHealthySender,
         SmtpAccept, SmtpRefuse, SmtpTransient, SmtpLostAck,
         SmtpAcceptedYetRefused, SmtpUnexpected, NextAttempt, CommitUsage,
         CommitSent, CommitFailedUsage, CommitFailed, Retry, WorkerCrash, WorkerPC
  <2>4. /\ IsFiniteSet(At(a, AblePC)')
        /\ Cardinality(At(a, AblePC)') \in Nat
        /\ Cardinality(At(a, AblePC)')
             = A + One(w \in At(a, AblePC)') - One(w \in At(a, AblePC))
    BY <1>b, <2>3, WorkerMoves DEF Chances
  <2>5. \* unable before, unable after
        ASSUME UNCHANGED <<ready, mailed, faults>>,
               w \in At(a, AblePC)' => w \in At(a, AblePC)
        PROVE  Chances(a)'
    BY <1>a, <1>b, <1>d, <1>e, <2>2, <2>4, <2>5 DEF Chances, One
  <2>6. CASE RejectSuppressed(w) \/ NoHealthySender(w) \/ CommitSent(w)
    <3>1. UNCHANGED <<ready, mailed, faults>> /\ wpc' = [wpc EXCEPT ![w] = "idle"]
      BY <2>6 DEF RejectSuppressed, NoHealthySender, CommitSent, Release, world
    <3>2. w \notin At(a, AblePC)'
      BY <1>b, <3>1 DEF At, AblePC, TypeOK
    <3> QED
      BY <2>5, <3>1, <3>2
  <2>7. CASE PassGate(w) \/ SmtpRefuse(w) \/ CommitUsage(w) \/ CommitFailedUsage(w)
             \/ CommitFailed(w)
    <3>1. UNCHANGED <<ready, mailed, faults, wjob>>
      BY <2>7 DEF PassGate, SmtpRefuse, CommitUsage, CommitFailedUsage, CommitFailed,
                  Goto, world
    <3>2. wpc'[w] \in AblePC => wpc[w] \in AblePC
      BY <1>b, <2>7 DEF PassGate, SmtpRefuse, CommitUsage, CommitFailedUsage, CommitFailed,
                  Goto, AblePC, TypeOK
    <3>3. w \in At(a, AblePC)' => w \in At(a, AblePC)
      BY <3>1, <3>2 DEF At
    <3> QED
      BY <2>5, <3>1, <3>3
  <2>8. CASE SmtpTransient(w)
    <3>1. UNCHANGED <<ready, mailed, faults>>
      BY <2>8 DEF SmtpTransient, world
    <3>2. w \in At(a, AblePC)' => w \in At(a, AblePC)
      BY <1>b, <2>8 DEF SmtpTransient, NextAttempt, Goto, Release, At, AblePC, TypeOK
    <3> QED
      BY <2>5, <3>1, <3>2
  <2>9. CASE SmtpAccept(w)
    <3>1. UNCHANGED <<ready, faults>> /\ mailed'[a] = mailed[a] + one
      BY <1>b, <2>1, <2>9 DEF SmtpAccept, Accept, TypeOK, One
    <3>2. w \notin At(a, AblePC)' /\ One(w \in At(a, AblePC)) = one
      BY <1>b, <2>9 DEF SmtpAccept, Goto, At, AblePC, TypeOK, One
    <3> QED
      BY <1>a, <1>b, <1>d, <1>e, <2>2, <2>4, <3>1, <3>2 DEF Chances, One
  <2>10. CASE SmtpLostAck(w)
    <3>1. UNCHANGED ready /\ mailed'[a] = mailed[a] + one /\ faults'[a] = faults[a] + one
      BY <1>b, <2>1, <2>10 DEF SmtpLostAck, Accept, TypeOK, One
    <3>2. w \in At(a, AblePC)' => w \in At(a, AblePC)
      BY <1>b, <2>10 DEF SmtpLostAck, NextAttempt, Goto, Release, At, AblePC, TypeOK
    <3> QED
      BY <1>a, <1>b, <1>d, <1>e, <2>2, <2>4, <3>1, <3>2 DEF Chances, One
  <2>11. CASE Retry(w)
    <3> DEFINE next == [j EXCEPT !.try = @ + 1]
    <3>1. UNCHANGED <<mailed, faults>>
      BY <2>11 DEF Retry, world
    <3>2. w \notin At(a, AblePC)' /\ One(w \in At(a, AblePC)) = one
      BY <1>b, <2>11 DEF Retry, Release, At, AblePC, TypeOK, One
    <3>3. CASE j.try < MaxRetries
      <4>1. next \in Jobs /\ next.appr = j.appr
        BY <2>1, <3>3, ApprovalFlowAssumption DEF Jobs, ApprovalFlowAssumption
      <4>2. ready' = [ready EXCEPT ![next] = @ + 1]
        BY <2>11, <3>3 DEF Retry
      <4> HIDE DEF next
      <4>3. IsFiniteSet(WaitingFor(a)')
            /\ Cardinality(WaitingFor(a)') = W + One(next.appr = a)
        BY <1>b, <4>1, <4>2, Published DEF Chances, Put
      <4> QED
        BY <1>a, <1>b, <1>d, <2>2, <2>4, <3>1, <3>2, <4>1, <4>3 DEF Chances, One
    <3>4. CASE ~(j.try < MaxRetries)
      <4>1. UNCHANGED ready
        BY <2>11, <3>4 DEF Retry
      <4> QED
        BY <2>5, <3>1, <3>2, <4>1
    <3> QED
      BY <3>3, <3>4
  <2>12. CASE WorkerCrash(w)
    <3>1. UNCHANGED mailed
      BY <2>12 DEF WorkerCrash, world
    <3>2. w \notin At(a, AblePC)'
      BY <1>b, <2>12 DEF WorkerCrash, Release, At, AblePC, TypeOK
    <3>3. CASE UNCHANGED <<ready, faults>>
      BY <2>5, <3>1, <3>2, <3>3
    <3>4. CASE ready' = [ready EXCEPT ![j] = @ + 1]
               /\ faults' = [faults EXCEPT ![j.appr] = @ + 1]
      <4>1. IsFiniteSet(WaitingFor(a)') /\ Cardinality(WaitingFor(a)') = W + one
        BY <1>b, <2>1, <3>4, Published DEF Chances, Put
      <4>2. faults'[a] = faults[a] + one
        BY <1>b, <2>1, <3>4 DEF TypeOK, One
      <4> QED
        BY <1>a, <1>b, <1>d, <2>2, <2>4, <3>1, <3>2, <4>1, <4>2 DEF Chances, One
    <3> QED
      BY <2>12, <3>3, <3>4 DEF WorkerCrash
  <2>13. CASE SmtpAcceptedYetRefused(w)
    <3>1. UNCHANGED ready /\ mailed'[a] = mailed[a] + one /\ faults'[a] = faults[a] + one
      BY <1>b, <2>1, <2>13 DEF SmtpAcceptedYetRefused, Accept, TypeOK, One
    <3>2. w \in At(a, AblePC)' => w \in At(a, AblePC)
      BY <1>b, <2>13 DEF SmtpAcceptedYetRefused, Goto, At, AblePC, TypeOK
    <3> QED
      BY <1>a, <1>b, <1>d, <1>e, <2>2, <2>4, <3>1, <3>2 DEF Chances, One
  <2>14. CASE SmtpUnexpected(w)
    <3>1. UNCHANGED <<ready, faults>>
      BY <2>14 DEF SmtpUnexpected
    <3>2. mailed'[a] = mailed[a] + one \/ mailed'[a] = mailed[a]
      BY <1>b, <2>1, <2>14 DEF SmtpUnexpected, Accept, world, TypeOK, One
    <3>3. w \notin At(a, AblePC)' /\ One(w \in At(a, AblePC)) = one
      BY <1>b, <2>14 DEF SmtpUnexpected, Release, At, AblePC, TypeOK, One
    <3> QED
      BY <1>a, <1>b, <1>d, <1>e, <2>2, <2>4, <3>1, <3>2, <3>3 DEF Chances, One
  <2> QED
    BY <1>7, <2>6, <2>7, <2>8, <2>9, <2>10, <2>11, <2>12, <2>13, <2>14 DEF WorkerStep
<1>8. ASSUME NEW w \in Workers, Redeliver(w)  PROVE Chances(a)'
  <2> DEFINE j == wjob[w]
  <2>1. j \in Jobs /\ j.appr \in Approvals
    BY <1>8 DEF Redeliver, FlowInv, Jobs
  <2>2. UNCHANGED <<hpc, hreq, wpc, wjob, mailed, verdict>>
        /\ ready' = [ready EXCEPT ![j] = @ + 1]
        /\ faults' = [faults EXCEPT ![j.appr] = @ + 1]
    BY <1>8 DEF Redeliver, handlerVars, workerVars, world
  <2>3. /\ IsFiniteSet(WaitingFor(a)')
        /\ Cardinality(WaitingFor(a)') = W + One(j.appr = a)
    BY <1>b, <2>1, <2>2, Published DEF Chances, Put
  <2>4. faults'[a] = faults[a] + One(j.appr = a)
    BY <1>b, <2>1, <2>2 DEF TypeOK, One
  <2> QED
    BY <1>a, <1>b, <1>d, <1>f, <2>2, <2>3, <2>4 DEF Chances, One
<1>9. ASSUME NEW b \in Approvals, OpenApprovalGate(b) \/ Suppress(b) \/ Unsuppress(b)
      PROVE  UNCHANGED <<ready, wpc, wjob, hpc, hreq, mailed, verdict, faults>>
  BY <1>9 DEF OpenApprovalGate, Suppress, Unsuppress, handlerVars, workerVars, world
<1> QED
  BY <1>1, <1>2, <1>3, <1>4, <1>5, <1>6, <1>7, <1>8, <1>9 DEF Next, HandlerStep, Take

\* The last commit of a sent reply is still to come.
MailedPC == {"accepted", "counted"}

\* A SENT row is backed by an email of its own; the request reads SENT only
\* with such a row, and cannot lose it while nothing duplicated its task.
Told(a) ==
  /\ IsFiniteSet(At(a, MailedPC))
  /\ rows[a]["sent"] + Cardinality(At(a, MailedPC)) <= mailed[a]
  /\ status[a] = "sent" => rows[a]["sent"] > 0
  /\ faults[a] = 0 /\ rows[a]["sent"] > 0 => status[a] = "sent"

\* A worker that can still answer a, and may find it suppressed, has no email
\* behind it as long as nothing was duplicated.
LEMMA AbleMeansUnsent ==
  ASSUME FlowInv, NEW a \in Approvals, Chances(a), faults[a] = 0,
         NEW w \in Workers, w \in At(a, AblePC)
  PROVE  mailed[a] = 0
<1>1. Cardinality(At(a, AblePC)) # 0
  BY FS_EmptySet DEF Chances
<1>2. mailed[a] \in Nat
  BY DEF FlowInv, TypeOK
<1>3. mailed[a] + Cardinality(WaitingFor(a)) + Cardinality(At(a, AblePC))
        + Cardinality(Winners(a)) <= 1
  BY <1>2, ChanceSizes DEF Chances, One
<1> QED
  BY <1>1, <1>2, <1>3, ChanceSizes

\* A row that is committed, or marked FAILED, is not marked SENT.
LEMMA SentRowsKept ==
  ASSUME TypeOK, NEW a \in Approvals, NEW b \in Approvals,
         CommitRow(b) \/ MarkRow(b, "failed") \/ UNCHANGED rows
  PROVE  rows'[a]["sent"] = rows[a]["sent"]
<1>1. CASE CommitRow(b)
  BY <1>1 DEF CommitRow, TypeOK, RowCounts
<1>2. CASE MarkRow(b, "failed")
  BY <1>2 DEF MarkRow, TypeOK, RowCounts
<1> QED
  BY <1>1, <1>2

\* Only the last commit of a task writes SENT, and it writes it twice.
LEMMA ToldStep ==
  ASSUME FlowInv, Next, NEW a \in Approvals, Chances(a), Told(a)
  PROVE  Told(a)'
<1> DEFINE M == Cardinality(At(a, MailedPC))
<1>a. /\ TypeOK /\ mailed[a] \in Nat /\ faults[a] \in Nat /\ rows[a]["sent"] \in Nat
      /\ M \in Nat
  BY FS_CardinalityType DEF FlowInv, TypeOK, RowCounts, Told
<1>b. ASSUME UNCHANGED <<wpc, wjob>>  PROVE At(a, MailedPC)' = At(a, MailedPC)
  BY <1>b DEF At
<1>1. CASE UNCHANGED <<status, rows, wpc, wjob, mailed, faults>>
  BY <1>1, <1>b DEF Told
<1>2. ASSUME NEW b \in Approvals, OpenApprovalGate(b)  PROVE Told(a)'
  <2>1. UNCHANGED <<rows, wpc, wjob, mailed, faults>>
    BY <1>2 DEF OpenApprovalGate, workerVars, world
  <2>2. status[b] = "absent" /\ status' = [status EXCEPT ![b] = "pending"]
    BY <1>2 DEF OpenApprovalGate
  <2>3. a = b => mailed[a] = 0
    BY <1>a, <2>2 DEF FlowInv, StatusFollowsDecision, NoMailWithoutApproval
  <2>4. status'[a] = "sent" => status[a] = "sent"
    BY <1>a, <2>2 DEF TypeOK
  <2>5. status[a] = "sent" => status'[a] = "sent"
    BY <1>a, <2>2 DEF TypeOK
  <2> QED
    BY <1>a, <1>b, <2>1, <2>3, <2>4, <2>5 DEF Told
<1>3. ASSUME NEW h \in Handlers, WinDecision(h)  PROVE Told(a)'
  <2>1. UNCHANGED <<rows, wpc, wjob, mailed, faults>>
    BY <1>3 DEF WinDecision, Decide, workerVars, world
  <2>2. hreq[h].appr \in Approvals /\ status[hreq[h].appr] = "pending"
    BY <1>3 DEF WinDecision, Decide, Decisions, FlowInv, WinnersApproved
  <2>3. status'[a] = "sent" <=> status[a] = "sent"
    BY <1>3, <1>a, <2>2 DEF WinDecision, Decide, TypeOK
  <2> QED
    BY <1>a, <1>b, <2>1, <2>3 DEF Told
<1>4. ASSUME NEW w \in Workers, NEW j \in Jobs, Skip(w, j) \/ Start(w, j)
      PROVE  Told(a)'
  <2>1. CASE Skip(w, j)
    BY <1>1, <2>1 DEF Skip, db, workerVars, world
  <2>2. CASE Start(w, j)
    <3>1. "idle" \notin MailedPC /\ "loaded" \notin MailedPC
      BY DEF MailedPC
    <3>2. IsFiniteSet(At(a, MailedPC)') /\ Cardinality(At(a, MailedPC)') = M
      BY <1>a, <2>2, <3>1, WorkerStarts DEF Told, One
    <3>3. UNCHANGED <<status, rows, mailed, faults>>
      BY <2>2 DEF Start, db, world
    <3> QED
      BY <3>2, <3>3 DEF Told
  <2> QED
    BY <1>4, <2>1, <2>2
<1>5. ASSUME NEW w \in Workers, WorkerStep(w) \/ WorkerCrash(w)  PROVE Told(a)'
  <2> DEFINE b == wjob[w].appr
  <2>1. b \in Approvals /\ wpc[w] # "idle"
    BY <1>5 DEF FlowInv, Jobs, WorkerStep, RejectSuppressed, PassGate, NoHealthySender,
         SmtpAccept, SmtpRefuse, SmtpTransient, SmtpLostAck,
         SmtpAcceptedYetRefused, SmtpUnexpected, CommitUsage, CommitSent,
         CommitFailedUsage, CommitFailed, Retry, WorkerCrash
  <2>2. Release(w) \/ \E pc \in WorkerPC : Goto(w, pc)
    BY <1>5 DEF WorkerStep, RejectSuppressed, PassGate, NoHealthySender,
         SmtpAccept, SmtpRefuse, SmtpTransient, SmtpLostAck,
         SmtpAcceptedYetRefused, SmtpUnexpected, NextAttempt, CommitUsage,
         CommitSent, CommitFailedUsage, CommitFailed, Retry, WorkerCrash, WorkerPC
  <2>3. /\ IsFiniteSet(At(a, MailedPC)')
        /\ Cardinality(At(a, MailedPC)') \in Nat
        /\ Cardinality(At(a, MailedPC)')
             = M + One(w \in At(a, MailedPC)') - One(w \in At(a, MailedPC))
    BY <1>a, <2>2, WorkerMoves DEF Told
  <2>4. ASSUME rows'[a]["sent"] = rows[a]["sent"], mailed'[a] >= mailed[a],
               UNCHANGED status, faults'[a] \in Nat, faults'[a] >= faults[a],
               mailed'[a] \in Nat,
               w \in At(a, MailedPC)' => w \in At(a, MailedPC)
        PROVE  Told(a)'
    BY <1>a, <2>3, <2>4 DEF Told, One
  <2>5. CASE RejectSuppressed(w)
    <3>1. UNCHANGED <<rows, mailed, faults>> /\ wpc[w] = "loaded"
          /\ status' = [status EXCEPT ![b] = "rejected"]
      BY <2>5 DEF RejectSuppressed, world
    <3>2. w \notin At(a, MailedPC)' /\ w \notin At(a, MailedPC)
      BY <1>a, <2>5 DEF RejectSuppressed, Release, At, MailedPC, TypeOK
    <3>3. a = b /\ faults[a] = 0 => mailed[a] = 0
      BY <3>1, AbleMeansUnsent DEF At, AblePC
    <3>4. status'[a] = IF a = b THEN "rejected" ELSE status[a]
      BY <1>a, <2>1, <3>1 DEF TypeOK
    <3> QED
      BY <1>a, <2>3, <3>1, <3>2, <3>3, <3>4 DEF Told, One
  <2>6. CASE CommitSent(w)
    <3>1. UNCHANGED <<mailed, faults>> /\ wpc[w] = "counted"
          /\ status' = [status EXCEPT ![b] = "sent"]
          /\ rows' = [rows EXCEPT ![b]["sent"] = @ + 1]
      BY <2>6 DEF CommitSent, MarkRow, world
    <3>2. w \notin At(a, MailedPC)' /\ (w \in At(a, MailedPC) <=> a = b)
      BY <1>a, <2>6 DEF CommitSent, Release, At, MailedPC, TypeOK
    <3>3. status'[a] = IF a = b THEN "sent" ELSE status[a]
      BY <1>a, <2>1, <3>1 DEF TypeOK
    <3>4. rows'[a]["sent"] = rows[a]["sent"] + One(a = b)
      BY <1>a, <2>1, <3>1 DEF TypeOK, RowCounts, One
    <3> QED
      BY <1>a, <2>3, <3>1, <3>2, <3>3, <3>4 DEF Told, One
  <2>7. CASE SmtpAccept(w)
    <3>1. UNCHANGED <<status, rows, faults>> /\ mailed'[a] = mailed[a] + One(a = b)
      BY <1>a, <2>1, <2>7 DEF SmtpAccept, Accept, db, TypeOK, One
    <3>2. w \in At(a, MailedPC)' => a = b
      BY <1>a, <2>7 DEF SmtpAccept, Goto, At, TypeOK
    <3> QED
      BY <1>a, <2>3, <3>1, <3>2 DEF Told, One
  <2>8. CASE SmtpTransient(w) \/ SmtpLostAck(w) \/ SmtpAcceptedYetRefused(w)
             \/ SmtpUnexpected(w)
    <3>1. UNCHANGED status /\ mailed'[a] \in Nat /\ mailed'[a] >= mailed[a]
          /\ faults'[a] \in Nat /\ faults'[a] >= faults[a]
      <4>1. CASE SmtpTransient(w)
        BY <1>a, <4>1 DEF SmtpTransient, db, world
      <4>2. CASE SmtpLostAck(w) \/ SmtpAcceptedYetRefused(w)
        <5>1. mailed' = [mailed EXCEPT ![b] = @ + 1] /\ faults' = [faults EXCEPT ![b] = @ + 1]
              /\ UNCHANGED status
          BY <4>2 DEF SmtpLostAck, SmtpAcceptedYetRefused, Accept, db
        <5> QED
          BY <1>a, <2>1, <5>1 DEF TypeOK
      <4>3. CASE SmtpUnexpected(w)
        <5>1. (mailed' = [mailed EXCEPT ![b] = @ + 1] \/ UNCHANGED mailed)
              /\ UNCHANGED <<status, faults>>
          BY <4>3 DEF SmtpUnexpected, Accept, world, db
        <5> QED
          BY <1>a, <2>1, <5>1 DEF TypeOK
      <4> QED
        BY <2>8, <4>1, <4>2, <4>3
    <3>2. CommitRow(b) \/ UNCHANGED rows
      BY <2>8 DEF SmtpTransient, SmtpLostAck, SmtpAcceptedYetRefused, SmtpUnexpected,
                  NextAttempt
    <3>3. w \in At(a, MailedPC)' => w \in At(a, MailedPC)
      BY <1>a, <2>8
         DEF SmtpTransient, SmtpLostAck, SmtpAcceptedYetRefused, SmtpUnexpected,
             NextAttempt, Goto, Release, At, MailedPC, TypeOK
    <3> QED
      BY <1>a, <2>1, <2>4, <3>1, <3>2, <3>3, SentRowsKept
  <2>9. CASE \/ PassGate(w) \/ NoHealthySender(w) \/ SmtpRefuse(w) \/ CommitUsage(w)
             \/ CommitFailedUsage(w) \/ CommitFailed(w) \/ Retry(w)
    <3>1. UNCHANGED <<status, mailed, faults>>
      BY <2>9 DEF PassGate, NoHealthySender, SmtpRefuse, CommitUsage, CommitFailedUsage,
                  CommitFailed, Retry, db, world
    <3>2. rows'[a]["sent"] = rows[a]["sent"]
      <4>1. CASE NoHealthySender(w)
        <5>1. rows' = [rows EXCEPT ![b] = [rows[b] EXCEPT !["committed"] = @ + 1,
                                                          !["failed"] = @ + 1]]
          BY <1>a, <2>1, <4>1 DEF NoHealthySender, TypeOK
        <5> QED
          BY <1>a, <2>1, <5>1 DEF TypeOK, RowCounts
      <4>2. CASE ~NoHealthySender(w)
        <5>1. CommitRow(b) \/ MarkRow(b, "failed") \/ UNCHANGED rows
          BY <2>9, <4>2 DEF PassGate, SmtpRefuse, CommitUsage, CommitFailedUsage,
                            CommitFailed, Retry
        <5> QED
          BY <1>a, <2>1, <5>1, SentRowsKept
      <4> QED
        BY <4>1, <4>2
    <3>3. w \in At(a, MailedPC)' => w \in At(a, MailedPC)
      BY <1>a, <2>9
         DEF PassGate, NoHealthySender, SmtpRefuse, CommitUsage, CommitFailedUsage,
             CommitFailed, Retry, Goto, Release, At, MailedPC, TypeOK
    <3> QED
      BY <1>a, <2>4, <3>1, <3>2, <3>3
  <2>10. CASE WorkerCrash(w)
    <3>1. UNCHANGED <<status, rows, mailed>> /\ faults'[a] \in Nat /\ faults'[a] >= faults[a]
      <4>1. UNCHANGED <<status, rows, mailed>>
            /\ (faults' = [faults EXCEPT ![b] = @ + 1] \/ UNCHANGED faults)
        BY <2>10 DEF WorkerCrash, db, world
      <4>2. CASE faults' = [faults EXCEPT ![b] = @ + 1]
        BY <1>a, <2>1, <4>1, <4>2 DEF TypeOK
      <4>3. CASE UNCHANGED faults
        BY <1>a, <4>1, <4>3
      <4> QED
        BY <4>1, <4>2, <4>3
    <3>2. w \notin At(a, MailedPC)'
      BY <1>a, <2>10 DEF WorkerCrash, Release, At, MailedPC, TypeOK
    <3> QED
      BY <1>a, <2>4, <3>1, <3>2
  <2> QED
    BY <1>5, <2>5, <2>6, <2>7, <2>8, <2>9, <2>10 DEF WorkerStep
<1>6. ASSUME NEW w \in Workers, Redeliver(w)  PROVE Told(a)'
  <2>1. UNCHANGED <<status, rows, wpc, wjob, mailed>>
    BY <1>6 DEF Redeliver, db, workerVars, world
  <2>2. faults'[a] \in Nat /\ faults'[a] >= faults[a]
    BY <1>6, <1>a DEF Redeliver, FlowInv, Jobs, TypeOK
  <2> QED
    BY <1>a, <1>b, <2>1, <2>2 DEF Told
<1>7. ASSUME NEW b \in Approvals, Suppress(b) \/ Unsuppress(b)
      PROVE  UNCHANGED <<status, rows, wpc, wjob, mailed, faults>>
  BY <1>7 DEF Suppress, Unsuppress, db, workerVars, world
<1>8. ASSUME NEW h \in Handlers,
             \/ LoseDecision(h) \/ EnqueueSend(h) \/ HandlerCrash(h)
             \/ \E d \in Decisions : LoadApproval(h, d)
      PROVE  UNCHANGED <<status, rows, wpc, wjob, mailed, faults>>
  BY <1>8 DEF LoseDecision, EnqueueSend, HandlerCrash, LoadApproval, db, workerVars, world
<1> QED
  BY <1>1, <1>2, <1>3, <1>4, <1>5, <1>6, <1>7, <1>8 DEF Next, HandlerStep, Take

\* A row of such a worker is committed and still to be marked.
HalfPC == {"counted", "marking"}

\* The failed attempts of the SMTP calls under way for a, numbered.
RunningPC == WorkerPC \ {"idle"}
Tries(a) == Copies(watt, At(a, RunningPC))

\* Every row in DRAFT belongs to a worker about to mark it, to a crash or an error
\* nobody caught, or to one of e calls that used up their attempts; those e and the calls under way
\* have failed as often as the network did.
Leftovers(a) ==
  /\ IsFiniteSet(At(a, HalfPC)) /\ IsFiniteSet(Tries(a))
  /\ \E e \in Nat :
       /\ DraftRows(a) <= Cardinality(At(a, HalfPC))
                          + (Spent("workerCrash") + Spent("unexpected")) + e
       /\ MaxAttempts * e + Cardinality(Tries(a)) <= Spent("transient") + Spent("lostAck")

\* An idle worker has no call under way.
IdleIsFresh == \A w \in Workers : wpc[w] = "idle" => watt[w] = 0

\* Whoever stops a task forgets its attempts.
LEMMA IdleStep ==
  ASSUME FlowInv, Next, IdleIsFresh
  PROVE  IdleIsFresh'
<1> USE DEF IdleIsFresh
<1>a. TypeOK
  BY DEF FlowInv
<1>1. CASE UNCHANGED <<wpc, watt>>
  BY <1>1
<1>2. ASSUME NEW w \in Workers, NEW j \in Jobs, Start(w, j)  PROVE IdleIsFresh'
  BY <1>a, <1>2 DEF Start, TypeOK
<1>3. ASSUME NEW w \in Workers, Release(w)  PROVE IdleIsFresh'
  BY <1>a, <1>3 DEF Release, TypeOK
<1>4. ASSUME NEW w \in Workers, NEW pc \in RunningPC, Goto(w, pc),
             \A v \in Workers \ {w} : watt'[v] = watt[v]
      PROVE  IdleIsFresh'
  BY <1>a, <1>4 DEF Goto, TypeOK, RunningPC
<1>5. ASSUME NEW w \in Workers, WorkerStep(w)
      PROVE  \/ Release(w)
             \/ \E pc \in RunningPC : Goto(w, pc) /\ \A v \in Workers \ {w} : watt'[v] = watt[v]
  BY <1>a, <1>5
     DEF TypeOK, WorkerStep, RejectSuppressed, PassGate, NoHealthySender,
         SmtpAccept, SmtpRefuse, SmtpTransient, SmtpLostAck,
         SmtpAcceptedYetRefused, SmtpUnexpected, NextAttempt, CommitUsage,
         CommitSent, CommitFailedUsage, CommitFailed, Retry, RunningPC, WorkerPC
<1> QED
  BY <1>1, <1>2, <1>3, <1>4, <1>5
     DEF Next, HandlerStep, Take, OpenApprovalGate, Suppress, Unsuppress, LoadApproval,
         WinDecision, Decide, LoseDecision, EnqueueSend, HandlerCrash, Skip, WorkerCrash,
         Redeliver, workerVars

\* One more failed attempt of a call that goes on.
LEMMA TriesAgain ==
  ASSUME TypeOK, NEW w \in Workers, wpc[w] = "gated", wjob[w] \in Jobs,
         watt[w] + 1 < MaxAttempts, NextAttempt(w), NEW a \in Approvals, IsFiniteSet(Tries(a))
  PROVE  /\ IsFiniteSet(Tries(a)') /\ Cardinality(Tries(a)) \in Nat
         /\ Cardinality(Tries(a)') \in Nat
         /\ Cardinality(Tries(a)') = Cardinality(Tries(a)) + One(wjob[w].appr = a)
<1> DEFINE S == At(a, RunningPC)
<1>1. /\ watt \in [Workers -> Nat] /\ watt' \in [Workers -> Nat]
      /\ watt'[w] = watt[w] + 1 /\ \A v \in Workers \ {w} : watt'[v] = watt[v]
  <2>1. watt' = [watt EXCEPT ![w] = @ + 1]
    BY DEF NextAttempt
  <2>2. watt \in [Workers -> Nat]
    BY ApprovalFlowAssumption DEF TypeOK, ApprovalFlowAssumption
  <2> QED
    BY <2>1, <2>2
<1>2. At(a, RunningPC)' = S /\ S \in SUBSET Workers /\ (w \in S <=> wjob[w].appr = a)
  BY DEF NextAttempt, Goto, At, RunningPC, WorkerPC, TypeOK
<1>3. Tries(a) = Copies(watt, S) /\ Tries(a)' = Copies(watt', S)
  BY <1>2 DEF Tries, Copies
<1> HIDE DEF S
<1>4. /\ IsFiniteSet(Copies(watt', S))
      /\ Cardinality(Copies(watt, S)) \in Nat /\ Cardinality(Copies(watt', S)) \in Nat
      /\ Cardinality(Copies(watt', S)) = Cardinality(Copies(watt, S)) + One(w \in S)
  BY <1>1, <1>2, <1>3, CopiesUp
<1> QED
  BY <1>2, <1>3, <1>4 DEF One

\* A task that ends takes the attempts of its call with it.
LEMMA TriesEnd ==
  ASSUME TypeOK, NEW w \in Workers, wpc[w] # "idle", Release(w),
         NEW a \in Approvals, IsFiniteSet(Tries(a))
  PROVE  /\ IsFiniteSet(Tries(a)') /\ Cardinality(Tries(a)) \in Nat
         /\ Cardinality(Tries(a)') \in Nat /\ watt[w] \in Nat
         /\ Cardinality(Tries(a)')
              = Cardinality(Tries(a)) - (IF wjob[w].appr = a THEN watt[w] ELSE 0)
<1> DEFINE S == At(a, RunningPC)
<1>1. /\ watt \in [Workers -> Nat] /\ watt' \in [Workers -> Nat]
      /\ \A v \in Workers \ {w} : watt'[v] = watt[v]
  BY DEF Release, TypeOK
<1>2. /\ At(a, RunningPC)' = S \ {w} /\ S \in SUBSET Workers
      /\ w \in S <=> wjob[w].appr = a
  BY DEF Release, At, RunningPC, WorkerPC, TypeOK
<1>3. Tries(a) = Copies(watt, S) /\ Tries(a)' = Copies(watt', S \ {w})
  BY <1>2 DEF Tries, Copies
<1> HIDE DEF S
<1>4. CASE wjob[w].appr = a
  <2>1. /\ IsFiniteSet(Copies(watt', S \ {w}))
        /\ Cardinality(Copies(watt, S)) \in Nat /\ Cardinality(Copies(watt', S \ {w})) \in Nat
        /\ Cardinality(Copies(watt', S \ {w})) = Cardinality(Copies(watt, S)) - watt[w]
    BY <1>1, <1>2, <1>3, <1>4, CopiesLeave
  <2> QED
    BY <1>1, <1>3, <1>4, <2>1
<1>5. CASE wjob[w].appr # a
  <2>1. S \ {w} = S /\ \A v \in S : watt'[v] = watt[v]
    BY <1>1, <1>2, <1>5
  <2>2. Copies(watt', S \ {w}) = Copies(watt, S)
    BY <2>1 DEF Copies
  <2> QED
    BY <1>1, <1>3, <1>5, <2>2, FS_CardinalityType
<1> QED
  BY <1>4, <1>5

\* What a step does to the rows of a that are neither SENT nor FAILED.
LEMMA DraftRowsChange ==
  ASSUME TypeOK, NEW a \in Approvals, NEW b \in Approvals
  PROVE  /\ DraftRows(a) \in Int
         /\ CommitRow(b) => DraftRows(a)' = DraftRows(a) + One(a = b)
         /\ \A s \in {"sent", "failed"} :
              MarkRow(b, s) => DraftRows(a)' = DraftRows(a) - One(a = b)
         /\ UNCHANGED rows => DraftRows(a)' = DraftRows(a)
<1>1. /\ rows[a]["committed"] \in Nat /\ rows[a]["sent"] \in Nat /\ rows[a]["failed"] \in Nat
      /\ rows[b]["committed"] \in Nat /\ rows[b]["sent"] \in Nat /\ rows[b]["failed"] \in Nat
  BY DEF TypeOK, RowCounts
<1>2. ASSUME CommitRow(b)  PROVE DraftRows(a)' = DraftRows(a) + One(a = b)
  <2>1. rows' = [rows EXCEPT ![b] = [rows[b] EXCEPT !["committed"] = @ + 1]]
    BY <1>2 DEF CommitRow, TypeOK
  <2> QED
    BY <1>1, <2>1 DEF TypeOK, RowCounts, DraftRows, One
<1>3. ASSUME NEW s \in {"sent", "failed"}, MarkRow(b, s)
      PROVE  DraftRows(a)' = DraftRows(a) - One(a = b)
  <2>1. rows' = [rows EXCEPT ![b] = [rows[b] EXCEPT ![s] = @ + 1]]
    BY <1>3 DEF MarkRow, TypeOK
  <2> QED
    BY <1>1, <2>1 DEF TypeOK, RowCounts, DraftRows, One
<1>4. ASSUME UNCHANGED rows  PROVE DraftRows(a)' = DraftRows(a)
  BY <1>4 DEF DraftRows
<1> QED
  BY <1>1, <1>2, <1>3, <1>4 DEF DraftRows

\* A fault that is spent is counted, and no other.
LEMMA SpentCounts ==
  ASSUME budget \in [FaultKinds -> Nat], NEW k \in FaultKinds
  PROVE  /\ Spent(k) \in Int
         /\ UNCHANGED budget => Spent(k)' = Spent(k)
         /\ \A f \in FaultKinds : Spend(f) => Spent(k)' = Spent(k) + One(f = k)
<1>1. budget[k] \in Nat /\ Budget[k] \in Nat
  BY ApprovalFlowAssumption DEF ApprovalFlowAssumption
<1>2. ASSUME NEW f \in FaultKinds, Spend(f)  PROVE budget'[k] = budget[k] - One(f = k)
  BY <1>1, <1>2 DEF Spend, One
<1>3. \A f \in FaultKinds : One(f = k) \in Int
  BY DEF One
<1> QED
  BY <1>1, <1>2, <1>3 DEF Spent

\* Every row that is committed unmarked finds a cause, every cause is counted.
LEMMA LeftStep ==
  ASSUME FlowInv, IdleIsFresh, Next, NEW a \in Approvals, Leftovers(a)
  PROVE  Leftovers(a)'
<1> DEFINE C == Cardinality(At(a, HalfPC))
           T == Cardinality(Tries(a))
           crash == Spent("workerCrash") + Spent("unexpected")
           net == Spent("transient") + Spent("lostAck")
<1>a. TypeOK
  BY DEF FlowInv
<1>b. C \in Nat /\ T \in Nat /\ crash \in Int /\ net \in Int /\ DraftRows(a) \in Int
      /\ MaxAttempts \in Nat /\ budget \in [FaultKinds -> Nat]
  <2>1. C \in Nat /\ T \in Nat
    BY FS_CardinalityType DEF Leftovers
  <2>2. MaxAttempts \in Nat /\ budget \in [FaultKinds -> Nat]
    BY <1>a, ApprovalFlowAssumption DEF TypeOK, ApprovalFlowAssumption
  <2>3. /\ Spent("workerCrash") \in Int /\ Spent("unexpected") \in Int
        /\ Spent("transient") \in Int /\ Spent("lostAck") \in Int
    BY <2>2, SpentCounts DEF FaultKinds
  <2> QED
    BY <1>a, <2>1, <2>2, <2>3, DraftRowsChange
<1>c. PICK e \in Nat : DraftRows(a) <= C + crash + e /\ MaxAttempts * e + T <= net
  BY DEF Leftovers
<1>d. MaxAttempts * e \in Nat /\ MaxAttempts * (e + 1) = MaxAttempts * e + MaxAttempts
  BY <1>b
<1>e. \* enough of the bookkeeping
      ASSUME IsFiniteSet(At(a, HalfPC)'), IsFiniteSet(Tries(a)'), NEW n \in Nat,
             DraftRows(a)' <= C' + crash' + n, MaxAttempts * n + T' <= net'
      PROVE  Leftovers(a)'
  BY <1>e DEF Leftovers
<1> HIDE DEF C, T, crash, net
<1>1. ASSUME UNCHANGED <<rows, wpc, wjob, watt>>,
             \/ UNCHANGED budget
             \/ \E f \in {"webCrash", "redelivery", "suppression"} : Spend(f)
      PROVE  Leftovers(a)'
  <2>1. At(a, HalfPC)' = At(a, HalfPC) /\ Tries(a)' = Tries(a) /\ DraftRows(a)' = DraftRows(a)
    BY <1>1 DEF At, Tries, Copies, DraftRows
  <2>2. crash' = crash /\ net' = net
    BY <1>1, <1>b, SpentCounts DEF FaultKinds, One, crash, net
  <2>3. C' = C /\ T' = T /\ IsFiniteSet(At(a, HalfPC)') /\ IsFiniteSet(Tries(a)')
    BY <2>1 DEF C, T, Leftovers
  <2> QED
    BY <1>c, <1>e, <2>1, <2>2, <2>3
<1>2. ASSUME NEW w \in Workers, NEW j \in Jobs, Start(w, j)  PROVE Leftovers(a)'
  <2>1. IsFiniteSet(At(a, HalfPC)') /\ C' = C
    <3>1. "idle" \notin HalfPC /\ "loaded" \notin HalfPC
      BY DEF HalfPC
    <3> QED
      BY <1>a, <1>b, <1>2, <3>1, WorkerStarts DEF C, Leftovers, One
  <2>2. Tries(a)' = Tries(a)
    <3>1. watt' = watt /\ watt[w] = 0
      BY <1>2 DEF Start, IdleIsFresh
    <3>2. At(a, RunningPC) \ {w} = At(a, RunningPC)' \ {w}
      BY <1>a, <1>2 DEF At, Start, TypeOK
    <3>3. 1..watt[w] = {}
      BY <3>1
    <3>4. ASSUME NEW S  PROVE Copies(watt, S) = Copies(watt, S \ {w})
      BY <3>3 DEF Copies
    <3> QED
      BY <3>1, <3>2, <3>4 DEF Tries, Copies
  <2>3. UNCHANGED <<rows, budget>>
    BY <1>2 DEF Start
  <2>4. DraftRows(a)' = DraftRows(a) /\ crash' = crash /\ net' = net /\ T' = T
        /\ IsFiniteSet(Tries(a)')
    BY <2>2, <2>3 DEF DraftRows, crash, net, T, Spent, Leftovers
  <2> QED
    BY <1>c, <1>e, <2>1, <2>4
<1>3. ASSUME NEW w \in Workers, WorkerStep(w) \/ WorkerCrash(w)  PROVE Leftovers(a)'
  <2> DEFINE b == wjob[w].appr
  <2>1. b \in Approvals /\ wpc[w] # "idle" /\ wjob[w] \in Jobs
    BY <1>3 DEF FlowInv, Jobs, WorkerStep, RejectSuppressed, PassGate, NoHealthySender,
         SmtpAccept, SmtpRefuse, SmtpTransient, SmtpLostAck,
         SmtpAcceptedYetRefused, SmtpUnexpected, CommitUsage, CommitSent,
         CommitFailedUsage, CommitFailed, Retry, WorkerCrash
  <2>2. Release(w) \/ \E pc \in WorkerPC : Goto(w, pc)
    BY <1>3 DEF WorkerStep, RejectSuppressed, PassGate, NoHealthySender,
         SmtpAccept, SmtpRefuse, SmtpTransient, SmtpLostAck,
         SmtpAcceptedYetRefused, SmtpUnexpected, NextAttempt, CommitUsage,
         CommitSent, CommitFailedUsage, CommitFailed, Retry, WorkerCrash, WorkerPC
  <2>3. /\ IsFiniteSet(At(a, HalfPC)') /\ C' \in Nat
        /\ C' = C + One(w \in At(a, HalfPC)') - One(w \in At(a, HalfPC))
    BY <1>a, <2>2, WorkerMoves DEF C, Leftovers
  <2>4. ASSUME Release(w)
        PROVE  /\ IsFiniteSet(Tries(a)') /\ T' \in Nat
               /\ T' = T - (IF b = a THEN watt[w] ELSE 0) /\ watt[w] \in Nat
    BY <1>a, <2>1, <2>4, TriesEnd DEF T, Leftovers
  <2>5. ASSUME NEW pc \in RunningPC, Goto(w, pc), UNCHANGED watt
        PROVE  IsFiniteSet(Tries(a)') /\ T' \in Nat /\ T' = T
    <3>1. At(a, RunningPC)' = At(a, RunningPC)
      BY <1>a, <2>1, <2>5 DEF At, Goto, RunningPC, TypeOK
    <3>2. Tries(a)' = Tries(a)
      BY <2>5, <3>1 DEF Tries, Copies
    <3> QED
      BY <1>b, <3>2 DEF T, Leftovers
  <2>6. \* a step that leaves the calls alone, or ends one
        ASSUME IsFiniteSet(Tries(a)'), T' \in Nat, T' <= T, net' = net, crash' \in Int,
               DraftRows(a)' \in Int, DraftRows(a)' - C' - crash' <= DraftRows(a) - C - crash
        PROVE  Leftovers(a)'
    <3>1. DraftRows(a)' <= C' + crash' + e
      BY <1>b, <1>c, <2>3, <2>6
    <3>2. MaxAttempts * e + T' <= net'
      <4> DEFINE k == MaxAttempts * e
      <4>1. k \in Nat /\ k + T <= net
        BY <1>c, <1>d
      <4> HIDE DEF k
      <4>2. k \in Int /\ T \in Int /\ T' \in Int /\ net \in Int
        BY <1>b, <2>6, <4>1
      <4>3. T' <= T
        BY <2>6
      <4>4. \A m, t, u, n \in Int : m + t <= n /\ u <= t => m + u <= n
        OBVIOUS
      <4>5. k + T' <= net
        BY <4>1, <4>2, <4>3, <4>4
      <4> QED
        BY <2>6, <4>5 DEF k
    <3> QED
      BY <1>e, <2>3, <2>6, <3>1, <3>2
  <2>7. CASE RejectSuppressed(w) \/ PassGate(w) \/ SmtpAccept(w) \/ SmtpRefuse(w) \/ Retry(w)
             \/ NoHealthySender(w) \/ SmtpAcceptedYetRefused(w)
    <3>1. DraftRows(a)' = DraftRows(a)
      <4>1. CASE NoHealthySender(w)
        <5>1. rows' = [rows EXCEPT ![b] = [rows[b] EXCEPT !["committed"] = @ + 1,
                                                          !["failed"] = @ + 1]]
          BY <1>a, <2>1, <4>1 DEF NoHealthySender, TypeOK
        <5>2. rows[b] \in [RowCounts -> Nat]
          BY <1>a, <2>1 DEF TypeOK
        <5>3. /\ rows'[b]["committed"] = rows[b]["committed"] + 1
              /\ rows'[b]["failed"] = rows[b]["failed"] + 1
              /\ rows'[b]["sent"] = rows[b]["sent"]
          BY <1>a, <2>1, <5>1, <5>2 DEF TypeOK, RowCounts
        <5>4. a # b => rows'[a] = rows[a]
          BY <1>a, <5>1 DEF TypeOK
        <5> QED
          BY <5>2, <5>3, <5>4 DEF DraftRows, RowCounts
      <4>2. CASE ~NoHealthySender(w)
        <5>1. UNCHANGED rows
          BY <2>7, <4>2 DEF RejectSuppressed, PassGate, SmtpAccept, SmtpRefuse, Retry,
                            SmtpAcceptedYetRefused
        <5> QED
          BY <5>1 DEF DraftRows
      <4> QED
        BY <4>1, <4>2
    <3>2. crash' = crash /\ net' = net
      <4>1. \/ UNCHANGED budget
            \/ \E f \in {"refusal", "unanswered", "noHealthySender"} : Spend(f)
        BY <2>7 DEF RejectSuppressed, PassGate, SmtpAccept, SmtpRefuse, Retry, NoHealthySender,
                    SmtpAcceptedYetRefused
      <4> QED
        BY <1>b, <4>1, SpentCounts DEF FaultKinds, One, crash, net
    <3>3. w \notin At(a, HalfPC)' /\ w \notin At(a, HalfPC)
      BY <1>a, <2>7
         DEF RejectSuppressed, PassGate, SmtpAccept, SmtpRefuse, Retry, NoHealthySender,
             SmtpAcceptedYetRefused, Goto, Release, At, HalfPC, TypeOK
    <3>4. Release(w) \/ (UNCHANGED watt /\ \E pc \in RunningPC : Goto(w, pc))
      BY <2>7 DEF RejectSuppressed, PassGate, SmtpAccept, SmtpRefuse, Retry, NoHealthySender,
                  SmtpAcceptedYetRefused, RunningPC, WorkerPC
    <3>5. IsFiniteSet(Tries(a)') /\ T' \in Nat /\ T' <= T
      BY <1>b, <2>4, <2>5, <3>4
    <3> QED
      BY <1>b, <2>3, <2>6, <3>1, <3>2, <3>3, <3>5 DEF One
  <2>8. CASE CommitUsage(w) \/ CommitFailedUsage(w)
    <3>1. DraftRows(a)' = DraftRows(a) + One(a = b)
      BY <1>a, <2>1, <2>8, DraftRowsChange DEF CommitUsage, CommitFailedUsage
    <3>2. crash' = crash /\ net' = net
      BY <2>8 DEF CommitUsage, CommitFailedUsage, crash, net, Spent
    <3>3. w \notin At(a, HalfPC) /\ (w \in At(a, HalfPC)' <=> a = b)
      BY <1>a, <2>8 DEF CommitUsage, CommitFailedUsage, Goto, At, HalfPC, TypeOK
    <3>4. IsFiniteSet(Tries(a)') /\ T' \in Nat /\ T' = T
      BY <2>5, <2>8 DEF CommitUsage, CommitFailedUsage, RunningPC, WorkerPC
    <3> QED
      BY <1>b, <2>3, <2>6, <3>1, <3>2, <3>3, <3>4 DEF One
  <2>9. CASE CommitSent(w) \/ CommitFailed(w)
    <3>1. DraftRows(a)' = DraftRows(a) - One(a = b)
      BY <1>a, <2>1, <2>9, DraftRowsChange DEF CommitSent, CommitFailed
    <3>2. crash' = crash /\ net' = net
      BY <2>9 DEF CommitSent, CommitFailed, crash, net, Spent
    <3>3. w \notin At(a, HalfPC)' /\ (w \in At(a, HalfPC) <=> a = b)
      BY <1>a, <2>9 DEF CommitSent, CommitFailed, Goto, Release, At, HalfPC, TypeOK
    <3>4. Release(w) \/ (UNCHANGED watt /\ Goto(w, "retrying"))
      BY <2>9 DEF CommitSent, CommitFailed
    <3>5. IsFiniteSet(Tries(a)') /\ T' \in Nat /\ T' <= T
      BY <1>b, <2>4, <2>5, <3>4 DEF RunningPC, WorkerPC
    <3> QED
      BY <1>b, <2>3, <2>6, <3>1, <3>2, <3>3, <3>5 DEF One
  <2>10. CASE SmtpTransient(w) \/ SmtpLostAck(w)
    <3>1. NextAttempt(w) /\ wpc[w] = "gated" /\ (Spend("transient") \/ Spend("lostAck"))
      BY <2>10 DEF SmtpTransient, SmtpLostAck
    <3>2. crash' = crash /\ net' = net + 1
      BY <1>b, <3>1, SpentCounts DEF FaultKinds, One, crash, net
    <3>3. w \notin At(a, HalfPC)' /\ w \notin At(a, HalfPC)
      BY <1>a, <3>1 DEF NextAttempt, Goto, Release, At, HalfPC, TypeOK
    <3>4. C' = C
      BY <1>b, <2>3, <3>3 DEF One
    <3>5. CASE watt[w] + 1 < MaxAttempts
      <4>1. IsFiniteSet(Tries(a)') /\ T' \in Nat /\ T' = T + One(b = a)
        BY <1>a, <2>1, <3>1, <3>5, TriesAgain DEF T, Leftovers
      <4>2. DraftRows(a)' = DraftRows(a)
        BY <3>1, <3>5 DEF NextAttempt, DraftRows
      <4>3. MaxAttempts * e + T' <= net'
        BY <1>b, <1>c, <1>d, <3>2, <4>1 DEF One
      <4> QED
        BY <1>c, <1>e, <2>3, <3>2, <3>4, <4>1, <4>2, <4>3
    <3>6. CASE ~(watt[w] + 1 < MaxAttempts)
      <4>1. CommitRow(b) /\ Release(w)
        BY <3>1, <3>6 DEF NextAttempt
      <4>2. DraftRows(a)' = DraftRows(a) + One(a = b)
        BY <1>a, <2>1, <4>1, DraftRowsChange
      <4>3. /\ IsFiniteSet(Tries(a)') /\ T' \in Nat
            /\ T' = T - (IF b = a THEN watt[w] ELSE 0) /\ watt[w] \in Nat
        BY <2>4, <4>1
      <4>4. CASE a = b
        <5>1. MaxAttempts * (e + 1) + T' <= net'
          BY <1>b, <1>c, <1>d, <3>2, <3>6, <4>3, <4>4
        <5>2. DraftRows(a)' <= C' + crash' + (e + 1)
          BY <1>b, <1>c, <3>2, <3>4, <4>2, <4>4 DEF One
        <5> QED
          BY <1>e, <2>3, <4>3, <5>1, <5>2
      <4>5. CASE a # b
        <5>1. MaxAttempts * e + T' <= net'
          BY <1>b, <1>c, <1>d, <3>2, <4>3, <4>5
        <5>2. DraftRows(a)' <= C' + crash' + e
          BY <1>b, <1>c, <3>2, <3>4, <4>2, <4>5 DEF One
        <5> QED
          BY <1>e, <2>3, <4>3, <5>1, <5>2
      <4> QED
        BY <4>4, <4>5
    <3> QED
      BY <3>5, <3>6
  <2>11. CASE WorkerCrash(w)
    <3>1. Spend("workerCrash") /\ Release(w) /\ UNCHANGED rows
      BY <2>11 DEF WorkerCrash
    <3>2. crash' = crash + 1 /\ net' = net /\ DraftRows(a)' = DraftRows(a)
      BY <1>b, <3>1, SpentCounts DEF FaultKinds, One, crash, net, DraftRows
    <3>3. IsFiniteSet(Tries(a)') /\ T' \in Nat /\ T' <= T
      BY <1>b, <2>4, <3>1
    <3> QED
      BY <1>b, <2>3, <2>6, <3>2, <3>3 DEF One
  <2>12. CASE SmtpUnexpected(w)
    <3>1. Spend("unexpected") /\ Release(w) /\ CommitRow(b) /\ wpc[w] = "gated"
      BY <2>12 DEF SmtpUnexpected
    <3>2. crash' = crash + 1 /\ net' = net
      BY <1>b, <3>1, SpentCounts DEF FaultKinds, One, crash, net
    <3>3. DraftRows(a)' = DraftRows(a) + One(a = b)
      BY <1>a, <2>1, <3>1, DraftRowsChange
    <3>4. w \notin At(a, HalfPC)' /\ w \notin At(a, HalfPC)
      BY <1>a, <3>1 DEF Release, At, HalfPC, TypeOK
    <3>5. IsFiniteSet(Tries(a)') /\ T' \in Nat /\ T' <= T
      BY <1>b, <2>4, <3>1
    <3> QED
      BY <1>b, <2>3, <2>6, <3>2, <3>3, <3>4, <3>5 DEF One
  <2> QED
    BY <1>3, <2>7, <2>8, <2>9, <2>10, <2>11, <2>12 DEF WorkerStep
<1>4. ASSUME NEW w \in Workers, NEW j \in Jobs, Skip(w, j)
      PROVE  UNCHANGED <<rows, wpc, wjob, watt, budget>>
  BY <1>4 DEF Skip, workerVars
<1>5. ASSUME NEW w \in Workers, Redeliver(w)
      PROVE  UNCHANGED <<rows, wpc, wjob, watt>> /\ Spend("redelivery")
  BY <1>5 DEF Redeliver, workerVars
<1>6. ASSUME NEW b \in Approvals, OpenApprovalGate(b) \/ Suppress(b) \/ Unsuppress(b)
      PROVE  UNCHANGED <<rows, wpc, wjob, watt>> /\ (UNCHANGED budget \/ Spend("suppression"))
  BY <1>6 DEF OpenApprovalGate, Suppress, Unsuppress, workerVars
<1>7. ASSUME NEW h \in Handlers,
             \/ WinDecision(h) \/ LoseDecision(h) \/ EnqueueSend(h) \/ HandlerCrash(h)
             \/ \E d \in Decisions : LoadApproval(h, d)
      PROVE  UNCHANGED <<rows, wpc, wjob, watt>> /\ (UNCHANGED budget \/ Spend("webCrash"))
  BY <1>7 DEF WinDecision, Decide, LoseDecision, EnqueueSend, HandlerCrash, LoadApproval,
              workerVars
<1> QED
  BY <1>1, <1>2, <1>3, <1>4, <1>5, <1>6, <1>7 DEF Next, HandlerStep, Take

\* The invariant of the counts: FlowInv, and the three accounts of each request.
CountInv ==
  /\ FlowInv
  /\ IdleIsFresh
  /\ \A a \in Approvals : Chances(a) /\ Told(a) /\ Leftovers(a)

\* Nothing waits and nobody works at the start.
LEMMA InitCounts == Init => CountInv
<1> SUFFICES ASSUME Init  PROVE CountInv
  OBVIOUS
<1>1. FlowInv
  BY InitFlowInv
<1>2. IdleIsFresh
  BY DEF Init, IdleIsFresh
<1>3. ASSUME NEW a \in Approvals  PROVE Chances(a) /\ Told(a) /\ Leftovers(a)
  <2>1. \A pcs : "idle" \notin pcs => At(a, pcs) = {}
    BY DEF Init, At
  <2>2. Winners(a) = {}
    BY DEF Init, Winners
  <2>3. \A j \in Jobs : 1..ready[j] = {}
    BY DEF Init
  <2>4. WaitingFor(a) = {}
    BY <2>3 DEF WaitingFor, Copies
  <2>5. At(a, AblePC) = {} /\ At(a, MailedPC) = {} /\ At(a, HalfPC) = {}
        /\ At(a, RunningPC) = {}
    BY <2>1 DEF AblePC, MailedPC, HalfPC, RunningPC
  <2>6. Tries(a) = {}
    BY <2>5 DEF Tries, Copies
  <2>7. IsFiniteSet({}) /\ Cardinality({}) = 0
    BY FS_EmptySet
  <2>8. Chances(a)
    BY <2>2, <2>4, <2>5, <2>7 DEF Init, Chances, One
  <2>9. Told(a)
    BY <2>5, <2>7 DEF Init, Told, RowCounts
  <2>10. Leftovers(a)
    <3>1. DraftRows(a) = 0
      BY DEF Init, DraftRows, RowCounts
    <3>2. \A k \in FaultKinds : Spent(k) = 0
      BY ApprovalFlowAssumption DEF Init, Spent, ApprovalFlowAssumption
    <3>3. MaxAttempts * 0 = 0
      BY ApprovalFlowAssumption DEF ApprovalFlowAssumption
    <3>4. /\ Spent("workerCrash") = 0 /\ Spent("unexpected") = 0
          /\ Spent("transient") = 0 /\ Spent("lostAck") = 0
      BY <3>2 DEF FaultKinds
    <3>5. DraftRows(a) <= Cardinality(At(a, HalfPC))
                          + (Spent("workerCrash") + Spent("unexpected")) + 0
          /\ MaxAttempts * 0 + Cardinality(Tries(a)) <= Spent("transient") + Spent("lostAck")
      BY <2>5, <2>6, <2>7, <3>1, <3>3, <3>4
    <3> QED
      BY <2>5, <2>6, <2>7, <3>5 DEF Leftovers
  <2> QED
    BY <2>8, <2>9, <2>10
<1> QED
  BY <1>1, <1>2, <1>3 DEF CountInv

\* CountInv holds in every reachable state.
THEOREM CountInvariant == Spec => []CountInv
<1>1. ASSUME CountInv, [Next]_vars  PROVE CountInv'
  <2>1. FlowInv'
    BY <1>1, NextFlowInv DEF CountInv
  <2>2. CASE Next
    <3>1. ASSUME NEW a \in Approvals  PROVE Chances(a)' /\ Told(a)' /\ Leftovers(a)'
      BY <1>1, <2>2, ChanceStep, ToldStep, LeftStep DEF CountInv
    <3>2. IdleIsFresh'
      BY <1>1, <2>2, IdleStep DEF CountInv
    <3> QED
      BY <2>1, <3>1, <3>2 DEF CountInv
  <2>3. CASE UNCHANGED vars
    <3>1. ASSUME NEW a \in Approvals
          PROVE  /\ \A pcs : At(a, pcs)' = At(a, pcs)
                 /\ UNCHANGED <<WaitingFor(a), Winners(a), Tries(a), DraftRows(a)>>
      BY <2>3 DEF vars, At, WaitingFor, Winners, Tries, Copies, DraftRows
    <3>2. \A k : Spent(k)' = Spent(k)
      BY <2>3 DEF vars, Spent
    <3>3. ASSUME NEW a \in Approvals  PROVE Chances(a)' /\ Told(a)' /\ Leftovers(a)'
      <4>1. Chances(a) /\ Told(a) /\ Leftovers(a)
        BY <1>1 DEF CountInv
      <4>2. Chances(a)' /\ Told(a)'
        BY <2>3, <3>1, <4>1 DEF vars, Chances, Told
      <4>3. Leftovers(a)'
        BY <3>1, <3>2, <4>1 DEF Leftovers
      <4> QED
        BY <4>2, <4>3
    <3>4. IdleIsFresh'
      BY <1>1, <2>3 DEF CountInv, IdleIsFresh, vars
    <3> QED
      BY <2>1, <3>3, <3>4 DEF CountInv
  <2> QED
    BY <1>1, <2>2, <2>3
<1>2. CountInv /\ [Next]_vars => CountInv'
  BY <1>1
<1> QED
  BY <1>2, InitCounts, PTL DEF Spec

\* Retries alone never mail a prospect twice, whatever the number of workers
\* and retries: each email beyond the first has its redelivery, crash or lost
\* SMTP answer.
THEOREM RetriesNeverDuplicate == Spec => []DuplicatesNeedAFault
<1>1. ASSUME CountInv  PROVE DuplicatesNeedAFault
  <2> SUFFICES ASSUME NEW a \in Approvals  PROVE mailed[a] <= 1 + faults[a]
    BY DEF DuplicatesNeedAFault
  <2>1. mailed[a] \in Nat /\ faults[a] \in Nat
    BY <1>1 DEF CountInv, FlowInv, TypeOK
  <2>2. Chances(a)
    BY <1>1 DEF CountInv
  <2> QED
    BY <2>1, <2>2, ChanceSizes DEF Chances, One
<1> QED
  BY <1>1, CountInvariant, PTL

\* No request and no message row reads SENT for an email nobody accepted.
THEOREM SentHasAnEmail == Spec => []SentIsBacked
<1>1. ASSUME CountInv  PROVE SentIsBacked
  <2> SUFFICES ASSUME NEW a \in Approvals
               PROVE  /\ status[a] = "sent" => rows[a]["sent"] > 0
                      /\ rows[a]["sent"] <= mailed[a]
    BY DEF SentIsBacked
  <2>1. mailed[a] \in Nat /\ rows[a]["sent"] \in Nat
    BY <1>1 DEF CountInv, FlowInv, TypeOK, RowCounts
  <2>2. Told(a)
    BY <1>1 DEF CountInv
  <2>3. Cardinality(At(a, MailedPC)) \in Nat
    BY <2>2, FS_CardinalityType DEF Told
  <2> QED
    BY <2>1, <2>2, <2>3 DEF Told
<1> QED
  BY <1>1, CountInvariant, PTL

\* As long as nothing duplicated its task, a request and its message rows tell
\* the same story.
THEOREM RequestAndRowsAgree == Spec => []RecordsAgree
<1>1. ASSUME CountInv  PROVE RecordsAgree
  <2> SUFFICES ASSUME NEW a \in Approvals, faults[a] = 0
               PROVE  status[a] = "sent" <=> rows[a]["sent"] = 1
    BY DEF RecordsAgree
  <2>1. mailed[a] \in Nat /\ rows[a]["sent"] \in Nat
    BY <1>1 DEF CountInv, FlowInv, TypeOK, RowCounts
  <2>2. Chances(a) /\ Told(a)
    BY <1>1 DEF CountInv
  <2>3. mailed[a] <= 1
    BY <2>1, <2>2, ChanceSizes DEF Chances, One
  <2>4. rows[a]["sent"] <= mailed[a]
    <3>1. Cardinality(At(a, MailedPC)) \in Nat
      BY <2>2, FS_CardinalityType DEF Told
    <3> QED
      BY <2>1, <2>2, <3>1 DEF Told
  <2> QED
    BY <2>1, <2>2, <2>3, <2>4 DEF Told
<1> QED
  BY <1>1, CountInvariant, PTL

\* e calls of MaxAttempts attempts each do not outnumber the quotient.
LEMMA Quotient ==
  ASSUME NEW d \in Nat \ {0}, NEW e \in Nat, NEW n \in Int, d * e <= n
  PROVE  e <= n \div d
<1> DEFINE q == n \div d
           r == n % d
<1>1. q \in Int /\ r \in 0..(d - 1) /\ n = d * q + r
  OBVIOUS
<1> HIDE DEF q, r
<1>2. SUFFICES ASSUME e > q  PROVE FALSE
  BY <1>1 DEF q
<1>3. e >= q + 1
  BY <1>1, <1>2
<1>4. d * e >= d * (q + 1)
  BY <1>1, <1>3
<1>5. d * (q + 1) = d * q + d
  BY <1>1
<1> QED
  BY <1>1, <1>4, <1>5

\* A DRAFT row is left behind by a crash, by an error nobody catches, or by a call
\* that used up its attempts and whose last exception escaped the task; by nothing
\* else.
THEOREM LeftoversHaveACause == Spec => []LeftoversAreExplained
<1>1. ASSUME CountInv  PROVE LeftoversAreExplained
  <2> SUFFICES ASSUME NEW a \in Approvals, Quiet(a)
               PROVE  DraftRows(a) <= Spent("workerCrash") + Spent("unexpected")
                        + (Spent("transient") + Spent("lostAck")) \div MaxAttempts
    BY DEF LeftoversAreExplained
  <2>1. At(a, HalfPC) = {}
    BY DEF At, Quiet
  <2>2. Leftovers(a) /\ TypeOK
    BY <1>1 DEF CountInv, FlowInv
  <2>3. PICK e \in Nat :
          /\ DraftRows(a) <= Cardinality(At(a, HalfPC))
                             + (Spent("workerCrash") + Spent("unexpected")) + e
          /\ MaxAttempts * e + Cardinality(Tries(a)) <= Spent("transient") + Spent("lostAck")
    BY <2>2 DEF Leftovers
  <2> DEFINE n == Spent("transient") + Spent("lostAck")
             c == Spent("workerCrash") + Spent("unexpected")
  <2>4. MaxAttempts \in Nat \ {0} /\ n \in Int /\ c \in Int /\ DraftRows(a) \in Int
    BY <2>2, SpentCounts, DraftRowsChange, ApprovalFlowAssumption
       DEF TypeOK, FaultKinds, ApprovalFlowAssumption
  <2>5. Cardinality(At(a, HalfPC)) = 0 /\ Cardinality(Tries(a)) \in Nat
    BY <2>1, <2>2, FS_EmptySet, FS_CardinalityType DEF Leftovers
  <2>6. DraftRows(a) <= c + e /\ MaxAttempts * e <= n
    BY <2>3, <2>4, <2>5
  <2> HIDE DEF n, c
  <2>7. e <= n \div MaxAttempts /\ n \div MaxAttempts \in Int
    BY <2>4, <2>6, Quotient
  <2>8. DraftRows(a) <= c + n \div MaxAttempts
    BY <2>4, <2>6, <2>7
  <2> QED
    BY <2>8 DEF n, c
<1> QED
  BY <1>1, CountInvariant, PTL

-----------------------------------------------------------------------------
(* The refinement of ApprovalGate.                                          *)

\* Before triage nothing is open, settled or mailed.
LEMMA GateInitStep == Init => Gate!GateInit
BY DEF Init, Gate!GateInit, DecisionOf, SettledText

\* Every step of the flow is a step of the gate, or changes nothing the gate
\* can see.
LEMMA GateSimulation ==
  ASSUME FlowInv, Next
  PROVE  [Gate!GateNext]_(Gate!gateVars)
<1> USE DEF FlowInv, TypeOK
<1>1. ASSUME NEW a \in Approvals, OpenApprovalGate(a)  PROVE Gate!GateOpen(a)
  BY <1>1 DEF OpenApprovalGate, Gate!GateOpen, DecisionOf, SettledText, FinalBody,
              StatusFollowsDecision, world
<1>2. ASSUME NEW h \in Handlers, WinDecision(h)  PROVE Gate!GateNext
  <2> DEFINE a == hreq[h].appr
  <2>1. a \in Approvals /\ hreq[h].action \in {"approve", "reject"}
        /\ hreq[h].edit \in Edits
    BY <1>2 DEF WinDecision, Decide, WinnersApproved, Decisions
  <2>2. status[a] = "pending" /\ verdict[a] = "none"
    BY <1>2, <2>1 DEF WinDecision, Decide, StatusFollowsDecision
  <2>3. CASE hreq[h].action = "approve"
    <3>1. SettledText(a)' \in Bodies
      BY <1>2, <2>1, <2>3
         DEF WinDecision, Decide, SettledText, FinalBody, Bodies, Drafts, Edits
    <3>2. Gate!GateApprove(a, SettledText(a)')
      BY <1>2, <2>1, <2>2, <2>3
         DEF WinDecision, Decide, Gate!GateApprove, DecisionOf, SettledText, FinalBody, world
    <3> QED
      BY <2>1, <3>1, <3>2 DEF Gate!GateNext
  <2>4. CASE hreq[h].action = "reject"
    <3>1. Gate!GateReject(a)
      BY <1>2, <2>1, <2>2, <2>4
         DEF WinDecision, Decide, Gate!GateReject, DecisionOf, SettledText, FinalBody, world
    <3> QED
      BY <2>1, <3>1 DEF Gate!GateNext
  <2> QED
    BY <2>1, <2>3, <2>4
<1>3. ASSUME NEW w \in Workers,
             \/ SmtpAccept(w) \/ SmtpLostAck(w) \/ SmtpAcceptedYetRefused(w)
             \/ SmtpUnexpected(w) /\ Accept(wjob[w].appr)
      PROVE  Gate!GateNext
  <2> DEFINE a == wjob[w].appr
  <2>1. a \in Approvals /\ verdict[a] = "approve"
    BY <1>3 DEF SmtpAccept, SmtpLostAck, SmtpAcceptedYetRefused, SmtpUnexpected,
                TasksFollowApproval, Jobs
  <2>2. Accept(a) /\ UNCHANGED <<status, verdict, draft, edited>>
    BY <1>3 DEF SmtpAccept, SmtpLostAck, SmtpAcceptedYetRefused, SmtpUnexpected, db
  <2>3. status[a] # "absent"
    BY <2>1 DEF StatusFollowsDecision
  <2>4. Gate!GateEmail(a)
    BY <2>1, <2>2, <2>3 DEF Accept, Gate!GateEmail, DecisionOf, SettledText, FinalBody
  <2> QED
    BY <2>1, <2>4 DEF Gate!GateNext
<1>4. ASSUME NEW w \in Workers, RejectSuppressed(w) \/ CommitSent(w)
      PROVE  UNCHANGED Gate!gateVars
  \* the row moves, the decision it followed does not
  <2>1. wjob[w].appr \in Approvals /\ verdict[wjob[w].appr] = "approve"
    BY <1>4 DEF RejectSuppressed, CommitSent, TasksFollowApproval, Jobs
  <2>2. \A b \in Approvals : status[b] = "absent" <=> status'[b] = "absent"
    BY <1>4, <2>1 DEF RejectSuppressed, CommitSent, StatusFollowsDecision
  <2>3. UNCHANGED <<verdict, draft, edited, bodies>>
    BY <1>4 DEF RejectSuppressed, CommitSent, world
  <2> QED
    BY <2>2, <2>3 DEF Gate!gateVars, DecisionOf, SettledText, FinalBody
<1>5. ASSUME UNCHANGED <<status, verdict, draft, edited, bodies>>
      PROVE  UNCHANGED Gate!gateVars
  BY <1>5 DEF Gate!gateVars, DecisionOf, SettledText, FinalBody
<1>6. ASSUME NEW w \in Workers,
             \/ Take(w) \/ WorkerCrash(w) \/ Redeliver(w)
             \/ WorkerStep(w) /\ ~RejectSuppressed(w) /\ ~CommitSent(w)
                              /\ ~SmtpAccept(w) /\ ~SmtpLostAck(w)
                              /\ ~SmtpAcceptedYetRefused(w)
                              /\ ~(SmtpUnexpected(w) /\ Accept(wjob[w].appr))
      PROVE  UNCHANGED <<status, verdict, draft, edited, bodies>>
  BY <1>6
     DEF Take, WorkerStep, db, world, Skip, Start, PassGate, NoHealthySender,
         SmtpRefuse, SmtpTransient, SmtpUnexpected, CommitUsage, CommitFailedUsage,
         CommitFailed, Retry, WorkerCrash, Redeliver
<1>7. ASSUME NEW a \in Approvals, Suppress(a) \/ Unsuppress(a)
      PROVE  UNCHANGED <<status, verdict, draft, edited, bodies>>
  BY <1>7 DEF Suppress, Unsuppress, db, world
<1>8. ASSUME NEW h \in Handlers,
             \/ HandlerCrash(h) \/ LoseDecision(h) \/ EnqueueSend(h)
             \/ \E d \in Decisions : LoadApproval(h, d)
      PROVE  UNCHANGED <<status, verdict, draft, edited, bodies>>
  BY <1>8 DEF HandlerCrash, LoseDecision, EnqueueSend, LoadApproval, db, world
<1> HIDE DEF FlowInv, TypeOK
<1>9. \A a \in Approvals : Gate!GateOpen(a) => Gate!GateNext
  BY DEF Gate!GateNext
<1> QED
  BY <1>1, <1>2, <1>3, <1>4, <1>5, <1>6, <1>7, <1>8, <1>9 DEF Next, HandlerStep

\* The approval flow implements the approval gate.
THEOREM FlowImplementsGate == Spec => ImplementsGate
<1>1. Init => Gate!GateInit
  BY GateInitStep
<1>2. FlowInv /\ [Next]_vars => [Gate!GateNext]_(Gate!gateVars)
  <2>1. CASE UNCHANGED vars
    BY <2>1 DEF vars, Gate!gateVars, DecisionOf, SettledText, FinalBody
  <2> QED
    BY <2>1, GateSimulation
<1> QED
  BY <1>1, <1>2, FlowInvariant, PTL DEF Spec, ImplementsGate, Gate!GateSpec
=============================================================================
