---------------------------- MODULE ApprovalGate ----------------------------
(***************************************************************************)
(* What the human-in-the-loop gate promises, with no database, broker or   *)
(* worker in sight: a request is opened, a human decides it once, and only *)
(* an approved request ever produces an email, whose text is the one the   *)
(* human settled on.  A withdrawn request (the lead was suppressed after   *)
(* the approval) produces no email of its own accord, but one that was     *)
(* already on its way may still go out.                                    *)
(***************************************************************************)
EXTENDS Naturals

CONSTANTS Approvals,   \* the approval requests
          Texts,       \* the texts an email can carry
          NoText       \* no text, and none settled on yet

VARIABLES decision,    \* decision[a]: what the human decided
          settled,     \* settled[a]: the text the human settled on
          outbox       \* outbox[a]: the texts emailed on behalf of a

gateVars == <<decision, settled, outbox>>

GateTypeOK ==
  /\ decision \in [Approvals -> {"unopened", "pending", "approved", "rejected"}]
  /\ settled \in [Approvals -> Texts \cup {NoText}]
  /\ outbox \in [Approvals -> SUBSET Texts]

GateInit ==
  /\ decision = [a \in Approvals |-> "unopened"]
  /\ settled = [a \in Approvals |-> NoText]
  /\ outbox = [a \in Approvals |-> {}]

GateOpen(a) ==
  /\ decision[a] = "unopened"
  /\ decision' = [decision EXCEPT ![a] = "pending"]
  /\ UNCHANGED <<settled, outbox>>

GateApprove(a, text) ==
  /\ decision[a] = "pending"
  /\ decision' = [decision EXCEPT ![a] = "approved"]
  /\ settled' = [settled EXCEPT ![a] = text]
  /\ UNCHANGED outbox

GateReject(a) ==
  /\ decision[a] = "pending"
  /\ decision' = [decision EXCEPT ![a] = "rejected"]
  /\ UNCHANGED <<settled, outbox>>

\* An email goes out: only for an approved request, only with its text.
GateEmail(a) ==
  /\ decision[a] = "approved"
  /\ outbox' = [outbox EXCEPT ![a] = @ \cup {settled[a]}]
  /\ UNCHANGED <<decision, settled>>

GateNext ==
  \E a \in Approvals :
    \/ GateOpen(a)
    \/ \E text \in Texts : GateApprove(a, text)
    \/ GateReject(a)
    \/ GateEmail(a)

GateSpec == GateInit /\ [][GateNext]_gateVars
=============================================================================
