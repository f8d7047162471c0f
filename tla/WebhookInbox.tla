---------------------------- MODULE WebhookInbox ----------------------------
(***************************************************************************)
(* The idempotency of POST /api/webhooks/polar: recordWebhook claims the   *)
(* event's row, the event is applied, finishWebhook closes the row.  What  *)
(* applying does to a payment is PayFlow's ApplyWebhook.                   *)
(***************************************************************************)
EXTENDS Naturals

CONSTANTS
  Events,      \* signed webhook ids
  Deliveries,  \* requests the server may be working on at once
  None         \* null

VARIABLES
  row,      \* webhook_events: error is a row whose error is set
  applied,  \* events whose application ran to its end
  answers,  \* what the provider was answered of each event
  dels      \* the handlers

vars == <<row, applied, answers, dels>>

TypeOK ==
  /\ row \in [Events -> {"none", "claimed", "done", "error"}]
  /\ applied \in SUBSET Events
  /\ answers \in [Events -> SUBSET {202, 500}]
  /\ dels \in [Deliveries -> [pc: {"idle", "apply", "finish", "fail"}, event: Events \cup {None}]]

Idle == [pc |-> "idle", event |-> None]

Init ==
  /\ row = [e \in Events |-> "none"]
  /\ applied = {}
  /\ answers = [e \in Events |-> {}]
  /\ dels = [d \in Deliveries |-> Idle]

Answer(e, code) == answers' = [answers EXCEPT ![e] = @ \cup {code}]

\* A new id, or one whose processing left an error, is claimed; any other is
\* answered as a duplicate.
RecordWebhook(d, e) ==
  /\ dels[d].pc = "idle" /\ 202 \notin answers[e]
  /\ IF row[e] \in {"none", "error"}
     THEN /\ row' = [row EXCEPT ![e] = "claimed"]
          /\ dels' = [dels EXCEPT ![d] = [pc |-> "apply", event |-> e]]
          /\ UNCHANGED <<applied, answers>>
     ELSE Answer(e, 202) /\ UNCHANGED <<row, applied, dels>>

ApplyWebhook(d) ==
  /\ dels[d].pc = "apply"
  /\ applied' = applied \cup {dels[d].event}
  /\ dels' = [dels EXCEPT ![d].pc = "finish"]
  /\ UNCHANGED <<row, answers>>

\* A statement of the database fails, in applyWebhook or in finishWebhook.
Fails(d) ==
  /\ dels[d].pc \in {"apply", "finish"}
  /\ dels' = [dels EXCEPT ![d].pc = "fail"]
  /\ UNCHANGED <<row, applied, answers>>

FinishWebhook(d) ==
  /\ dels[d].pc = "finish"
  /\ row' = [row EXCEPT ![dels[d].event] = "done"]
  /\ Answer(dels[d].event, 202)
  /\ dels' = [dels EXCEPT ![d] = Idle]
  /\ UNCHANGED applied

\* The answer is 500 whether or not the error could be written.
Refuse(d, written) ==
  /\ dels[d].pc = "fail"
  /\ row' = IF written THEN [row EXCEPT ![dels[d].event] = "error"] ELSE row
  /\ Answer(dels[d].event, 500)
  /\ dels' = [dels EXCEPT ![d] = Idle]
  /\ UNCHANGED applied

Next ==
  \E d \in Deliveries :
    \/ \E e \in Events : RecordWebhook(d, e)
    \/ ApplyWebhook(d) \/ Fails(d) \/ FinishWebhook(d)
    \/ \E written \in BOOLEAN : Refuse(d, written)

Spec == Init /\ [][Next]_vars

\* store.ts and routes.ts: an event whose processing failed "is claimed again, so
\* Polar's retry of a 500 is processed instead of being swallowed as a duplicate".
RetryProcessed ==
  \A e \in Events :
    {202, 500} \subseteq answers[e] =>
      e \in applied \/ \E d \in Deliveries : dels[d].event = e
=============================================================================
