------------------------------ MODULE PayFlow ------------------------------
(***************************************************************************)
(* The payment of one pass: send_esign_and_pay_link creates a checkout     *)
(* statement by statement, Polar tells of it by webhooks and by the        *)
(* server's own GETs, the visitor may simulate, the hold may time out, and *)
(* the page's PaymentWatch polls for the result until send_confirmation.   *)
(*                                                                         *)
(* A payment has the name of the tool call that creates it.  Amounts are   *)
(* abstracted to whether Polar's total is the one the disclosure said.     *)
(***************************************************************************)
EXTENDS Naturals, Sequences, SequencesExt

CONSTANTS
  Calls,  \* tool calls of send_esign_and_pay_link
  None    \* null

VARIABLES
  pay,      \* payments rows
  order,    \* their created_at order
  polar,    \* the provider's checkouts
  calls,    \* tool-call handlers
  poll,     \* the watch's GET /api/payments/[id]; old: for a watch that was replaced
  watch,    \* the page's PaymentWatch
  number    \* the takeover's confirmation number was issued

vars == <<pay, order, polar, calls, poll, watch, number>>

Statuses == {"none", "created", "open", "confirmed", "succeeded", "failed", "expired", "timeout"}
Final == {"succeeded", "failed", "expired"}
\* What mapPolarEvent lets through.
Told == {"confirmed"} \cup Final

ASSUME PayAssumption == None \notin Calls \cup Statuses

Payment == [status: Statuses, source: {None, "webhook", "server_poll", "mock"},
            provider: {"polar", "mock"}, checkout: BOOLEAN, simulated: BOOLEAN]
Checkout == [status: {"none", "open"} \cup Told, match: BOOLEAN]

TypeOK ==
  /\ pay \in [Calls -> Payment]
  /\ order \in Seq(Calls)
  /\ polar \in [Calls -> Checkout]
  /\ calls \in [Calls -> [pc: {"idle", "create", "patch", "open", "check", "recheck", "fallback", "answer", "linked", "threw"},
                          pay: Calls \cup {None}]]
  /\ poll \in [pc: {"idle", "ask", "apply", "answer"}, pay: Calls \cup {None},
               said: {None, "open"} \cup Told, old: BOOLEAN]
  /\ watch \in [pay: Calls \cup {None}, state: {"off", "watching", "timed_out", "done", "stopped"},
                told: {None} \cup Final]
  /\ number \in BOOLEAN

NoPoll == [pc |-> "idle", pay |-> None, said |-> None, old |-> FALSE]

Init ==
  /\ pay = [p \in Calls |-> [status |-> "none", source |-> None, provider |-> "polar",
                             checkout |-> FALSE, simulated |-> FALSE]]
  /\ order = <<>>
  /\ polar = [p \in Calls |-> [status |-> "none", match |-> TRUE]]
  /\ calls = [c \in Calls |-> [pc |-> "idle", pay |-> None]]
  /\ poll = NoPoll
  /\ watch = [pay |-> None, state |-> "off", told |-> None]
  /\ number = FALSE

-----------------------------------------------------------------------------
(* The state machine of a payment. *)

\* Mutant: a result that came first is overwritten by one that comes later.
AllowedFromAny(to, via) == Statuses \ {"none", to}

\* Mutant: a payment the hold gave up is not moved any more.
AllowedFromLive(to, via) ==
  CASE via = "create"   -> {"none", "created"}
    [] via = "simulate" -> Statuses \ {"succeeded"}
    [] via = "timeout"  -> {"none", "created", "open", "confirmed"}
    [] via = "mismatch" -> {"none", "created", "open", "confirmed", "timeout"}
    [] OTHER            -> IF to = "confirmed" THEN {"created", "open"} ELSE {"created", "open", "confirmed"}

AllowedFrom(to, via) ==
  CASE via = "create"   -> {"none", "created"}
    [] via = "simulate" -> Statuses \ {"succeeded"}
    [] via = "timeout"  -> {"none", "created", "open", "confirmed"}
    [] via = "mismatch" -> {"none", "created", "open", "confirmed", "timeout"}
    [] OTHER            -> IF to = "confirmed" THEN {"created", "open"}
                           ELSE {"created", "open", "confirmed", "timeout"}

Exists(p) == Contains(order, p)
CanMove(p, to, via) == Exists(p) /\ pay[p].status \in AllowedFrom(to, via)

\* The conditional UPDATE.
Moved(p, to, via, source) ==
  IF CanMove(p, to, via) THEN [pay EXCEPT ![p].status = to, ![p].source = source] ELSE pay

\* What Polar said of p, after the amount check; a simulated payment is left alone.
\* Mutant: the amount is not compared.
MovedByPolarUnchecked(p, to, via) == IF pay[p].simulated THEN pay ELSE Moved(p, to, via, via)
MovedByPolar(p, to, via) ==
  CASE pay[p].simulated -> pay
    [] ~pay[p].simulated /\ ~polar[p].match -> Moved(p, "failed", "mismatch", pay[p].source)
    [] OTHER -> Moved(p, to, via, via)

Latest == IF order = <<>> THEN None ELSE Last(order)

-----------------------------------------------------------------------------
(* The pay-link tool call. *)

\* Consent given, disclosures read: a payment that is not over is sent again.
Reusable ==
  /\ Latest # None
  /\ pay[Latest].status \notin {"failed", "expired"}

LinkReuses(c) ==
  /\ calls[c].pc = "idle" /\ Reusable
  /\ calls' = [calls EXCEPT ![c] = [pc |-> "answer", pay |-> Latest]]
  /\ UNCHANGED <<pay, order, polar, poll, watch, number>>

\* Until it inserts, another call that loaded nothing either may create its own.
LinkCreates(c) ==
  /\ calls[c].pc = "idle" /\ ~Reusable
  /\ calls' = [calls EXCEPT ![c] = [pc |-> "create", pay |-> c]]
  /\ UNCHANGED <<pay, order, polar, poll, watch, number>>

\* mode(): mock payments have no checkout and are open at once.
Inserted(c, mock) ==
  /\ calls[c].pc = "create" /\ ~Exists(c)
  /\ order' = Append(order, c)
  /\ pay' = [pay EXCEPT ![c].provider = IF mock THEN "mock" ELSE "polar",
                        ![c].status = IF mock THEN "open" ELSE "created"]
  /\ calls' = [calls EXCEPT ![c].pc = IF mock THEN "answer" ELSE "create"]
  /\ UNCHANGED <<polar, poll, watch, number>>

\* createCheckout answers, or fails twice.
CheckoutMade(c, match) ==
  /\ calls[c].pc = "create" /\ Exists(c)
  /\ polar' = [polar EXCEPT ![c] = [status |-> "open", match |-> match]]
  /\ calls' = [calls EXCEPT ![c].pc = "patch"]
  /\ UNCHANGED <<pay, order, poll, watch, number>>

CheckoutFails(c) ==
  /\ calls[c].pc = "create" /\ Exists(c)
  /\ calls' = [calls EXCEPT ![c].pc = "fallback"]
  /\ pay' = [pay EXCEPT ![c].provider = "mock"]
  /\ UNCHANGED <<order, polar, poll, watch, number>>

FallbackOpens(c) ==
  /\ calls[c].pc = "fallback"
  /\ pay' = Moved(c, "open", "create", pay[c].source)
  /\ calls' = [calls EXCEPT ![c].pc = "answer"]
  /\ UNCHANGED <<order, polar, poll, watch, number>>

Patched(c) ==
  /\ calls[c].pc = "patch"
  /\ pay' = [pay EXCEPT ![c].checkout = TRUE]
  /\ calls' = [calls EXCEPT ![c].pc = "open"]
  /\ UNCHANGED <<order, polar, poll, watch, number>>

\* A payment that is not "created" any more is not opened: there is no row to
\* answer with, and the handler throws.
Opened(c) ==
  /\ calls[c].pc = "open"
  /\ pay' = Moved(c, "open", "create", pay[c].source)
  /\ calls' = [calls EXCEPT ![c].pc =
       IF CanMove(c, "open", "create") THEN IF polar[c].match THEN "answer" ELSE "check"
       ELSE IF polar[c].match THEN "threw" ELSE "recheck"]
  /\ UNCHANGED <<order, polar, poll, watch, number>>

\* The amount check answers with the failed row, else with the opened one.
Checked(c) ==
  /\ calls[c].pc \in {"check", "recheck"}
  /\ pay' = Moved(c, "failed", "mismatch", pay[c].source)
  /\ calls' = [calls EXCEPT ![c].pc =
       IF calls[c].pc = "check" \/ CanMove(c, "failed", "mismatch") THEN "answer" ELSE "threw"]
  /\ UNCHANGED <<order, polar, poll, watch, number>>

\* A restart, or an error of the database, between two statements.
LinkDies(c) ==
  /\ calls[c].pc \notin {"idle", "linked", "threw"}
  /\ calls' = [calls EXCEPT ![c].pc = "threw"]
  /\ UNCHANGED <<pay, order, polar, poll, watch, number>>

\* link_sent reaches the page: beginPaying replaces the watch, one that end()
\* stopped too.
Linked(c) ==
  /\ calls[c].pc = "answer"
  /\ calls' = [calls EXCEPT ![c].pc = "linked"]
  /\ watch' = [pay |-> calls[c].pay, state |-> "watching", told |-> None]
  /\ poll' = [poll EXCEPT !.old = poll.pc # "idle"]
  /\ UNCHANGED <<pay, order, polar, number>>

-----------------------------------------------------------------------------
(* The visitor's phone, the provider and the hold. *)

Sent(p) == \E c \in Calls : calls[c].pc = "linked" /\ calls[c].pay = p

\* The embed needs the checkout's url; what Polar makes of it, it tells by a webhook.
PolarGoes(p, from, to) ==
  /\ polar[p].status = from
  /\ to = "confirmed" => Sent(p) /\ pay[p].checkout /\ ~pay[p].simulated
  /\ polar' = [polar EXCEPT ![p].status = to]
  /\ UNCHANGED <<pay, order, calls, poll, watch, number>>

Simulate(p) ==
  /\ Sent(p) /\ CanMove(p, "succeeded", "simulate")
  /\ pay' = [pay EXCEPT ![p] = [@ EXCEPT !.status = "succeeded", !.source = "mock",
                                         !.provider = "mock", !.simulated = TRUE]]
  /\ UNCHANGED <<order, polar, calls, poll, watch, number>>

MarkTimeout(p) ==
  /\ Sent(p) /\ CanMove(p, "timeout", "timeout")
  /\ pay' = Moved(p, "timeout", "timeout", pay[p].source)
  /\ UNCHANGED <<order, polar, calls, poll, watch, number>>

\* send_confirmation looks at the latest payment of the takeover.
SendConfirmation ==
  /\ ~number /\ Latest # None
  /\ pay[Latest].status = "succeeded" /\ pay[Latest].source # None
  /\ number' = TRUE
  /\ UNCHANGED <<pay, order, polar, calls, poll, watch>>

-----------------------------------------------------------------------------
(* POST /api/webhooks/polar (WebhookInbox has the claim and the answer). *)

\* The events Polar sent so far of a checkout; one may be applied late, out of
\* order, several times (after an error) or never.
EventsOf(p) ==
  CASE polar[p].status \in {"confirmed", "expired"} -> {polar[p].status}
    [] polar[p].status \in {"succeeded", "failed"}  -> {"confirmed", polar[p].status}
    [] OTHER -> {}

ApplyWebhook(p, s) ==
  /\ s \in EventsOf(p)
  /\ pay' = MovedByPolar(p, s, "webhook")
  /\ UNCHANGED <<order, polar, calls, poll, watch, number>>

-----------------------------------------------------------------------------
(* GET /api/payments/[id] and the watch. *)

ShouldPoll(p) ==
  /\ pay[p].provider = "polar" /\ ~pay[p].simulated /\ pay[p].checkout
  /\ pay[p].status \in {"created", "open", "confirmed", "timeout"}

PollEffect(p, said) ==
  IF said = "open" /\ polar[p].match THEN pay ELSE MovedByPolar(p, said, "server_poll")

\* The watch has one poll out at a time and goes on after its deadline.
\* due: the last check of Polar is old enough.
GetView(due) ==
  /\ poll.pc = "idle" /\ watch.state \in {"watching", "timed_out"}
  /\ poll' = [NoPoll EXCEPT !.pc = IF due /\ ShouldPoll(watch.pay) THEN "ask" ELSE "answer",
                           !.pay = watch.pay]
  /\ UNCHANGED <<pay, order, polar, calls, watch, number>>

PolarAnswers(ok) ==
  /\ poll.pc = "ask"
  /\ poll' = [poll EXCEPT !.pc = IF ok THEN "apply" ELSE "answer",
                         !.said = IF ok THEN polar[poll.pay].status ELSE None]
  /\ UNCHANGED <<pay, order, polar, calls, watch, number>>

PollApplies ==
  /\ poll.pc = "apply"
  /\ pay' = PollEffect(poll.pay, poll.said)
  /\ poll' = [poll EXCEPT !.pc = "answer"]
  /\ UNCHANGED <<order, polar, calls, watch, number>>

\* reconcile=1 of the phone and of /pay/done, whose answer may be old when it is applied.
Reconcile(p, said) ==
  /\ Sent(p) /\ pay[p].checkout
  /\ said \in EventsOf(p) \cup {"open"}
  /\ pay' = PollEffect(p, said)
  /\ UNCHANGED <<order, polar, calls, poll, watch, number>>

\* The view is lost, or meant for a watch that was replaced.
ViewIgnored ==
  /\ poll.pc = "answer"
  /\ poll' = NoPoll
  /\ UNCHANGED <<pay, order, polar, calls, watch, number>>

\* Mutant: the page believes what Polar said rather than the row.
WatchHearsPolar ==
  LET s == IF poll.said = None THEN pay[poll.pay].status ELSE poll.said IN
  /\ poll.pc = "answer" /\ ~poll.old
  /\ poll' = NoPoll
  /\ watch' = IF watch.state = "watching" /\ s \in Final
              THEN [watch EXCEPT !.state = "done", !.told = s] ELSE watch
  /\ UNCHANGED <<pay, order, polar, calls, number>>

WatchHears ==
  LET s == pay[poll.pay].status IN
  /\ poll.pc = "answer" /\ ~poll.old
  /\ poll' = NoPoll
  /\ watch' = IF \/ watch.state = "watching" /\ s \in Final
                 \/ watch.state = "timed_out" /\ s = "succeeded"
              THEN [watch EXCEPT !.state = "done", !.told = s] ELSE watch
  /\ UNCHANGED <<pay, order, polar, calls, number>>

WatchTimesOut ==
  /\ watch.state = "watching"
  /\ watch' = [watch EXCEPT !.state = "timed_out"]
  /\ UNCHANGED <<pay, order, polar, calls, poll, number>>

\* end(), endNow() or a closed socket.
WatchStops ==
  /\ watch.state # "stopped"
  /\ watch' = [watch EXCEPT !.state = "stopped"]
  /\ UNCHANGED <<pay, order, polar, calls, poll, number>>

-----------------------------------------------------------------------------
Tool ==
  \/ SendConfirmation
  \/ \E c \in Calls :
       \/ LinkReuses(c) \/ LinkCreates(c) \/ CheckoutFails(c) \/ FallbackOpens(c)
       \/ Patched(c) \/ Opened(c) \/ Checked(c) \/ LinkDies(c) \/ Linked(c)
       \/ \E b \in BOOLEAN : Inserted(c, b) \/ CheckoutMade(c, b)

Provider ==
  \E p \in Calls :
    \/ PolarGoes(p, "open", "confirmed") \/ PolarGoes(p, "open", "expired")
    \/ PolarGoes(p, "confirmed", "succeeded") \/ PolarGoes(p, "confirmed", "failed")

Webhook == \E p \in Calls, s \in Told : ApplyWebhook(p, s)

View ==
  \/ \E b \in BOOLEAN : GetView(b) \/ PolarAnswers(b)
  \/ \E p \in Calls, said \in Told \cup {"open"} : Reconcile(p, said)
  \/ PollApplies \/ ViewIgnored \/ WatchHears \/ WatchTimesOut \/ WatchStops

Next ==
  \/ Tool \/ Provider \/ Webhook \/ View
  \/ \E p \in Calls : Simulate(p) \/ MarkTimeout(p)

\* The poll re-arms itself whatever comes of it; a check of Polar falls due,
\* Polar answers and the answer arrives again and again.  Webhooks, tools and
\* the visitor owe nothing.
Fairness ==
  /\ SF_vars(GetView(TRUE))
  /\ SF_vars(PolarAnswers(TRUE))
  /\ WF_vars(PollApplies)
  /\ WF_vars(ViewIgnored)
  /\ SF_vars(WatchHears)

Spec == Init /\ [][Next]_vars
FairSpec == Spec /\ Fairness

-----------------------------------------------------------------------------
(* Properties. *)

\* Fail-closed: a payment is "paid" by a webhook or a poll only if Polar took
\* the very amount that was disclosed.
PaidIsReal ==
  \A p \in Calls :
    pay[p].status = "succeeded" /\ ~pay[p].simulated =>
      polar[p].status = "succeeded" /\ polar[p].match

\* Racing webhooks, polls, timeouts and simulations never move a payment back:
\* paid is final, and only a simulation leaves a failure.
OneWay ==
  [][\A p \in Calls :
       /\ pay[p].status = "succeeded" => pay'[p].status = "succeeded" /\ pay'[p].source = pay[p].source
       /\ pay[p].status \in {"failed", "expired"} /\ pay'[p].status # pay[p].status => pay'[p].simulated
       /\ pay[p].status = "confirmed" => pay'[p].status \notin {"created", "open"}]_vars

\* What the session was told of the payment stays true of it.
ToldHolds ==
  /\ watch.told = "succeeded" => pay[watch.pay].status = "succeeded"
  /\ watch.told \in {"failed", "expired"} =>
       pay[watch.pay].status = watch.told \/ pay[watch.pay].simulated

\* Whatever the tools, the browser and the webhooks do, a confirmation number is
\* issued only once Polar took the disclosed amount or the payment was simulated.
ConfirmedIsPaid ==
  number => \E p \in Calls :
    pay[p].simulated \/ (polar[p].status = "succeeded" /\ polar[p].match)

\* The session learns of a payment Polar took while the page watches it, also
\* after the hold's deadline and with no webhook at all.
PaidIsTold ==
  \A p \in Calls :
    /\ polar[p].status = "succeeded" /\ polar[p].match
    /\ watch.pay = p /\ watch.state \in {"watching", "timed_out"}
    ~> watch.pay # p \/ watch.told = "succeeded" \/ watch.state = "stopped"

\* The money is sound: nothing is marked paid, and no confirmation issued, before
\* Polar took the disclosed amount or the payment was simulated.
MoneySound == TypeOK /\ PaidIsReal /\ ConfirmedIsPaid
=============================================================================
