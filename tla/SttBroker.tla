----------------------------- MODULE SttBroker -----------------------------
(***************************************************************************)
(* The broker of live transcription: POST /api/stt/token and               *)
(* DELETE /api/stt/queue/[ticket] with the queue and the rolling window of *)
(* DbLimitsAuthority.sttAcquire.  A request checks the call and its rates  *)
(* and takes its place under the broker's lock in one step, then reserves  *)
(* the money and mints the token; a failure of these gives the rows back.  *)
(* The requesters are left to the module that extends this one.            *)
(*                                                                         *)
(* The window is the sequence of the rows that count, oldest first: time   *)
(* takes them out at its head.  A row names the request that may still     *)
(* release it, Null once its token is issued.  A requester has one ticket  *)
(* at most, so an entry of the queue is known by its requester.  An ETA    *)
(* above 15 s may or may not come out whenever a request must wait.        *)
(***************************************************************************)
EXTENDS Naturals, Sequences, FiniteSets

CONSTANTS
  Requesters,  \* those who ask for sessions
  IpOf,        \* the ipKey of each
  Opens,       \* STT_OPENS_PER_MIN
  MaxTickets,  \* maxTicketsPerIpKey
  Null         \* null

ASSUME BrokerAssumption ==
  /\ IsFiniteSet(Requesters) /\ Null \notin Requesters
  /\ Opens \in Nat /\ MaxTickets \in Nat

VARIABLES
  window,  \* live_sessions rows of kind "stt" that count, oldest first
  queue,   \* stream_queue rows in status "queued", in the order of queuedTickets
  req      \* the request of each requester, and the answer it got

brokerVars == <<window, queue, req>>

Sizes   == {1, 2}
Answers == {"none", "granted", "queued", "denied"}
Request == [pc: {"idle", "sent", "granting", "answered"}, n: Sizes,
            reconnect: BOOLEAN, ticket: BOOLEAN, answer: Answers]
Ticket  == [who: Requesters, n: Sizes, reconnect: BOOLEAN, late: BOOLEAN]

BrokerTypeOK ==
  /\ window \in Seq(Requesters \cup {Null})
  /\ queue \in Seq(Ticket)
  /\ req \in [Requesters -> Request]

NoRequest == [pc |-> "idle", n |-> 1, reconnect |-> FALSE, ticket |-> FALSE, answer |-> "none"]

\* What remains of a sequence when only the places in keep stay, in their order.
Kept(q, keep) ==
  LET upTo[i \in 0..Len(q)] ==
        IF i = 0 THEN <<>> ELSE IF i \in keep THEN Append(upTo[i-1], q[i]) ELSE upTo[i-1]
  IN upTo[Len(q)]

TicketsOf(q, r)   == {i \in DOMAIN q : q[i].who = r}
Without(q, r)     == Kept(q, DOMAIN q \ TicketsOf(q, r))
Reconnects(q)     == Kept(q, {i \in DOMAIN q : q[i].reconnect})
Others(q)         == Kept(q, {i \in DOMAIN q : ~q[i].reconnect})
SlotsWanted(q)    == Len(q) + Cardinality({i \in DOMAIN q : q[i].n = 2})
Answer(r, answer) == req' = [req EXCEPT ![r].pc = "answered", ![r].answer = answer]

\* A requester asks, with the ticket it was given (a poll) or without one.
Ask(r, n, reconnect, ticket) ==
  /\ req[r].pc \in {"idle", "answered"}
  /\ req' = [req EXCEPT ![r] = [pc |-> "sent", n |-> n, reconnect |-> reconnect,
                                ticket |-> ticket, answer |-> "none"]]
  /\ UNCHANGED <<window, queue>>

\* The checks of the call, the rates and the mode refuse the request: the last two give its
\* ticket up.
IsRefused(r) ==
  /\ req[r].pc = "sent"
  /\ Answer(r, "denied")
  /\ queue' \in {queue, IF req[r].ticket THEN Without(queue, r) ELSE queue}
  /\ UNCHANGED window

\* sttAcquire's transaction, after the tickets that missed their polls are expired.
Fresh         == Kept(queue, {i \in DOMAIN queue : ~queue[i].late})
Mine(r)       == IF req[r].ticket THEN TicketsOf(Fresh, r) ELSE {}
Reconnect(r)  == req[r].reconnect \/ \E i \in Mine(r) : Fresh[i].reconnect
Ahead(r)      == IF Mine(r) # {} THEN SubSeq(Fresh, 1, (CHOOSE i \in Mine(r) : TRUE) - 1)
                 ELSE IF Reconnect(r) THEN Reconnects(Fresh) ELSE Fresh
LimitFor(reconnect) == Opens + (IF reconnect THEN 1 ELSE 0)
Limit(r)      == LimitFor(Reconnect(r))

Grant(r) ==
  /\ req[r].pc = "sent"
  /\ Ahead(r) = <<>> /\ Len(window) + req[r].n <= Limit(r)
  /\ window' = window \o [i \in 1..req[r].n |-> r]
  /\ queue' = IF Mine(r) # {} THEN Without(Fresh, r) ELSE Fresh
  /\ req' = [req EXCEPT ![r].pc = "granting"]

MustWait(r) == Ahead(r) # <<>> \/ Len(window) + req[r].n > Limit(r)

\* More than the window ever takes, too long a wait, or too many tickets of the network.
Crowded(r) ==
  /\ Mine(r) = {}
  /\ Cardinality({i \in DOMAIN Fresh : IpOf[Fresh[i].who] = IpOf[r]}) >= MaxTickets
TurnAway(r) ==
  /\ req[r].pc = "sent" /\ MustWait(r)
  /\ Answer(r, "denied")
  /\ queue' = IF Mine(r) # {} THEN Without(Fresh, r) ELSE Fresh
  /\ UNCHANGED window

NewTicket(r) == [who |-> r, n |-> req[r].n, reconnect |-> Reconnect(r), late |-> FALSE]
\* A reconnect waits behind the other reconnects and ahead of everyone else.
Place(q, t) ==
  IF t.reconnect
  THEN Append(Reconnects(q), t) \o Others(q)
  ELSE Append(q, t)
Enqueue(r) ==
  /\ req[r].pc = "sent" /\ MustWait(r)
  /\ SlotsWanted(Ahead(r)) + req[r].n <= Limit(r)
  /\ ~Crowded(r)
  /\ queue' = IF Mine(r) # {} THEN Fresh ELSE Place(Fresh, NewTicket(r))
  /\ Answer(r, "queued")
  /\ UNCHANGED window

RowsOf(r)       == {i \in DOMAIN window : window[i] = r}
\* Mutant: only the first row of a failed grant is given back.
ReleaseFirst(r) == Kept(window, {i \in DOMAIN window : i \in RowsOf(r) => \E j \in RowsOf(r) : j < i})
ReleaseAll(r)   == Kept(window, DOMAIN window \ RowsOf(r))

\* The reservation or the mint fails: releaseAll takes the grant's rows out of the window.
GiveBack(r) ==
  /\ req[r].pc = "granting"
  /\ window' = ReleaseAll(r)
  /\ Answer(r, "denied")
  /\ UNCHANGED queue

Issue(r) ==
  /\ req[r].pc = "granting"
  /\ window' = [i \in DOMAIN window |-> IF window[i] = r THEN Null ELSE window[i]]
  /\ Answer(r, "granted")
  /\ UNCHANGED queue

Cancel(r) == queue' = Without(queue, r)

\* A minute passes for the oldest row; three polls of a ticket are missed.
Slides ==
  /\ window # <<>>
  /\ window' = Tail(window)
  /\ UNCHANGED <<queue, req>>
MissesPolls(r) ==
  /\ \E i \in TicketsOf(queue, r) : ~queue[i].late
  /\ queue' = [i \in DOMAIN queue |-> [queue[i] EXCEPT !.late = @ \/ queue[i].who = r]]
  /\ UNCHANGED <<window, req>>

Handle(r) ==
  \/ IsRefused(r)
  \/ Grant(r) \/ TurnAway(r) \/ Enqueue(r)
  \/ GiveBack(r) \/ Issue(r)

\* A row counts as long as its grant is in the making or was issued: a grant that failed half
\* way leaves none behind, and none is given back twice.
GrantsCounted ==
  \A r \in Requesters :
    Cardinality(RowsOf(r)) <= (IF req[r].pc = "granting" THEN req[r].n ELSE 0)

\* First come, first served within a class: reconnects stand ahead of the others and no
\* requester holds two places.
QueueOrdered ==
  \A i, j \in DOMAIN queue : i < j =>
    /\ queue[i].who # queue[j].who
    /\ queue[j].reconnect => queue[i].reconnect

\* The broker keeps its window and its queue in order whatever fails half way.
BrokerSound == GrantsCounted /\ QueueOrdered
=============================================================================
