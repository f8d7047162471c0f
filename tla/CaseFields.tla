---------------------------- MODULE CaseFields ----------------------------
(***************************************************************************)
(* One case from the transcript to the snapshot: the page sends each       *)
(* final turn to the server (HttpCaseSync), the server extracts its facts  *)
(* (ExtractService, the extractor and the repository), a verifier gives a  *)
(* second opinion (VerifierRunner), and the compile of a pass freezes the  *)
(* state (freezeSnapshot) from which the AI half is built.                 *)
(*                                                                         *)
(* Turns are numbered in the order in which they end.  What a turn tells   *)
(* decides nothing here: its facts are in the case when the turn's row is  *)
(* done, both written by one transaction, and FieldStatus computes the     *)
(* fields from them.  The three seconds after the freeze are a flag that   *)
(* falls at any time, and so are the limits on a request and on the drain. *)
(* Recorded facts (stt_cache) come without the extractor and count as      *)
(* extracted.  The tools of the AI half, which write facts of their own,   *)
(* and the page that shows the state are left out.                         *)
(***************************************************************************)
EXTENDS FieldStatus

CONSTANTS
  NumTurns,   \* bound: the turns of the call are 1..NumTurns, in the order in which they end
  Channel,    \* Channel[t]: the party heard on the turn's channel
  BatchOver,  \* with more turns waiting than this the extractor takes several...
  MaxNew,     \* ...and at most this many
  MaxTries,   \* bound: requests the page makes for a turn
  MaxRuns,    \* runs of the verifier
  MaxTrouble  \* bound: turns whose first request is lost, rejections, broken batches and restarts

Turns == 1..NumTurns

ASSUME CaseAssumption ==
  /\ NumTurns \in Nat
  /\ Channel \in [Turns -> {"rep", "customer"}]
  /\ None \notin Turns
  /\ BatchOver \in Nat /\ MaxNew \in Nat \ {0} /\ MaxTries \in Nat \ {0}
  /\ MaxRuns \in Nat /\ MaxTrouble \in Nat

VARIABLES
  page,     \* HttpCaseSync: what it was given, what waits, what is out, what came of it
  report,   \* the pass: how far it is, and its DrainReport once drained
  reqs,     \* requests to /api/extract under way
  service,  \* ExtractService of the case: jobs that wait, the batch at the extractor
  rows,     \* turns: extract_status, "none" without a row
  case,     \* cases and takeovers: the frozen snapshot, the window, the verifier's result
  sol,      \* the verifier: whether a run is under way, and how many were committed
  trouble   \* how much went wrong, and the turns whose extraction was cut off

vars == <<page, report, reqs, service, rows, case, sol, trouble>>

Requests == [turn : Turns, live : BOOLEAN, at : {"sent", "checked", "joined", "answered", "refused"}]

Init ==
  /\ page = [heard |-> {}, queue |-> <<>>, flight |-> None, tries |-> 0, done |-> {}, failed |-> {}]
  /\ report = [pass |-> "shadowing", done |-> {}, pending |-> {}] /\ reqs = {}
  /\ service = [jobs |-> {}, batch |-> {}]
  /\ rows = [t \in Turns |-> "none"]
  /\ case = [frozen |-> None, open |-> FALSE, opinion |-> 0]
  /\ sol = [reads |-> FALSE, runs |-> 0]
  /\ trouble = [count |-> 0, cut |-> {}]

-----------------------------------------------------------------------------
(* The case *)

\* The turns whose facts the state is computed from.
Told == {t \in Turns : rows[t] = "done"}

Frozen == case.frozen # None

Shadowing == report.pass = "shadowing"

-----------------------------------------------------------------------------
(* The page: one request in flight, in the order in which the finals come *)

Waiting == {page.queue[i] : i \in DOMAIN page.queue} \cup ({page.flight} \ {None})

Sent(t) == [turn |-> t, live |-> TRUE, at |-> "sent"]

\* The page becomes p, and with no request out it makes one for the next turn.
Goes(p, rest) ==
  IF p.flight = None /\ p.queue # <<>>
  THEN /\ page' = [p EXCEPT !.flight = Head(p.queue), !.queue = Tail(@), !.tries = 1]
       /\ reqs' = rest \cup {Sent(Head(p.queue))}
  ELSE page' = p /\ reqs' = rest

\* A final turn: those of one channel come in order.
Final(t) ==
  /\ t \notin page.heard
  /\ \A u \in 1..(t-1) : Channel[u] = Channel[t] => u \in page.heard
  /\ Goes([page EXCEPT !.heard = @ \cup {t}, !.queue = Append(@, t)], reqs)
  /\ UNCHANGED <<report, service, rows, case, sol, trouble>>

Answered(r) ==
  /\ r.live /\ r.at = "answered"
  /\ Goes([page EXCEPT !.flight = None, !.done = @ \cup {r.turn}], reqs \ {r})
  /\ UNCHANGED <<report, service, rows, case, sol, trouble>>

GivesUp(rest, t) == Goes([page EXCEPT !.flight = None, !.failed = @ \cup {t}], rest)

\* The page is done with its request: it makes another, or gives the turn up.
Again(rest, t) ==
  IF page.tries < MaxTries
  THEN /\ page' = [page EXCEPT !.tries = @ + 1]
       /\ reqs' = rest \cup {Sent(t)}
  ELSE GivesUp(rest, t)

Refused(r) ==
  /\ r.live /\ r.at = "refused"
  /\ Again(reqs \ {r}, r.turn)
  /\ UNCHANGED <<report, service, rows, case, sol, trouble>>

\* The time for a request is over, or the connection breaks.  A request that has not
\* arrived may still arrive.  Once the first request for a turn is lost, the others may be too.
Lost(r) ==
  /\ r.live /\ r.at # "refused" /\ (page.tries = 1 => trouble.count < MaxTrouble)
  /\ \E left \in (IF r.at = "checked" THEN {} ELSE {{}})
                  \cup (IF r.at \in {"sent", "checked"} THEN {{[r EXCEPT !.live = FALSE]}} ELSE {}) :
       Again((reqs \ {r}) \cup left, r.turn)
  /\ trouble' = IF page.tries = 1 THEN [trouble EXCEPT !.count = @ + 1] ELSE trouble
  /\ UNCHANGED <<report, service, rows, case, sol>>

\* An answer that is not tried again: the turn is given up.
Rejected(r) ==
  /\ r.live /\ r.at = "sent" /\ trouble.count < MaxTrouble
  /\ GivesUp(reqs \ {r}, r.turn)
  /\ trouble' = [trouble EXCEPT !.count = @ + 1]
  /\ UNCHANGED <<report, service, rows, case, sol>>

-----------------------------------------------------------------------------
(* The service: /api/extract and the queue of the case *)

Inflight == service.jobs \cup service.batch

\* A request goes on; one the page has left is forgotten once it needs no answer.
Moved(r, at) ==
  (reqs \ {r}) \cup (IF r.live \/ at = "checked" THEN {[r EXCEPT !.at = at]} ELSE {})

\* A turn that comes after the freeze is only stored, unless the drain reported it as
\* pending and the window is open.
InTime(t) == Frozen => case.open /\ t \in case.frozen.pending

Check(r) ==
  /\ r.at = "sent"
  /\ IF InTime(r.turn)
     THEN reqs' = Moved(r, "checked") /\ UNCHANGED rows
     ELSE /\ rows' = [rows EXCEPT ![r.turn] = IF @ = "none" THEN "skipped" ELSE @]
          /\ reqs' = Moved(r, "answered")
  /\ UNCHANGED <<page, report, service, case, sol, trouble>>

\* Mutant: only the stored row is asked for.
NotUnderWay(t) == FALSE
\* A turn under extraction is waited for; another known turn is answered at once.
UnderWay(t) == t \in Inflight

Join(r) ==
  /\ r.at = "checked" /\ UnderWay(r.turn)
  /\ reqs' = Moved(r, "joined")
  /\ UNCHANGED <<page, report, service, rows, case, sol, trouble>>

Duplicate(r) ==
  /\ r.at = "checked" /\ ~UnderWay(r.turn) /\ rows[r.turn] # "none"
  /\ reqs' = Moved(r, "answered")
  /\ UNCHANGED <<page, report, service, rows, case, sol, trouble>>

\* batchSizeFor: several turns at a time only when many wait.
BatchSize(n) == IF n > BatchOver THEN IF n < MaxNew THEN n ELSE MaxNew ELSE 1

Earliest(S, n) == {t \in S : Cardinality({u \in S : u < t}) < n}

\* Mutant: it is not asked whether the queue is running.
PumpedAnyway(jobs, batch) ==
  LET next == Earliest(jobs, BatchSize(Cardinality(jobs)))
  IN  [jobs |-> jobs \ next, batch |-> next]
\* pump: the extractor, when it has nothing, takes the earliest of the jobs.
Pumped(jobs, batch) ==
  IF batch # {} THEN [jobs |-> jobs, batch |-> batch]
  ELSE LET next == Earliest(jobs, BatchSize(Cardinality(jobs)))
       IN  [jobs |-> jobs \ next, batch |-> next]

Insert(r) ==
  /\ r.at = "checked" /\ rows[r.turn] = "none"
  /\ rows' = [rows EXCEPT ![r.turn] = "pending"]
  /\ service' = Pumped(service.jobs \cup {r.turn}, service.batch)
  /\ reqs' = Moved(r, "joined")
  /\ UNCHANGED <<page, report, case, sol, trouble>>

\* Mutant: the promises of a batch that failed are left open.
ToldOfDone(batch, at) ==
  {IF r.at = "joined" /\ r.turn \in batch /\ at = "answered" THEN [r EXCEPT !.at = at] ELSE r : r \in reqs}
\* Requests that wait for a turn of the batch.
ToldOf(batch, at) ==
  {IF r.at = "joined" /\ r.turn \in batch THEN [r EXCEPT !.at = at] ELSE r : r \in reqs}

\* What the extractor read: all of the batch, at its second try only the newest, or nothing.
Covers(batch) == {batch, {t \in batch : \A u \in batch : u <= t}, {}}

Commit ==
  /\ service.batch # {}
  /\ \E covered \in Covers(service.batch) :
       rows' = [t \in Turns |-> IF t \in covered THEN "done"
                                ELSE IF t \in service.batch THEN "failed" ELSE rows[t]]
  /\ reqs' = ToldOf(service.batch, "answered")
  /\ service' = Pumped(service.jobs, {})
  /\ UNCHANGED <<page, report, case, sol, trouble>>

\* The batch fails at the database; the turns are marked failed one by one, as far as
\* the database allows.
Break ==
  /\ service.batch # {} /\ trouble.count < MaxTrouble
  /\ \E n \in 0..Cardinality(service.batch) :
       LET marked == Earliest(service.batch, n)
       IN  /\ rows' = [t \in Turns |-> IF t \in marked THEN "failed" ELSE rows[t]]
           /\ trouble' = [count |-> trouble.count + 1, cut |-> trouble.cut \cup (service.batch \ marked)]
  /\ reqs' = ToldOf(service.batch, "refused")
  /\ service' = Pumped(service.jobs, {})
  /\ UNCHANGED <<page, report, case, sol>>

\* The server restarts: the queue, the extraction and the verifier's run are gone.
Restart ==
  /\ trouble.count < MaxTrouble
  /\ trouble' = [count |-> trouble.count + 1, cut |-> trouble.cut \cup Inflight]
  /\ service' = [jobs |-> {}, batch |-> {}]
  /\ reqs' = {r \in reqs : r.at \notin {"checked", "joined"}}
             \cup {[r EXCEPT !.at = "refused"] : r \in {q \in reqs : q.live /\ q.at \in {"checked", "joined"}}}
  /\ sol' = [sol EXCEPT !.reads = FALSE]
  /\ UNCHANGED <<page, report, rows, case>>

-----------------------------------------------------------------------------
(* The verifier *)

\* A run begins after a turn is extracted; which turns it reads decides nothing here.
SolStart ==
  /\ Shadowing /\ ~sol.reads /\ sol.runs < MaxRuns
  /\ \E t \in Turns : rows[t] \in {"done", "failed"}
  /\ sol' = [sol EXCEPT !.reads = TRUE]
  /\ UNCHANGED <<page, report, reqs, service, rows, case, trouble>>

\* A result that comes after the arm is stored and not applied.
Applied == IF Shadowing THEN sol.runs + 1 ELSE case.opinion

SolAnswers ==
  /\ sol.reads
  /\ case' = [case EXCEPT !.opinion = Applied]
  /\ sol' = [reads |-> FALSE, runs |-> sol.runs + 1]
  /\ UNCHANGED <<page, report, reqs, service, rows, trouble>>

SolFails ==
  /\ sol.reads
  /\ sol' = [sol EXCEPT !.reads = FALSE]
  /\ UNCHANGED <<page, report, reqs, service, rows, case, trouble>>

-----------------------------------------------------------------------------
(* The pass *)

\* The call is passed on: the case is armed, and the page drains.
Arm ==
  /\ Shadowing
  /\ report' = [report EXCEPT !.pass = "armed"]
  /\ UNCHANGED <<page, reqs, service, rows, case, sol, trouble>>

\* The drain reports what is complete and what is pending when the turns it waits for
\* are settled, or when its time is over: at any moment.
Drained ==
  /\ report.pass = "armed"
  /\ report' = [pass |-> "drained", done |-> page.done, pending |-> Waiting]
  /\ UNCHANGED <<page, reqs, service, rows, case, sol, trouble>>

\* freezeSnapshot, of the first compile; another gets the stored snapshot.
Freeze ==
  /\ report.pass = "drained" /\ ~Frozen
  /\ case' = [case EXCEPT !.open = TRUE,
                !.frozen = [told |-> Told, opinion |-> case.opinion, pending |-> report.pending]]
  /\ UNCHANGED <<page, report, reqs, service, rows, sol, trouble>>

WindowEnds ==
  /\ case.open
  /\ case' = [case EXCEPT !.open = FALSE]
  /\ UNCHANGED <<page, report, reqs, service, rows, sol, trouble>>

Next ==
  \/ \E t \in Turns : Final(t)
  \/ \E r \in reqs : Answered(r) \/ Refused(r) \/ Lost(r) \/ Rejected(r)
  \/ \E r \in reqs : Check(r) \/ Join(r) \/ Duplicate(r) \/ Insert(r)
  \/ Commit \/ Break \/ Restart
  \/ SolStart \/ SolAnswers \/ SolFails
  \/ Arm \/ Drained \/ Freeze \/ WindowEnds

\* The page has one request under way, and its steps go on; so does the extraction.
Fairness ==
  /\ WF_vars(Commit)
  /\ WF_vars(\E r \in reqs : r.live /\ (Check(r) \/ Join(r) \/ Duplicate(r) \/ Insert(r)))
  /\ WF_vars(\E r \in reqs : Answered(r) \/ Refused(r))

Spec == Init /\ [][Next]_vars /\ Fairness

-----------------------------------------------------------------------------
(* Properties *)

TypeOK ==
  /\ page \in [heard : SUBSET Turns, queue : Seq(Turns), flight : Turns \cup {None}, tries : 0..MaxTries,
               done : SUBSET Turns, failed : SUBSET Turns]
  /\ reqs \subseteq Requests
  /\ service \in [jobs : SUBSET Turns, batch : SUBSET Turns]
  /\ rows \in [Turns -> {"none", "pending", "done", "failed", "skipped"}]
  /\ report \in [pass : {"shadowing", "armed", "drained"}, done : SUBSET Turns, pending : SUBSET Turns]
  /\ case.opinion \in 0..MaxRuns /\ case.open \in BOOLEAN
  /\ sol \in [reads : BOOLEAN, runs : 0..MaxRuns]

\* Every turn is with exactly one place: a pending row is in the queue or with the
\* extractor, or its extraction was cut off; and a request waits only for
\* a turn under way.
TurnsPlaced ==
  /\ service.jobs \cap service.batch = {}
  /\ \A t \in Turns : rows[t] = "pending" <=> t \in Inflight \cup (trouble.cut \ {u \in Turns : rows[u] # "pending"})
  /\ \A r \in reqs : r.at = "joined" => r.live /\ r.turn \in Inflight
  /\ page.flight # None <=> \E r \in reqs : r.live

CaseSound == TypeOK /\ TurnsPlaced

\* What the drain reports as complete is in the snapshot: the facts of such a turn are
\* there when it is frozen and none come later, unless its extraction was cut off; and the
\* verifier's opinion in it is the last one, no later result is applied.
SnapshotWhole ==
  /\ \A t \in report.done :
       /\ rows[t] \in {"done", "failed"} \/ t \in trouble.cut
       /\ Frozen => (t \in Told <=> t \in case.frozen.told)
  /\ Frozen => case.opinion = case.frozen.opinion

\* In the end every final turn is settled on the page, and every stored turn is extracted,
\* marked failed or only stored, unless a restart or the database cut it off.
TurnsEnd ==
  <>[](/\ page.heard \subseteq page.done \cup page.failed
       /\ \A t \in Turns : rows[t] = "pending" => t \in trouble.cut)

(* The rules of FieldStatus speak of every conversation and of no state: they are looked *)
(* at before the call.                                                                   *)

\* A field is VERIFIED, without the AI, only when both parties agreed on its value and no
\* contradiction between them stands (deriveField).
VerifiedAgreed == Init => AgreedRule

\* Nothing said after the call was passed on, or cut off then, makes a field VERIFIED or
\* changes a value that is (deriveField's late_turn).
LateNotTrusted == Init => LateRule

\* The verifier takes trust away and fills gaps, and never gives trust nor moves what the AI
\* set (deriveField, verifierDisagrees).
VerifierOnlyDowngrades == Init => OverlayRule
=============================================================================
