----------------------------- MODULE Publishing -----------------------------
(***************************************************************************)
(* The publications of one relay (PgPublisher): a publish puts a stored    *)
(* agent behind the relay's share link, a republish swaps the agent and    *)
(* retires the one before it to a tombstone row, an unpublish takes the    *)
(* agent away, and a purge retries the deletions that failed.              *)
(*                                                                         *)
(* Every request runs its steps one by one between those of the others:    *)
(* each action is one call to the provider or one statement of the         *)
(* database.  A request may die at any step (Dies), and the provider may   *)
(* refuse a call, or carry it out and lose the answer.  The checks that    *)
(* may refuse a publish (lint, moderation, plan, caps) are one             *)
(* nondeterministic action; what the agent says is left out.               *)
(***************************************************************************)
EXTENDS Naturals, Sequences, FiniteSets

CONSTANTS
  Publishes,  \* requests to publish, each made once
  Deletes,    \* requests to unpublish, and passes of the purge over one row
  None        \* no agent

Requests == Publishes \cup Deletes

ASSUME PublishingAssumption == Publishes \cap Deletes = {} /\ IsFiniteSet(Requests) /\ None \notin Nat

VARIABLES
  rows,    \* relay_publications of this relay, in the order of their creation
  relay,   \* relays.status and relays.deletedAt
  agents,  \* the stored agents at the provider; made is how many there ever were
  made,
  at,      \* the requests: the step each is at, and its locals
  taken,   \* history: agents an unpublish or a purge asked to delete
  mixed    \* history: requests overlapped or died, or a new agent's id was lost

vars == <<rows, relay, agents, made, at, taken, mixed>>

Agent    == 1 .. Cardinality(Publishes)
Statuses == {"creating", "live", "failed", "deleting", "deleted"}
Steps    == {"idle", "checked", "found", "placed", "refused", "created", "swapped", "published",
             "deleting", "gone", "kept", "unmark", "done"}

TypeOK ==
  /\ rows \in Seq([st: Statuses, agent: Agent \cup {None}, gone: BOOLEAN])
  /\ relay \in [st: {"draft", "published"}, removed: BOOLEAN]
  /\ made \in 0 .. Cardinality(Publishes) /\ agents \subseteq 1 .. made /\ taken \subseteq 1 .. made
  /\ at \in [Requests -> [pc: Steps, row: 0 .. Len(rows), fresh: BOOLEAN, agent: Agent \cup {None},
                          old: Agent \cup {None}, tomb: 0 .. Len(rows), unpublish: BOOLEAN]]
  /\ mixed \in BOOLEAN

Rest(step) == [pc |-> step, row |-> 0, fresh |-> FALSE, agent |-> None,
               old |-> None, tomb |-> 0, unpublish |-> FALSE]

Init ==
  /\ rows = <<>> /\ relay = [st |-> "draft", removed |-> FALSE]
  /\ agents = {} /\ made = 0 /\ taken = {} /\ mixed = FALSE
  /\ at = [x \in Requests |-> Rest("idle")]

-----------------------------------------------------------------------------
(* The rows, and how a request moves *)

Standing(r) == ~rows[r].gone
Live(r)     == Standing(r) /\ rows[r].st \in {"creating", "live"}
LiveRows    == {r \in DOMAIN rows : Live(r)}
Serving     == \E r \in LiveRows : rows[r].st = "live" /\ rows[r].agent \in agents

Busy(x)     == at[x].pc \notin {"idle", "done"}
Overlaps(x) == \E y \in Requests \ {x} : Busy(y)
Go(x, step) == at' = [at EXCEPT ![x].pc = step]
Ends(x)     == at' = [at EXCEPT ![x] = Rest("done")]

\* A gallery relay keeps its status; the relay here is a private one.
Mark(status) == relay' = [relay EXCEPT !.st = status]

-----------------------------------------------------------------------------
(* publishFor *)

\* The draft is the owner's, parses and has no lint errors.
Begin(p) ==
  /\ at[p].pc = "idle" /\ ~relay.removed
  /\ mixed' = (mixed \/ Overlaps(p))
  /\ Go(p, "checked")
  /\ UNCHANGED <<rows, relay, agents, made, taken>>

\* snapshotVersion refuses a relay removed meanwhile; then liveForRelay, the latest.
Find(p) ==
  /\ at[p].pc = "checked"
  /\ \/ relay.removed /\ Ends(p)
     \/ /\ ~relay.removed /\ LiveRows = {}
        /\ at' = [at EXCEPT ![p] = [@ EXCEPT !.pc = "found", !.fresh = TRUE]]
     \/ \E r \in LiveRows :
          /\ ~relay.removed /\ \A q \in LiveRows : q <= r
          /\ at' = [at EXCEPT ![p] = [@ EXCEPT !.pc = "found", !.row = r, !.old = rows[r].agent]]
  /\ UNCHANGED <<rows, relay, agents, made, taken, mixed>>

\* The rule lint, the moderation, the plan, the cap on agents or the compiler says no.
Refuse(p) ==
  /\ at[p].pc = "found"
  /\ Ends(p)
  /\ UNCHANGED <<rows, relay, agents, made, taken, mixed>>

\* The row comes first, so that the agent can carry its URLs.
Place(p) ==
  /\ at[p].pc = "found"
  /\ IF at[p].fresh
     THEN /\ rows' = Append(rows, [st |-> "creating", agent |-> None, gone |-> FALSE])
          /\ at' = [at EXCEPT ![p] = [@ EXCEPT !.pc = "placed", !.row = Len(rows) + 1]]
     ELSE /\ Go(p, "placed")
          /\ UNCHANGED rows
  /\ UNCHANGED <<relay, agents, made, taken, mixed>>

\* The provider makes the agent, and its id arrives or is lost.
Create(p) ==
  /\ at[p].pc = "placed"
  /\ made' = made + 1 /\ agents' = agents \cup {made + 1}
  /\ \/ /\ at' = [at EXCEPT ![p] = [@ EXCEPT !.pc = "created", !.agent = made + 1]]
        /\ UNCHANGED mixed
     \/ /\ Go(p, "refused")
        /\ mixed' = TRUE
  /\ UNCHANGED <<rows, relay, taken>>

CreateFails(p) ==
  /\ at[p].pc = "placed"
  /\ Go(p, "refused")
  /\ UNCHANGED <<rows, relay, agents, made, taken, mixed>>

\* Mutant: the row of a republish fails with it.
FailsAlways(p) == TRUE
FailsRow(p)    == at[p].fresh

Fail(p) ==
  /\ at[p].pc = "refused"
  /\ rows' = IF FailsRow(p) THEN [rows EXCEPT ![at[p].row].st = "failed"] ELSE rows
  /\ Ends(p)
  /\ UNCHANGED <<relay, agents, made, taken, mixed>>

\* By id, whatever became of the row: its status and deletedAt are written with the agent.
Swap(p) ==
  /\ at[p].pc = "created"
  /\ rows' = [rows EXCEPT ![at[p].row] = [st |-> "live", agent |-> at[p].agent, gone |-> FALSE]]
  /\ Go(p, "swapped")
  /\ UNCHANGED <<relay, agents, made, taken, mixed>>

Published(p) ==
  /\ at[p].pc = "swapped"
  /\ Mark("published")
  /\ Go(p, "published")
  /\ UNCHANGED <<rows, agents, made, taken, mixed>>

\* Mutant: the agent to retire is read again, after the swap.
RetiredNow(p) == rows[at[p].row].agent
Retired(p)    == IF at[p].old = at[p].agent THEN None ELSE at[p].old

\* retireAgent: a tombstone row takes the old agent over.
Retire(p) ==
  /\ at[p].pc = "published"
  /\ IF Retired(p) = None
     THEN /\ Ends(p)
          /\ UNCHANGED rows
     ELSE /\ rows' = Append(rows, [st |-> "deleting", agent |-> Retired(p), gone |-> FALSE])
          /\ at' = [at EXCEPT ![p] = [@ EXCEPT !.pc = "deleting", !.tomb = Len(rows) + 1, !.old = Retired(p)]]
  /\ UNCHANGED <<relay, agents, made, taken, mixed>>

-----------------------------------------------------------------------------
(* unpublishFor and purge *)

Take(d, r, unpublish) ==
  /\ at[d].pc = "idle"
  /\ at' = [at EXCEPT ![d] = [@ EXCEPT !.pc = "deleting", !.tomb = r, !.old = rows[r].agent,
                                       !.unpublish = unpublish]]
  /\ mixed' = (mixed \/ Overlaps(d))
  /\ UNCHANGED <<rows, relay, agents, made, taken>>

\* Any row that is not deleted, by its id.  The purge takes a live row idle for
\* too long through the same steps.
Unpublish(d, r) == Standing(r) /\ rows[r].st # "deleted" /\ Take(d, r, TRUE)

\* The first half of a purge: a deletion that failed.
Retry(d, r) == Standing(r) /\ rows[r].st = "deleting" /\ Take(d, r, FALSE)

-----------------------------------------------------------------------------
(* deleteAgentRow, of a publish that retires and of an unpublish *)

\* DELETE at the provider: done, refused, or done with its answer lost.  A 404 is a success.
Delete(x) ==
  /\ at[x].pc = "deleting"
  /\ taken' = IF x \in Deletes THEN taken \cup ({at[x].old} \ {None}) ELSE taken
  /\ \/ /\ agents' = agents \ {at[x].old}
        /\ Go(x, "gone")
     \/ /\ at[x].old # None
        /\ agents' \in {agents, agents \ {at[x].old}}
        /\ Go(x, "kept")
  /\ UNCHANGED <<rows, relay, made, mixed>>

\* Mutant: a deletion that failed counts as done.
DeletedAnyhow(r, pc) == [r EXCEPT !.st = "deleted", !.gone = TRUE]
AfterDelete(r, pc)   == IF pc = "gone" THEN [r EXCEPT !.st = "deleted", !.gone = TRUE]
                        ELSE [r EXCEPT !.st = "deleting"]

Settle(x) ==
  /\ at[x].pc \in {"gone", "kept"}
  /\ rows' = [rows EXCEPT ![at[x].tomb] = AfterDelete(@, at[x].pc)]
  /\ IF at[x].unpublish THEN Go(x, "unmark") ELSE Ends(x)
  /\ UNCHANGED <<relay, agents, made, taken, mixed>>

Unmark(d) ==
  /\ at[d].pc = "unmark"
  /\ Mark("draft")
  /\ Ends(d)
  /\ UNCHANGED <<rows, agents, made, taken, mixed>>

-----------------------------------------------------------------------------

\* The registry's remove: the publications stay.
Remove ==
  /\ ~relay.removed
  /\ relay' = [relay EXCEPT !.removed = TRUE]
  /\ UNCHANGED <<rows, agents, made, at, taken, mixed>>

\* The process ends in the middle of a request.
Dies(x) ==
  /\ Busy(x)
  /\ Ends(x)
  /\ mixed' = TRUE
  /\ UNCHANGED <<rows, relay, agents, made, taken>>

Publish(p) ==
  \/ Begin(p) \/ Find(p) \/ Refuse(p) \/ Place(p) \/ Create(p) \/ CreateFails(p)
  \/ Fail(p) \/ Swap(p) \/ Published(p) \/ Retire(p)

Next ==
  \/ Remove
  \/ \E p \in Publishes : Publish(p)
  \/ \E d \in Deletes, r \in DOMAIN rows : Unpublish(d, r) \/ Retry(d, r)
  \/ \E x \in Requests : Delete(x) \/ Settle(x) \/ Unmark(x) \/ Dies(x)

Spec == Init /\ [][Next]_vars

-----------------------------------------------------------------------------
(* Properties *)

\* The agent behind a live share link exists, however the requests interleave and
\* wherever they die, unless an unpublish or a purge asked for its deletion: no
\* republish, not even a late or a half-finished one, ever retires an agent a
\* live row points at.
LiveAgentExists ==
  \A r \in DOMAIN rows :
    Standing(r) /\ rows[r].st = "live" => rows[r].agent \in agents \cup taken

\* Until the swap lands, the live agent keeps working: a relay with a working link
\* has one after every step of its republishes, whether they fail, die or overlap,
\* while nothing is unpublished and no first publish is under way.  (A first
\* publish that fails writes "failed" to the row a second one may have made live.)
KeepsServing ==
  [][Serving /\ (\A x \in Requests : Busy(x) => x \in Publishes /\ ~at[x].fresh)
     => Serving']_vars

\* Of requests that came one at a time and got their answers, whatever the
\* provider refused: every agent on the account is in a row that counts it
\* (tombstones included), the relay has one live publication at most, and it is
\* published only while its link works.
Accounted ==
  ~mixed /\ (\A x \in Requests : ~Busy(x)) =>
    /\ agents \subseteq {rows[r].agent : r \in {q \in DOMAIN rows :
                           Standing(q) /\ rows[q].st \in {"creating", "live", "deleting"}}}
    /\ Cardinality(LiveRows) <= 1
    /\ relay.st = "published" => Serving

\* The rows are sound: typed, and live ones have their agent.
RowsSound == TypeOK /\ LiveAgentExists
=============================================================================
