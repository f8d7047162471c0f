------------------------------ MODULE VaSlots ------------------------------
(***************************************************************************)
(* The Voice Agent slot registry and its spend reservations: live_sessions *)
(* rows of kind "va", the ledger rows they carry, and every process that   *)
(* moves them.  Each database transaction of the code is one action; a     *)
(* handler that runs several transactions keeps a program counter between  *)
(* them, so another handler, the sweeper or a restart may come in between. *)
(*                                                                         *)
(* Handlers: POST /api/runs (Start..), POST /api/va/token (Decide .. Undo), *)
(* POST /api/takeovers/:id/end (End, EndReleases), session reports         *)
(* (ReportReads, ReportOpened, ReportClosed) and the F5 sweeper (Sweep).   *)
(*                                                                         *)
(* Time is not a variable.  A deadline (hold_expires_at, 30 s without a    *)
(* heartbeat, the cap and its grace, 20 min, the two 30 s mint windows)    *)
(* may or may not have passed whenever the code compares it with the       *)
(* clock, so a heartbeat, which only moves a deadline, is no step.         *)
(***************************************************************************)
EXTENDS Naturals, FiniteSets

CONSTANTS
  Cases,       \* calls
  Takeovers,   \* passes to the AI half
  CaseOf,      \* the case of each takeover
  Starts,      \* POST /api/runs requests; the hold row of one takes its name
  Requests,    \* POST /api/va/token requests
  Reports,     \* POST /api/sessions/report requests
  VaMax,       \* VA_MAX_CONCURRENT
  None,        \* null
  Recorded     \* a run plan whose aiHalf is "recorded"

Attempts == {0, 1}
\* A row is a hold, or the row va_<takeoverId>_<attempt>.
Slots == Starts \cup (Takeovers \X Attempts)

ASSUME SlotsAssumption ==
  /\ IsFiniteSet(Starts) /\ IsFiniteSet(Takeovers)
  /\ CaseOf \in [Takeovers -> Cases]
  /\ VaMax \in Nat
  /\ None \notin Slots /\ Recorded \notin Slots /\ None # Recorded
  /\ Starts \cap (Takeovers \X Attempts) = {}

VARIABLES
  status,    \* live_sessions.status of each row
  opened,    \* opened_at is set
  ledgerOf,  \* live_sessions.ledger_id
  ledger,    \* spend_ledger.status of the reservation made for each row
  plan,      \* cases.run_plan
  tko,       \* takeovers row: stage, retries, last_failure_at is set
  run,       \* POST /api/runs handlers
  req,       \* POST /api/va/token handlers
  rep,       \* report handlers
  sess       \* the browser's session on each slot

vars == <<status, opened, ledgerOf, ledger, plan, tko, run, req, rep, sess>>
rows == <<status, opened, ledgerOf, ledger>>

Status == {"none", "held", "open", "released", "closed", "stale"}
Money  == {"none", "reserved", "settled", "released"}

\* vaActive: the rows that count against VA_MAX_CONCURRENT.
Live   == {"held", "open"}
Active == {s \in Slots : status[s] \in Live}
Full   == Cardinality(Active) >= VaMax

TkoRow   == [stage: {"none", "live", "ending", "ended"}, retries: Attempts, failed: BOOLEAN]
RunState == [pc: {"idle", "release", "hold", "save", "done"}, case: Cases \cup {None},
             old: Starts \cup {None, Recorded}, new: Starts \cup {None, Recorded}]
ReqState == [pc: {"idle", "release0", "acquire", "reserve", "mint", "undo",
                  "minted", "denied", "dead"},
             slot: (Takeovers \X Attempts) \cup {None}, hold: Starts \cup {None}]
RepState == [pc: {"idle", "opened", "closed", "done"},
             slot: (Takeovers \X Attempts) \cup {None},
             status: Status, opened: BOOLEAN, ledgerOf: Slots \cup {None}]

TypeOK ==
  /\ status \in [Slots -> Status]
  /\ opened \in [Slots -> BOOLEAN]
  /\ ledgerOf \in [Slots -> Slots \cup {None}]
  /\ ledger \in [Slots -> Money]
  /\ plan \in [Cases -> Starts \cup {None, Recorded}]
  /\ tko \in [Takeovers -> TkoRow]
  /\ run \in [Starts -> RunState]
  /\ req \in [Requests -> ReqState]
  /\ rep \in [Reports -> RepState]
  /\ sess \in [Takeovers \X Attempts -> {"none", "minted", "over"}]

Init ==
  /\ status = [s \in Slots |-> "none"]
  /\ opened = [s \in Slots |-> FALSE]
  /\ ledgerOf = [s \in Slots |-> None]
  /\ ledger = [s \in Slots |-> "none"]
  /\ plan = [c \in Cases |-> None]
  /\ tko = [t \in Takeovers |->
              [stage |-> "none", retries |-> 0, failed |-> FALSE]]
  /\ run = [s \in Starts |-> [pc |-> "idle", case |-> None, old |-> None, new |-> None]]
  /\ req = [r \in Requests |-> [pc |-> "idle", slot |-> None, hold |-> None]]
  /\ rep = [p \in Reports |-> [pc |-> "idle", slot |-> None, status |-> "none",
                               opened |-> FALSE, ledgerOf |-> None]]
  /\ sess = [s \in Takeovers \X Attempts |-> "none"]

-----------------------------------------------------------------------------
\* Ledger updates.  settleOn is unconditional; the other two need "reserved".
SetLedger(l, m) == IF l = None THEN ledger ELSE [ledger EXCEPT ![l] = m]
CloseLedger(l, m) ==
  IF l # None /\ ledger[l] = "reserved" THEN SetLedger(l, m) ELSE ledger

\* DbLimitsAuthority.release: only a held or open row; a row that never opened
\* gives its reservation back, an opened one is settled from wall time.
Release(s) ==
  IF s \in Slots /\ status[s] \in Live
  THEN /\ status' = [status EXCEPT ![s] = "released"]
       /\ ledger' = IF status[s] = "held" \/ ~opened[s]
                    THEN CloseLedger(ledgerOf[s], "released")
                    ELSE SetLedger(ledgerOf[s], "settled")
       /\ UNCHANGED <<opened, ledgerOf>>
  ELSE UNCHANGED rows

-----------------------------------------------------------------------------
\* POST /api/runs: DbRunService.start, four transactions.

\* Only a case still shadowing may start a run: no takeover of it was armed.
Shadowing(c) == \A t \in Takeovers : CaseOf[t] = c => tko[t].stage = "none"

StartReads(s) ==
  /\ run[s].pc = "idle"
  /\ \E c \in Cases :
       /\ Shadowing(c)
       /\ run' = [run EXCEPT ![s] = [@ EXCEPT !.pc = "release", !.case = c, !.old = plan[c]]]
  /\ UNCHANGED <<rows, plan, tko, req, rep, sess>>

StartReleases(s) ==
  /\ run[s].pc = "release"
  /\ Release(run[s].old)
  /\ run' = [run EXCEPT ![s].pc = "hold"]
  /\ UNCHANGED <<plan, tko, req, rep, sess>>

\* vaHold takes a slot and its reservation in one transaction ...
StartHolds(s) ==
  /\ run[s].pc = "hold"
  /\ ~Full
  /\ status' = [status EXCEPT ![s] = "held"]
  /\ ledger' = [ledger EXCEPT ![s] = "reserved"]
  /\ ledgerOf' = [ledgerOf EXCEPT ![s] = s]
  /\ run' = [run EXCEPT ![s] = [@ EXCEPT !.pc = "save", !.new = s]]
  /\ UNCHANGED <<opened, plan, tko, req, rep, sess>>

\* ... or is refused (the mode, the capacity or the budget), and the AI half
\* of this run is the recorded bundle.
StartRefused(s) ==
  /\ run[s].pc = "hold"
  /\ run' = [run EXCEPT ![s] = [@ EXCEPT !.pc = "save", !.new = Recorded]]
  /\ UNCHANGED <<rows, plan, tko, req, rep, sess>>

StartSaves(s) ==
  /\ run[s].pc = "save"
  /\ plan' = [plan EXCEPT ![run[s].case] = run[s].new]
  /\ run' = [run EXCEPT ![s].pc = "done"]
  /\ UNCHANGED <<rows, tko, req, rep, sess>>

\* DELETE of an unused run: the hold of the plan, if it is still held.
RunReleases(c) ==
  /\ plan[c] \in Starts
  /\ status[plan[c]] = "held"
  /\ Release(plan[c])
  /\ UNCHANGED <<plan, tko, run, req, rep, sess>>

-----------------------------------------------------------------------------
\* The takeover row, as far as the token route reads it.

\* An arm needs a live plan and no other pass of the call under way.
Arm(t) ==
  /\ tko[t].stage = "none"
  /\ plan[CaseOf[t]] \in Starts
  /\ \A u \in Takeovers : CaseOf[u] = CaseOf[t] => tko[u].stage \in {"none", "ended"}
  /\ tko' = [tko EXCEPT ![t].stage = "live"]
  /\ UNCHANGED <<rows, plan, run, req, rep, sess>>

\* POST /api/takeovers/:id/events with a failure (ignored after the end).
FailureReported(t) ==
  /\ tko[t].stage = "live"
  /\ ~tko[t].failed
  /\ tko' = [tko EXCEPT ![t].failed = TRUE]
  /\ UNCHANGED <<rows, plan, run, req, rep, sess>>

\* POST /api/takeovers/:id/end: the row first, then the slot of the current
\* attempt in a transaction of its own, which a restart may skip.
End(t) ==
  /\ tko[t].stage = "live"
  /\ tko' = [tko EXCEPT ![t].stage = "ending"]
  /\ UNCHANGED <<rows, plan, run, req, rep, sess>>
EndReleases(t) ==
  /\ tko[t].stage = "ending"
  /\ \/ Release(<<t, tko[t].retries>>)
     \/ UNCHANGED rows
  /\ tko' = [tko EXCEPT ![t].stage = "ended"]
  /\ UNCHANGED <<plan, run, req, rep, sess>>

-----------------------------------------------------------------------------
\* POST /api/va/token.

\* withTakeoverLocked: attempt 0 while nothing was retried, attempt 1 once and
\* after a reported failure (each within its 30 s; a refusal changes nothing).
MayMint(t, a) ==
  /\ tko[t].stage = "live"
  /\ tko[t].retries = 0
  /\ plan[CaseOf[t]] # Recorded
  /\ a = 1 => tko[t].failed

\* Mutant: markRetry without "where retries = 0", outside the locked decision.
DecideUnguarded(r, t, a) ==
  /\ req[r].pc = "idle"
  /\ tko[t].stage = "live"
  /\ tko' = [tko EXCEPT ![t].retries = @ + a]
  /\ req' = [req EXCEPT ![r] = [pc |-> "acquire", slot |-> <<t, a>>, hold |-> None]]
  /\ UNCHANGED <<rows, plan, run, rep, sess>>

Decide(r, t, a) ==
  /\ req[r].pc = "idle"
  /\ MayMint(t, a)
  /\ tko' = [tko EXCEPT ![t].retries = a]
  /\ req' = [req EXCEPT ![r] =
               [pc |-> IF a = 1 THEN "release0" ELSE "acquire", slot |-> <<t, a>>,
                hold |-> IF a = 0 THEN plan[CaseOf[t]] ELSE None]]
  /\ UNCHANGED <<rows, plan, run, rep, sess>>

\* Attempt 1 first frees the slot of the failed attempt 0.
ReleaseFirst(r) ==
  /\ req[r].pc = "release0"
  /\ Release(<<req[r].slot[1], 0>>)
  /\ req' = [req EXCEPT ![r].pc = "acquire"]
  /\ UNCHANGED <<plan, tko, run, rep, sess>>

\* vaAcquireDetailed.  A usable hold (held, not expired) is spent and its
\* reservation moves to the new row; without one the row needs a free slot.
Held(h) == h \in Starts /\ status[h] = "held"

\* Mutant: the hold is copied, not spent.
AcquireKeepsHold(r) ==
  LET s == req[r].slot  h == req[r].hold
  IN /\ req[r].pc = "acquire" /\ status[s] = "none" /\ Held(h)
     /\ status' = [status EXCEPT ![s] = "open"]
     /\ ledgerOf' = [ledgerOf EXCEPT ![s] = ledgerOf[h]]
     /\ req' = [req EXCEPT ![r].pc = "mint"]
     /\ UNCHANGED <<opened, ledger, plan, tko, run, rep, sess>>

AcquireFromHold(r) ==
  LET s == req[r].slot  h == req[r].hold
  IN /\ req[r].pc = "acquire"
     /\ status[s] = "none"
     /\ Held(h)
     /\ status' = [status EXCEPT ![h] = "released", ![s] = "open"]
     /\ ledgerOf' = [ledgerOf EXCEPT ![h] = None, ![s] = ledgerOf[h]]
     /\ req' = [req EXCEPT ![r].pc = "mint"]
     /\ UNCHANGED <<opened, ledger, plan, tko, run, rep, sess>>

AcquireFree(r) ==
  LET s == req[r].slot
  IN /\ req[r].pc = "acquire"
     /\ status[s] = "none"
     /\ ~Full
     /\ status' = [status EXCEPT ![s] = "open"]
     /\ req' = [req EXCEPT ![r].pc = "reserve"]
     /\ UNCHANGED <<opened, ledgerOf, ledger, plan, tko, run, rep, sess>>

\* E_VA_CAPACITY: the attempt already has a row, or there is no usable hold and
\* no free slot.
NoSlotFor(r) == status[req[r].slot] # "none" \/ Full

AcquireDenied(r) ==
  /\ req[r].pc = "acquire"
  /\ NoSlotFor(r)
  /\ req' = [req EXCEPT ![r].pc = "denied"]
  /\ UNCHANGED <<rows, plan, tko, run, rep, sess>>

\* A slot without an inherited reservation makes one; reserveTx links it to
\* the row.  A refused budget gives the slot back.
Reserve(r) ==
  LET s == req[r].slot
  IN /\ req[r].pc = "reserve"
     /\ ledger' = [ledger EXCEPT ![s] = "reserved"]
     /\ ledgerOf' = [ledgerOf EXCEPT ![s] = IF @ = None THEN s ELSE @]
     /\ req' = [req EXCEPT ![r].pc = "mint"]
     /\ UNCHANGED <<status, opened, plan, tko, run, rep, sess>>

ReserveRefused(r) ==
  /\ req[r].pc = "reserve"
  /\ req' = [req EXCEPT ![r].pc = "undo"]
  /\ UNCHANGED <<rows, plan, tko, run, rep, sess>>

Mint(r) ==
  /\ req[r].pc = "mint"
  /\ req' = [req EXCEPT ![r].pc = "minted"]
  /\ sess' = [sess EXCEPT ![req[r].slot] = "minted"]
  /\ UNCHANGED <<rows, plan, tko, run, rep>>

MintFails(r) ==
  /\ req[r].pc = "mint"
  /\ req' = [req EXCEPT ![r].pc = "undo"]
  /\ UNCHANGED <<rows, plan, tko, run, rep, sess>>

Undo(r) ==
  /\ req[r].pc = "undo"
  /\ Release(req[r].slot)
  /\ req' = [req EXCEPT ![r].pc = "denied"]
  /\ UNCHANGED <<plan, tko, run, rep, sess>>

\* The server restarts between two transactions of a handler.
Dies(r) ==
  /\ req[r].pc \in {"release0", "acquire", "reserve", "mint", "undo"}
  /\ req' = [req EXCEPT ![r].pc = "dead"]
  /\ UNCHANGED <<rows, plan, tko, run, rep, sess>>

-----------------------------------------------------------------------------
\* The browser's session and what it reports.

BrowserCloses(s) ==
  /\ sess[s] = "minted"
  /\ sess' = [sess EXCEPT ![s] = "over"]
  /\ UNCHANGED <<rows, plan, tko, run, req, rep>>

\* report reads the row outside the transaction it writes in.
ReportReads(p, s, e) ==
  /\ rep[p].pc = "idle"
  /\ IF e = "opened" THEN sess[s] # "none" ELSE sess[s] = "over"
  /\ rep' = [rep EXCEPT ![p] = [pc |-> e, slot |-> s, status |-> status[s],
                                opened |-> opened[s], ledgerOf |-> ledgerOf[s]]]
  /\ UNCHANGED <<rows, plan, tko, run, req, sess>>

ReportOpened(p) ==
  LET s == rep[p].slot
  IN /\ rep[p].pc = "opened"
     /\ opened' = [opened EXCEPT ![s] = TRUE]
     /\ rep' = [rep EXCEPT ![p].pc = "done"]
     /\ UNCHANGED <<status, ledgerOf, ledger, plan, tko, run, req, sess>>

\* The new status comes from the status read before.  With billed seconds, or
\* from wall time, the reservation is settled; a session that never opened and
\* billed nothing gives it back.
ReportClosed(p) ==
  LET s == rep[p].slot  l == rep[p].ledgerOf
  IN /\ rep[p].pc = "closed"
     /\ status' = [status EXCEPT ![s] =
                     IF rep[p].status \in Live THEN "closed" ELSE rep[p].status]
     /\ \E billed \in BOOLEAN :
          ledger' = IF billed \/ rep[p].opened THEN SetLedger(l, "settled")
                    ELSE CloseLedger(l, "released")
     /\ rep' = [rep EXCEPT ![p].pc = "done"]
     /\ UNCHANGED <<opened, ledgerOf, plan, tko, run, req, sess>>

-----------------------------------------------------------------------------
\* The F5 sweeper, one transaction: open rows whose heartbeat or cap deadline
\* passed become stale and book their reservation, expired holds give theirs
\* back, and old reservations that no row left held or open owns are booked.
Owned(S) == {l \in Slots : \E s \in S : ledgerOf[s] = l}

SweepWrites(stale, expired, old) ==
  /\ status' = [s \in Slots |-> IF s \in stale THEN "stale"
                               ELSE IF s \in expired THEN "released" ELSE status[s]]
  /\ ledger' = [l \in Slots |-> IF ledger[l] # "reserved" THEN ledger[l]
                               ELSE IF l \in Owned(stale) \cup old THEN "settled"
                               ELSE IF l \in Owned(expired) THEN "released"
                               ELSE ledger[l]]
  /\ UNCHANGED <<opened, ledgerOf, plan, tko, run, req, rep, sess>>

\* Mutants: an old reservation is booked under a running slot; no orphan is ever swept.
SweepOwned(stale, expired, old) ==
  /\ \A s \in stale : status[s] = "open"
  /\ \A s \in expired : status[s] = "held"
  /\ \A l \in old : ledger[l] = "reserved"
  /\ SweepWrites(stale, expired, old)
SweepNoOrphan(stale, expired, old) ==
  /\ \A s \in stale : status[s] = "open"
  /\ \A s \in expired : status[s] = "held"
  /\ old = {}
  /\ SweepWrites(stale, expired, old)

Sweep(stale, expired, old) ==
  /\ \A s \in stale : status[s] = "open"
  /\ \A s \in expired : status[s] = "held"
  /\ \A l \in old : ledger[l] = "reserved" /\ l \notin Owned(Active)
  /\ SweepWrites(stale, expired, old)

WithStatus(st) == {s \in Slots : status[s] = st}

\* Whatever a sweep finds past its deadline.
Sweeps ==
  \E stale \in SUBSET WithStatus("open"), expired \in SUBSET WithStatus("held"),
     old \in SUBSET {l \in Slots : ledger[l] = "reserved"} : Sweep(stale, expired, old)

\* A sweep that finds the row s, or the reservation l, past its deadline.
SweepsRow(s) ==
  s \in Active /\ Sweep({s} \cap WithStatus("open"), {s} \cap WithStatus("held"), {})
SweepsOrphan(l) == Sweep({}, {}, {l})

-----------------------------------------------------------------------------
RunNext ==
  \/ \E s \in Starts : \/ StartReads(s) \/ StartReleases(s) \/ StartHolds(s)
                       \/ StartRefused(s) \/ StartSaves(s)
  \/ \E c \in Cases : RunReleases(c)

TakeoverNext ==
  \E t \in Takeovers :
    Arm(t) \/ FailureReported(t) \/ End(t) \/ EndReleases(t)

TokenNext ==
  \E r \in Requests :
    \/ \E t \in Takeovers, a \in Attempts : Decide(r, t, a)
    \/ ReleaseFirst(r) \/ AcquireFromHold(r) \/ AcquireFree(r) \/ AcquireDenied(r)
    \/ Reserve(r) \/ ReserveRefused(r) \/ Mint(r) \/ MintFails(r) \/ Undo(r) \/ Dies(r)

BrowserNext ==
  \/ \E s \in Takeovers \X Attempts : BrowserCloses(s)
  \/ \E p \in Reports :
       \/ \E s \in Takeovers \X Attempts, e \in {"opened", "closed"} : ReportReads(p, s, e)
       \/ ReportOpened(p) \/ ReportClosed(p)

Next == RunNext \/ TakeoverNext \/ TokenNext \/ BrowserNext \/ Sweeps

\* The in-process ticker sweeps every 15 s and every deadline passes in the end
\* (a heartbeat moves the 30 s one, nothing moves the cap).  No request, no
\* browser and no handler is promised to make progress.
Fairness == \A s \in Slots : WF_vars(SweepsRow(s)) /\ WF_vars(SweepsOrphan(s))

Spec == Init /\ [][Next]_vars
FairSpec == Spec /\ Fairness

-----------------------------------------------------------------------------
(***************************************************************************)
(* Properties.                                                             *)
(***************************************************************************)

\* Never more held and open rows than VA_MAX_CONCURRENT, although holds turn
\* into slots, retries replace slots, and every check and insert races others
\* (db-authority.ts: "count against VA_MAX_CONCURRENT").
Capacity == Cardinality(Active) <= VaMax

\* An active row's reservation is still reserved: neither a late report, a
\* release nor the orphan sweep gives back or books money a running slot needs.
ActiveBacked == \A s \in Active : ledgerOf[s] # None => ledger[ledgerOf[s]] = "reserved"

\* Two active rows never share a reservation: consuming a hold moves its money.
ReservationExclusive ==
  \A s1, s2 \in Active : ledgerOf[s1] # None /\ ledgerOf[s1] = ledgerOf[s2] => s1 = s2

\* Reserve before mint: no provider session runs on a slot that carries no
\* reservation, whichever way the slot was acquired.
SessionPaidFor == \A s \in Takeovers \X Attempts : sess[s] # "none" => ledgerOf[s] # None

\* The one retry of a takeover is one row: attempt 1 is minted at most once,
\* whatever requests race for it.
OneRetry ==
  \A r1, r2 \in Requests :
    /\ req[r1].pc = "minted" /\ req[r2].pc = "minted"
    /\ req[r1].slot = req[r2].slot
    => r1 = r2

\* With nothing but the clock and the sweeper, every active slot is freed and
\* every reservation is booked or given back (crashed handlers, lost reports
\* and dead browsers included).
SlotsFreed == \A s \in Slots : s \in Active ~> s \notin Active
ReservationsClosed == \A l \in Slots : ledger[l] = "reserved" ~> ledger[l] # "reserved"

-----------------------------------------------------------------------------
(***************************************************************************)
(* The inductive invariant behind the safety properties.                   *)
(***************************************************************************)
\* A row that was never written has no reservation.
Unwritten ==
  \A s \in Slots : status[s] = "none" => ledgerOf[s] = None /\ ledger[s] = "none"

\* A reservation a row names was made.
Booked == \A s \in Slots : ledgerOf[s] # None => ledger[ledgerOf[s]] # "none"

\* A row carries its own reservation or, for a takeover's row, a hold's; no two
\* rows carry the same one.
OneOwner ==
  /\ \A s \in Starts : ledgerOf[s] \in {s, None}
  /\ \A s \in Takeovers \X Attempts : ledgerOf[s] \in Starts \cup {s, None}
  /\ \A s, q \in Slots : ledgerOf[s] # None /\ ledgerOf[s] = ledgerOf[q] => s = q

\* Only holds are held, each with its own reservation, which exists from vaHold on.
HoldRows ==
  /\ \A s \in Starts : status[s] = "held" => ledgerOf[s] = s
  /\ \A s \in Takeovers \X Attempts : status[s] # "held"
  /\ \A s \in Starts : run[s].pc \in {"idle", "release", "hold"} =>
       /\ status[s] = "none"
       /\ \A q \in Slots : ledgerOf[q] # s

\* A token request past its acquire wrote its row, alone; before the mint the
\* row has a reservation.
Acquired(r) == req[r].pc \in {"reserve", "mint", "undo", "minted"}
RequestRows ==
  /\ \A r \in Requests : req[r].pc # "idle" => req[r].slot \in Takeovers \X Attempts
  /\ \A r \in Requests : Acquired(r) => status[req[r].slot] # "none"
  /\ \A r \in Requests : req[r].pc = "reserve" =>
       ledgerOf[req[r].slot] = None /\ ledger[req[r].slot] = "none"
  /\ \A r \in Requests : req[r].pc = "mint" => ledgerOf[req[r].slot] # None
  /\ \A q, r \in Requests :
       Acquired(q) /\ Acquired(r) /\ req[q].slot = req[r].slot => q = r

\* What a report read of its row may be old, except the reservation.
ReportRows ==
  \A p \in Reports : rep[p].pc # "idle" =>
    /\ rep[p].slot \in Takeovers \X Attempts
    /\ rep[p].status # "none"
    /\ sess[rep[p].slot] # "none"
    /\ rep[p].ledgerOf = ledgerOf[rep[p].slot]

SlotInv ==
  /\ Unwritten /\ Booked /\ OneOwner /\ HoldRows /\ RequestRows /\ ReportRows
  /\ SessionPaidFor /\ ActiveBacked

-----------------------------------------------------------------------------
\* What the token route's header says: attempt 0's slot is released first, "so
\* the retry is never refused by its own zombie slot".
RetryNotRefusedByOwnSlot ==
  [][\A r \in Requests :
       AcquireDenied(r) /\ req[r].slot[2] = 1 /\ status[req[r].slot] = "none"
       => status[<<req[r].slot[1], 0>>] # "open"]_vars

\* The registry is sound: rows and requests keep their types, no two active rows
\* share money, and the one retry of a takeover is minted once.
SlotsSound == TypeOK /\ ReservationExclusive /\ OneRetry

\* No session runs without money, and no active row loses its own.
MoneyBacked == ActiveBacked /\ SessionPaidFor

\* What was taken is given back: every slot freed, every reservation closed (the sweep).
SlotsClose == SlotsFreed /\ ReservationsClosed
=============================================================================
