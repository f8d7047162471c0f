-------------------------- MODULE TakeoverService --------------------------
(***************************************************************************)
(* The server's side of a pass of the baton: TakeoverServiceImpl (arm,     *)
(* compile, events, end) over the rows of takeovers, case snapshots, usage *)
(* and jobs, with the two tools of the AI half that move cases.status and  *)
(* the stale-slot handler that enqueues a verification too.                *)
(*                                                                         *)
(* Each database transaction or statement is one action.  A handler keeps  *)
(* what it read before in its own record, so every other handler may run   *)
(* in between, and one that never takes its next step is a restart or a    *)
(* lost request.  Slots and money are in VaSlots; the run plan is as well. *)
(***************************************************************************)
EXTENDS Naturals, FiniteSets

CONSTANTS
  Cases,       \* calls
  Takeovers,   \* arm requests; an accepted one makes the takeover of its name
  CaseOf,      \* the case of each takeover
  MaxPerCase,  \* MAX_TAKEOVERS_PER_CASE
  Compiles,    \* POST compile requests; one's drain report takes its name
  Reports,     \* POST events requests
  Ends,        \* POST end requests
  Sweeps,      \* calls of the stale-slot handler
  None         \* null

ASSUME ServiceAssumption ==
  /\ IsFiniteSet(Takeovers)
  /\ CaseOf \in [Takeovers -> Cases]
  /\ MaxPerCase \in Nat
  /\ None \notin Takeovers \cup Compiles

VARIABLES
  status,    \* cases.status
  arms,      \* arm handlers; "made": the takeover row exists
  latest,    \* the takeover of each case with the latest armed_at
  tko,       \* takeovers rows
  usage,     \* takeovers with their run.completed event and usage rows
  jobs,      \* verify_takeover jobs of each takeover
  cmp, evs, ends, swp   \* compile, events, end and stale-slot handlers

vars == <<status, arms, latest, tko, usage, jobs, cmp, evs, ends, swp>>

Outcomes == {"completed", "handed_back", "abandoned", "failed"}
CaseStatus == {"shadowing", "armed", "ai_active"} \cup Outcomes
ARMABLE == {"shadowing", "handed_back"}
ENDABLE == {"armed", "ai_active"}
\* Statuses a tool of the AI half may overwrite.
ACTIVE == {"shadowing", "armed", "ai_active"}

\* Phases: what the browser reports while the pass runs is "live".
Phases == {"armed", "compiling", "live", "failed", "done"}
PhaseAfterEnd(o) == IF o = "failed" THEN "failed" ELSE "done"

Row == [phase: Phases, snapshot: Compiles \cup {None}, session: BOOLEAN,
        handBack: BOOLEAN, ended: BOOLEAN, outcome: Outcomes \cup {"none"}]
CompileState == [pc: {"idle", "freeze", "save", "done"},
                 tko: Takeovers \cup {None}, snapshot: Compiles \cup {None}]
ReportState == [pc: {"idle", "write", "done"}, tko: Takeovers \cup {None}, ended: BOOLEAN]
EndState == [pc: {"idle", "tx", "find", "enqueue", "ok", "replayed"}, tko: Takeovers \cup {None},
             outcome: Outcomes \cup {"none"}, session: BOOLEAN]
SweepState == [pc: {"idle", "enqueue", "done"}, tko: Takeovers \cup {None}]

TypeOK ==
  /\ status \in [Cases -> CaseStatus]
  /\ arms \in [Takeovers -> {"idle", "loaded", "made", "refused"}]
  /\ latest \in [Cases -> Takeovers \cup {None}]
  /\ tko \in [Takeovers -> Row]
  /\ usage \in SUBSET Takeovers
  /\ jobs \in [Takeovers -> Nat]
  /\ cmp \in [Compiles -> CompileState]
  /\ evs \in [Reports -> ReportState]
  /\ ends \in [Ends -> EndState]
  /\ swp \in [Sweeps -> SweepState]

NewRow == [phase |-> "armed", snapshot |-> None, session |-> FALSE,
           handBack |-> FALSE, ended |-> FALSE, outcome |-> "none"]

Init ==
  /\ status = [c \in Cases |-> "shadowing"]
  /\ arms = [t \in Takeovers |-> "idle"]
  /\ latest = [c \in Cases |-> None]
  /\ tko = [t \in Takeovers |-> NewRow]
  /\ usage = {}
  /\ jobs = [t \in Takeovers |-> 0]
  /\ cmp = [k \in Compiles |-> [pc |-> "idle", tko |-> None, snapshot |-> None]]
  /\ evs = [v \in Reports |-> [pc |-> "idle", tko |-> None, ended |-> FALSE]]
  /\ ends = [e \in Ends |-> [pc |-> "idle", tko |-> None, outcome |-> "none", session |-> FALSE]]
  /\ swp = [w \in Sweeps |-> [pc |-> "idle", tko |-> None]]

Made == {t \in Takeovers : arms[t] = "made"}
MadeOf(c) == {t \in Made : CaseOf[t] = c}

-----------------------------------------------------------------------------
\* arm: loadCase with its early returns, then createArmed, which locks the case
\* row, checks again, counts, inserts and flips the case.

ArmLoads(t) ==
  /\ arms[t] = "idle"
  /\ status[CaseOf[t]] \in ARMABLE
  /\ arms' = [arms EXCEPT ![t] = "loaded"]
  /\ UNCHANGED <<status, latest, tko, usage, jobs, cmp, evs, ends, swp>>

\* Mutant: the status is not checked again under the lock.
CreateArmedStale(t) ==
  LET c == CaseOf[t]
  IN /\ arms[t] = "loaded"
     /\ Cardinality(MadeOf(c)) < MaxPerCase
     /\ arms' = [arms EXCEPT ![t] = "made"]
     /\ latest' = [latest EXCEPT ![c] = t]
     /\ status' = [status EXCEPT ![c] = "armed"]
     /\ UNCHANGED <<tko, usage, jobs, cmp, evs, ends, swp>>

CreateArmed(t) ==
  LET c == CaseOf[t]
  IN /\ arms[t] = "loaded"
     /\ status[c] \in ARMABLE
     /\ Cardinality(MadeOf(c)) < MaxPerCase
     /\ arms' = [arms EXCEPT ![t] = "made"]
     /\ latest' = [latest EXCEPT ![c] = t]
     /\ status' = [status EXCEPT ![c] = "armed"]
     /\ UNCHANGED <<tko, usage, jobs, cmp, evs, ends, swp>>

\* "conflict" or "limit".
ArmRefused(t) ==
  /\ arms[t] = "loaded"
  /\ status[CaseOf[t]] \notin ARMABLE \/ Cardinality(MadeOf(CaseOf[t])) >= MaxPerCase
  /\ arms' = [arms EXCEPT ![t] = "refused"]
  /\ UNCHANGED <<status, latest, tko, usage, jobs, cmp, evs, ends, swp>>

-----------------------------------------------------------------------------
\* compile: load (refused once ended), freezeSnapshot, saveCompiled.  Each step
\* may be the last: the validation of the compiled config may throw.

CompileLoads(k, t) ==
  /\ cmp[k].pc = "idle"
  /\ t \in Made
  /\ ~tko[t].ended
  /\ cmp' = [cmp EXCEPT ![k] = [@ EXCEPT !.pc = "freeze", !.tko = t]]
  /\ UNCHANGED <<status, arms, latest, tko, usage, jobs, evs, ends, swp>>

\* freezeSnapshot, under the locks of the case and the takeover: the stored
\* snapshot is returned; the first one freezes the case and flips its status.
\* Mutant: the stored snapshot is not looked for.
FreezeAgain(k) ==
  LET t == cmp[k].tko
  IN /\ cmp[k].pc = "freeze"
     /\ tko' = [tko EXCEPT ![t].snapshot = k]
     /\ status' = [status EXCEPT ![CaseOf[t]] = "ai_active"]
     /\ cmp' = [cmp EXCEPT ![k] = [@ EXCEPT !.pc = "save", !.snapshot = k]]
     /\ UNCHANGED <<arms, latest, usage, jobs, evs, ends, swp>>

Freeze(k) ==
  LET t == cmp[k].tko
  IN /\ cmp[k].pc = "freeze"
     /\ tko[t].snapshot = None
     /\ tko' = [tko EXCEPT ![t].snapshot = k]
     /\ status' = [status EXCEPT ![CaseOf[t]] = "ai_active"]
     /\ cmp' = [cmp EXCEPT ![k] = [@ EXCEPT !.pc = "save", !.snapshot = k]]
     /\ UNCHANGED <<arms, latest, usage, jobs, evs, ends, swp>>

ReturnFrozen(k) ==
  LET t == cmp[k].tko
  IN /\ cmp[k].pc = "freeze"
     /\ tko[t].snapshot # None
     /\ cmp' = [cmp EXCEPT ![k] = [@ EXCEPT !.pc = "save", !.snapshot = tko[t].snapshot]]
     /\ UNCHANGED <<status, arms, latest, tko, usage, jobs, evs, ends, swp>>

\* The compiled config is a function of the snapshot; its answer is the same.
SaveCompiled(k) ==
  /\ cmp[k].pc = "save"
  /\ tko' = [tko EXCEPT ![cmp[k].tko].phase = "compiling"]
  /\ cmp' = [cmp EXCEPT ![k].pc = "done"]
  /\ UNCHANGED <<status, arms, latest, usage, jobs, evs, ends, swp>>

-----------------------------------------------------------------------------
\* events: whether the takeover has ended is read before anything is written.

EventsLoad(v, t) ==
  /\ evs[v].pc = "idle"
  /\ t \in Made
  /\ evs' = [evs EXCEPT ![v] = [pc |-> "write", tko |-> t, ended |-> tko[t].ended]]
  /\ UNCHANGED <<status, arms, latest, tko, usage, jobs, cmp, ends, swp>>

\* A phase (only of a takeover that had not ended), a Voice Agent session id.
EventsWrite(v) ==
  LET t == evs[v].tko
  IN /\ evs[v].pc = "write"
     /\ \E sid \in {tko[t].session, TRUE} :
          tko' = [tko EXCEPT ![t].phase = IF evs[v].ended THEN @ ELSE "live",
                             ![t].session = sid]
     /\ evs' = [evs EXCEPT ![v].pc = "done"]
     /\ UNCHANGED <<status, arms, latest, usage, jobs, cmp, ends, swp>>

-----------------------------------------------------------------------------
\* end: load, store.end, then the verification (the slot is in VaSlots).

EndLoads(e, t) ==
  /\ ends[e].pc = "idle"
  /\ t \in Made
  /\ \E o \in Outcomes, sid \in BOOLEAN :
       ends' = [ends EXCEPT ![e] =
                  [pc |-> "tx", tko |-> t, outcome |-> o, session |-> sid \/ tko[t].session]]
  /\ UNCHANGED <<status, arms, latest, tko, usage, jobs, cmp, evs, swp>>

Terminal(e) ==
  [tko EXCEPT ![ends[e].tko] = [@ EXCEPT
     !.ended = TRUE, !.outcome = ends[e].outcome,
     !.phase = PhaseAfterEnd(ends[e].outcome), !.session = @ \/ ends[e].session]]

\* The case takes the outcome, from armed or ai_active only.
\* Mutant: from every status.
CaseAfterEndAlways(e) == [status EXCEPT ![CaseOf[ends[e].tko]] = ends[e].outcome]
CaseAfterEnd(e) ==
  LET c == CaseOf[ends[e].tko]
  IN IF status[c] \in ENDABLE THEN [status EXCEPT ![c] = ends[e].outcome] ELSE status

\* Mutant: the row is not read under its lock, a second end writes too.
EndWritesAgain(e) ==
  /\ ends[e].pc = "tx"
  /\ tko' = Terminal(e)
  /\ status' = CaseAfterEnd(e)
  /\ usage' = usage \cup {ends[e].tko}
  /\ ends' = [ends EXCEPT ![e].pc = "find"]
  /\ UNCHANGED <<arms, latest, jobs, cmp, evs, swp>>

\* store.end: the row, the case and the metering in one transaction.
EndWrites(e) ==
  /\ ends[e].pc = "tx"
  /\ ~tko[ends[e].tko].ended
  /\ tko' = Terminal(e)
  /\ status' = CaseAfterEnd(e)
  /\ usage' = usage \cup {ends[e].tko}
  /\ ends' = [ends EXCEPT ![e].pc = "find"]
  /\ UNCHANGED <<arms, latest, jobs, cmp, evs, swp>>

\* A statement of the metering fails.  recordTerminalRun catches the error, but
\* the database has aborted the transaction and turns its commit into a
\* rollback; the handler goes on as after a first end.
EndMeterFails(e) ==
  /\ ends[e].pc = "tx"
  /\ ~tko[ends[e].tko].ended
  /\ ends' = [ends EXCEPT ![e].pc = "find"]
  /\ UNCHANGED <<status, arms, latest, tko, usage, jobs, cmp, evs, swp>>

EndReplayed(e) ==
  /\ ends[e].pc = "tx"
  /\ tko[ends[e].tko].ended
  /\ ends' = [ends EXCEPT ![e].pc = "replayed"]
  /\ UNCHANGED <<status, arms, latest, tko, usage, jobs, cmp, evs, swp>>

\* enqueueVerification: nothing to verify without a session; an existing job is
\* returned; else one is inserted in a statement of its own.
EndFindsJob(e) ==
  LET t == ends[e].tko
  IN /\ ends[e].pc = "find"
     /\ ends' = [ends EXCEPT ![e].pc =
                   IF (ends[e].session \/ tko[t].session) /\ jobs[t] = 0 THEN "enqueue" ELSE "ok"]
     /\ UNCHANGED <<status, arms, latest, tko, usage, jobs, cmp, evs, swp>>

EndEnqueues(e) ==
  /\ ends[e].pc = "enqueue"
  /\ jobs' = [jobs EXCEPT ![ends[e].tko] = @ + 1]
  /\ ends' = [ends EXCEPT ![e].pc = "ok"]
  /\ UNCHANGED <<status, arms, latest, tko, usage, cmp, evs, swp>>

-----------------------------------------------------------------------------
\* The sweeper found the slot of t stale: the same check and insert.
StaleFindsNoJob(w, t) ==
  /\ swp[w].pc = "idle"
  /\ t \in Made
  /\ jobs[t] = 0
  /\ swp' = [swp EXCEPT ![w] = [pc |-> "enqueue", tko |-> t]]
  /\ UNCHANGED <<status, arms, latest, tko, usage, jobs, cmp, evs, ends>>

StaleEnqueues(w) ==
  /\ swp[w].pc = "enqueue"
  /\ jobs' = [jobs EXCEPT ![swp[w].tko] = @ + 1]
  /\ swp' = [swp EXCEPT ![w].pc = "done"]
  /\ UNCHANGED <<status, arms, latest, tko, usage, cmp, evs, ends>>

-----------------------------------------------------------------------------
\* The two tools that move the case.  Neither looks whether the pass has ended;
\* a retried call runs again.

\* hand_back_to_rep notes the hand-back, then sets the case.
HandBackNoted(t) ==
  /\ t \in Made
  /\ tko' = [tko EXCEPT ![t].handBack = TRUE]
  /\ UNCHANGED <<status, arms, latest, usage, jobs, cmp, evs, ends, swp>>

HandBack(t) ==
  /\ tko[t].handBack
  /\ status[CaseOf[t]] \in ACTIVE
  /\ status' = [status EXCEPT ![CaseOf[t]] = "handed_back"]
  /\ UNCHANGED <<arms, latest, tko, usage, jobs, cmp, evs, ends, swp>>

\* send_confirmation with a confirmed payment.
SendConfirmation(t) ==
  /\ t \in Made
  /\ status[CaseOf[t]] \in ACTIVE
  /\ status' = [status EXCEPT ![CaseOf[t]] = "completed"]
  /\ UNCHANGED <<arms, latest, tko, usage, jobs, cmp, evs, ends, swp>>

-----------------------------------------------------------------------------
Next ==
  \/ \E t \in Takeovers :
       \/ ArmLoads(t) \/ CreateArmed(t) \/ ArmRefused(t)
       \/ HandBackNoted(t) \/ HandBack(t) \/ SendConfirmation(t)
       \/ \E k \in Compiles : CompileLoads(k, t)
       \/ \E v \in Reports : EventsLoad(v, t)
       \/ \E e \in Ends : EndLoads(e, t)
       \/ \E w \in Sweeps : StaleFindsNoJob(w, t)
  \/ \E k \in Compiles : Freeze(k) \/ ReturnFrozen(k) \/ SaveCompiled(k)
  \/ \E v \in Reports : EventsWrite(v)
  \/ \E e \in Ends : \/ EndWrites(e) \/ EndMeterFails(e) \/ EndReplayed(e)
                     \/ EndFindsJob(e) \/ EndEnqueues(e)
  \/ \E w \in Sweeps : StaleEnqueues(w)

Spec == Init /\ [][Next]_vars

-----------------------------------------------------------------------------
(***************************************************************************)
(* Properties.                                                             *)
(***************************************************************************)

\* A call has one pass under way at a time, although two browsers may arm at
\* once and ends may be late: unless the AI half itself handed the call back
\* (createArmed's lock, end's choice of statuses).
OnePassAtATime ==
  \A t, u \in Made :
    CaseOf[t] = CaseOf[u] /\ ~tko[t].ended /\ ~tko[u].ended
      => t = u \/ \E h \in MadeOf(CaseOf[t]) : tko[h].handBack

\* A case that waits for its pass (armed) has one: its latest takeover, not
\* ended and not yet frozen, whatever late ends, compiles and tools arrive.
ArmedHasLivePass ==
  \A c \in Cases : status[c] = "armed" =>
    latest[c] \in MadeOf(c) /\ ~tko[latest[c]].ended

\* Every compile of a takeover answers from the one snapshot, the drain report
\* of whichever came first (repository.ts: "immutable").
CompileAgreement ==
  \A k, j \in Compiles :
    cmp[k].snapshot # None /\ cmp[j].snapshot # None /\ cmp[k].tko = cmp[j].tko
      => cmp[k].snapshot = cmp[j].snapshot

\* A completed call stays completed, as far as /end and the tools go: only a
\* compile already past its check may move it (NoFreezeAfterEnd below).
CompletedStays ==
  [][\A c \in Cases :
       status[c] = "completed" /\ status'[c] # "completed"
         => \E k \in Compiles : cmp[k].pc = "freeze" /\ CaseOf[cmp[k].tko] = c /\ cmp'[k].pc = "save"]_vars

\* The promise of PassLedger: an accepted arm opens a pass, the first freeze is
\* the snapshot, the first end is the outcome and its metering.
Ledger ==
  INSTANCE PassLedger WITH
    Passes <- Takeovers, Calls <- Cases, CallOf <- CaseOf, Frozen <- Compiles,
    opened <- Made,
    frozen <- [t \in Takeovers |-> tko[t].snapshot],
    outcome <- [t \in Takeovers |-> IF tko[t].ended THEN tko[t].outcome ELSE None],
    metered <- usage
LedgerSpec == Ledger!Spec

-----------------------------------------------------------------------------
(***************************************************************************)
(* The parts of the inductive invariant behind the safety properties.      *)
(***************************************************************************)
\* A takeover that was not accepted has nothing, and no handler works on it.
Untouched == \A t \in Takeovers \ Made : tko[t] = NewRow
HandlersMade ==
  /\ \A k \in Compiles : cmp[k].pc # "idle" => cmp[k].tko \in Made
  /\ \A v \in Reports : evs[v].pc # "idle" => evs[v].tko \in Made
  /\ \A e \in Ends : ends[e].pc # "idle" => ends[e].tko \in Made /\ ends[e].outcome \in Outcomes
  /\ \A w \in Sweeps : swp[w].pc # "idle" => swp[w].tko \in Made

\* Ended is metered, with an outcome.
EndedIsMetered ==
  \A t \in Takeovers : /\ tko[t].ended <=> t \in usage
                       /\ tko[t].ended => tko[t].outcome \in Outcomes

\* What a case's status says of its passes.
ShadowingIsFresh == \A c \in Cases : status[c] = "shadowing" => MadeOf(c) = {}
HandedBackIsOver ==
  \A c \in Cases :
    status[c] = "handed_back" /\ (\A h \in MadeOf(c) : ~tko[h].handBack)
      => \A t \in MadeOf(c) : tko[t].ended

\* A compile past its freeze holds the takeover's snapshot.
AnswersStored ==
  \A k \in Compiles :
    cmp[k].snapshot # None => cmp[k].pc # "idle" /\ cmp[k].snapshot = tko[cmp[k].tko].snapshot

-----------------------------------------------------------------------------
(***************************************************************************)
(* What the code says of itself and does not keep.                         *)
(***************************************************************************)

\* service.ts: "This takeover has ended." is an ended takeover's answer to a
\* compile, so no snapshot is taken, and no case set to ai_active, after the end.
NoFreezeAfterEnd ==
  [][\A t \in Takeovers : tko[t].ended => tko'[t].snapshot = tko[t].snapshot]_vars

\* store.ts: "The case takes the outcome of its latest takeover".
CaseTakesLatestOutcome ==
  [][\A e \in Ends :
       EndWrites(e) /\ status' # status => latest[CaseOf[ends[e].tko]] = ends[e].tko]_vars

\* terminal-usage.ts: "Nothing here may fail the takeover": an end that answered
\* ok is an end.
AnsweredEndIsEnded == \A e \in Ends : ends[e].pc = "ok" => tko[ends[e].tko].ended

\* The service is sound: rows and handlers keep their types, and all compiles of a
\* takeover answer from the one frozen snapshot.
PassesSound == TypeOK /\ CompileAgreement

\* A call has one pass at most, and while it waits for its pass it has that one.
OneLivePass == OnePassAtATime /\ ArmedHasLivePass
=============================================================================
