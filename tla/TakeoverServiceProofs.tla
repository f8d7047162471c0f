----------------------- MODULE TakeoverServiceProofs -----------------------
(***************************************************************************)
(* Proofs about TakeoverService, for any number of calls, passes and       *)
(* requests: its type, one pass at a time, one snapshot, and that it keeps *)
(* the promise of PassLedger.                                              *)
(***************************************************************************)
EXTENDS TakeoverService, FiniteSetTheorems, TLAPS

\* The empty tables are within their types.
LEMMA TypeInit == Init => TypeOK
  BY ServiceAssumption
  DEF Init, TypeOK, CaseStatus, NewRow, Row, Phases, CompileState, ReportState, EndState, SweepState

\* The updates of a takeovers row keep its type.
LEMMA RowUpdates ==
  ASSUME NEW r \in Row
  PROVE  /\ [r EXCEPT !.handBack = TRUE] \in Row
         /\ \A k \in Compiles : [r EXCEPT !.snapshot = k] \in Row
         /\ [r EXCEPT !.phase = "compiling"] \in Row
         /\ \A p \in Phases, b \in BOOLEAN : [r EXCEPT !.phase = p, !.session = b] \in Row
         /\ \A o \in Outcomes, p \in Phases, b \in BOOLEAN :
              [r EXCEPT !.ended = TRUE, !.outcome = o, !.phase = p, !.session = b] \in Row
  BY DEF Row, Phases

\* The steps of a compile keep the type of its record.
LEMMA CompileUpdates ==
  ASSUME NEW x \in CompileState
  PROVE  /\ \A t \in Takeovers : [x EXCEPT !.pc = "freeze", !.tko = t] \in CompileState
         /\ \A i \in Compiles \cup {None} : [x EXCEPT !.pc = "save", !.snapshot = i] \in CompileState
         /\ [x EXCEPT !.pc = "done"] \in CompileState
  BY DEF CompileState

\* A handler at work has a takeover that was accepted.
LEMMA HandlersMadeStep == TypeOK /\ HandlersMade /\ [Next]_vars => HandlersMade'
<1> SUFFICES ASSUME TypeOK, HandlersMade, [Next]_vars PROVE HandlersMade'
  OBVIOUS
<1>1. ASSUME NEW t \in Takeovers, ArmLoads(t) PROVE HandlersMade'
  BY <1>1 DEF ArmLoads, HandlersMade, Made, TypeOK, CompileState, ReportState, EndState, SweepState
<1>2. ASSUME NEW t \in Takeovers, CreateArmed(t) PROVE HandlersMade'
  BY <1>2 DEF CreateArmed, HandlersMade, Made, TypeOK, CompileState, ReportState, EndState, SweepState
<1>3. ASSUME NEW t \in Takeovers, ArmRefused(t) PROVE HandlersMade'
  BY <1>3 DEF ArmRefused, HandlersMade, Made, TypeOK, CompileState, ReportState, EndState, SweepState
<1>4. ASSUME NEW k \in Compiles, NEW t \in Takeovers, CompileLoads(k, t) PROVE HandlersMade'
  BY <1>4 DEF CompileLoads, HandlersMade, Made, TypeOK, CompileState, ReportState, EndState, SweepState
<1>5. ASSUME NEW v \in Reports, NEW t \in Takeovers, EventsLoad(v, t) PROVE HandlersMade'
  BY <1>5 DEF EventsLoad, HandlersMade, Made, TypeOK, CompileState, ReportState, EndState, SweepState
<1>6. ASSUME NEW e \in Ends, NEW t \in Takeovers, EndLoads(e, t) PROVE HandlersMade'
  BY <1>6 DEF EndLoads, HandlersMade, Made, TypeOK, CompileState, ReportState, EndState, SweepState
<1>7. ASSUME NEW w \in Sweeps, NEW t \in Takeovers, StaleFindsNoJob(w, t) PROVE HandlersMade'
  BY <1>7 DEF StaleFindsNoJob, HandlersMade, Made, TypeOK, CompileState, ReportState, EndState, SweepState
<1>8. ASSUME NEW t \in Takeovers, HandBackNoted(t) PROVE HandlersMade'
  BY <1>8 DEF HandBackNoted, HandlersMade, Made, TypeOK, CompileState, ReportState, EndState, SweepState
<1>9. ASSUME NEW t \in Takeovers, HandBack(t) PROVE HandlersMade'
  BY <1>9 DEF HandBack, HandlersMade, Made, TypeOK, CompileState, ReportState, EndState, SweepState
<1>10. ASSUME NEW t \in Takeovers, SendConfirmation(t) PROVE HandlersMade'
  BY <1>10 DEF SendConfirmation, HandlersMade, Made, TypeOK, CompileState, ReportState, EndState, SweepState
<1>11. ASSUME NEW k \in Compiles, Freeze(k) PROVE HandlersMade'
  BY <1>11 DEF Freeze, HandlersMade, Made, TypeOK, CompileState, ReportState, EndState, SweepState
<1>12. ASSUME NEW k \in Compiles, ReturnFrozen(k) PROVE HandlersMade'
  BY <1>12 DEF ReturnFrozen, HandlersMade, Made, TypeOK, CompileState, ReportState, EndState, SweepState
<1>13. ASSUME NEW k \in Compiles, SaveCompiled(k) PROVE HandlersMade'
  BY <1>13 DEF SaveCompiled, HandlersMade, Made, TypeOK, CompileState, ReportState, EndState, SweepState
<1>14. ASSUME NEW v \in Reports, EventsWrite(v) PROVE HandlersMade'
  BY <1>14 DEF EventsWrite, HandlersMade, Made, TypeOK, CompileState, ReportState, EndState, SweepState
<1>15. ASSUME NEW e \in Ends, EndWrites(e) PROVE HandlersMade'
  BY <1>15 DEF EndWrites, HandlersMade, Made, TypeOK, CompileState, ReportState, EndState, SweepState
<1>16. ASSUME NEW e \in Ends, EndMeterFails(e) PROVE HandlersMade'
  BY <1>16 DEF EndMeterFails, HandlersMade, Made, TypeOK, CompileState, ReportState, EndState, SweepState
<1>17. ASSUME NEW e \in Ends, EndReplayed(e) PROVE HandlersMade'
  BY <1>17 DEF EndReplayed, HandlersMade, Made, TypeOK, CompileState, ReportState, EndState, SweepState
<1>18. ASSUME NEW e \in Ends, EndFindsJob(e) PROVE HandlersMade'
  BY <1>18 DEF EndFindsJob, HandlersMade, Made, TypeOK, CompileState, ReportState, EndState, SweepState
<1>19. ASSUME NEW e \in Ends, EndEnqueues(e) PROVE HandlersMade'
  BY <1>19 DEF EndEnqueues, HandlersMade, Made, TypeOK, CompileState, ReportState, EndState, SweepState
<1>20. ASSUME NEW w \in Sweeps, StaleEnqueues(w) PROVE HandlersMade'
  BY <1>20 DEF StaleEnqueues, HandlersMade, Made, TypeOK, CompileState, ReportState, EndState, SweepState
<1>21. CASE UNCHANGED vars
  BY <1>21 DEF vars, HandlersMade, Made
<1> QED
  BY <1>1, <1>2, <1>3, <1>4, <1>5, <1>6, <1>7, <1>8, <1>9, <1>10, <1>11, <1>12, <1>13, <1>14, <1>15, <1>16, <1>17, <1>18, <1>19, <1>20, <1>21 DEF Next
\* Every handler step writes values of the declared types.
LEMMA TypeStep == TypeOK /\ HandlersMade /\ [Next]_vars => TypeOK'
<1> USE ServiceAssumption
<1> SUFFICES ASSUME TypeOK, HandlersMade, [Next]_vars PROVE TypeOK'
  OBVIOUS
<1>1. ASSUME NEW t \in Takeovers, ArmLoads(t) PROVE TypeOK'
  BY <1>1 DEF ArmLoads, TypeOK
<1>2. ASSUME NEW t \in Takeovers, CreateArmed(t) PROVE TypeOK'
  BY <1>2 DEF CreateArmed, TypeOK, CaseStatus
<1>3. ASSUME NEW t \in Takeovers, ArmRefused(t) PROVE TypeOK'
  BY <1>3 DEF ArmRefused, TypeOK
<1>4. ASSUME NEW k \in Compiles, NEW t \in Takeovers, CompileLoads(k, t) PROVE TypeOK'
  <2>1. cmp' \in [Compiles -> CompileState]
    BY <1>4, CompileUpdates DEF CompileLoads, TypeOK
  <2> QED BY <1>4, <2>1 DEF CompileLoads, TypeOK
<1>5. ASSUME NEW v \in Reports, NEW t \in Takeovers, EventsLoad(v, t) PROVE TypeOK'
  BY <1>5 DEF EventsLoad, TypeOK, ReportState, Row
<1>6. ASSUME NEW e \in Ends, NEW t \in Takeovers, EndLoads(e, t) PROVE TypeOK'
  BY <1>6 DEF EndLoads, TypeOK, EndState, Row
<1>7. ASSUME NEW w \in Sweeps, NEW t \in Takeovers, StaleFindsNoJob(w, t) PROVE TypeOK'
  BY <1>7 DEF StaleFindsNoJob, TypeOK, SweepState
<1>8. ASSUME NEW t \in Takeovers, HandBackNoted(t) PROVE TypeOK'
  <2>1. tko' \in [Takeovers -> Row]
    BY <1>8, RowUpdates DEF HandBackNoted, TypeOK
  <2> QED BY <1>8, <2>1 DEF HandBackNoted, TypeOK, Phases
<1>9. ASSUME NEW t \in Takeovers, HandBack(t) PROVE TypeOK'
  BY <1>9 DEF HandBack, TypeOK, CaseStatus, Outcomes
<1>10. ASSUME NEW t \in Takeovers, SendConfirmation(t) PROVE TypeOK'
  BY <1>10 DEF SendConfirmation, TypeOK, CaseStatus, Outcomes
<1>11. ASSUME NEW k \in Compiles, Freeze(k) PROVE TypeOK'
  <2>1. tko' \in [Takeovers -> Row]
    BY <1>11, RowUpdates DEF Freeze, TypeOK
  <2>2. status' \in [Cases -> CaseStatus]
    <3>1. status' = [status EXCEPT ![CaseOf[cmp[k].tko]] = "ai_active"] BY <1>11 DEF Freeze
    <3> QED BY <3>1 DEF TypeOK, CaseStatus
  <2>3. cmp' \in [Compiles -> CompileState]
    <3>1. cmp' = [cmp EXCEPT ![k] = [@ EXCEPT !.pc = "save", !.snapshot = k]] BY <1>11 DEF Freeze
    <3> QED BY <3>1, CompileUpdates DEF TypeOK
  <2> QED BY <1>11, <2>1, <2>2, <2>3 DEF Freeze, TypeOK
<1>12. ASSUME NEW k \in Compiles, ReturnFrozen(k) PROVE TypeOK'
  <2>1. tko[cmp[k].tko] \in Row
    BY <1>12 DEF ReturnFrozen, HandlersMade, Made, TypeOK
  <2>2. tko[cmp[k].tko].snapshot \in Compiles \cup {None} BY <2>1 DEF Row
  <2>3. cmp' \in [Compiles -> CompileState]
    BY <1>12, <2>2, CompileUpdates DEF ReturnFrozen, TypeOK
  <2> QED BY <1>12, <2>3 DEF ReturnFrozen, TypeOK
<1>13. ASSUME NEW k \in Compiles, SaveCompiled(k) PROVE TypeOK'
  <2>1. tko' \in [Takeovers -> Row]
    BY <1>13, RowUpdates DEF SaveCompiled, TypeOK
  <2>2. cmp' \in [Compiles -> CompileState]
    BY <1>13, CompileUpdates DEF SaveCompiled, TypeOK
  <2> QED BY <1>13, <2>1, <2>2 DEF SaveCompiled, TypeOK
<1>14. ASSUME NEW v \in Reports, EventsWrite(v) PROVE TypeOK'
  <2>1. evs[v].tko \in Takeovers /\ tko[evs[v].tko] \in Row
    BY <1>14 DEF EventsWrite, HandlersMade, Made, TypeOK
  <2>2. PICK sid \in {tko[evs[v].tko].session, TRUE} :
          tko' = [tko EXCEPT ![evs[v].tko].phase = IF evs[v].ended THEN @ ELSE "live",
                             ![evs[v].tko].session = sid]
    BY <1>14 DEF EventsWrite
  <2>3. tko' \in [Takeovers -> Row]
    <3>1. sid \in BOOLEAN BY <2>1 DEF Row
    <3>2. CASE evs[v].ended
      BY <2>1, <2>2, <3>1, <3>2 DEF TypeOK, Row
    <3>3. CASE ~evs[v].ended
      BY <2>1, <2>2, <3>1, <3>3 DEF TypeOK, Row, Phases
    <3> QED BY <3>2, <3>3
  <2> QED BY <1>14, <2>3 DEF EventsWrite, TypeOK, ReportState
<1>15. ASSUME NEW e \in Ends, EndWrites(e) PROVE TypeOK'
  <2>1. /\ ends[e].tko \in Takeovers /\ tko[ends[e].tko] \in Row
        /\ ends[e].outcome \in Outcomes /\ ends[e].session \in BOOLEAN
    BY <1>15 DEF EndWrites, HandlersMade, Made, TypeOK, EndState
  <2>2. PhaseAfterEnd(ends[e].outcome) \in Phases BY DEF PhaseAfterEnd, Phases
  <2>3. tko' \in [Takeovers -> Row]
    BY <1>15, <2>1, <2>2 DEF EndWrites, Terminal, TypeOK, Row
  <2>4. status' \in [Cases -> CaseStatus]
    BY <1>15, <2>1 DEF EndWrites, CaseAfterEnd, TypeOK, CaseStatus
  <2>5. ends' \in [Ends -> EndState] BY <1>15 DEF EndWrites, TypeOK, EndState
  <2> QED BY <1>15, <2>1, <2>3, <2>4, <2>5 DEF EndWrites, TypeOK
<1>16. ASSUME NEW e \in Ends, EndMeterFails(e) PROVE TypeOK'
  BY <1>16 DEF EndMeterFails, TypeOK, EndState
<1>17. ASSUME NEW e \in Ends, EndReplayed(e) PROVE TypeOK'
  BY <1>17 DEF EndReplayed, TypeOK, EndState
<1>18. ASSUME NEW e \in Ends, EndFindsJob(e) PROVE TypeOK'
  BY <1>18 DEF EndFindsJob, TypeOK, EndState
<1>19. ASSUME NEW e \in Ends, EndEnqueues(e) PROVE TypeOK'
  <2>1. ends[e].tko \in Takeovers /\ jobs[ends[e].tko] \in Nat
    BY <1>19 DEF EndEnqueues, HandlersMade, Made, TypeOK
  <2>2. jobs' \in [Takeovers -> Nat] BY <1>19, <2>1 DEF EndEnqueues, TypeOK
  <2>3. ends' \in [Ends -> EndState] BY <1>19 DEF EndEnqueues, TypeOK, EndState
  <2> QED BY <1>19, <2>2, <2>3 DEF EndEnqueues, TypeOK
<1>20. ASSUME NEW w \in Sweeps, StaleEnqueues(w) PROVE TypeOK'
  <2>1. swp[w].tko \in Takeovers /\ jobs[swp[w].tko] \in Nat
    BY <1>20 DEF StaleEnqueues, HandlersMade, Made, TypeOK
  <2>2. jobs' \in [Takeovers -> Nat] BY <1>20, <2>1 DEF StaleEnqueues, TypeOK
  <2>3. swp' \in [Sweeps -> SweepState] BY <1>20 DEF StaleEnqueues, TypeOK, SweepState
  <2> QED BY <1>20, <2>2, <2>3 DEF StaleEnqueues, TypeOK
<1>21. CASE UNCHANGED vars
  BY <1>21 DEF vars, TypeOK
<1> QED
  BY <1>1, <1>2, <1>3, <1>4, <1>5, <1>6, <1>7, <1>8, <1>9, <1>10, <1>11, <1>12, <1>13, <1>14, <1>15, <1>16, <1>17, <1>18, <1>19, <1>20, <1>21 DEF Next

\* Every variable keeps its type.
THEOREM TypeCorrect == Spec => []TypeOK
<1>1. Init => HandlersMade BY DEF Init, HandlersMade
<1> QED BY <1>1, TypeInit, TypeStep, HandlersMadeStep, PTL DEF Spec

-----------------------------------------------------------------------------
(***************************************************************************)
(* Safety.  CoreInv is the part of FullInv that speaks of cases, passes    *)
(* and usage.  Seven actions write what it reads; the rest are Quiet.      *)
(***************************************************************************)
CoreInv ==
  /\ Untouched /\ EndedIsMetered /\ ShadowingIsFresh /\ HandedBackIsOver
  /\ OnePassAtATime /\ ArmedHasLivePass

SameFate(t) ==
  /\ tko'[t].ended = tko[t].ended /\ tko'[t].handBack = tko[t].handBack
  /\ tko'[t].outcome = tko[t].outcome /\ tko'[t].snapshot = tko[t].snapshot
Quiet ==
  /\ status' = status /\ latest' = latest /\ usage' = usage /\ Made' = Made
  /\ \A t \in Takeovers : SameFate(t)
  /\ \A t \in Takeovers \ Made : tko'[t] = tko[t]

\* saveCompiled and events write a phase and a session, of an accepted takeover.
LEMMA PhaseWritesQuiet ==
  ASSUME TypeOK, HandlersMade
  PROVE  /\ \A k \in Compiles : SaveCompiled(k) => Quiet
         /\ \A v \in Reports : EventsWrite(v) => Quiet
<1>1. ASSUME NEW k \in Compiles, SaveCompiled(k) PROVE Quiet
  <2>1. cmp[k].tko \in Made BY <1>1 DEF SaveCompiled, HandlersMade
  <2>2. \A t \in Takeovers : tko'[t] = IF t = cmp[k].tko THEN [tko[t] EXCEPT !.phase = "compiling"]
                                       ELSE tko[t]
    BY <1>1 DEF SaveCompiled, TypeOK
  <2>3. \A t \in Takeovers : SameFate(t)
    <3>1. \A r \in Row : LET q == [r EXCEPT !.phase = "compiling"]
                         IN q.ended = r.ended /\ q.handBack = r.handBack /\ q.outcome = r.outcome
                            /\ q.snapshot = r.snapshot
      BY DEF Row
    <3> QED BY <2>2, <3>1 DEF SameFate, TypeOK
  <2> QED BY <1>1, <2>1, <2>2, <2>3 DEF SaveCompiled, Quiet, Made
<1>2. ASSUME NEW v \in Reports, EventsWrite(v) PROVE Quiet
  <2>1. evs[v].tko \in Made BY <1>2 DEF EventsWrite, HandlersMade
  <2>2. PICK sid : tko' = [tko EXCEPT ![evs[v].tko].phase = IF evs[v].ended THEN @ ELSE "live",
                                      ![evs[v].tko].session = sid]
    BY <1>2 DEF EventsWrite
  <2>3. \A t \in Takeovers : t # evs[v].tko => tko'[t] = tko[t] BY <2>2 DEF TypeOK
  <2>4. \A t \in Takeovers : SameFate(t) BY <2>2, <2>3 DEF SameFate, TypeOK, Row
  <2> QED BY <1>2, <2>1, <2>3, <2>4 DEF EventsWrite, Quiet, Made
<1> QED BY <1>1, <1>2

\* A step writes cases, fates or usage by one of seven actions.
LEMMA Effects ==
  ASSUME TypeOK, HandlersMade, [Next]_vars
  PROVE  \/ Quiet
         \/ \E t \in Takeovers :
              CreateArmed(t) \/ HandBackNoted(t) \/ HandBack(t) \/ SendConfirmation(t)
         \/ \E k \in Compiles : Freeze(k)
         \/ \E e \in Ends : EndWrites(e)
<1>1. ASSUME NEW t \in Takeovers, ArmLoads(t) \/ ArmRefused(t) PROVE Quiet
  <2>1. Made' = Made BY <1>1 DEF ArmLoads, ArmRefused, Made, TypeOK
  <2> QED BY <1>1, <2>1 DEF ArmLoads, ArmRefused, Quiet, SameFate
<1>2. ASSUME NEW t \in Takeovers, NEW k \in Compiles, CompileLoads(k, t) PROVE Quiet
  BY <1>2 DEF CompileLoads, Quiet, SameFate, Made
<1>3. ASSUME NEW t \in Takeovers, NEW v \in Reports, EventsLoad(v, t) PROVE Quiet
  BY <1>3 DEF EventsLoad, Quiet, SameFate, Made
<1>4. ASSUME NEW t \in Takeovers, NEW e \in Ends, EndLoads(e, t) PROVE Quiet
  BY <1>4 DEF EndLoads, Quiet, SameFate, Made
<1>5. ASSUME NEW t \in Takeovers, NEW w \in Sweeps, StaleFindsNoJob(w, t) PROVE Quiet
  BY <1>5 DEF StaleFindsNoJob, Quiet, SameFate, Made
<1>6. ASSUME NEW k \in Compiles, ReturnFrozen(k) \/ SaveCompiled(k) PROVE Quiet
  <2>1. CASE ReturnFrozen(k) BY <2>1 DEF ReturnFrozen, Quiet, SameFate, Made
  <2> QED BY <1>6, <2>1, PhaseWritesQuiet
<1>7. ASSUME NEW v \in Reports, EventsWrite(v) PROVE Quiet
  BY <1>7, PhaseWritesQuiet
<1>8. ASSUME NEW e \in Ends,
             EndMeterFails(e) \/ EndReplayed(e) \/ EndFindsJob(e) \/ EndEnqueues(e)
      PROVE  Quiet
  BY <1>8 DEF EndMeterFails, EndReplayed, EndFindsJob, EndEnqueues, Quiet, SameFate, Made
<1>9. ASSUME NEW w \in Sweeps, StaleEnqueues(w) PROVE Quiet
  BY <1>9 DEF StaleEnqueues, Quiet, SameFate, Made
<1>10. CASE UNCHANGED vars
  BY <1>10 DEF vars, Quiet, SameFate, Made
<1> QED
  BY <1>1, <1>2, <1>3, <1>4, <1>5, <1>6, <1>7, <1>8, <1>9, <1>10 DEF Next

\* A quiet step reads the same.
LEMMA QuietKeeps == ASSUME CoreInv, Quiet PROVE CoreInv'
<1>1. \A c : MadeOf(c)' = MadeOf(c) BY DEF Quiet, MadeOf
<1>2. Untouched' BY DEF CoreInv, Quiet, Untouched
<1>3. EndedIsMetered' BY DEF CoreInv, Quiet, SameFate, EndedIsMetered
<1>4. ShadowingIsFresh' BY <1>1 DEF CoreInv, Quiet, ShadowingIsFresh
<1>5. HandedBackIsOver'
  BY <1>1 DEF CoreInv, Quiet, SameFate, HandedBackIsOver, MadeOf, Made
<1>6. OnePassAtATime'
  BY <1>1 DEF CoreInv, Quiet, SameFate, OnePassAtATime, MadeOf, Made
<1>7. ArmedHasLivePass'
  BY <1>1 DEF CoreInv, Quiet, SameFate, ArmedHasLivePass, MadeOf, Made
<1> QED BY <1>2, <1>3, <1>4, <1>5, <1>6, <1>7 DEF CoreInv

\* An accepted arm: the case had no pass under way, unless it was handed back by
\* the tool.
LEMMA ArmKeeps ==
  ASSUME TypeOK, CoreInv, NEW t \in Takeovers, CreateArmed(t) PROVE CoreInv'
<1> DEFINE c == CaseOf[t]
<1>0. c \in Cases BY ServiceAssumption
<1>1. t \notin Made /\ Made' = Made \cup {t} /\ tko' = tko /\ usage' = usage
  BY DEF CreateArmed, Made, TypeOK
<1>2. \A d : MadeOf(d)' = IF d = c THEN MadeOf(d) \cup {t} ELSE MadeOf(d)
  BY <1>1 DEF MadeOf
<1>3. /\ \A d \in Cases : status'[d] = IF d = c THEN "armed" ELSE status[d]
      /\ \A d \in Cases : latest'[d] = IF d = c THEN t ELSE latest[d]
  BY <1>0 DEF CreateArmed, TypeOK
<1>4. ~tko[t].ended /\ ~tko[t].handBack BY <1>1 DEF CoreInv, Untouched, NewRow
<1>5. Untouched' BY <1>1 DEF CoreInv, Untouched
<1>6. EndedIsMetered' BY <1>1 DEF CoreInv, EndedIsMetered
<1>7. ShadowingIsFresh' BY <1>2, <1>3 DEF CoreInv, ShadowingIsFresh
<1>8. HandedBackIsOver' BY <1>1, <1>2, <1>3 DEF CoreInv, HandedBackIsOver
<1>9. ArmedHasLivePass'
  BY <1>1, <1>2, <1>3, <1>4 DEF CoreInv, ArmedHasLivePass
<1>10. (\A h \in MadeOf(c) : ~tko[h].handBack) => \A u \in MadeOf(c) : tko[u].ended
  <2>1. CASE status[c] = "shadowing"
    BY <1>0, <2>1 DEF CoreInv, ShadowingIsFresh
  <2>2. CASE status[c] = "handed_back"
    BY <1>0, <2>2 DEF CoreInv, HandedBackIsOver
  <2> QED BY <2>1, <2>2 DEF CreateArmed, ARMABLE
<1>11. OnePassAtATime'
  <2> SUFFICES ASSUME NEW u \in Made', NEW v \in Made', CaseOf[u] = CaseOf[v],
                      ~tko[u].ended, ~tko[v].ended, u # v
               PROVE  \E h \in MadeOf(CaseOf[u])' : tko[h].handBack
    BY <1>1 DEF OnePassAtATime
  <2>1. CASE u # t /\ v # t
    <3>1. \E h \in MadeOf(CaseOf[u]) : tko[h].handBack
      BY <1>1, <2>1 DEF CoreInv, OnePassAtATime
    <3> QED BY <1>2, <3>1
  <2>2. CASE u = t \/ v = t
    <3>1. \E x \in MadeOf(c) : ~tko[x].ended BY <1>1, <2>2 DEF MadeOf
    <3> QED BY <1>2, <1>10, <2>2, <3>1
  <2> QED BY <2>1, <2>2
<1> QED BY <1>5, <1>6, <1>7, <1>8, <1>9, <1>11 DEF CoreInv

\* The first end: the case leaves armed with its pass.
LEMMA EndKeeps ==
  ASSUME TypeOK, HandlersMade, CoreInv, NEW e \in Ends, EndWrites(e) PROVE CoreInv'
<1> DEFINE t == ends[e].tko
           c == CaseOf[t]
<1>0. t \in Made /\ t \in Takeovers /\ c \in Cases /\ ends[e].outcome \in Outcomes
  BY ServiceAssumption DEF EndWrites, HandlersMade, Made
<1>1. Made' = Made /\ latest' = latest /\ usage' = usage \cup {t} /\ ~tko[t].ended
  BY DEF EndWrites, Made
<1>2. \A d : MadeOf(d)' = MadeOf(d) BY <1>1 DEF MadeOf
<1>3. /\ tko'[t].ended /\ tko'[t].outcome = ends[e].outcome
      /\ tko'[t].handBack = tko[t].handBack
  BY <1>0 DEF EndWrites, Terminal, TypeOK, Row
<1>4. \A u \in Takeovers : u # t => tko'[u] = tko[u]
  BY DEF EndWrites, Terminal, TypeOK
<1>5. /\ \A d \in Cases : d # c => status'[d] = status[d]
      /\ status[c] \in ENDABLE => status'[c] = ends[e].outcome
      /\ status[c] \notin ENDABLE => status'[c] = status[c]
  BY <1>0 DEF EndWrites, CaseAfterEnd, TypeOK
<1>6. Untouched' BY <1>0, <1>1, <1>4 DEF CoreInv, Untouched
<1>7. EndedIsMetered' BY <1>0, <1>1, <1>3, <1>4 DEF CoreInv, EndedIsMetered
<1>8. ShadowingIsFresh'
  BY <1>0, <1>2, <1>5 DEF CoreInv, ShadowingIsFresh, Outcomes, ENDABLE
<1>9. \A u \in Takeovers : /\ tko[u].ended => tko'[u].ended
                           /\ tko'[u].handBack = tko[u].handBack
  BY <1>3, <1>4
<1>10. OnePassAtATime'
  BY <1>1, <1>2, <1>9 DEF CoreInv, OnePassAtATime, MadeOf, Made
<1>11. ArmedHasLivePass'
  <2> SUFFICES ASSUME NEW d \in Cases, status'[d] = "armed"
               PROVE  latest[d] \in MadeOf(d) /\ ~tko'[latest[d]].ended
    BY <1>1, <1>2 DEF ArmedHasLivePass
  <2>1. d # c /\ status[d] = "armed"
    BY <1>0, <1>5 DEF Outcomes, ENDABLE
  <2>2. latest[d] \in MadeOf(d) /\ ~tko[latest[d]].ended
    BY <2>1 DEF CoreInv, ArmedHasLivePass
  <2> QED BY <1>4, <2>1, <2>2 DEF MadeOf, Made
<1>12. HandedBackIsOver'
  <2> SUFFICES ASSUME NEW d \in Cases, status'[d] = "handed_back",
                      \A h \in MadeOf(d) : ~tko[h].handBack, NEW u \in MadeOf(d)
               PROVE  tko'[u].ended
    BY <1>2, <1>9 DEF HandedBackIsOver, MadeOf, Made
  <2>1. CASE status[d] = "handed_back"
    BY <1>9, <2>1 DEF CoreInv, HandedBackIsOver, MadeOf, Made
  <2>2. CASE status[d] # "handed_back"
    <3>1. d = c BY <1>5, <2>2
    <3>2. u = t \/ tko[u].ended
      BY <1>0, <1>1, <3>1 DEF CoreInv, OnePassAtATime, MadeOf
    <3> QED BY <1>3, <1>9, <3>2 DEF MadeOf, Made
  <2> QED BY <2>1, <2>2
<1> QED BY <1>6, <1>7, <1>8, <1>10, <1>11, <1>12 DEF CoreInv

\* The freeze: the case is neither armed nor handed back any more.
LEMMA FreezeKeeps ==
  ASSUME TypeOK, HandlersMade, CoreInv, NEW k \in Compiles, Freeze(k) PROVE CoreInv'
<1> DEFINE t == cmp[k].tko
<1>0. t \in Made /\ t \in Takeovers /\ CaseOf[t] \in Cases
  BY ServiceAssumption DEF Freeze, HandlersMade, Made
<1>1. Made' = Made /\ latest' = latest /\ usage' = usage BY DEF Freeze, Made
<1>2. \A d : MadeOf(d)' = MadeOf(d) BY <1>1 DEF MadeOf
<1>3. /\ tko'[t].ended = tko[t].ended /\ tko'[t].outcome = tko[t].outcome
      /\ tko'[t].handBack = tko[t].handBack
  BY <1>0 DEF Freeze, TypeOK, Row
<1>4. \A u \in Takeovers : u # t => tko'[u] = tko[u] BY DEF Freeze, TypeOK
<1>5. \A d \in Cases : status'[d] = IF d = CaseOf[t] THEN "ai_active" ELSE status[d]
  BY <1>0 DEF Freeze, TypeOK
<1>6. \A u \in Takeovers : /\ tko'[u].ended = tko[u].ended /\ tko'[u].outcome = tko[u].outcome
                           /\ tko'[u].handBack = tko[u].handBack
  BY <1>3, <1>4
<1>7. Untouched' BY <1>0, <1>1, <1>4 DEF CoreInv, Untouched
<1>8. EndedIsMetered' BY <1>1, <1>6 DEF CoreInv, EndedIsMetered
<1>9. ShadowingIsFresh' BY <1>2, <1>5 DEF CoreInv, ShadowingIsFresh
<1>10. HandedBackIsOver' BY <1>2, <1>5, <1>6 DEF CoreInv, HandedBackIsOver, MadeOf, Made
<1>11. OnePassAtATime' BY <1>1, <1>2, <1>6 DEF CoreInv, OnePassAtATime, MadeOf, Made
<1>12. ArmedHasLivePass'
  BY <1>1, <1>2, <1>5, <1>6 DEF CoreInv, ArmedHasLivePass, MadeOf, Made
<1> QED BY <1>7, <1>8, <1>9, <1>10, <1>11, <1>12 DEF CoreInv

\* A hand-back is noted before it is written.
LEMMA NoteKeeps ==
  ASSUME TypeOK, CoreInv, NEW t \in Takeovers, HandBackNoted(t) PROVE CoreInv'
<1>1. Made' = Made /\ latest' = latest /\ usage' = usage /\ status' = status /\ t \in Made
  BY DEF HandBackNoted, Made
<1>2. \A d : MadeOf(d)' = MadeOf(d) BY <1>1 DEF MadeOf
<1>3. /\ tko'[t].ended = tko[t].ended /\ tko'[t].outcome = tko[t].outcome /\ tko'[t].handBack
      /\ \A u \in Takeovers : u # t => tko'[u] = tko[u]
  BY DEF HandBackNoted, TypeOK, Row
<1>4. \A u \in Takeovers : /\ tko'[u].ended = tko[u].ended /\ tko'[u].outcome = tko[u].outcome
                           /\ tko[u].handBack => tko'[u].handBack
  BY <1>3
<1>5. Untouched' BY <1>1, <1>3 DEF CoreInv, Untouched
<1>6. EndedIsMetered' BY <1>1, <1>4 DEF CoreInv, EndedIsMetered
<1>7. ShadowingIsFresh' BY <1>1, <1>2 DEF CoreInv, ShadowingIsFresh
<1>8. HandedBackIsOver' BY <1>1, <1>2, <1>4 DEF CoreInv, HandedBackIsOver, MadeOf, Made
<1>9. OnePassAtATime' BY <1>1, <1>2, <1>4 DEF CoreInv, OnePassAtATime, MadeOf, Made
<1>10. ArmedHasLivePass' BY <1>1, <1>2, <1>4 DEF CoreInv, ArmedHasLivePass, MadeOf, Made
<1> QED BY <1>5, <1>6, <1>7, <1>8, <1>9, <1>10 DEF CoreInv

\* Neither tool leaves the case armed.
LEMMA ToolKeeps ==
  ASSUME TypeOK, CoreInv, NEW t \in Takeovers, HandBack(t) \/ SendConfirmation(t) PROVE CoreInv'
<1>0. CaseOf[t] \in Cases BY ServiceAssumption
<1>1. Made' = Made /\ latest' = latest /\ usage' = usage /\ tko' = tko
  BY DEF HandBack, SendConfirmation, Made
<1>2. \A d : MadeOf(d)' = MadeOf(d) BY <1>1 DEF MadeOf
<1>3. /\ \A d \in Cases : d # CaseOf[t] => status'[d] = status[d]
      /\ status'[CaseOf[t]] \in {"handed_back", "completed"}
  BY <1>0 DEF HandBack, SendConfirmation, TypeOK
<1>4. status'[CaseOf[t]] = "handed_back" => tko[t].handBack /\ t \in MadeOf(CaseOf[t])
  <2>1. CASE HandBack(t)
    <3>1. tko[t].handBack BY <2>1 DEF HandBack
    <3>2. t \in Made BY <3>1 DEF CoreInv, Untouched, NewRow
    <3> QED BY <3>1, <3>2 DEF MadeOf
  <2>2. CASE SendConfirmation(t)
    BY <1>0, <2>2 DEF SendConfirmation, TypeOK
  <2> QED BY <2>1, <2>2
<1>5. Untouched' BY <1>1 DEF CoreInv, Untouched
<1>6. EndedIsMetered' BY <1>1 DEF CoreInv, EndedIsMetered
<1>7. ShadowingIsFresh' BY <1>2, <1>3 DEF CoreInv, ShadowingIsFresh
<1>8. HandedBackIsOver' BY <1>1, <1>2, <1>3, <1>4 DEF CoreInv, HandedBackIsOver
<1>9. OnePassAtATime' BY <1>1, <1>2 DEF CoreInv, OnePassAtATime
<1>10. ArmedHasLivePass' BY <1>1, <1>2, <1>3 DEF CoreInv, ArmedHasLivePass
<1> QED BY <1>5, <1>6, <1>7, <1>8, <1>9, <1>10 DEF CoreInv

\* CoreInv is inductive.
LEMMA CoreStep == TypeOK /\ HandlersMade /\ CoreInv /\ [Next]_vars => CoreInv'
<1> SUFFICES ASSUME TypeOK, HandlersMade, CoreInv, [Next]_vars PROVE CoreInv'
  OBVIOUS
<1>1. ASSUME NEW t \in Takeovers,
             CreateArmed(t) \/ HandBackNoted(t) \/ HandBack(t) \/ SendConfirmation(t)
      PROVE  CoreInv'
  BY <1>1, ArmKeeps, NoteKeeps, ToolKeeps
<1>2. ASSUME NEW k \in Compiles, Freeze(k) PROVE CoreInv' BY <1>2, FreezeKeeps
<1>3. ASSUME NEW e \in Ends, EndWrites(e) PROVE CoreInv' BY <1>3, EndKeeps
<1> QED BY <1>1, <1>2, <1>3, Effects, QuietKeeps

\* A compile keeps the snapshot it answers from, and the takeover keeps it too.
LEMMA AnswersStep ==
  TypeOK /\ HandlersMade /\ CoreInv /\ AnswersStored /\ [Next]_vars => AnswersStored'
<1> SUFFICES ASSUME TypeOK, HandlersMade, CoreInv, AnswersStored, [Next]_vars
             PROVE  AnswersStored'
  OBVIOUS
<1>1. ASSUME cmp' = cmp, \A t \in Takeovers : tko'[t].snapshot = tko[t].snapshot
      PROVE  AnswersStored'
  BY <1>1 DEF AnswersStored, HandlersMade, Made
<1>2. ASSUME NEW k \in Compiles, NEW t \in Takeovers, CompileLoads(k, t) PROVE AnswersStored'
  <2>1. cmp[k].snapshot = None BY <1>2 DEF CompileLoads, AnswersStored
  <2>2. \A j \in Compiles : j # k => cmp'[j] = cmp[j] BY <1>2 DEF CompileLoads, TypeOK
  <2>3. cmp'[k].snapshot = None BY <1>2, <2>1 DEF CompileLoads, TypeOK, CompileState
  <2> QED BY <1>2, <2>2, <2>3 DEF CompileLoads, AnswersStored
<1>3. ASSUME NEW k \in Compiles, Freeze(k) PROVE AnswersStored'
  <2>1. cmp[k].tko \in Takeovers /\ tko[cmp[k].tko].snapshot = None
    BY <1>3 DEF Freeze, HandlersMade, Made
  <2>2. /\ cmp'[k].snapshot = k /\ cmp'[k].pc = "save" /\ cmp'[k].tko = cmp[k].tko
        /\ \A j \in Compiles : j # k => cmp'[j] = cmp[j]
    BY <1>3 DEF Freeze, TypeOK, CompileState
  <2>3. /\ tko'[cmp[k].tko].snapshot = k
        /\ \A t \in Takeovers : t # cmp[k].tko => tko'[t] = tko[t]
    BY <1>3, <2>1 DEF Freeze, TypeOK, Row
  <2> SUFFICES ASSUME NEW j \in Compiles, j # k, cmp[j].snapshot # None
               PROVE  cmp[j].pc # "idle" /\ cmp[j].snapshot = tko'[cmp[j].tko].snapshot
    BY <2>2, <2>3 DEF AnswersStored
  <2>4. cmp[j].pc # "idle" /\ cmp[j].snapshot = tko[cmp[j].tko].snapshot
    BY DEF AnswersStored
  <2>5. cmp[j].tko \in Takeovers /\ cmp[j].tko # cmp[k].tko
    BY <2>1, <2>4 DEF HandlersMade, Made
  <2> QED BY <2>3, <2>4, <2>5
<1>4. ASSUME NEW k \in Compiles, ReturnFrozen(k) PROVE AnswersStored'
  <2>1. /\ cmp'[k].snapshot = tko[cmp[k].tko].snapshot /\ cmp'[k].pc = "save"
        /\ cmp'[k].tko = cmp[k].tko
        /\ \A j \in Compiles : j # k => cmp'[j] = cmp[j]
    BY <1>4 DEF ReturnFrozen, TypeOK, CompileState
  <2> QED BY <1>4, <2>1 DEF ReturnFrozen, AnswersStored
<1>5. ASSUME NEW k \in Compiles, SaveCompiled(k) PROVE AnswersStored'
  <2>1. \A t \in Takeovers : tko'[t].snapshot = tko[t].snapshot
    BY <1>5, PhaseWritesQuiet DEF Quiet, SameFate
  <2>2. /\ cmp'[k].snapshot = cmp[k].snapshot /\ cmp'[k].pc = "done"
        /\ cmp'[k].tko = cmp[k].tko
        /\ \A j \in Compiles : j # k => cmp'[j] = cmp[j]
    BY <1>5 DEF SaveCompiled, TypeOK, CompileState
  <2> QED BY <2>1, <2>2 DEF AnswersStored, HandlersMade, Made
<1>6. ASSUME NEW t \in Takeovers, HandBackNoted(t) PROVE AnswersStored'
  <2>1. \A u \in Takeovers : tko'[u].snapshot = tko[u].snapshot
    BY <1>6 DEF HandBackNoted, TypeOK, Row
  <2> QED BY <1>1, <1>6, <2>1 DEF HandBackNoted
<1>7. ASSUME NEW v \in Reports, EventsWrite(v) PROVE AnswersStored'
  <2>1. \A t \in Takeovers : tko'[t].snapshot = tko[t].snapshot
    BY <1>7, PhaseWritesQuiet DEF Quiet, SameFate
  <2> QED BY <1>1, <1>7, <2>1 DEF EventsWrite
<1>8. ASSUME NEW e \in Ends, EndWrites(e) PROVE AnswersStored'
  <2>1. \A t \in Takeovers : tko'[t].snapshot = tko[t].snapshot
    BY <1>8 DEF EndWrites, Terminal, TypeOK, Row
  <2> QED BY <1>1, <1>8, <2>1 DEF EndWrites
<1>9. ASSUME tko' = tko, cmp' = cmp PROVE AnswersStored'
  BY <1>1, <1>9
<1>10. ASSUME NEW t \in Takeovers,
              \/ ArmLoads(t) \/ CreateArmed(t) \/ ArmRefused(t) \/ HandBack(t) \/ SendConfirmation(t)
              \/ \E v \in Reports : EventsLoad(v, t)
              \/ \E e \in Ends : EndLoads(e, t)
              \/ \E w \in Sweeps : StaleFindsNoJob(w, t)
       PROVE  AnswersStored'
  <2>1. tko' = tko /\ cmp' = cmp
    BY <1>10 DEF ArmLoads, CreateArmed, ArmRefused, HandBack, SendConfirmation, EventsLoad,
                 EndLoads, StaleFindsNoJob
  <2> QED BY <2>1, <1>9
<1>11. ASSUME NEW e \in Ends,
              EndMeterFails(e) \/ EndReplayed(e) \/ EndFindsJob(e) \/ EndEnqueues(e)
       PROVE  AnswersStored'
  BY <1>9, <1>11 DEF EndMeterFails, EndReplayed, EndFindsJob, EndEnqueues
<1>12. ASSUME NEW w \in Sweeps, StaleEnqueues(w) PROVE AnswersStored'
  BY <1>9, <1>12 DEF StaleEnqueues
<1>13. CASE UNCHANGED vars BY <1>9, <1>13 DEF vars
<1> QED
  BY <1>2, <1>3, <1>4, <1>5, <1>6, <1>7, <1>8, <1>10, <1>11, <1>12, <1>13 DEF Next

\* The invariant of every reachable state.
FullInv == TypeOK /\ HandlersMade /\ CoreInv /\ AnswersStored

LEMMA Inductive == Spec => []FullInv
<1>1. Init => FullInv
  <2>1. ASSUME Init PROVE Made = {} /\ \A c : MadeOf(c) = {}
    BY <2>1 DEF Init, Made, MadeOf
  <2>2. Init => CoreInv
    BY <2>1 DEF Init, CoreInv, Untouched, EndedIsMetered, ShadowingIsFresh, HandedBackIsOver,
                OnePassAtATime, ArmedHasLivePass, NewRow
  <2>3. Init => HandlersMade BY DEF Init, HandlersMade
  <2>4. Init => AnswersStored BY DEF Init, AnswersStored
  <2> QED BY <2>2, <2>3, <2>4, TypeInit DEF FullInv
<1>2. FullInv /\ [Next]_vars => FullInv'
  BY TypeStep, HandlersMadeStep, CoreStep, AnswersStep DEF FullInv
<1> QED BY <1>1, <1>2, PTL DEF Spec

\* A call has one pass under way at a time, unless the AI half handed it back.
THEOREM OnePassAlways == Spec => []OnePassAtATime
<1>1. FullInv => OnePassAtATime BY DEF FullInv, CoreInv
<1> QED BY <1>1, Inductive, PTL

\* An armed case waits for its latest takeover, which has not ended.
THEOREM ArmedHasLivePassAlways == Spec => []ArmedHasLivePass
<1>1. FullInv => ArmedHasLivePass BY DEF FullInv, CoreInv
<1> QED BY <1>1, Inductive, PTL

\* One pass at most, and a call that waits for its pass has it.
THEOREM OneLivePassAlways == Spec => []OneLivePass
BY OnePassAlways, ArmedHasLivePassAlways, PTL DEF OneLivePass

\* All compiles of a takeover answer from one snapshot.
THEOREM CompileAgreementAlways == Spec => []CompileAgreement
<1>1. FullInv => CompileAgreement BY DEF FullInv, AnswersStored, CompileAgreement
<1> QED BY <1>1, Inductive, PTL

\* A call accepts at most MaxPerCase passes, however many arms race: the count is
\* taken under the lock of the case.
PassLimit == \A c \in Cases : Cardinality(MadeOf(c)) <= MaxPerCase
THEOREM PassLimitAlways == Spec => []PassLimit
<1>1. Init => PassLimit
  <2>1. ASSUME Init PROVE \A c : MadeOf(c) = {}
    BY <2>1 DEF Init, Made, MadeOf
  <2> QED BY <2>1, FS_EmptySet, ServiceAssumption DEF PassLimit
<1>2. FullInv /\ PassLimit /\ [Next]_vars => PassLimit'
  <2> SUFFICES ASSUME FullInv, PassLimit, [Next]_vars, NEW c \in Cases
               PROVE  Cardinality(MadeOf(c)') <= MaxPerCase
    BY DEF PassLimit
  <2>1. ASSUME Made' = Made PROVE Cardinality(MadeOf(c)') <= MaxPerCase
    BY <2>1 DEF PassLimit, MadeOf
  <2>2. ASSUME NEW t \in Takeovers, CreateArmed(t) PROVE Cardinality(MadeOf(c)') <= MaxPerCase
    <3>1. Made' = Made \cup {t} /\ t \notin Made
      BY <2>2 DEF CreateArmed, Made, FullInv, TypeOK
    <3>2. CASE CaseOf[t] # c
      <4>1. MadeOf(c)' = MadeOf(c) BY <3>1, <3>2 DEF MadeOf
      <4> QED BY <4>1 DEF PassLimit
    <3>3. CASE CaseOf[t] = c
      <4>1. MadeOf(c)' = MadeOf(c) \cup {t} /\ t \notin MadeOf(c)
        BY <3>1, <3>3 DEF MadeOf
      <4>2. IsFiniteSet(MadeOf(c))
        BY FS_Subset, ServiceAssumption DEF MadeOf, Made
      <4>3. Cardinality(MadeOf(c)') = Cardinality(MadeOf(c)) + 1
        BY <4>1, <4>2, FS_AddElement
      <4>4. Cardinality(MadeOf(c)) < MaxPerCase BY <2>2, <3>3 DEF CreateArmed
      <4>5. Cardinality(MadeOf(c)) \in Nat BY <4>2, FS_CardinalityType
      <4> QED BY <4>3, <4>4, <4>5, ServiceAssumption
    <3> QED BY <3>2, <3>3
  <2>3. ASSUME NEW t \in Takeovers, HandBackNoted(t) \/ HandBack(t) \/ SendConfirmation(t)
        PROVE  Made' = Made
    BY <2>3 DEF HandBackNoted, HandBack, SendConfirmation, Made
  <2>4. ASSUME NEW k \in Compiles, Freeze(k) PROVE Made' = Made BY <2>4 DEF Freeze, Made
  <2>5. ASSUME NEW e \in Ends, EndWrites(e) PROVE Made' = Made BY <2>5 DEF EndWrites, Made
  <2>6. Quiet => Made' = Made BY DEF Quiet
  <2> QED BY <2>1, <2>2, <2>3, <2>4, <2>5, <2>6, Effects DEF FullInv
<1> QED BY <1>1, <1>2, Inductive, PTL DEF Spec

-----------------------------------------------------------------------------
(***************************************************************************)
(* The refinement: every step opens, freezes or finishes a pass, or does   *)
(* nothing to the ledger.                                                  *)
(***************************************************************************)
Snapshots == [t \in Takeovers |-> tko[t].snapshot]
Results == [t \in Takeovers |-> IF tko[t].ended THEN tko[t].outcome ELSE None]

\* The takeover service keeps the promise of PassLedger.
THEOREM KeepsLedger == Spec => LedgerSpec
<1>1. Init => Ledger!Init
  <2> SUFFICES ASSUME Init PROVE Ledger!Init
    OBVIOUS
  <2>1. Made = {} BY DEF Init, Made
  <2> QED BY <2>1 DEF Init, Ledger!Init, NewRow
<1>2. FullInv /\ [Next]_vars => [Ledger!Next]_(Ledger!vars)
  <2> SUFFICES ASSUME FullInv, [Next]_vars PROVE Ledger!Next \/ UNCHANGED Ledger!vars
    OBVIOUS
  <2>1. ASSUME Made' = Made, usage' = usage,
               \A t \in Takeovers : /\ tko'[t].ended = tko[t].ended
                                    /\ tko'[t].outcome = tko[t].outcome
                                    /\ tko'[t].snapshot = tko[t].snapshot
        PROVE  UNCHANGED Ledger!vars
    <3>1. Snapshots' = Snapshots BY <2>1 DEF Snapshots
    <3>2. Results' = Results BY <2>1 DEF Results
    <3> QED BY <2>1, <3>1, <3>2 DEF Ledger!vars, Snapshots, Results
  <2>2. ASSUME NEW t \in Takeovers, CreateArmed(t) PROVE Ledger!Open(t)
    <3>1. Made' = Made \cup {t} /\ t \notin Made
      BY <2>2 DEF CreateArmed, Made, FullInv, TypeOK
    <3>2. Ledger!OpenedOf(CaseOf[t]) = MadeOf(CaseOf[t]) BY DEF Ledger!OpenedOf, MadeOf
    <3>3. Snapshots' = Snapshots /\ Results' = Results /\ usage' = usage
      BY <2>2 DEF CreateArmed, Snapshots, Results
    <3>5. Ledger!Cardinality(MadeOf(CaseOf[t])) = Cardinality(MadeOf(CaseOf[t]))
      BY DEF Ledger!Cardinality, Cardinality
    <3>4. Ledger!Cardinality(Ledger!OpenedOf(CaseOf[t])) < MaxPerCase
      BY <2>2, <3>2, <3>5 DEF CreateArmed
    <3> QED BY <3>1, <3>3, <3>4 DEF Ledger!Open, Snapshots, Results
  <2>3. ASSUME NEW k \in Compiles, Freeze(k) PROVE \E t \in Takeovers : Ledger!Freeze(t, k)
    <3>0. PICK t : t = cmp[k].tko OBVIOUS
    <3>1. t \in Made /\ t \in Takeovers
      BY <2>3, <3>0 DEF Freeze, FullInv, HandlersMade, Made
    <3>2. Made' = Made /\ usage' = usage BY <2>3 DEF Freeze, Made
    <3>3. /\ tko'[t].snapshot = k /\ tko'[t].ended = tko[t].ended
          /\ tko'[t].outcome = tko[t].outcome
      BY <2>3, <3>0, <3>1 DEF Freeze, FullInv, TypeOK, Row
    <3>4. \A u \in Takeovers : u # t => tko'[u] = tko[u]
      BY <2>3, <3>0 DEF Freeze, FullInv, TypeOK
    <3>5. Snapshots' = [Snapshots EXCEPT ![t] = k] BY <3>1, <3>3, <3>4 DEF Snapshots
    <3>6. Results' = Results BY <3>3, <3>4 DEF Results
    <3>7. Snapshots[t] = None BY <2>3, <3>0, <3>1 DEF Freeze, Snapshots
    <3>8. Ledger!Freeze(t, k) BY <3>1, <3>2, <3>5, <3>6, <3>7 DEF Ledger!Freeze, Snapshots, Results
    <3> QED BY <3>1, <3>8
  <2>4. ASSUME NEW e \in Ends, EndWrites(e)
        PROVE  \E t \in Takeovers : \E o \in Outcomes : Ledger!Finish(t, o)
    <3>0. PICK t, o : t = ends[e].tko /\ o = ends[e].outcome OBVIOUS
    <3>1. t \in Made /\ t \in Takeovers /\ o \in Outcomes /\ ~tko[t].ended
      BY <2>4, <3>0 DEF EndWrites, FullInv, HandlersMade, Made
    <3>2. Made' = Made /\ usage' = usage \cup {t} BY <2>4, <3>0 DEF EndWrites, Made
    <3>3. /\ tko'[t].snapshot = tko[t].snapshot /\ tko'[t].ended
          /\ tko'[t].outcome = o
      BY <2>4, <3>0, <3>1 DEF EndWrites, Terminal, FullInv, TypeOK, Row
    <3>4. \A u \in Takeovers : u # t => tko'[u] = tko[u]
      BY <2>4, <3>0 DEF EndWrites, Terminal, FullInv, TypeOK
    <3>5. Snapshots' = Snapshots BY <3>3, <3>4 DEF Snapshots
    <3>6. Results' = [Results EXCEPT ![t] = o]
      BY <3>1, <3>3, <3>4 DEF Results
    <3>7. Results[t] = None BY <3>1 DEF Results
    <3>8. Ledger!Finish(t, o) BY <3>1, <3>2, <3>5, <3>6, <3>7 DEF Ledger!Finish, Snapshots, Results
    <3> QED BY <3>1, <3>8
  <2>5. ASSUME NEW t \in Takeovers, HandBackNoted(t) \/ HandBack(t) \/ SendConfirmation(t)
        PROVE  UNCHANGED Ledger!vars
    <3>1. CASE HandBackNoted(t)
      BY <2>1, <3>1 DEF HandBackNoted, Made, FullInv, TypeOK, Row
    <3>2. CASE HandBack(t) \/ SendConfirmation(t)
      BY <2>1, <3>2 DEF HandBack, SendConfirmation, Made
    <3> QED BY <2>5, <3>1, <3>2
  <2>6. Quiet => UNCHANGED Ledger!vars
    BY <2>1 DEF Quiet, SameFate
  <2>7. CASE \E t \in Takeovers : CreateArmed(t) BY <2>2, <2>7 DEF Ledger!Next
  <2>8. CASE \E k \in Compiles : Freeze(k) BY <2>3, <2>8 DEF Ledger!Next
  <2>9. CASE \E e \in Ends : EndWrites(e) BY <2>4, <2>9 DEF Ledger!Next
  <2> QED BY <2>5, <2>6, <2>7, <2>8, <2>9, Effects DEF FullInv
<1> QED BY <1>1, <1>2, Inductive, PTL DEF Spec, LedgerSpec, Ledger!Spec

\* What the runs check of the service at once: types, and compiles that agree.
THEOREM PassesSoundAlways == Spec => []PassesSound
BY TypeCorrect, CompileAgreementAlways, PTL DEF PassesSound
-----------------------------------------------------------------------------
(* What a completed call becomes *)

\* No arm, end or tool moves a completed call: only a compile that passed its check
\* before the call was completed does.
THEOREM CompletedStaysAlways == Spec => CompletedStays
<1> DEFINE Moved(c) == status[c] = "completed" /\ status'[c] # "completed"
<1> DEFINE Frozen(c) == \E k \in Compiles : cmp[k].pc = "freeze" /\ CaseOf[cmp[k].tko] = c /\ cmp'[k].pc = "save"
<1>1. ASSUME FullInv, [Next]_vars, NEW c \in Cases, Moved(c) PROVE Frozen(c)
  <2>1. status \in [Cases -> CaseStatus] /\ tko \in [Takeovers -> Row] /\ cmp \in [Compiles -> CompileState]
    BY <1>1 DEF FullInv, TypeOK
  <2>2. ASSUME NEW t \in Takeovers, CreateArmed(t) PROVE FALSE
    BY <1>1, <2>1, <2>2 DEF CreateArmed, ARMABLE
  <2>3. ASSUME NEW t \in Takeovers, HandBackNoted(t) \/ HandBack(t) \/ SendConfirmation(t) PROVE FALSE
    BY <1>1, <2>1, <2>3 DEF HandBackNoted, HandBack, SendConfirmation, ACTIVE
  <2>4. ASSUME NEW e \in Ends, EndWrites(e) PROVE FALSE
    BY <1>1, <2>1, <2>4 DEF EndWrites, CaseAfterEnd, ENDABLE
  <2>5. ASSUME NEW k \in Compiles, Freeze(k) PROVE Frozen(c)
    <3>1. CaseOf[cmp[k].tko] = c
      BY <1>1, <2>1, <2>5 DEF Freeze
    <3>2. cmp[k].pc = "freeze" /\ cmp'[k].pc = "save"
      BY <2>1, <2>5 DEF Freeze, CompileState
    <3> QED BY <3>1, <3>2
  <2>6. ~Quiet BY <1>1 DEF Quiet
  <2> QED BY <1>1, <2>2, <2>3, <2>4, <2>5, <2>6, Effects DEF FullInv
<1>2. FullInv /\ [Next]_vars => [\A c \in Cases : Moved(c) => Frozen(c)]_vars
  BY <1>1
<1> QED BY <1>2, Inductive, PTL DEF Spec, CompletedStays
=============================================================================
