--------------------------- MODULE VaSlotsProofs ---------------------------
(***************************************************************************)
(* Proofs about VaSlots for any number of calls, takeovers and requests.   *)
(***************************************************************************)
EXTENDS VaSlots, FiniteSetTheorems, TLAPS

LEMMA SlotsFinite == IsFiniteSet(Slots)
<1>1. IsFiniteSet(Attempts)
  <2>1. Attempts = ({} \cup {0}) \cup {1} BY DEF Attempts
  <2> QED BY <2>1, FS_EmptySet, FS_AddElement
<1>2. IsFiniteSet(Takeovers \X Attempts)
  BY <1>1, FS_Product, SlotsAssumption
<1> QED
  BY <1>2, FS_Union, SlotsAssumption DEF Slots

\* Release writes four row variables within their types.
LEMMA ReleaseType ==
  ASSUME TypeOK, NEW s, Release(s)
  PROVE  /\ status' \in [Slots -> Status] /\ opened' \in [Slots -> BOOLEAN]
         /\ ledgerOf' \in [Slots -> Slots \cup {None}] /\ ledger' \in [Slots -> Money]
<1>1. CASE s \in Slots /\ status[s] \in Live
  BY <1>1 DEF Release, TypeOK, CloseLedger, SetLedger, Status, Money
<1>2. CASE ~(s \in Slots /\ status[s] \in Live)
  BY <1>2 DEF Release, TypeOK, rows
<1> QED BY <1>1, <1>2

\* The empty tables are within their types.
LEMMA TypeInit == Init => TypeOK
  BY SlotsAssumption DEF Init, TypeOK, TkoRow, RunState, ReqState, RepState, Status, Money, Attempts, Slots

\* The updates the handlers make of their records keep their types.
LEMMA RecordUpdates ==
  /\ \A x \in RunState, q \in {"idle", "release", "hold", "save", "done"} : [x EXCEPT !.pc = q] \in RunState
  /\ \A x \in RunState, o \in Starts \cup {None, Recorded} :
       /\ \A c \in Cases : [x EXCEPT !.pc = "release", !.case = c, !.old = o] \in RunState
       /\ [x EXCEPT !.pc = "save", !.new = o] \in RunState
       /\ x.new \in Starts \cup {None, Recorded}
  /\ \A x \in ReqState, q \in {"idle", "release0", "acquire", "reserve", "mint", "undo", "minted", "denied", "dead"} :
       [x EXCEPT !.pc = q] \in ReqState
  /\ \A x \in RepState, q \in {"idle", "opened", "closed", "done"} : [x EXCEPT !.pc = q] \in RepState
  /\ \A x \in TkoRow, q \in {"none", "live", "ending", "ended"} : [x EXCEPT !.stage = q] \in TkoRow
  /\ \A x \in TkoRow : [x EXCEPT !.failed = TRUE] \in TkoRow
  /\ \A x \in TkoRow, a \in Attempts : [x EXCEPT !.retries = a] \in TkoRow
  BY DEF RunState, ReqState, RepState, TkoRow

\* Every transaction, report and sweep writes values of the declared types.
LEMMA TypeStep == TypeOK /\ [Next]_vars => TypeOK'
<1> USE SlotsAssumption
<1> SUFFICES ASSUME TypeOK, [Next]_vars PROVE TypeOK'
  OBVIOUS
<1>1. ASSUME NEW s \in Starts, StartReads(s) PROVE TypeOK'
  <2>1. PICK c \in Cases :
          run' = [run EXCEPT ![s] = [@ EXCEPT !.pc = "release", !.case = c, !.old = plan[c]]]
    BY <1>1 DEF StartReads
  <2>2. plan[c] \in Starts \cup {None, Recorded} BY DEF TypeOK
  <2>3. run' \in [Starts -> RunState] BY <2>1, <2>2, RecordUpdates DEF TypeOK
  <2> QED BY <1>1, <2>3 DEF StartReads, TypeOK, rows
<1>2. ASSUME NEW s \in Starts, StartReleases(s) PROVE TypeOK'
  <2>1. run' \in [Starts -> RunState] BY <1>2, RecordUpdates DEF StartReleases, TypeOK
  <2> QED BY ReleaseType, <1>2, <2>1 DEF StartReleases, TypeOK
<1>3. ASSUME NEW s \in Starts, StartHolds(s) PROVE TypeOK'
  <2>1. s \in Slots BY DEF Slots
  <2>2. run' \in [Starts -> RunState] BY <1>3, RecordUpdates DEF StartHolds, TypeOK
  <2>3. ledgerOf' \in [Slots -> Slots \cup {None}] BY <1>3, <2>1 DEF StartHolds, TypeOK
  <2> QED BY <1>3, <2>2, <2>3 DEF StartHolds, TypeOK, Status, Money
<1>4. ASSUME NEW s \in Starts, StartRefused(s) PROVE TypeOK'
  <2>1. run' \in [Starts -> RunState] BY <1>4, RecordUpdates DEF StartRefused, TypeOK
  <2> QED BY <1>4, <2>1 DEF StartRefused, TypeOK, rows
<1>5. ASSUME NEW s \in Starts, StartSaves(s) PROVE TypeOK'
  <2>1. run' \in [Starts -> RunState] BY <1>5, RecordUpdates DEF StartSaves, TypeOK
  <2>2. plan' \in [Cases -> Starts \cup {None, Recorded}]
    BY <1>5, RecordUpdates DEF StartSaves, TypeOK
  <2> QED BY <1>5, <2>1, <2>2 DEF StartSaves, TypeOK, rows
<1>6. ASSUME NEW c \in Cases, RunReleases(c) PROVE TypeOK'
  BY <1>6, ReleaseType DEF RunReleases, TypeOK
<1>7. ASSUME NEW t \in Takeovers, Arm(t) PROVE TypeOK'
  <2>1. tko' \in [Takeovers -> TkoRow] BY <1>7, RecordUpdates DEF Arm, TypeOK
  <2> QED BY <1>7, <2>1 DEF Arm, TypeOK, rows
<1>8. ASSUME NEW t \in Takeovers, FailureReported(t) PROVE TypeOK'
  <2>1. tko' \in [Takeovers -> TkoRow] BY <1>8, RecordUpdates DEF FailureReported, TypeOK
  <2> QED BY <1>8, <2>1 DEF FailureReported, TypeOK, rows
<1>9. ASSUME NEW t \in Takeovers, End(t) PROVE TypeOK'
  <2>1. tko' \in [Takeovers -> TkoRow] BY <1>9, RecordUpdates DEF End, TypeOK
  <2> QED BY <1>9, <2>1 DEF End, TypeOK, rows
<1>10. ASSUME NEW t \in Takeovers, EndReleases(t) PROVE TypeOK'
  <2>1. /\ status' \in [Slots -> Status] /\ opened' \in [Slots -> BOOLEAN]
        /\ ledgerOf' \in [Slots -> Slots \cup {None}] /\ ledger' \in [Slots -> Money]
    <3>1. CASE Release(<<t, tko[t].retries>>) BY <3>1, ReleaseType
    <3>2. CASE UNCHANGED rows BY <3>2 DEF rows, TypeOK
    <3> QED BY <1>10, <3>1, <3>2 DEF EndReleases
  <2>2. tko' \in [Takeovers -> TkoRow]
    BY <1>10, RecordUpdates DEF EndReleases, TypeOK
  <2> QED BY <1>10, <2>1, <2>2 DEF EndReleases, TypeOK
<1>11. ASSUME NEW r \in Requests, NEW t \in Takeovers, NEW a \in Attempts, Decide(r, t, a)
       PROVE TypeOK'
  <2>1. tko' \in [Takeovers -> TkoRow] BY <1>11, RecordUpdates DEF Decide, TypeOK
  <2>2. plan[CaseOf[t]] \in Starts \cup {None}
    BY <1>11 DEF Decide, MayMint, TypeOK
  <2>3. req' \in [Requests -> ReqState] BY <1>11, <2>2 DEF Decide, TypeOK, ReqState
  <2> QED BY <1>11, <2>1, <2>3 DEF Decide, TypeOK, rows
<1>12. ASSUME NEW r \in Requests, ReleaseFirst(r) PROVE TypeOK'
  <2>1. req' \in [Requests -> ReqState] BY <1>12, RecordUpdates DEF ReleaseFirst, TypeOK
  <2> QED BY ReleaseType, <1>12, <2>1 DEF ReleaseFirst, TypeOK
<1>13. ASSUME NEW r \in Requests, AcquireFromHold(r) PROVE TypeOK'
  <2>1. req[r].hold \in Slots /\ ledgerOf[req[r].hold] \in Slots \cup {None}
    BY <1>13 DEF AcquireFromHold, Held, TypeOK, Slots
  <2>2. ledgerOf' \in [Slots -> Slots \cup {None}]
    BY <1>13, <2>1 DEF AcquireFromHold, TypeOK
  <2>3. status' \in [Slots -> Status] BY <1>13 DEF AcquireFromHold, TypeOK, Status
  <2>4. req' \in [Requests -> ReqState] BY <1>13, RecordUpdates DEF AcquireFromHold, TypeOK
  <2> QED BY <1>13, <2>2, <2>3, <2>4 DEF AcquireFromHold, TypeOK
<1>14. ASSUME NEW r \in Requests, AcquireFree(r) PROVE TypeOK'
  <2>1. req' \in [Requests -> ReqState] BY <1>14, RecordUpdates DEF AcquireFree, TypeOK
  <2>2. status' \in [Slots -> Status] BY <1>14 DEF AcquireFree, TypeOK, Status
  <2> QED BY <1>14, <2>1, <2>2 DEF AcquireFree, TypeOK
<1>15. ASSUME NEW r \in Requests, AcquireDenied(r) PROVE TypeOK'
  <2>1. req' \in [Requests -> ReqState] BY <1>15, RecordUpdates DEF AcquireDenied, TypeOK
  <2> QED BY <1>15, <2>1 DEF AcquireDenied, TypeOK, rows
<1>16. ASSUME NEW r \in Requests, Reserve(r) PROVE TypeOK'
  <2>1. req[r].slot \in Slots \cup {None} BY DEF TypeOK, ReqState, Slots
  <2>2. ledgerOf' \in [Slots -> Slots \cup {None}]
    BY <1>16, <2>1 DEF Reserve, TypeOK
  <2>3. req' \in [Requests -> ReqState] BY <1>16, RecordUpdates DEF Reserve, TypeOK
  <2>4. ledger' \in [Slots -> Money] BY <1>16 DEF Reserve, TypeOK, Money
  <2> QED BY <1>16, <2>2, <2>3, <2>4 DEF Reserve, TypeOK
<1>17. ASSUME NEW r \in Requests, ReserveRefused(r) PROVE TypeOK'
  <2>1. req' \in [Requests -> ReqState] BY <1>17, RecordUpdates DEF ReserveRefused, TypeOK
  <2> QED BY <1>17, <2>1 DEF ReserveRefused, TypeOK, rows
<1>18. ASSUME NEW r \in Requests, Mint(r) PROVE TypeOK'
  <2>1. req' \in [Requests -> ReqState] BY <1>18, RecordUpdates DEF Mint, TypeOK
  <2> QED BY <1>18, <2>1 DEF Mint, TypeOK, rows
<1>19. ASSUME NEW r \in Requests, MintFails(r) PROVE TypeOK'
  <2>1. req' \in [Requests -> ReqState] BY <1>19, RecordUpdates DEF MintFails, TypeOK
  <2> QED BY <1>19, <2>1 DEF MintFails, TypeOK, rows
<1>20. ASSUME NEW r \in Requests, Undo(r) PROVE TypeOK'
  <2>1. req' \in [Requests -> ReqState] BY <1>20, RecordUpdates DEF Undo, TypeOK
  <2> QED BY ReleaseType, <1>20, <2>1 DEF Undo, TypeOK
<1>21. ASSUME NEW r \in Requests, Dies(r) PROVE TypeOK'
  <2>1. req' \in [Requests -> ReqState] BY <1>21, RecordUpdates DEF Dies, TypeOK
  <2> QED BY <1>21, <2>1 DEF Dies, TypeOK, rows
<1>22. ASSUME NEW s \in Takeovers \X Attempts, BrowserCloses(s) PROVE TypeOK'
  BY <1>22 DEF BrowserCloses, TypeOK, rows
<1>23. ASSUME NEW p \in Reports, NEW s \in Takeovers \X Attempts,
              NEW e \in {"opened", "closed"}, ReportReads(p, s, e)
       PROVE TypeOK'
  <2>1. s \in Slots BY DEF Slots
  <2> QED BY <1>23, <2>1 DEF ReportReads, TypeOK, RepState, rows
<1>24. ASSUME NEW p \in Reports, ReportOpened(p) PROVE TypeOK'
  <2>1. rep' \in [Reports -> RepState] BY <1>24, RecordUpdates DEF ReportOpened, TypeOK
  <2> QED BY <1>24, <2>1 DEF ReportOpened, TypeOK, rows
<1>25. ASSUME NEW p \in Reports, ReportClosed(p) PROVE TypeOK'
  <2>1. status' \in [Slots -> Status]
    BY <1>25 DEF ReportClosed, TypeOK, RepState, Status
  <2>2. \A l, m : m \in Money => SetLedger(l, m) \in [Slots -> Money]
    BY DEF SetLedger, TypeOK
  <2>3. ledger' \in [Slots -> Money]
    BY <1>25, <2>2 DEF ReportClosed, CloseLedger, TypeOK, Money
  <2>4. rep' \in [Reports -> RepState]
    BY <1>25, RecordUpdates DEF ReportClosed, TypeOK
  <2> QED BY <1>25, <2>1, <2>3, <2>4 DEF ReportClosed, TypeOK
<1>26. ASSUME Sweeps PROVE TypeOK'
  <2>1. status' \in [Slots -> Status]
    BY <1>26 DEF Sweeps, Sweep, SweepWrites, TypeOK, Status
  <2>2. ledger' \in [Slots -> Money]
    BY <1>26 DEF Sweeps, Sweep, SweepWrites, TypeOK, Money
  <2> QED BY <1>26, <2>1, <2>2 DEF Sweeps, Sweep, SweepWrites, TypeOK
<1>27. CASE UNCHANGED vars
  BY <1>27 DEF vars, TypeOK
<1> QED
  BY <1>1, <1>2, <1>3, <1>4, <1>5, <1>6, <1>7, <1>8, <1>9, <1>10, <1>11, <1>12, <1>13,
     <1>14, <1>15, <1>16, <1>17, <1>18, <1>19, <1>20, <1>21, <1>22, <1>23, <1>24,
     <1>25, <1>26, <1>27
  DEF Next, RunNext, TakeoverNext, TokenNext, BrowserNext

\* Every variable keeps its type.
THEOREM TypeCorrect == Spec => []TypeOK
<1> QED BY TypeInit, TypeStep, PTL DEF Spec

-----------------------------------------------------------------------------
(***************************************************************************)
(* The safety properties.  SlotInv is inductive: the steps that write rows *)
(* are lemmas of their own.                                                *)
(***************************************************************************)

\* What a release does to the rows: no row appears, none is held or active anew,
\* and booked money stays booked.
Released ==
  /\ ledgerOf' = ledgerOf
  /\ \A q \in Slots : status'[q] = "none" <=> status[q] = "none"
  /\ \A q \in Slots : ledger'[q] = "none" <=> ledger[q] = "none"
  /\ \A q \in Slots : status'[q] = "held" => status[q] = "held"
  /\ \A q \in Slots : status'[q] \in Live => status[q] \in Live
  /\ \A q \in Slots : ledger[q] = "settled" => ledger'[q] = "settled"

\* Release: the row leaves the active ones, and only its own reservation moves.
LEMMA ReleaseInv ==
  ASSUME TypeOK, SlotInv, NEW s, Release(s), sess' = sess
  PROVE  /\ Unwritten' /\ Booked' /\ OneOwner' /\ SessionPaidFor' /\ ActiveBacked' /\ Released
<1>1. CASE ~(s \in Slots /\ status[s] \in Live)
  <2>1. UNCHANGED rows BY <1>1 DEF Release
  <2>2. status' = status /\ ledgerOf' = ledgerOf /\ ledger' = ledger BY <2>1 DEF rows
  <2> QED BY <2>2 DEF SlotInv, Unwritten, Booked, OneOwner, SessionPaidFor, ActiveBacked, Active,
                   Released
<1>2. CASE s \in Slots /\ status[s] \in Live
  <2>1. ledgerOf' = ledgerOf /\ status' = [status EXCEPT ![s] = "released"]
    BY <1>2 DEF Release
  <2>2. ledgerOf[s] # None => ledger[ledgerOf[s]] = "reserved" /\ ledgerOf[s] \in Slots
    BY <1>2 DEF SlotInv, ActiveBacked, Active, TypeOK
  <2>3. \A q \in Slots : q # ledgerOf[s] => ledger'[q] = ledger[q]
    BY <1>2, <2>2 DEF Release, CloseLedger, SetLedger, TypeOK
  <2>4. ledgerOf[s] # None => ledger'[ledgerOf[s]] \in {"released", "settled"}
    BY <1>2, <2>2 DEF Release, CloseLedger, SetLedger, TypeOK
  <2>5. \A q \in Slots : q # s => status'[q] = status[q]
    BY <2>1 DEF TypeOK
  <2>6. status'[s] = "released" BY <1>2, <2>1 DEF TypeOK
  <2>7. Unwritten'
    <3> SUFFICES ASSUME NEW q \in Slots, status'[q] = "none"
                 PROVE  ledgerOf'[q] = None /\ ledger'[q] = "none"
      BY DEF Unwritten
    <3>1. status[q] = "none" /\ ledgerOf[q] = None /\ ledger[q] = "none"
      BY <2>5, <2>6 DEF SlotInv, Unwritten
    <3> QED BY <3>1, <2>1, <2>2, <2>3, SlotsAssumption
  <2>8. OneOwner' /\ SessionPaidFor'
    BY <2>1 DEF SlotInv, OneOwner, SessionPaidFor
  <2>9. ActiveBacked'
    <3> SUFFICES ASSUME NEW q \in Slots, status'[q] \in Live, ledgerOf[q] # None
                 PROVE  ledger'[ledgerOf[q]] = "reserved"
      BY <2>1 DEF ActiveBacked, Active
    <3>1. q # s /\ status[q] \in Live BY <2>5, <2>6 DEF Live
    <3>2. ledger[ledgerOf[q]] = "reserved" /\ ledgerOf[q] \in Slots
      BY <3>1 DEF SlotInv, ActiveBacked, Active, TypeOK
    <3>3. ledgerOf[q] # ledgerOf[s] BY <1>2, <3>1 DEF SlotInv, OneOwner
    <3> QED BY <3>2, <3>3, <2>3
  <2>10. Released
    <3>1. \A q \in Slots : ledger[q] \in {"none", "settled"} => ledger'[q] = ledger[q]
      BY <2>2, <2>3, SlotsAssumption
    <3>2. \A q \in Slots : ledger'[q] = "none" => ledger[q] = "none"
      BY <2>3, <2>4, SlotsAssumption
    <3> QED BY <1>2, <2>1, <2>5, <2>6, <3>1, <3>2 DEF Released, Live
  <2>11. Booked'
    BY <2>1, <2>10 DEF SlotInv, Booked, Released, TypeOK
  <2> QED BY <2>7, <2>8, <2>9, <2>10, <2>11
<1> QED BY <1>1, <1>2

\* A handler whose only write on the rows is a release keeps the invariant.
LEMMA ReleaseKeeps ==
  ASSUME TypeOK, SlotInv, NEW s, Release(s), sess' = sess, rep' = rep,
         \A q \in Starts : run'[q].pc \in {"idle", "release", "hold"} =>
                             run[q].pc \in {"idle", "release", "hold"},
         \A r \in Requests : /\ req'[r].pc # "idle" => req[r].pc # "idle"
                             /\ req'[r].slot = req[r].slot
                             /\ req'[r].pc \in {"reserve", "mint", "undo", "minted"}
                                => req'[r].pc = req[r].pc
  PROVE  SlotInv'
<1>0. /\ Unwritten' /\ Booked' /\ OneOwner' /\ SessionPaidFor' /\ ActiveBacked' /\ Released
  BY ReleaseInv
<1>1. HoldRows'
  BY <1>0 DEF SlotInv, HoldRows, Slots, Released
<1>2. RequestRows'
  <2>1. \A r \in Requests : Acquired(r)' => Acquired(r) /\ req'[r].pc = req[r].pc
    BY DEF Acquired
  <2>2. \A r \in Requests : Acquired(r) => req[r].slot \in Slots
    BY DEF Released, SlotInv, RequestRows, Acquired, Slots
  <2>3. \A r \in Requests : req'[r].pc # "idle" => req'[r].slot \in Takeovers \X Attempts
    BY DEF Released, SlotInv, RequestRows
  <2>4. \A r \in Requests : Acquired(r)' => status'[req'[r].slot] # "none"
    BY <2>1, <2>2, <1>0 DEF Released, SlotInv, RequestRows
  <2>5. \A r \in Requests : req'[r].pc = "reserve" =>
          ledgerOf'[req'[r].slot] = None /\ ledger'[req'[r].slot] = "none"
    BY <2>1, <2>2, <1>0 DEF Released, SlotInv, RequestRows, Acquired
  <2>6. \A r \in Requests : req'[r].pc = "mint" => ledgerOf'[req'[r].slot] # None
    BY <2>1, <2>2, <1>0 DEF Released, SlotInv, RequestRows, Acquired
  <2>7. \A q, r \in Requests :
          Acquired(q)' /\ Acquired(r)' /\ req'[q].slot = req'[r].slot => q = r
    BY <2>1 DEF Released, SlotInv, RequestRows
  <2> QED BY <2>3, <2>4, <2>5, <2>6, <2>7 DEF RequestRows
<1>3. ReportRows'
  BY <1>0 DEF SlotInv, ReportRows, Released
<1> QED BY <1>1, <1>2, <1>3, <1>0 DEF SlotInv

\* A step that leaves the rows alone keeps what SlotInv says of them.
LEMMA RowsSame ==
  ASSUME SlotInv, UNCHANGED rows
  PROVE  Unwritten' /\ Booked' /\ OneOwner' /\ ActiveBacked'
BY DEF rows, SlotInv, Unwritten, Booked, OneOwner, ActiveBacked, Active

\* Such a step keeps SlotInv if no Start goes back, no request comes to hold a
\* row, and sessions and reports stay.
LEMMA FrameKeeps ==
  ASSUME SlotInv, UNCHANGED rows, sess' = sess, rep' = rep,
         \A q \in Starts : run'[q].pc \in {"idle", "release", "hold"} =>
                             run[q].pc \in {"idle", "release", "hold"},
         \A r \in Requests : /\ req'[r].pc # "idle" => req'[r].slot \in Takeovers \X Attempts
                             /\ Acquired(r)' => Acquired(r) /\ req'[r].slot = req[r].slot
                             /\ req'[r].pc \in {"reserve", "mint"} => req'[r].pc = req[r].pc
  PROVE  SlotInv'
<1>1. HoldRows' BY DEF SlotInv, HoldRows, rows
<1>2. RequestRows' BY DEF SlotInv, RequestRows, Acquired, rows
<1>3. ReportRows' BY DEF SlotInv, ReportRows, rows
<1>4. SessionPaidFor' BY DEF SlotInv, SessionPaidFor, rows
<1> QED BY <1>1, <1>2, <1>3, <1>4, RowsSame DEF SlotInv

\* vaHold writes a row and a reservation that did not exist.
LEMMA StartHoldsKeeps ==
  ASSUME TypeOK, SlotInv, NEW s \in Starts, StartHolds(s)
  PROVE  SlotInv'
<1> USE SlotsAssumption
<1>1. s \in Slots /\ status[s] = "none" /\ ledgerOf[s] = None /\ ledger[s] = "none"
      /\ \A q \in Slots : ledgerOf[q] # s
  BY DEF StartHolds, SlotInv, HoldRows, Unwritten, Slots
<1>2. /\ status' = [status EXCEPT ![s] = "held"] /\ ledger' = [ledger EXCEPT ![s] = "reserved"]
      /\ ledgerOf' = [ledgerOf EXCEPT ![s] = s] /\ sess' = sess /\ req' = req /\ rep' = rep
  BY DEF StartHolds
<1>3. \A q \in Slots : q # s => /\ status'[q] = status[q] /\ ledger'[q] = ledger[q]
                                /\ ledgerOf'[q] = ledgerOf[q]
  BY <1>2 DEF TypeOK
<1>4. status'[s] = "held" /\ ledger'[s] = "reserved" /\ ledgerOf'[s] = s
  BY <1>1, <1>2 DEF TypeOK
<1>5. \A q \in Takeovers \X Attempts : q # s /\ q \in Slots BY DEF Slots
<1>6. Unwritten' BY <1>3, <1>4 DEF SlotInv, Unwritten
<1>7. OneOwner' BY <1>1, <1>3, <1>4, <1>5 DEF SlotInv, OneOwner, Slots
<1>8. HoldRows'
  <2>1. \A q \in Starts : run'[q].pc \in {"idle", "release", "hold"} =>
          q # s /\ run[q].pc \in {"idle", "release", "hold"}
    BY DEF StartHolds, TypeOK, RunState
  <2>2. \A q \in Starts : q \in Slots BY DEF Slots
  <2> QED BY <1>3, <1>4, <1>5, <2>1, <2>2 DEF SlotInv, HoldRows
<1>9. RequestRows'
  BY <1>2, <1>3, <1>5 DEF SlotInv, RequestRows, Acquired
<1>10. ReportRows' BY <1>2, <1>3, <1>5 DEF SlotInv, ReportRows
<1>11. SessionPaidFor' BY <1>2, <1>3, <1>5 DEF SlotInv, SessionPaidFor
<1>12. ActiveBacked'
  <2> SUFFICES ASSUME NEW q \in Slots, status'[q] \in Live, ledgerOf'[q] # None
               PROVE  ledger'[ledgerOf'[q]] = "reserved"
    BY DEF ActiveBacked, Active
  <2>1. CASE q = s BY <2>1, <1>4
  <2>2. CASE q # s
    <3>1. ledger[ledgerOf[q]] = "reserved" /\ ledgerOf[q] \in Slots /\ ledgerOf[q] # s
      BY <2>2, <1>1, <1>3 DEF SlotInv, ActiveBacked, Active, TypeOK
    <3> QED BY <3>1, <2>2, <1>3
  <2> QED BY <2>1, <2>2
<1>13. Booked' BY <1>1, <1>3, <1>4 DEF SlotInv, Booked, TypeOK
<1> QED BY <1>6, <1>7, <1>8, <1>9, <1>10, <1>11, <1>12, <1>13 DEF SlotInv

\* Spending a hold moves its reservation to a row that did not exist.
LEMMA AcquireFromHoldKeeps ==
  ASSUME TypeOK, SlotInv, NEW r \in Requests, AcquireFromHold(r)
  PROVE  SlotInv'
<1> USE SlotsAssumption
<1> DEFINE s == req[r].slot
           h == req[r].hold
<1>1. /\ s \in Takeovers \X Attempts /\ status[s] = "none" /\ ledgerOf[s] = None
      /\ h \in Starts /\ status[h] = "held" /\ ledgerOf[h] = h /\ s # h
      /\ s \in Slots /\ h \in Slots
  BY DEF AcquireFromHold, Held, SlotInv, RequestRows, Unwritten, HoldRows, Slots
<1>2. /\ status' = [status EXCEPT ![h] = "released", ![s] = "open"]
      /\ ledgerOf' = [ledgerOf EXCEPT ![h] = None, ![s] = ledgerOf[h]]
      /\ ledger' = ledger /\ sess' = sess /\ rep' = rep /\ run' = run
  BY DEF AcquireFromHold
<1>3. \A q \in Slots : q # s /\ q # h => status'[q] = status[q] /\ ledgerOf'[q] = ledgerOf[q]
  BY <1>2 DEF TypeOK
<1>4. status'[s] = "open" /\ ledgerOf'[s] = h /\ status'[h] = "released" /\ ledgerOf'[h] = None
  BY <1>1, <1>2 DEF TypeOK
<1>5. \A q \in Takeovers \X Attempts : q # h /\ q \in Slots BY <1>1 DEF Slots
<1>6. \A q \in Slots : ledgerOf[q] = h => q = h BY <1>1 DEF SlotInv, OneOwner
<1>7. Unwritten' BY <1>2, <1>3, <1>4 DEF SlotInv, Unwritten
<1>8. OneOwner' BY <1>1, <1>3, <1>4, <1>5, <1>6 DEF SlotInv, OneOwner, Slots
<1>9. HoldRows'
  <2>1. \A q \in Starts : q # s /\ q \in Slots BY <1>1 DEF Slots
  <2>2. run[h].pc \notin {"idle", "release", "hold"} BY <1>1 DEF SlotInv, HoldRows
  <2>3. \A q \in Starts : status'[q] = "held" => ledgerOf'[q] = q
    BY <1>3, <1>4, <2>1 DEF SlotInv, HoldRows
  <2>4. \A q \in Takeovers \X Attempts : status'[q] # "held"
    BY <1>3, <1>4, <1>5 DEF SlotInv, HoldRows
  <2>5. ASSUME NEW q \in Starts, run'[q].pc \in {"idle", "release", "hold"}
        PROVE  status'[q] = "none" /\ \A x \in Slots : ledgerOf'[x] # q
    <3>1. q # h /\ status[q] = "none" /\ \A x \in Slots : ledgerOf[x] # q
      BY <1>2, <2>2, <2>5 DEF SlotInv, HoldRows
    <3>2. q # None BY <2>1
    <3> QED BY <1>3, <1>4, <2>1, <3>1, <3>2
  <2> QED BY <2>3, <2>4, <2>5 DEF HoldRows
<1>10. RequestRows'
  <2>1. \A q \in Requests : q # r => req'[q] = req[q] BY DEF AcquireFromHold, TypeOK
  <2>2. req'[r].pc = "mint" /\ req'[r].slot = s BY DEF AcquireFromHold, TypeOK, ReqState
  <2>3. \A q \in Requests : Acquired(q) => req[q].slot # s
    BY <1>1 DEF SlotInv, RequestRows
  <2>4. \A q \in Requests : req[q].pc # "idle" => req[q].slot \in Takeovers \X Attempts
    BY DEF SlotInv, RequestRows
  <2>5. \A q \in Requests : req'[q].pc # "idle" => req'[q].slot \in Takeovers \X Attempts
    BY <1>1, <2>1, <2>2, <2>4
  <2>6. \A q \in Requests : q # r /\ Acquired(q) =>
          /\ req[q].slot \in Slots /\ req[q].slot # s /\ req[q].slot # h
          /\ req'[q] = req[q]
    BY <1>5, <2>1, <2>3, <2>4 DEF Acquired
  <2>7. \A q \in Requests : q # r /\ Acquired(q)' => Acquired(q) BY <2>1 DEF Acquired
  <2>8. \A q \in Requests : Acquired(q)' => status'[req'[q].slot] # "none"
    BY <1>3, <1>4, <2>2, <2>6, <2>7 DEF SlotInv, RequestRows
  <2>9. \A q \in Requests : req'[q].pc = "reserve" =>
          ledgerOf'[req'[q].slot] = None /\ ledger'[req'[q].slot] = "none"
    <3> SUFFICES ASSUME NEW q \in Requests, req'[q].pc = "reserve"
                 PROVE  ledgerOf'[req'[q].slot] = None /\ ledger'[req'[q].slot] = "none"
      OBVIOUS
    <3>1. q # r /\ Acquired(q) /\ req[q].pc = "reserve" BY <2>1, <2>2 DEF Acquired
    <3>2. ledgerOf[req[q].slot] = None /\ ledger[req[q].slot] = "none"
      BY <3>1 DEF SlotInv, RequestRows
    <3> QED BY <1>2, <1>3, <2>6, <3>1, <3>2
  <2>10. \A q \in Requests : req'[q].pc = "mint" => ledgerOf'[req'[q].slot] # None
    BY <1>1, <1>3, <1>4, <2>1, <2>2, <2>6 DEF SlotInv, RequestRows, Acquired
  <2>11. \A p, q \in Requests :
          Acquired(p)' /\ Acquired(q)' /\ req'[p].slot = req'[q].slot => p = q
    <3> SUFFICES ASSUME NEW p \in Requests, NEW q \in Requests, Acquired(p)', Acquired(q)',
                        req'[p].slot = req'[q].slot
                 PROVE  p = q
      OBVIOUS
    <3>1. CASE p # r /\ q # r
      BY <2>6, <2>7, <3>1 DEF SlotInv, RequestRows
    <3>2. CASE p = r \/ q = r
      BY <2>2, <2>6, <2>7, <3>2
    <3> QED BY <3>1, <3>2
  <2> QED BY <2>5, <2>8, <2>9, <2>10, <2>11 DEF RequestRows
<1>11. ReportRows'
  <2>1. \A p \in Reports : rep[p].pc # "idle" => ledgerOf[rep[p].slot] # None
    BY DEF SlotInv, ReportRows, SessionPaidFor
  <2> QED BY <1>1, <1>2, <1>3, <1>5, <2>1 DEF SlotInv, ReportRows
<1>12. SessionPaidFor' BY <1>1, <1>2, <1>3, <1>4, <1>5 DEF SlotInv, SessionPaidFor
<1>13. ActiveBacked'
  <2>1. ledger[h] = "reserved"
    BY <1>1 DEF SlotInv, ActiveBacked, Active, Live
  <2> SUFFICES ASSUME NEW q \in Slots, status'[q] \in Live, ledgerOf'[q] # None
               PROVE  ledger'[ledgerOf'[q]] = "reserved"
    BY DEF ActiveBacked, Active
  <2>2. CASE q = s BY <1>2, <1>4, <2>1, <2>2
  <2>3. CASE q = h BY <1>4, <2>3
  <2>4. CASE q # s /\ q # h
    BY <1>2, <1>3, <2>4 DEF SlotInv, ActiveBacked, Active
  <2> QED BY <2>2, <2>3, <2>4
<1>14. Booked'
  <2>1. ledger[h] # "none" BY <1>1 DEF SlotInv, Booked
  <2>2. \A q \in Slots : ledgerOf[q] # None => ledger[ledgerOf[q]] # "none"
    BY DEF SlotInv, Booked
  <2> QED BY <1>1, <1>2, <1>3, <1>4, <2>1, <2>2 DEF Booked
<1> QED BY <1>7, <1>8, <1>9, <1>10, <1>11, <1>12, <1>13, <1>14 DEF SlotInv

\* Taking a free slot writes a row without a reservation.
LEMMA AcquireFreeKeeps ==
  ASSUME TypeOK, SlotInv, NEW r \in Requests, AcquireFree(r)
  PROVE  SlotInv'
<1> USE SlotsAssumption
<1> DEFINE s == req[r].slot
<1>1. /\ s \in Takeovers \X Attempts /\ s \in Slots /\ status[s] = "none"
      /\ ledgerOf[s] = None /\ ledger[s] = "none"
  BY DEF AcquireFree, SlotInv, RequestRows, Unwritten, Slots
<1>2. /\ status' = [status EXCEPT ![s] = "open"] /\ ledgerOf' = ledgerOf
      /\ ledger' = ledger /\ sess' = sess /\ rep' = rep /\ run' = run
  BY DEF AcquireFree
<1>3. \A q \in Slots : q # s => status'[q] = status[q]
  BY <1>2 DEF TypeOK
<1>4. status'[s] = "open" BY <1>1, <1>2 DEF TypeOK
<1>5. \A q \in Starts : q # s /\ q \in Slots BY <1>1 DEF Slots
<1>6. \A q \in Takeovers \X Attempts : q \in Slots BY DEF Slots
<1>7. Unwritten' BY <1>2, <1>3, <1>4 DEF SlotInv, Unwritten
<1>8. OneOwner' /\ SessionPaidFor' BY <1>2 DEF SlotInv, OneOwner, SessionPaidFor
<1>9. HoldRows' BY <1>2, <1>3, <1>4, <1>5, <1>6 DEF SlotInv, HoldRows
<1>10. RequestRows'
  <2>1. \A q \in Requests : q # r => req'[q] = req[q] BY DEF AcquireFree, TypeOK
  <2>2. req'[r].pc = "reserve" /\ req'[r].slot = s BY DEF AcquireFree, TypeOK, ReqState
  <2>3. \A q \in Requests : Acquired(q) => req[q].slot # s /\ req[q].slot \in Slots
    BY <1>1, <1>6 DEF SlotInv, RequestRows, Acquired
  <2>4. \A q \in Requests : q # r /\ Acquired(q)' => Acquired(q) BY <2>1 DEF Acquired
  <2>5. \A q \in Requests : req'[q].pc # "idle" => req'[q].slot \in Takeovers \X Attempts
    BY <1>1, <2>1, <2>2 DEF SlotInv, RequestRows
  <2>6. \A q \in Requests : Acquired(q)' => status'[req'[q].slot] # "none"
    BY <1>3, <1>4, <2>1, <2>2, <2>3, <2>4 DEF SlotInv, RequestRows
  <2>7. \A q \in Requests : req'[q].pc = "reserve" =>
          ledgerOf'[req'[q].slot] = None /\ ledger'[req'[q].slot] = "none"
    BY <1>1, <1>2, <2>1, <2>2 DEF SlotInv, RequestRows
  <2>8. \A q \in Requests : req'[q].pc = "mint" => ledgerOf'[req'[q].slot] # None
    BY <1>2, <2>1, <2>2 DEF SlotInv, RequestRows
  <2>9. ASSUME NEW p \in Requests, NEW q \in Requests, Acquired(p)', Acquired(q)',
               req'[p].slot = req'[q].slot
        PROVE  p = q
    <3>1. CASE p # r /\ q # r
      BY <2>1, <2>4, <2>9, <3>1 DEF SlotInv, RequestRows
    <3>2. CASE p = r \/ q = r
      BY <2>1, <2>2, <2>3, <2>4, <2>9, <3>2
    <3> QED BY <3>1, <3>2
  <2> QED BY <2>5, <2>6, <2>7, <2>8, <2>9 DEF RequestRows
<1>11. ReportRows' BY <1>2 DEF SlotInv, ReportRows
<1>12. ActiveBacked' BY <1>1, <1>2, <1>3 DEF SlotInv, ActiveBacked, Active
<1>13. Booked' BY <1>2 DEF SlotInv, Booked
<1> QED BY <1>7, <1>8, <1>9, <1>10, <1>11, <1>12, <1>13 DEF SlotInv

\* The reservation of a row acquired without one is new, and its own.
LEMMA ReserveKeeps ==
  ASSUME TypeOK, SlotInv, NEW r \in Requests, Reserve(r)
  PROVE  SlotInv'
<1> USE SlotsAssumption
<1> DEFINE s == req[r].slot
<1>1. /\ s \in Takeovers \X Attempts /\ s \in Slots /\ status[s] # "none"
      /\ ledgerOf[s] = None /\ ledger[s] = "none" /\ s # None
  BY DEF Reserve, SlotInv, RequestRows, Slots, Acquired
<1>2. /\ status' = status /\ ledger' = [ledger EXCEPT ![s] = "reserved"]
      /\ sess' = sess /\ rep' = rep /\ run' = run
  BY DEF Reserve
<1>3. \A q \in Slots : q # s => ledger'[q] = ledger[q] /\ ledgerOf'[q] = ledgerOf[q]
  BY <1>1, <1>2 DEF Reserve, TypeOK
<1>4. ledger'[s] = "reserved" /\ ledgerOf'[s] = s BY <1>1 DEF Reserve, TypeOK
<1>5. \A q \in Starts : q # s /\ q \in Slots BY <1>1 DEF Slots
<1>6. \A q \in Takeovers \X Attempts : q \in Slots BY DEF Slots
<1>7. \A q \in Slots : ledgerOf[q] # s
  BY <1>1, <1>5 DEF SlotInv, OneOwner, Slots
<1>8. Unwritten' BY <1>1, <1>2, <1>3 DEF SlotInv, Unwritten
<1>9. OneOwner' BY <1>1, <1>3, <1>4, <1>5, <1>6, <1>7 DEF SlotInv, OneOwner
<1>10. HoldRows' BY <1>1, <1>2, <1>3, <1>4, <1>5, <1>6 DEF SlotInv, HoldRows
<1>11. RequestRows'
  <2>1. \A q \in Requests : q # r => req'[q] = req[q] BY DEF Reserve, TypeOK
  <2>2. req'[r].pc = "mint" /\ req'[r].slot = s /\ Acquired(r)
    BY DEF Reserve, TypeOK, ReqState, Acquired
  <2>3. \A q \in Requests : q # r /\ Acquired(q) => req[q].slot # s /\ req[q].slot \in Slots
    BY <1>6, <2>2 DEF SlotInv, RequestRows, Acquired
  <2>4. \A q \in Requests : Acquired(q)' => Acquired(q) /\ req'[q].slot = req[q].slot
    BY <2>1, <2>2 DEF Acquired
  <2>5. \A q \in Requests : req'[q].pc # "idle" => req'[q].slot \in Takeovers \X Attempts
    BY <1>1, <2>1, <2>2 DEF SlotInv, RequestRows
  <2>6. \A q \in Requests : Acquired(q)' => status'[req'[q].slot] # "none"
    BY <1>2, <2>4 DEF SlotInv, RequestRows
  <2>7. \A q \in Requests : req'[q].pc = "reserve" =>
          ledgerOf'[req'[q].slot] = None /\ ledger'[req'[q].slot] = "none"
    BY <1>3, <2>1, <2>2, <2>3 DEF SlotInv, RequestRows, Acquired
  <2>8. \A q \in Requests : req'[q].pc = "mint" => ledgerOf'[req'[q].slot] # None
    BY <1>1, <1>3, <1>4, <2>1, <2>2, <2>3 DEF SlotInv, RequestRows, Acquired
  <2>9. \A p, q \in Requests :
          Acquired(p)' /\ Acquired(q)' /\ req'[p].slot = req'[q].slot => p = q
    BY <2>4 DEF SlotInv, RequestRows
  <2> QED BY <2>5, <2>6, <2>7, <2>8, <2>9 DEF RequestRows
<1>12. ReportRows'
  <2>1. \A p \in Reports : rep[p].pc # "idle" =>
          ledgerOf[rep[p].slot] # None /\ rep[p].slot \in Slots
    BY <1>6 DEF SlotInv, ReportRows, SessionPaidFor
  <2> QED BY <1>1, <1>2, <1>3, <2>1 DEF SlotInv, ReportRows
<1>13. SessionPaidFor' BY <1>1, <1>2, <1>3, <1>4, <1>6 DEF SlotInv, SessionPaidFor
<1>14. ActiveBacked'
  <2> SUFFICES ASSUME NEW q \in Slots, status'[q] \in Live, ledgerOf'[q] # None
               PROVE  ledger'[ledgerOf'[q]] = "reserved"
    BY DEF ActiveBacked, Active
  <2>1. CASE q = s BY <1>4, <2>1
  <2>2. CASE q # s
    BY <1>2, <1>3, <1>7, <2>2 DEF SlotInv, ActiveBacked, Active, TypeOK
  <2> QED BY <2>1, <2>2
<1>15. Booked' BY <1>1, <1>3, <1>4 DEF SlotInv, Booked, TypeOK
<1> QED BY <1>8, <1>9, <1>10, <1>11, <1>12, <1>13, <1>14, <1>15 DEF SlotInv

\* A late "closed" report ends its row and books or gives back the reservation
\* the row still names, which no other row does.
LEMMA ReportClosedKeeps ==
  ASSUME TypeOK, SlotInv, NEW p \in Reports, ReportClosed(p)
  PROVE  SlotInv'
<1> USE SlotsAssumption
<1> DEFINE s == rep[p].slot
           l == rep[p].ledgerOf
<1>1. /\ s \in Takeovers \X Attempts /\ s \in Slots /\ rep[p].status # "none"
      /\ sess[s] # "none" /\ l = ledgerOf[s] /\ l # None /\ l \in Slots /\ ledger[l] # "none"
  BY DEF ReportClosed, SlotInv, ReportRows, SessionPaidFor, Booked, TypeOK, Slots
<1>2. ledgerOf' = ledgerOf /\ sess' = sess /\ req' = req /\ run' = run
  BY DEF ReportClosed
<1>3. \A q \in Slots : q # s => status'[q] = status[q] BY DEF ReportClosed, TypeOK
<1>4. status'[s] # "none" /\ status'[s] \notin Live
  BY <1>1 DEF ReportClosed, TypeOK, RepState, Live
<1>5. \A q \in Slots : q # l => ledger'[q] = ledger[q]
  BY <1>1 DEF ReportClosed, SetLedger, CloseLedger, TypeOK
<1>6. ledger'[l] # "none"
  BY <1>1 DEF ReportClosed, SetLedger, CloseLedger, TypeOK
<1>7. \A q \in Slots : ledgerOf[q] = l => q = s BY <1>1 DEF SlotInv, OneOwner
<1>8. \A q \in Starts : q \in Slots /\ q # s BY <1>1 DEF Slots
<1>9. \A q \in Takeovers \X Attempts : q \in Slots BY DEF Slots
<1>10. Unwritten'
  BY <1>1, <1>2, <1>3, <1>4, <1>5 DEF SlotInv, Unwritten
<1>11. Booked' BY <1>1, <1>2, <1>5, <1>6 DEF SlotInv, Booked, TypeOK
<1>12. OneOwner' /\ SessionPaidFor' BY <1>2 DEF SlotInv, OneOwner, SessionPaidFor
<1>13. HoldRows' BY <1>2, <1>3, <1>4, <1>8, <1>9 DEF SlotInv, HoldRows, Live
<1>14. RequestRows'
  <2>1. \A r \in Requests : req[r].pc # "idle" => req[r].slot \in Slots
    BY <1>9 DEF SlotInv, RequestRows
  <2>2. \A r \in Requests : Acquired(r) => status'[req[r].slot] # "none"
    BY <1>3, <1>4, <2>1 DEF SlotInv, RequestRows, Acquired
  <2>3. \A r \in Requests : req[r].pc = "reserve" => ledger'[req[r].slot] = "none"
    BY <1>1, <1>5, <2>1 DEF SlotInv, RequestRows
  <2> QED BY <1>2, <2>2, <2>3 DEF SlotInv, RequestRows, Acquired
<1>15. ReportRows'
  <2>1. \A q \in Reports : rep'[q].pc # "idle" =>
          /\ rep[q].pc # "idle" /\ rep'[q].slot = rep[q].slot
          /\ rep'[q].status = rep[q].status /\ rep'[q].ledgerOf = rep[q].ledgerOf
    BY DEF ReportClosed, TypeOK, RepState
  <2> QED BY <1>2, <2>1 DEF SlotInv, ReportRows
<1>16. ActiveBacked'
  <2> SUFFICES ASSUME NEW q \in Slots, status'[q] \in Live, ledgerOf[q] # None
               PROVE  ledger'[ledgerOf[q]] = "reserved"
    BY <1>2 DEF ActiveBacked, Active
  <2>1. q # s /\ status[q] \in Live BY <1>3, <1>4
  <2>2. ledger[ledgerOf[q]] = "reserved" /\ ledgerOf[q] \in Slots /\ ledgerOf[q] # l
    BY <1>7, <2>1 DEF SlotInv, ActiveBacked, Active, TypeOK
  <2> QED BY <1>5, <2>2
<1> QED BY <1>10, <1>11, <1>12, <1>13, <1>14, <1>15, <1>16 DEF SlotInv

\* A sweep ends active rows and books or gives back what they, or no row, own.
LEMMA SweepsKeeps ==
  ASSUME TypeOK, SlotInv, Sweeps
  PROVE  SlotInv'
<1> USE SlotsAssumption
<1>1. PICK stale \in SUBSET WithStatus("open"), expired \in SUBSET WithStatus("held"),
           old \in SUBSET {l \in Slots : ledger[l] = "reserved"} : Sweep(stale, expired, old)
  BY DEF Sweeps
<1>2. /\ ledgerOf' = ledgerOf /\ sess' = sess /\ req' = req /\ run' = run /\ rep' = rep
  BY <1>1 DEF Sweep, SweepWrites
<1>3. \A q \in Slots : /\ q \notin stale /\ q \notin expired => status'[q] = status[q]
                       /\ q \in stale => status'[q] = "stale" /\ status[q] = "open"
                       /\ q \in expired /\ q \notin stale =>
                            status'[q] = "released" /\ status[q] = "held"
  BY <1>1 DEF Sweep, SweepWrites
<1>4. \A l \in Slots : /\ ledger[l] # "reserved" => ledger'[l] = ledger[l]
                       /\ l \notin Owned(stale) /\ l \notin Owned(expired) /\ l \notin old
                            => ledger'[l] = ledger[l]
                       /\ ledger'[l] = "none" => ledger[l] = "none"
  <2> SUFFICES ASSUME NEW l \in Slots
               PROVE  /\ ledger[l] # "reserved" => ledger'[l] = ledger[l]
                      /\ l \notin Owned(stale) /\ l \notin Owned(expired) /\ l \notin old
                           => ledger'[l] = ledger[l]
                      /\ ledger'[l] = "none" => ledger[l] = "none"
    OBVIOUS
  <2>1. ledger'[l] = IF ledger[l] # "reserved" THEN ledger[l]
                  ELSE IF l \in Owned(stale) \cup old THEN "settled"
                  ELSE IF l \in Owned(expired) THEN "released" ELSE ledger[l]
    BY <1>1 DEF Sweep, SweepWrites
  <2> QED BY <2>1
<1>5. \A q \in Slots : (status'[q] = "none") = (status[q] = "none")
  BY <1>3
<1>6. \A q \in Takeovers \X Attempts : q \in Slots BY DEF Slots
<1>7. \A q \in Starts : q \in Slots BY DEF Slots
<1>8. Unwritten' BY <1>2, <1>4, <1>5 DEF SlotInv, Unwritten
<1>9. Booked' BY <1>2, <1>4 DEF SlotInv, Booked, TypeOK
<1>10. OneOwner' /\ SessionPaidFor' BY <1>2 DEF SlotInv, OneOwner, SessionPaidFor
<1>11. HoldRows'
  <2>1. \A q \in Slots : status'[q] = "held" => status[q] = "held" BY <1>3
  <2> QED BY <1>2, <1>5, <1>6, <1>7, <2>1 DEF SlotInv, HoldRows
<1>12. RequestRows'
  <2>1. \A r \in Requests : req[r].pc # "idle" => req[r].slot \in Slots
    BY <1>6 DEF SlotInv, RequestRows
  <2>2. \A r \in Requests : Acquired(r) => status'[req[r].slot] # "none"
    BY <1>5, <2>1 DEF SlotInv, RequestRows, Acquired
  <2>3. \A r \in Requests : req[r].pc = "reserve" => ledger'[req[r].slot] = "none"
    BY <1>4, <2>1 DEF SlotInv, RequestRows
  <2> QED BY <1>2, <2>2, <2>3 DEF SlotInv, RequestRows, Acquired
<1>13. ReportRows' BY <1>2 DEF SlotInv, ReportRows
<1>14. ActiveBacked'
  <2> SUFFICES ASSUME NEW q \in Slots, status'[q] \in Live, ledgerOf[q] # None
               PROVE  ledger'[ledgerOf[q]] = "reserved"
    BY <1>2 DEF ActiveBacked, Active
  <2>1. q \notin stale /\ q \notin expired /\ status[q] \in Live BY <1>3 DEF Live
  <2>2. ledger[ledgerOf[q]] = "reserved" /\ ledgerOf[q] \in Slots
    BY <2>1 DEF SlotInv, ActiveBacked, Active, TypeOK
  <2>3. ledgerOf[q] \notin Owned(stale) /\ ledgerOf[q] \notin Owned(expired)
    <3>1. \A x \in stale \cup expired : x \in Slots BY DEF WithStatus
    <3> QED BY <2>1, <3>1 DEF Owned, SlotInv, OneOwner
  <2>4. ledgerOf[q] \notin old
    <3>1. q \in Active BY <2>1 DEF Active
    <3>2. ledgerOf[q] \in Owned(Active) BY <2>2, <3>1 DEF Owned
    <3> QED BY <1>1, <3>2 DEF Sweep
  <2> QED BY <1>4, <2>2, <2>3, <2>4
<1> QED BY <1>8, <1>9, <1>10, <1>11, <1>12, <1>13, <1>14 DEF SlotInv

-----------------------------------------------------------------------------
\* SlotInv holds at the start and every step keeps it.
LEMMA SlotInvInit == Init => SlotInv
BY SlotsAssumption DEF Init, SlotInv, Unwritten, Booked, OneOwner, HoldRows, RequestRows,
   ReportRows, SessionPaidFor, ActiveBacked, Active, Live, Acquired, Slots

\* Every step of every handler, and every sweep, keeps SlotInv.
LEMMA SlotInvStep == TypeOK /\ SlotInv /\ [Next]_vars => SlotInv'
<1> USE SlotsAssumption
<1> SUFFICES ASSUME TypeOK, SlotInv, [Next]_vars PROVE SlotInv'
  OBVIOUS
<1>1. ASSUME NEW s \in Starts, StartReads(s) PROVE SlotInv'
  BY <1>1, FrameKeeps DEF StartReads, TypeOK, RunState, SlotInv, RequestRows, Acquired
<1>2. ASSUME NEW s \in Starts, StartReleases(s) PROVE SlotInv'
  BY <1>2, ReleaseKeeps DEF StartReleases, TypeOK, RunState
<1>3. ASSUME NEW s \in Starts, StartHolds(s) PROVE SlotInv'
  BY <1>3, StartHoldsKeeps
<1>4. ASSUME NEW s \in Starts, StartRefused(s) PROVE SlotInv'
  BY <1>4, FrameKeeps DEF StartRefused, TypeOK, RunState, SlotInv, RequestRows, Acquired
<1>5. ASSUME NEW s \in Starts, StartSaves(s) PROVE SlotInv'
  BY <1>5, FrameKeeps DEF StartSaves, TypeOK, RunState, SlotInv, RequestRows, Acquired
<1>6. ASSUME NEW c \in Cases, RunReleases(c) PROVE SlotInv'
  BY <1>6, ReleaseKeeps DEF RunReleases
<1>7. ASSUME NEW t \in Takeovers, Arm(t) \/ FailureReported(t) \/ End(t) PROVE SlotInv'
  BY <1>7, FrameKeeps DEF Arm, FailureReported, End, SlotInv, RequestRows, Acquired
<1>8. ASSUME NEW t \in Takeovers, EndReleases(t) PROVE SlotInv'
  <2>1. CASE Release(<<t, tko[t].retries>>)
    BY <1>8, <2>1, ReleaseKeeps DEF EndReleases
  <2>2. CASE UNCHANGED rows
    BY <1>8, <2>2, FrameKeeps DEF EndReleases, SlotInv, RequestRows, Acquired
  <2> QED BY <1>8, <2>1, <2>2 DEF EndReleases
<1>9. ASSUME NEW r \in Requests, NEW t \in Takeovers, NEW a \in Attempts, Decide(r, t, a)
      PROVE SlotInv'
  <2>1. \A q \in Requests : q # r => req'[q] = req[q] BY <1>9 DEF Decide, TypeOK
  <2>2. req'[r].slot \in Takeovers \X Attempts /\ req'[r].pc \in {"release0", "acquire"}
    BY <1>9 DEF Decide, TypeOK
  <2> QED BY <1>9, <2>1, <2>2, FrameKeeps DEF Decide, SlotInv, RequestRows, Acquired
<1>10. ASSUME NEW r \in Requests, ReleaseFirst(r) PROVE SlotInv'
  BY <1>10, ReleaseKeeps DEF ReleaseFirst, TypeOK, ReqState
<1>11. ASSUME NEW r \in Requests, AcquireFromHold(r) PROVE SlotInv'
  BY <1>11, AcquireFromHoldKeeps
<1>12. ASSUME NEW r \in Requests, AcquireFree(r) PROVE SlotInv'
  BY <1>12, AcquireFreeKeeps
<1>13. ASSUME NEW r \in Requests,
              AcquireDenied(r) \/ ReserveRefused(r) \/ MintFails(r) \/ Dies(r)
       PROVE SlotInv'
  <2>1. UNCHANGED rows /\ sess' = sess /\ rep' = rep /\ run' = run
    BY <1>13 DEF AcquireDenied, ReserveRefused, MintFails, Dies, rows
  <2>2. \A q \in Requests : q # r => req'[q] = req[q]
    BY <1>13 DEF AcquireDenied, ReserveRefused, MintFails, Dies, TypeOK
  <2>3. /\ req[r].pc # "idle" /\ req'[r].slot = req[r].slot
        /\ req'[r].pc \in {"denied", "undo", "dead"}
        /\ req'[r].pc = "undo" => Acquired(r)
    BY <1>13 DEF AcquireDenied, ReserveRefused, MintFails, Dies, TypeOK, ReqState, Acquired
  <2> QED BY <2>1, <2>2, <2>3, FrameKeeps DEF SlotInv, RequestRows, Acquired
<1>14. ASSUME NEW r \in Requests, Reserve(r) PROVE SlotInv'
  BY <1>14, ReserveKeeps
<1>15. ASSUME NEW r \in Requests, Mint(r) PROVE SlotInv'
  <2>1. HoldRows' BY <1>15 DEF Mint, SlotInv, HoldRows, rows
  <2>2. RequestRows'
    BY <1>15 DEF Mint, SlotInv, RequestRows, Acquired, TypeOK, ReqState, rows
  <2>3. ReportRows' BY <1>15 DEF Mint, SlotInv, ReportRows, TypeOK, rows
  <2>4. SessionPaidFor' BY <1>15 DEF Mint, SlotInv, SessionPaidFor, RequestRows, TypeOK, rows
  <2> QED BY <1>15, <2>1, <2>2, <2>3, <2>4, RowsSame DEF Mint, SlotInv
<1>16. ASSUME NEW r \in Requests, Undo(r) PROVE SlotInv'
  BY <1>16, ReleaseKeeps DEF Undo, TypeOK, ReqState
<1>17. ASSUME NEW s \in Takeovers \X Attempts, BrowserCloses(s) PROVE SlotInv'
  <2>1. HoldRows' /\ RequestRows'
    BY <1>17 DEF BrowserCloses, SlotInv, HoldRows, RequestRows, Acquired, rows
  <2>2. ReportRows' /\ SessionPaidFor'
    BY <1>17 DEF BrowserCloses, SlotInv, ReportRows, SessionPaidFor, TypeOK, rows
  <2> QED BY <1>17, <2>1, <2>2, RowsSame DEF BrowserCloses, SlotInv
<1>18. ASSUME NEW p \in Reports, NEW s \in Takeovers \X Attempts,
              NEW e \in {"opened", "closed"}, ReportReads(p, s, e)
       PROVE SlotInv'
  <2>1. HoldRows' /\ RequestRows' /\ SessionPaidFor'
    BY <1>18 DEF ReportReads, SlotInv, HoldRows, RequestRows, Acquired, SessionPaidFor, rows
  <2>2. s \in Slots /\ sess[s] # "none" /\ status[s] # "none"
    BY <1>18 DEF ReportReads, SlotInv, SessionPaidFor, Unwritten, Slots
  <2>3. ReportRows'
    BY <1>18, <2>2 DEF ReportReads, SlotInv, ReportRows, TypeOK, rows
  <2> QED BY <1>18, <2>1, <2>3, RowsSame DEF ReportReads, SlotInv
<1>19. ASSUME NEW p \in Reports, ReportOpened(p) PROVE SlotInv'
  <2>1. Unwritten' /\ Booked' /\ OneOwner' /\ ActiveBacked' /\ SessionPaidFor'
    BY <1>19 DEF ReportOpened, SlotInv, Unwritten, Booked, OneOwner, ActiveBacked, Active, SessionPaidFor
  <2>2. HoldRows' /\ RequestRows'
    BY <1>19 DEF ReportOpened, SlotInv, HoldRows, RequestRows, Acquired
  <2>3. ReportRows'
    BY <1>19 DEF ReportOpened, SlotInv, ReportRows, TypeOK, RepState
  <2> QED BY <2>1, <2>2, <2>3 DEF SlotInv
<1>20. ASSUME NEW p \in Reports, ReportClosed(p) PROVE SlotInv'
  BY <1>20, ReportClosedKeeps
<1>21. ASSUME Sweeps PROVE SlotInv'
  BY <1>21, SweepsKeeps
<1>22. CASE UNCHANGED vars
  <2>1. UNCHANGED rows /\ sess' = sess /\ rep' = rep /\ run' = run /\ req' = req
    BY <1>22 DEF vars, rows
  <2> QED BY <2>1, FrameKeeps DEF SlotInv, RequestRows, Acquired
<1> QED
  BY <1>1, <1>2, <1>3, <1>4, <1>5, <1>6, <1>7, <1>8, <1>9, <1>10, <1>11, <1>12, <1>13,
     <1>14, <1>15, <1>16, <1>17, <1>18, <1>19, <1>20, <1>21, <1>22
  DEF Next, RunNext, TakeoverNext, TokenNext, BrowserNext

\* TypeOK and SlotInv are invariants together ...
LEMMA Invariants == Spec => [](TypeOK /\ SlotInv)
<1>1. Init => TypeOK /\ SlotInv BY TypeInit, SlotInvInit
<1>2. TypeOK /\ SlotInv /\ [Next]_vars => (TypeOK /\ SlotInv)' BY TypeStep, SlotInvStep
<1> QED BY <1>1, <1>2, PTL DEF Spec

\* ... and give the reservation properties for any number of calls and requests:
\* an active row's reservation is never given back or booked under it,
THEOREM ActiveBackedAlways == Spec => []ActiveBacked
<1>1. SlotInv => ActiveBacked BY DEF SlotInv
<1> QED BY <1>1, Invariants, PTL

\* two active rows never share one,
THEOREM ReservationExclusiveAlways == Spec => []ReservationExclusive
<1>1. SlotInv => ReservationExclusive
  BY DEF SlotInv, OneOwner, ReservationExclusive, Active
<1> QED BY <1>1, Invariants, PTL

\* no session runs without one,
THEOREM SessionPaidForAlways == Spec => []SessionPaidFor
<1>1. SlotInv => SessionPaidFor BY DEF SlotInv
<1> QED BY <1>1, Invariants, PTL

\* and one attempt of a takeover is minted at most once.
THEOREM OneRetryAlways == Spec => []OneRetry
<1>1. SlotInv => OneRetry
  BY DEF SlotInv, RequestRows, Acquired, OneRetry
<1> QED BY <1>1, Invariants, PTL

-----------------------------------------------------------------------------
(***************************************************************************)
(* Capacity: only vaHold and a free acquire add an active row, each below   *)
(* VaMax; spending a hold trades one active row for another.                *)
(***************************************************************************)
LEMMA ActiveShrinks ==
  ASSUME Capacity, Active' \subseteq Active
  PROVE  Capacity'
<1>1. IsFiniteSet(Active) BY SlotsFinite, FS_Subset DEF Active
<1>2. IsFiniteSet(Active') /\ Cardinality(Active') <= Cardinality(Active)
  BY <1>1, FS_Subset
<1>3. Cardinality(Active') \in Nat /\ Cardinality(Active) \in Nat
  BY <1>1, <1>2, FS_CardinalityType
<1> QED BY <1>2, <1>3, SlotsAssumption DEF Capacity

\* One more active row fits when the registry is not full.
LEMMA ActiveGrows ==
  ASSUME Capacity, ~Full, NEW s, Active' \subseteq Active \cup {s}
  PROVE  Capacity'
<1>1. IsFiniteSet(Active) BY SlotsFinite, FS_Subset DEF Active
<1>2. IsFiniteSet(Active \cup {s}) /\ Cardinality(Active \cup {s}) <= Cardinality(Active) + 1
  <2>1. Cardinality(Active) \in Nat BY <1>1, FS_CardinalityType
  <2> QED BY <1>1, <2>1, FS_AddElement
<1>3. IsFiniteSet(Active') /\ Cardinality(Active') <= Cardinality(Active \cup {s})
  BY <1>2, FS_Subset
<1>4. /\ Cardinality(Active') \in Nat /\ Cardinality(Active \cup {s}) \in Nat
      /\ Cardinality(Active) \in Nat
  BY <1>1, <1>2, <1>3, FS_CardinalityType
<1> QED BY <1>2, <1>3, <1>4, SlotsAssumption DEF Capacity, Full

\* A row that takes the place of an active one leaves their number as it is.
LEMMA ActiveTrades ==
  ASSUME Capacity, NEW h \in Active, NEW s, Active' \subseteq (Active \ {h}) \cup {s}
  PROVE  Capacity'
<1>1. IsFiniteSet(Active) BY SlotsFinite, FS_Subset DEF Active
<1>2. IsFiniteSet(Active \ {h}) /\ Cardinality(Active \ {h}) = Cardinality(Active) - 1
  BY <1>1, FS_RemoveElement
<1>3. /\ IsFiniteSet((Active \ {h}) \cup {s})
      /\ Cardinality((Active \ {h}) \cup {s}) <= Cardinality(Active)
  <2>1. Cardinality(Active) \in Nat BY <1>1, FS_CardinalityType
  <2> QED BY <1>2, <2>1, FS_AddElement
<1>4. IsFiniteSet(Active') /\ Cardinality(Active') <= Cardinality((Active \ {h}) \cup {s})
  BY <1>3, FS_Subset
<1>5. /\ Cardinality(Active') \in Nat /\ Cardinality((Active \ {h}) \cup {s}) \in Nat
      /\ Cardinality(Active) \in Nat
  BY <1>1, <1>3, <1>4, FS_CardinalityType
<1> QED BY <1>3, <1>4, <1>5, SlotsAssumption DEF Capacity

\* Releasing a slot adds no active row.
LEMMA ReleaseShrinks ==
  ASSUME TypeOK, NEW s, Release(s)
  PROVE  Active' \subseteq Active
<1>1. CASE s \in Slots /\ status[s] \in Live
  BY <1>1 DEF Release, TypeOK, Active, Live
<1>2. CASE ~(s \in Slots /\ status[s] \in Live)
  BY <1>2 DEF Release, rows, Active
<1> QED BY <1>1, <1>2

\* No step takes more than VaMax rows: only vaHold and the acquire add one.
LEMMA CapacityStep == TypeOK /\ SlotInv /\ Capacity /\ [Next]_vars => Capacity'
<1> SUFFICES ASSUME TypeOK, SlotInv, Capacity, [Next]_vars PROVE Capacity'
  OBVIOUS
<1>1. ASSUME NEW s \in Starts,
             StartReads(s) \/ StartReleases(s) \/ StartRefused(s) \/ StartSaves(s)
      PROVE  Active' \subseteq Active
  BY <1>1, ReleaseShrinks
  DEF StartReads, StartReleases, StartRefused, StartSaves, Active, rows
<1>2. ASSUME NEW s \in Starts, StartHolds(s) PROVE Capacity'
  <2>1. Active' \subseteq Active \cup {s} BY <1>2 DEF StartHolds, Active, TypeOK
  <2> QED BY <1>2, <2>1, ActiveGrows DEF StartHolds
<1>3. ASSUME NEW c \in Cases, RunReleases(c) PROVE Active' \subseteq Active
  BY <1>3, ReleaseShrinks DEF RunReleases
<1>4. ASSUME TakeoverNext PROVE Active' \subseteq Active
  BY <1>4, ReleaseShrinks
  DEF TakeoverNext, Arm, FailureReported, End, EndReleases, Active, rows
<1>5. ASSUME NEW r \in Requests, NEW t \in Takeovers, NEW a \in Attempts, Decide(r, t, a)
      PROVE  Active' \subseteq Active
  BY <1>5 DEF Decide, Active, rows
<1>6. ASSUME NEW r \in Requests,
             \/ ReleaseFirst(r) \/ AcquireDenied(r) \/ Reserve(r) \/ ReserveRefused(r)
             \/ Mint(r) \/ MintFails(r) \/ Undo(r) \/ Dies(r)
      PROVE  Active' \subseteq Active
  BY <1>6, ReleaseShrinks
  DEF ReleaseFirst, AcquireDenied, Reserve, ReserveRefused, Mint, MintFails, Undo, Dies,
      Active, rows
<1>7. ASSUME NEW r \in Requests, AcquireFromHold(r) PROVE Capacity'
  <2> DEFINE s == req[r].slot
             h == req[r].hold
  <2>1. h \in Active BY <1>7 DEF AcquireFromHold, Held, Active, Live, Slots
  <2>2. s # h
    BY <1>7, SlotsAssumption DEF AcquireFromHold, Held
  <2>3. Active' \subseteq (Active \ {h}) \cup {s}
    BY <1>7, <2>1, <2>2 DEF AcquireFromHold, Active, TypeOK, Live
  <2> QED BY <2>1, <2>3, ActiveTrades
<1>8. ASSUME NEW r \in Requests, AcquireFree(r) PROVE Capacity'
  <2>1. Active' \subseteq Active \cup {req[r].slot} BY <1>8 DEF AcquireFree, Active, TypeOK
  <2> QED BY <1>8, <2>1, ActiveGrows DEF AcquireFree
<1>9. ASSUME BrowserNext PROVE Active' \subseteq Active
  BY <1>9
  DEF BrowserNext, BrowserCloses, ReportReads, ReportOpened, ReportClosed, Active, TypeOK,
      RepState, Live, rows
<1>10. ASSUME Sweeps PROVE Active' \subseteq Active
  BY <1>10 DEF Sweeps, Sweep, SweepWrites, Active, Live
<1>11. CASE UNCHANGED vars
  <2>1. Active' \subseteq Active BY <1>11 DEF vars, Active
  <2> QED BY <2>1, ActiveShrinks
<1> QED
  BY <1>1, <1>2, <1>3, <1>4, <1>5, <1>6, <1>7, <1>8, <1>9, <1>10, <1>11, ActiveShrinks
  DEF Next, RunNext, TokenNext

\* Never more than VA_MAX_CONCURRENT rows count, for any VaMax and any load.
THEOREM CapacityAlways == Spec => []Capacity
<1>1. Init => Capacity
  <2>1. Init => Active = {} BY DEF Init, Active, Live
  <2> QED BY <2>1, FS_EmptySet, SlotsAssumption DEF Capacity
<1> QED BY <1>1, CapacityStep, Invariants, PTL DEF Spec

\* What the runs check of the registry at once: types, exclusive money, one retry.
THEOREM SlotsSoundAlways == Spec => []SlotsSound
BY TypeCorrect, ReservationExclusiveAlways, OneRetryAlways, PTL DEF SlotsSound

\* No session runs without money, and no active row loses its own.
THEOREM MoneyBackedAlways == Spec => []MoneyBacked
BY ActiveBackedAlways, SessionPaidForAlways, PTL DEF MoneyBacked
=============================================================================
