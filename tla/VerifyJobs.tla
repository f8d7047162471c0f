---------------------------- MODULE VerifyJobs ----------------------------
(***************************************************************************)
(* The verification of a pass from its recording: the verify_takeover jobs *)
(* of the job runner (leases, attempts, write-backs by id), the steps of   *)
(* verify-takeover.ts, the verifications row and the aai_async money.      *)
(*                                                                         *)
(* A worker is one call of advance(id), made by the ticker, a status poll, *)
(* cron or the webhook.  Each of its statements is an action, with the row *)
(* it leased kept in its own record: a step may outlive its lease, and a   *)
(* second worker then runs beside it.  Time is a lease that expires and a  *)
(* run_after that delays the next advance; the webhook only shortens that. *)
(***************************************************************************)
EXTENDS Naturals, Sequences, FiniteSets

CONSTANTS
  Jobs,                \* calls of enqueueVerification; an accepted one makes the job of its name
  Takeovers,           \* passes with a recording
  TakeoverOf,          \* the pass of each call
  Workers,             \* concurrent calls of advance
  MAX_ATTEMPTS,        \* throws that fail a job
  MAX_STEP_FAILURES,   \* errors of one step that fail a verification
  ARTIFACT_MAX_TRIES, IN_FLIGHT_MAX_TRIES, MAX_IN_FLIGHT,
  MaxPolls,            \* bound: polls of a transcript within TRANSCRIPT_MAX_WAIT_MS
  MaxTroubles,         \* bound: enqueuing calls that found no job, steps that outlive their lease,
                       \* workers that die, database errors the step does not count
  None                 \* null

ASSUME VerifyAssumption ==
  /\ IsFiniteSet(Jobs)
  /\ TakeoverOf \in [Jobs -> Takeovers]
  /\ {MAX_ATTEMPTS, MAX_STEP_FAILURES, ARTIFACT_MAX_TRIES, IN_FLIGHT_MAX_TRIES} \subseteq Nat \ {0}
  /\ {MAX_IN_FLIGHT, MaxPolls, MaxTroubles} \subseteq Nat
  /\ None \notin Jobs

VARIABLES
  enq,        \* how far each call of enqueueVerification is
  jobs,       \* jobs rows
  newest,     \* the job of each pass with the latest created_at
  ver,        \* verifications.status of each pass
  ledger,     \* aai_async rows of spend_ledger, by job in the order of their making
  trans,      \* transcripts at AssemblyAI, likewise
  work,       \* workers
  slow, faults \* troubles so far

vars == <<enq, jobs, newest, ver, ledger, trans, work, slow, faults>>

\* jobs.state: transcriptId and asyncLedgerId are 0 while null.
StepState == [step: {"await_artifacts", "submit", "await_transcript"}, tries: Nat,
              failures: Nat, tr: Nat, res: Nat]
Job == [status: {"pending", "running", "done", "failed"}, s: StepState,
        lease: BOOLEAN, attempts: 0..MAX_ATTEMPTS]
Worker == [pc: {"idle", "step", "reserve", "post", "merge", "mark", "close", "write", "throw"},
           job: Jobs \cup {None}, attempts: 0..MAX_ATTEMPTS, s: StepState,
           res: Nat, next: {"again", "done", "failed"}, free: BOOLEAN]

TypeOK ==
  /\ enq \in [Jobs -> {"idle", "found", "opened", "made"}]
  /\ jobs \in [Jobs -> Job]
  /\ newest \in [Takeovers -> Jobs \cup {None}]
  /\ ver \in [Takeovers -> {"none", "pending", "completed", "failed"}]
  /\ ledger \in [Jobs -> Seq({"reserved", "settled", "released"})]
  /\ trans \in [Jobs -> Seq({"processing", "completed", "error"})]
  /\ work \in [Workers -> Worker]
  /\ slow \in 0..MaxTroubles
  /\ faults \in 0..MaxTroubles

initialVerifyState == [step |-> "await_artifacts", tries |-> 0, failures |-> 0, tr |-> 0, res |-> 0]
NewJob == [status |-> "pending", s |-> initialVerifyState, lease |-> FALSE, attempts |-> 0]
Idle == [pc |-> "idle", job |-> None, attempts |-> 0, s |-> initialVerifyState,
         res |-> 0, next |-> "again", free |-> FALSE]

Init ==
  /\ enq = [j \in Jobs |-> "idle"]
  /\ jobs = [j \in Jobs |-> NewJob]
  /\ newest = [t \in Takeovers |-> None]
  /\ ver = [t \in Takeovers |-> "none"]
  /\ ledger = [j \in Jobs |-> <<>>]
  /\ trans = [j \in Jobs |-> <<>>]
  /\ work = [w \in Workers |-> Idle]
  /\ slow = 0
  /\ faults = 0

Made == {j \in Jobs : enq[j] = "made"}
Troubles == Cardinality({j \in Jobs : enq[j] # "idle"}) + slow + faults
Ended(j) == jobs[j].status \in {"done", "failed"}

-----------------------------------------------------------------------------
\* enqueueVerificationWith: find a job, create the pending row, insert the job.
\* A call that finds a job returns its id and changes nothing; one that dies
\* between its statements stops where it is.

EnqueueFinds(j) ==
  /\ enq[j] = "idle"
  /\ \A k \in Made : TakeoverOf[k] # TakeoverOf[j]
  /\ Troubles < MaxTroubles
  /\ enq' = [enq EXCEPT ![j] = "found"]
  /\ UNCHANGED <<jobs, newest, ver, ledger, trans, work, slow, faults>>

EnqueueOpens(j) ==
  /\ enq[j] = "found"
  /\ enq' = [enq EXCEPT ![j] = "opened"]
  /\ ver' = [ver EXCEPT ![TakeoverOf[j]] = IF @ = "none" THEN "pending" ELSE @]
  /\ UNCHANGED <<jobs, newest, ledger, trans, work, slow, faults>>

EnqueueInserts(j) ==
  /\ enq[j] = "opened"
  /\ enq' = [enq EXCEPT ![j] = "made"]
  /\ newest' = [newest EXCEPT ![TakeoverOf[j]] = j]
  /\ UNCHANGED <<jobs, ver, ledger, trans, work, slow, faults>>

-----------------------------------------------------------------------------
\* DbJobRunner.advance: the lease, the write-back of a step, the catch.

\* Mutant: the lease is not looked at.
LeasableAny(j) == jobs[j].status \in {"pending", "running"}

\* Mutant: a running job is not taken up again when its lease has expired.
LeasablePending(j) == jobs[j].status = "pending"

Leasable(j) ==
  /\ jobs[j].status \in {"pending", "running"}
  /\ ~jobs[j].lease

Free == {w \in Workers : work[w].pc = "idle"}

\* Calls of advance are alike: which of the free records stands for it is open.
Advance(j) ==
  /\ Free # {}
  /\ j \in Made
  /\ Leasable(j)
  /\ jobs' = [jobs EXCEPT ![j] = [@ EXCEPT !.status = "running", !.lease = TRUE]]
  /\ work' = [work EXCEPT ![CHOOSE w \in Free : TRUE] =
                [Idle EXCEPT !.pc = "step", !.job = j, !.s = jobs[j].s, !.attempts = jobs[j].attempts]]
  /\ UNCHANGED <<enq, newest, ver, ledger, trans, slow, faults>>

StatusAfter(next) == IF next = "again" THEN "pending" ELSE next

\* By id alone: nothing says that the lease is still this worker's.
WritesBack(w) ==
  LET r == work[w]
  IN /\ r.pc = "write"
     /\ jobs' = [jobs EXCEPT ![r.job] =
                   [@ EXCEPT !.status = StatusAfter(r.next),
                             !.s = r.s, !.lease = FALSE, !.attempts = 0]]
     /\ work' = [work EXCEPT ![w] = Idle]
     /\ UNCHANGED <<enq, newest, ver, ledger, trans, slow, faults>>

\* The step threw, or its write-back did: its result is lost.
RunnerCatches(w) ==
  LET r == work[w]
      attempts == r.attempts + 1
  IN /\ \/ r.pc = "throw" /\ UNCHANGED faults
        \/ r.pc = "write" /\ Troubles < MaxTroubles /\ faults' = faults + 1
     /\ jobs' = [jobs EXCEPT ![r.job] =
                   [@ EXCEPT !.status = IF attempts >= MAX_ATTEMPTS THEN "failed" ELSE "pending",
                             !.lease = FALSE, !.attempts = attempts]]
     /\ work' = [work EXCEPT ![w] = Idle]
     /\ UNCHANGED <<enq, newest, ver, ledger, trans, slow>>

\* The process restarts in the step, or the database is away after it: the lease stays.
Dies(w) ==
  /\ work[w].pc # "idle"
  /\ Troubles < MaxTroubles
  /\ faults' = faults + 1
  /\ work' = [work EXCEPT ![w] = Idle]
  /\ UNCHANGED <<enq, jobs, newest, ver, ledger, trans, slow>>

On(j) == {w \in Workers : work[w].job = j}

\* 30 s pass: requests of a step may take 60 s each and are repeated.
LeaseExpires(j) ==
  /\ jobs[j].lease
  /\ \/ On(j) = {} /\ UNCHANGED slow
     \/ On(j) # {} /\ Troubles < MaxTroubles /\ slow' = slow + 1
  /\ jobs' = [jobs EXCEPT ![j].lease = FALSE]
  /\ UNCHANGED <<enq, newest, ver, ledger, trans, work, faults>>

-----------------------------------------------------------------------------
\* The step's own bookkeeping: another try, another step, a counted error.

goto(s, step) == [s EXCEPT !.step = step, !.tries = 0, !.failures = 0]

PollAgain(r) ==
  [r EXCEPT !.pc = "write", !.next = "again", !.s = [r.s EXCEPT !.tries = @ + 1, !.failures = 0]]

\* free: the reason is transcript_error.
Caught(r, permanent, free) ==
  LET s == [r.s EXCEPT !.failures = @ + 1]
  IN IF permanent \/ s.failures >= MAX_STEP_FAILURES
     THEN [r EXCEPT !.pc = "mark", !.res = 0, !.s = s, !.free = free]
     ELSE [r EXCEPT !.pc = "write", !.next = "again", !.res = 0, !.s = s]

TryAgain(r, max) == IF r.s.tries + 1 >= max THEN Caught(r, TRUE, FALSE) ELSE PollAgain(r)

InStep(w, step) == work[w].pc = "step" /\ work[w].s.step = step

Becomes(w, r) ==
  /\ work' = [work EXCEPT ![w] = r]
  /\ UNCHANGED <<enq, jobs, newest, slow>>

\* A request, a read or the computation fails; some reasons are permanent.
StepFails(w) ==
  /\ work[w].pc \in {"step", "reserve", "merge"}
  /\ \/ Becomes(w, Caught(work[w], FALSE, FALSE))
     \/ work[w].pc # "merge" /\ Becomes(w, Caught(work[w], TRUE, FALSE))
  /\ UNCHANGED <<ver, ledger, trans, faults>>

-----------------------------------------------------------------------------
\* S1 await_artifacts

ArtifactsMissing(w) ==
  /\ InStep(w, "await_artifacts")
  /\ Becomes(w, TryAgain(work[w], ARTIFACT_MAX_TRIES))
  /\ UNCHANGED <<ver, ledger, trans, faults>>

\* The AI session's own ledger row, closed in VaSlots, gets its real amount here.
ArtifactsReady(w) ==
  /\ InStep(w, "await_artifacts")
  /\ Becomes(w, [work[w] EXCEPT !.pc = "write", !.next = "again", !.s = goto(@, "submit")])
  /\ UNCHANGED <<ver, ledger, trans, faults>>

-----------------------------------------------------------------------------
\* S2 submit.  A state in this step has no transcript and no reservation yet.

InFlight == {j \in Made : ~Ended(j) /\ jobs[j].s.step = "await_transcript"}

SubmitWaits(w) ==
  /\ InStep(w, "submit")
  /\ Cardinality(InFlight \ {work[w].job}) >= MAX_IN_FLIGHT
  /\ Becomes(w, TryAgain(work[w], IN_FLIGHT_MAX_TRIES))
  /\ UNCHANGED <<ver, ledger, trans, faults>>

SubmitCounts(w) ==
  /\ InStep(w, "submit")
  /\ Cardinality(InFlight \ {work[w].job}) < MAX_IN_FLIGHT
  /\ Becomes(w, [work[w] EXCEPT !.pc = "reserve"])
  /\ UNCHANGED <<ver, ledger, trans, faults>>

\* A refused budget is a permanent error (StepFails).
Reserves(w) ==
  /\ work[w].pc = "reserve"
  /\ Becomes(w, [work[w] EXCEPT !.pc = "post", !.res = Len(ledger[work[w].job]) + 1])
  /\ ledger' = [ledger EXCEPT ![work[w].job] = Append(@, "reserved")]
  /\ UNCHANGED <<ver, trans, faults>>

release(j, n) ==
  ledger' = [ledger EXCEPT ![j][n] = IF @ = "reserved" THEN "released" ELSE @]

settle(j, n) == ledger' = [ledger EXCEPT ![j][n] = "settled"]

\* A write of the ledger whose error is swallowed.
LedgerFails ==
  /\ Troubles < MaxTroubles
  /\ faults' = faults + 1
  /\ UNCHANGED ledger

\* The POST fails (whether AssemblyAI took it, nobody here learns), or the id
\* cannot be saved.
SubmitFails(w) ==
  /\ work[w].pc = "post"
  /\ \/ release(work[w].job, work[w].res) /\ UNCHANGED faults
     \/ LedgerFails
  /\ Becomes(w, Caught(work[w], FALSE, FALSE))
  /\ UNCHANGED <<ver, trans>>

\* The POST is answered and setVerificationTranscript keeps the id.
Submitted(w) ==
  /\ work[w].pc = "post"
  /\ Becomes(w, [work[w] EXCEPT !.pc = "write", !.next = "again", !.res = 0,
                   !.s = [goto(@, "await_transcript") EXCEPT !.tr = Len(trans[work[w].job]) + 1, !.res = work[w].res]])
  /\ trans' = [trans EXCEPT ![work[w].job] = Append(@, "processing")]
  /\ UNCHANGED <<ver, ledger, faults>>

\* AssemblyAI ends a transcript that a job or a worker may still read.
TranscriptEnds(j, n) ==
  /\ trans[j][n] = "processing"
  /\ n \in {jobs[j].s.tr} \cup {work[w].s.tr : w \in On(j)}
  /\ \E r \in {"completed", "error"} : trans' = [trans EXCEPT ![j][n] = r]
  /\ UNCHANGED <<enq, jobs, newest, ver, ledger, work, slow, faults>>

\* The F5 sweep settles reservations of 20 minutes.  A job closes its own long
\* before, unless the server was away.
SweepSettles(j, n) ==
  /\ ledger[j][n] = "reserved"
  /\ \/ /\ n \notin {jobs[j].s.res} \cup UNION {{work[w].res, work[w].s.res} : w \in On(j)}
        /\ UNCHANGED faults
     \/ Troubles < MaxTroubles /\ faults' = faults + 1
  /\ settle(j, n)
  /\ UNCHANGED <<enq, jobs, newest, ver, trans, work, slow>>

-----------------------------------------------------------------------------
\* S3 await_transcript, S4 compute in the same step.

TranscriptPolls(w) ==
  /\ InStep(w, "await_transcript")
  /\ trans[work[w].job][work[w].s.tr] = "processing"
  /\ \/ work[w].s.tries < MaxPolls /\ Becomes(w, PollAgain(work[w]))
     \/ Becomes(w, Caught(work[w], TRUE, FALSE))
  /\ UNCHANGED <<ver, ledger, trans, faults>>

TranscriptFailed(w) ==
  /\ InStep(w, "await_transcript")
  /\ trans[work[w].job][work[w].s.tr] = "error"
  /\ Becomes(w, Caught(work[w], TRUE, TRUE))
  /\ UNCHANGED <<ver, ledger, trans, faults>>

\* markVerificationCompleted writes the row; a completed transcript stays so
\* while the timeline is fetched and the QA computed.
MarksCompleted(w) ==
  /\ InStep(w, "await_transcript")
  /\ trans[work[w].job][work[w].s.tr] = "completed"
  /\ Becomes(w, [work[w] EXCEPT !.pc = "merge"])
  /\ ver' = [ver EXCEPT ![TakeoverOf[work[w].job]] = "completed"]
  /\ UNCHANGED <<ledger, trans, faults>>

\* takeovers.metrics are merged (StepFails if not), then the money is settled.
Settles(w) ==
  /\ work[w].pc = "merge"
  /\ \/ settle(work[w].job, work[w].s.res) /\ UNCHANGED faults
     \/ LedgerFails
  /\ Becomes(w, [work[w] EXCEPT !.pc = "write", !.next = "done"])
  /\ UNCHANGED <<ver, trans>>

-----------------------------------------------------------------------------
\* finalizeFailure: the row, then the reservation.

\* Mutant: a completed verification is overwritten.
MarkedFailedAlways(v) == "failed"

MarkedFailed(v) == IF v = "completed" THEN v ELSE "failed"

MarksFailed(w) ==
  /\ work[w].pc = "mark"
  /\ Becomes(w, [work[w] EXCEPT !.pc = "close"])
  /\ ver' = [ver EXCEPT ![TakeoverOf[work[w].job]] = MarkedFailed(@)]
  /\ UNCHANGED <<ledger, trans, faults>>

\* The database fails before or after the row: the step throws to the runner.
MarkThrows(w) ==
  /\ work[w].pc = "mark"
  /\ Troubles < MaxTroubles
  /\ faults' = faults + 1
  /\ Becomes(w, [work[w] EXCEPT !.pc = "throw"])
  /\ ver' \in {ver, [ver EXCEPT ![TakeoverOf[work[w].job]] = MarkedFailed(@)]}
  /\ UNCHANGED <<ledger, trans>>

\* Mutant: a failed verification is taken to cost nothing.
UnbilledAlways(r) == TRUE

\* Nothing was billed: no transcript, or AssemblyAI reported an error.
Unbilled(r) == r.s.tr = 0 \/ r.free

Closes(w) ==
  LET r == work[w]
  IN /\ r.pc = "close"
     /\ \/ r.s.res = 0 /\ UNCHANGED <<ledger, faults>>
        \/ r.s.res # 0 /\ Unbilled(r) /\ release(r.job, r.s.res) /\ UNCHANGED faults
        \/ r.s.res # 0 /\ ~Unbilled(r) /\ settle(r.job, r.s.res) /\ UNCHANGED faults
        \/ r.s.res # 0 /\ LedgerFails
     /\ Becomes(w, [r EXCEPT !.pc = "write", !.next = "failed", !.free = FALSE])
     /\ UNCHANGED <<ver, trans>>

\* The status route: the runner failed the newest job and the row is pending.
Reconciles(t) ==
  /\ ver[t] = "pending"
  /\ newest[t] # None
  /\ jobs[newest[t]].status = "failed"
  /\ ver' = [ver EXCEPT ![t] = MarkedFailed(@)]
  /\ UNCHANGED <<enq, jobs, newest, ledger, trans, work, slow, faults>>

-----------------------------------------------------------------------------
Enqueue(j) == EnqueueFinds(j) \/ EnqueueOpens(j) \/ EnqueueInserts(j)

\* Everything a worker does but die.
Works(w) ==
  \/ WritesBack(w) \/ RunnerCatches(w) \/ StepFails(w)
  \/ ArtifactsMissing(w) \/ ArtifactsReady(w)
  \/ SubmitWaits(w) \/ SubmitCounts(w) \/ Reserves(w) \/ SubmitFails(w) \/ Submitted(w)
  \/ TranscriptPolls(w) \/ TranscriptFailed(w) \/ MarksCompleted(w) \/ Settles(w)
  \/ MarksFailed(w) \/ MarkThrows(w) \/ Closes(w)

Next ==
  \/ \E j \in Jobs : Enqueue(j) \/ Advance(j) \/ LeaseExpires(j)
  \/ \E w \in Workers : Works(w) \/ Dies(w)
  \/ \E j \in Jobs : \E n \in DOMAIN trans[j] : TranscriptEnds(j, n)
  \/ \E j \in Jobs : \E n \in DOMAIN ledger[j] : SweepSettles(j, n)
  \/ \E t \in Takeovers : Reconciles(t)

Spec == Init /\ [][Next]_vars

\* Requests have timeouts, the ticker selects due jobs every two seconds, time
\* passes.  Nobody owes an enqueue, a transcript or a look at the status route.
Fairness ==
  /\ \A w \in Workers : WF_vars(Works(w))
  /\ \A j \in Jobs : WF_vars(Advance(j) \/ LeaseExpires(j))

FairSpec == Spec /\ Fairness

-----------------------------------------------------------------------------
\* While no step outlives its lease, one worker at a time runs a step of a job,
\* whoever asks: advance's conditional update.
LeaseExclusive == slow = 0 => \A j \in Jobs : Cardinality(On(j)) <= 1

\* A job that is done left a completed verification, and one its own step failed
\* left a failed or completed one, whatever else ran, died or was retried: the row
\* is written before the job.  (A job the runner failed waits for the status route.)
ResultRecorded ==
  \A j \in Jobs :
    /\ jobs[j].status = "done" => ver[TakeoverOf[j]] = "completed"
    /\ jobs[j].status = "failed" /\ jobs[j].attempts = 0
         => ver[TakeoverOf[j]] \in {"completed", "failed"}

\* A completed verification stays completed: neither a retry of the same step, nor
\* the second job of a pass, nor a worker that lost its lease downgrades it.
CompletedStays ==
  [][\A t \in Takeovers : ver[t] = "completed" => ver'[t] = "completed"]_vars

\* Money of a transcript that a job holds is never given back unless AssemblyAI
\* reported an error for it.
BilledNotReleased ==
  \A j \in Jobs :
    LET s == jobs[j].s
    IN s.tr # 0 /\ trans[j][s.tr] # "error" => ledger[j][s.res] # "released"

\* Without a lost lease, a restart or a failed ledger write, a job that ended leaves
\* no reservation open, however many submits it took.
ReservationsClosed ==
  slow = 0 /\ faults = 0 =>
    \A j \in Jobs : Ended(j) => \A n \in DOMAIN ledger[j] : ledger[j][n] # "reserved"

\* The jobs end, all of them: through errors, restarts in a step, steps that outlive
\* their lease and full queues.
JobsEnd == (\E j \in Made : ~Ended(j)) ~> (\A j \in Made : Ended(j))

\* The runner is sound: rows keep their types and attempts stay within MAX_ATTEMPTS,
\* one worker at a time runs a job until a step outlives its lease, and a result is
\* recorded before its job ends.
JobsSound == TypeOK /\ LeaseExclusive /\ ResultRecorded

\* The money follows the transcripts: none is given back under a transcript that is held,
\* and none is left reserved by a job that ended.
MoneyFollows == BilledNotReleased /\ ReservationsClosed
=============================================================================
