------------------------- MODULE VerifyJobsProofs -------------------------
(***************************************************************************)
(* Proofs about VerifyJobs, for any number of passes, calls and workers    *)
(* and any limits: its type, one worker per lease, a completed result that *)
(* stays, a result that is in the row before its job ends, and money that  *)
(* follows the transcripts.                                                *)
(***************************************************************************)
EXTENDS VerifyJobs, FiniteSetTheorems, TLAPS

Busy(w) == work[w].pc # "idle"

\* What the type needs: a worker has a job, and an unfailed job an attempt left.
AttemptsLeft ==
  /\ \A w \in Workers : IF Busy(w) THEN work[w].job \in Jobs /\ work[w].attempts < MAX_ATTEMPTS
                                   ELSE work[w].job = None
  /\ \A j \in Jobs : jobs[j].status # "failed" => jobs[j].attempts < MAX_ATTEMPTS

TypeInv == TypeOK /\ AttemptsLeft

\* An element of a sequence replaced by one of the same set.
LEMMA SeqUpdate ==
  ASSUME NEW S, NEW q \in Seq(S), NEW n, NEW v, n \in 1..Len(q) => v \in S
  PROVE  [q EXCEPT ![n] = v] \in Seq(S)
<1>1. q \in [1..Len(q) -> S] /\ Len(q) \in Nat
  OBVIOUS
<1>2. [q EXCEPT ![n] = v] \in [1..Len(q) -> S]
  BY <1>1
<1> QED
  BY <1>1, <1>2

\* The changes of a job's state are states.
LEMMA StateUpdates ==
  ASSUME NEW s \in StepState
  PROVE  /\ [s EXCEPT !.tries = @ + 1, !.failures = 0] \in StepState
         /\ [s EXCEPT !.failures = @ + 1] \in StepState
         /\ goto(s, "submit") \in StepState
         /\ \A n, m \in Nat : [goto(s, "await_transcript") EXCEPT !.tr = n, !.res = m] \in StepState
<1>1. s.tries + 1 \in Nat /\ s.failures + 1 \in Nat
  BY DEF StepState
<1>2. \A k \in Nat : [s EXCEPT !.tries = k, !.failures = 0] \in StepState
  BY DEF StepState
<1>3. \A k \in Nat : [s EXCEPT !.failures = k] \in StepState
  BY DEF StepState
<1>4. goto(s, "submit") \in StepState
  BY DEF StepState, goto
<1>5. \A n, m \in Nat : [goto(s, "await_transcript") EXCEPT !.tr = n, !.res = m] \in StepState
  BY DEF StepState, goto
<1> QED
  BY <1>1, <1>2, <1>3, <1>4, <1>5

\* q is a later record of the worker of r in the same call of advance.
Follows(r, q) == q \in Worker /\ q.pc # "idle" /\ q.job = r.job /\ q.attempts = r.attempts

\* Whatever a step does to its own record, it stays a worker of the same job.
LEMMA WorkerUpdates ==
  ASSUME NEW r \in Worker
  PROVE  /\ Follows(r, PollAgain(r))
         /\ \A permanent, free \in BOOLEAN : Follows(r, Caught(r, permanent, free))
         /\ \A max \in Nat : Follows(r, TryAgain(r, max))
         /\ Follows(r, [r EXCEPT !.pc = "write", !.next = "again", !.s = goto(@, "submit")])
         /\ \A pc \in {"reserve", "merge", "close", "throw"} : Follows(r, [r EXCEPT !.pc = pc])
         /\ \A n \in Nat : Follows(r, [r EXCEPT !.pc = "post", !.res = n])
         /\ \A n \in Nat :
              Follows(r, [r EXCEPT !.pc = "write", !.next = "again", !.res = 0,
                            !.s = [goto(@, "await_transcript") EXCEPT !.tr = n, !.res = r.res]])
         /\ Follows(r, [r EXCEPT !.pc = "write", !.next = "done"])
         /\ Follows(r, [r EXCEPT !.pc = "write", !.next = "failed", !.free = FALSE])
<1>1. r.s \in StepState /\ r.res \in Nat
  BY DEF Worker
<1>2. \A s \in StepState : Follows(r, [r EXCEPT !.pc = "write", !.next = "again", !.s = s])
  BY DEF Worker, Follows
<1>3. \A s \in StepState :
        /\ Follows(r, [r EXCEPT !.pc = "write", !.next = "again", !.res = 0, !.s = s])
        /\ \A free \in BOOLEAN : Follows(r, [r EXCEPT !.pc = "mark", !.res = 0, !.s = s, !.free = free])
  BY DEF Worker, Follows
<1>4. Follows(r, PollAgain(r))
  <2>1. [r.s EXCEPT !.tries = @ + 1, !.failures = 0] \in StepState
    BY <1>1, StateUpdates
  <2> QED
    BY <1>2, <2>1 DEF PollAgain
<1>5. \A permanent, free \in BOOLEAN : Follows(r, Caught(r, permanent, free))
  BY <1>1, <1>3, StateUpdates DEF Caught
<1>6. \A max \in Nat : Follows(r, TryAgain(r, max))
  BY <1>4, <1>5 DEF TryAgain
<1>7. /\ Follows(r, [r EXCEPT !.pc = "write", !.next = "again", !.s = goto(@, "submit")])
      /\ \A n \in Nat :
           Follows(r, [r EXCEPT !.pc = "write", !.next = "again", !.res = 0,
                         !.s = [goto(@, "await_transcript") EXCEPT !.tr = n, !.res = r.res]])
  BY <1>1, <1>2, <1>3, StateUpdates
<1>8. /\ \A pc \in {"reserve", "merge", "close", "throw"} : Follows(r, [r EXCEPT !.pc = pc])
      /\ \A n \in Nat : Follows(r, [r EXCEPT !.pc = "post", !.res = n])
      /\ Follows(r, [r EXCEPT !.pc = "write", !.next = "done"])
      /\ Follows(r, [r EXCEPT !.pc = "write", !.next = "failed", !.free = FALSE])
  BY DEF Worker, Follows
<1> QED
  BY <1>4, <1>5, <1>6, <1>7, <1>8

\* A step of a worker on its own record.
OwnStep(w) == Busy(w) /\ \E r : Follows(work[w], r) /\ Becomes(w, r)

\* The steps of a worker in a step, all of them.
StepWorks(w) ==
  \/ StepFails(w) \/ ArtifactsMissing(w) \/ ArtifactsReady(w) \/ SubmitWaits(w)
  \/ SubmitCounts(w) \/ Reserves(w) \/ SubmitFails(w) \/ Submitted(w)
  \/ TranscriptPolls(w) \/ TranscriptFailed(w) \/ MarksCompleted(w) \/ Settles(w)
  \/ MarksFailed(w) \/ MarkThrows(w) \/ Closes(w)

\* The actions of a worker in a step are such steps.
LEMMA OwnSteps ==
  ASSUME TypeInv, NEW w \in Workers, StepWorks(w)
  PROVE  OwnStep(w)
<1>1. work[w] \in Worker
  BY DEF TypeInv, TypeOK
<1>2. ARTIFACT_MAX_TRIES \in Nat /\ IN_FLIGHT_MAX_TRIES \in Nat
  BY VerifyAssumption
<1>3. CASE StepFails(w)
  BY <1>1, <1>3, WorkerUpdates DEF StepFails, OwnStep, Busy
<1>4. CASE ArtifactsMissing(w)
  BY <1>1, <1>2, <1>4, WorkerUpdates DEF ArtifactsMissing, InStep, OwnStep, Busy
<1>5. CASE ArtifactsReady(w)
  BY <1>1, <1>5, WorkerUpdates DEF ArtifactsReady, InStep, OwnStep, Busy
<1>6. CASE SubmitWaits(w)
  BY <1>1, <1>2, <1>6, WorkerUpdates DEF SubmitWaits, InStep, OwnStep, Busy
<1>7. CASE SubmitCounts(w)
  BY <1>1, <1>7, WorkerUpdates DEF SubmitCounts, InStep, OwnStep, Busy
<1>8. CASE Reserves(w)
  <2>1. work[w].job \in Jobs
    BY <1>8 DEF TypeInv, AttemptsLeft, Busy, Reserves
  <2>2. Len(ledger[work[w].job]) + 1 \in Nat
    BY <2>1 DEF TypeInv, TypeOK
  <2> QED
    BY <1>1, <1>8, <2>2, WorkerUpdates DEF Reserves, OwnStep, Busy
<1>9. CASE SubmitFails(w)
  BY <1>1, <1>9, WorkerUpdates DEF SubmitFails, OwnStep, Busy
<1>10. CASE Submitted(w)
  <2>1. work[w].job \in Jobs
    BY <1>10 DEF TypeInv, AttemptsLeft, Busy, Submitted
  <2>2. Len(trans[work[w].job]) + 1 \in Nat
    BY <2>1 DEF TypeInv, TypeOK
  <2> QED
    BY <1>1, <1>10, <2>2, WorkerUpdates DEF Submitted, OwnStep, Busy
<1>11. CASE TranscriptPolls(w)
  BY <1>1, <1>11, WorkerUpdates DEF TranscriptPolls, InStep, OwnStep, Busy
<1>12. CASE TranscriptFailed(w)
  BY <1>1, <1>12, WorkerUpdates DEF TranscriptFailed, InStep, OwnStep, Busy
<1>13. CASE MarksCompleted(w)
  BY <1>1, <1>13, WorkerUpdates DEF MarksCompleted, InStep, OwnStep, Busy
<1>14. CASE Settles(w)
  BY <1>1, <1>14, WorkerUpdates DEF Settles, OwnStep, Busy
<1>15. CASE MarksFailed(w)
  BY <1>1, <1>15, WorkerUpdates DEF MarksFailed, OwnStep, Busy
<1>16. CASE MarkThrows(w)
  BY <1>1, <1>16, WorkerUpdates DEF MarkThrows, OwnStep, Busy
<1>17. CASE Closes(w)
  BY <1>1, <1>17, WorkerUpdates DEF Closes, OwnStep, Busy
<1> QED
  BY <1>3, <1>4, <1>5, <1>6, <1>7, <1>8, <1>9, <1>10, <1>11, <1>12, <1>13, <1>14, <1>15, <1>16, <1>17 DEF StepWorks

\* What is not a record of a worker or a job.
Books == /\ ver \in [Takeovers -> {"none", "pending", "completed", "failed"}]
         /\ ledger \in [Jobs -> Seq({"reserved", "settled", "released"})]
         /\ trans \in [Jobs -> Seq({"processing", "completed", "error"})]
         /\ slow \in 0..MaxTroubles
         /\ faults \in 0..MaxTroubles

\* The writes of the ledger keep its type.
LEMMA LedgerWrites ==
  ASSUME TypeOK, NEW j \in Jobs, NEW n, release(j, n) \/ settle(j, n)
  PROVE  ledger' \in [Jobs -> Seq({"reserved", "settled", "released"})]
<1> DEFINE S == {"reserved", "settled", "released"}
<1>1. ledger[j] \in Seq(S)
  BY DEF TypeOK
<1>2. \A i \in 1..Len(ledger[j]) : ledger[j][i] \in S
  BY <1>1
<1>3. \A v : (n \in 1..Len(ledger[j]) => v \in S) => [ledger[j] EXCEPT ![n] = v] \in Seq(S)
  BY <1>1, SeqUpdate
<1>4. CASE release(j, n)
  <2>1. ledger' = [ledger EXCEPT ![j] = [ledger[j] EXCEPT
                    ![n] = IF ledger[j][n] = "reserved" THEN "released" ELSE ledger[j][n]]]
    BY <1>4 DEF release, TypeOK
  <2>2. n \in 1..Len(ledger[j]) => (IF ledger[j][n] = "reserved" THEN "released" ELSE ledger[j][n]) \in S
    BY <1>2
  <2> QED
    BY <1>3, <2>1, <2>2 DEF TypeOK
<1>5. CASE settle(j, n)
  <2>1. ledger' = [ledger EXCEPT ![j] = [ledger[j] EXCEPT ![n] = "settled"]]
    BY <1>5 DEF settle, TypeOK
  <2> QED
    BY <1>3, <2>1 DEF TypeOK
<1> QED
  BY <1>4, <1>5

\* The troubles stay within their bound, which every one of them tests.
LEMMA TroublesBound ==
  ASSUME TypeOK, Troubles < MaxTroubles
  PROVE  slow + 1 \in 0..MaxTroubles /\ faults + 1 \in 0..MaxTroubles
<1>1. IsFiniteSet({j \in Jobs : enq[j] # "idle"})
  BY VerifyAssumption, FS_Subset
<1>2. Cardinality({j \in Jobs : enq[j] # "idle"}) \in Nat
  BY <1>1, FS_CardinalityType
<1> QED
  BY <1>2, VerifyAssumption DEF Troubles, TypeOK

\* A swallowed error of the ledger writes nothing and counts as a trouble.
LEMMA LedgerFailure == TypeOK /\ LedgerFails => ledger' = ledger /\ faults' \in 0..MaxTroubles
  BY TroublesBound DEF LedgerFails

\* A worker's step keeps the types of what it writes besides its record.
LEMMA BooksStep ==
  ASSUME TypeInv, NEW w \in Workers, StepWorks(w)
  PROVE  Books'
<1> DEFINE j == work[w].job
<1>1. Busy(w) => j \in Jobs
  BY DEF TypeInv, AttemptsLeft
<1>2. TypeOK /\ Books
  BY DEF TypeInv, TypeOK, Books
<1>3. CASE StepFails(w)
  BY <1>2, <1>3 DEF StepFails, Becomes, Books
<1>4. CASE ArtifactsMissing(w)
  BY <1>2, <1>4 DEF ArtifactsMissing, Becomes, Books
<1>5. CASE ArtifactsReady(w)
  BY <1>2, <1>5 DEF ArtifactsReady, Becomes, Books
<1>6. CASE SubmitWaits(w)
  BY <1>2, <1>6 DEF SubmitWaits, Becomes, Books
<1>7. CASE SubmitCounts(w)
  BY <1>2, <1>7 DEF SubmitCounts, Becomes, Books
<1>8. CASE TranscriptPolls(w)
  BY <1>2, <1>8 DEF TranscriptPolls, Becomes, Books
<1>9. CASE TranscriptFailed(w)
  BY <1>2, <1>9 DEF TranscriptFailed, Becomes, Books
<1>10. CASE Reserves(w)
  <2>1. ledger[j] \in Seq({"reserved", "settled", "released"})
    BY <1>1, <1>2, <1>10 DEF Reserves, Busy, TypeOK
  <2>2. Append(ledger[j], "reserved") \in Seq({"reserved", "settled", "released"})
    BY <2>1
  <2> QED
    BY <1>2, <1>10, <2>2 DEF Reserves, Becomes, Books
<1>11. CASE Submitted(w)
  <2>1. trans[j] \in Seq({"processing", "completed", "error"})
    BY <1>1, <1>2, <1>11 DEF Submitted, Busy, TypeOK
  <2>2. Append(trans[j], "processing") \in Seq({"processing", "completed", "error"})
    BY <2>1
  <2> QED
    BY <1>2, <1>11, <2>2 DEF Submitted, Becomes, Books
<1>12. CASE SubmitFails(w)
  BY <1>1, <1>2, <1>12, LedgerWrites, LedgerFailure DEF SubmitFails, Becomes, Books, Busy
<1>13. CASE Settles(w)
  BY <1>1, <1>2, <1>13, LedgerWrites, LedgerFailure DEF Settles, Becomes, Books, Busy
<1>14. CASE Closes(w)
  BY <1>1, <1>2, <1>14, LedgerWrites, LedgerFailure DEF Closes, Becomes, Books, Busy
<1>15. CASE MarksCompleted(w)
  BY <1>2, <1>15 DEF MarksCompleted, Becomes, Books
<1>16. CASE MarksFailed(w)
  BY <1>2, <1>16 DEF MarksFailed, MarkedFailed, Becomes, Books
<1>17. CASE MarkThrows(w)
  BY <1>2, <1>17, TroublesBound DEF MarkThrows, MarkedFailed, Becomes, Books
<1> QED
  BY <1>3, <1>4, <1>5, <1>6, <1>7, <1>8, <1>9, <1>10, <1>11, <1>12, <1>13, <1>14, <1>15, <1>16, <1>17 DEF StepWorks

\* Every step of the system, by the actor that takes it.
LEMMA Steps ==
  ASSUME [Next]_vars
  PROVE  \/ \E j \in Jobs : EnqueueFinds(j) \/ EnqueueOpens(j) \/ EnqueueInserts(j)
         \/ \E j \in Jobs : Advance(j) \/ LeaseExpires(j)
         \/ \E w \in Workers : WritesBack(w) \/ RunnerCatches(w) \/ Dies(w)
         \/ \E w \in Workers : StepWorks(w)
         \/ \E j \in Jobs : \E n \in DOMAIN trans[j] : TranscriptEnds(j, n)
         \/ \E j \in Jobs : \E n \in DOMAIN ledger[j] : SweepSettles(j, n)
         \/ \E t \in Takeovers : Reconciles(t)
         \/ UNCHANGED vars
  BY DEF Next, Enqueue, Works, StepWorks

\* What a worker writes back is a job.
LEMMA JobUpdates ==
  ASSUME TypeInv, NEW r \in Worker, r.attempts < MAX_ATTEMPTS, NEW q \in Job
  PROVE  /\ [q EXCEPT !.status = StatusAfter(r.next), !.s = r.s, !.lease = FALSE, !.attempts = 0] \in Job
         /\ [q EXCEPT !.status = IF r.attempts + 1 >= MAX_ATTEMPTS THEN "failed" ELSE "pending",
               !.lease = FALSE, !.attempts = r.attempts + 1] \in Job
<1>1. MAX_ATTEMPTS \in Nat /\ 0 \in 0..MAX_ATTEMPTS
  BY VerifyAssumption
<1>2. r.attempts + 1 \in 0..MAX_ATTEMPTS /\ r.s \in StepState /\ r.next \in {"again", "done", "failed"}
  BY <1>1 DEF Worker
<1>3. [q EXCEPT !.status = StatusAfter(r.next), !.s = r.s, !.lease = FALSE, !.attempts = 0] \in Job
  BY <1>1, <1>2 DEF Job, StatusAfter
<1>4. [q EXCEPT !.status = IF r.attempts + 1 >= MAX_ATTEMPTS THEN "failed" ELSE "pending",
         !.lease = FALSE, !.attempts = r.attempts + 1] \in Job
  BY <1>2 DEF Job
<1> QED
  BY <1>3, <1>4

\* The type and the attempts left hold at the start.
LEMMA TypeInit == Init => TypeInv
<1> SUFFICES ASSUME Init PROVE TypeInv
  OBVIOUS
<1>1. MAX_ATTEMPTS \in Nat \ {0} /\ MaxTroubles \in Nat
  BY VerifyAssumption
<1>2. initialVerifyState \in StepState
  BY DEF initialVerifyState, StepState
<1>3. NewJob \in Job /\ NewJob.attempts = 0
  BY <1>1, <1>2 DEF NewJob, Job
<1>4. Idle \in Worker /\ Idle.pc = "idle" /\ Idle.job = None
  BY <1>1, <1>2 DEF Idle, Worker
<1>5. TypeOK
  BY <1>1, <1>3, <1>4 DEF Init, TypeOK
<1>6. AttemptsLeft
  BY <1>1, <1>3, <1>4 DEF Init, AttemptsLeft, Busy
<1> QED
  BY <1>5, <1>6 DEF TypeInv

\* Every step keeps the type and the attempts left.
LEMMA TypeStep == TypeInv /\ [Next]_vars => TypeInv'
<1> SUFFICES ASSUME TypeInv, [Next]_vars PROVE TypeInv'
  OBVIOUS
<1> USE DEF TypeInv
<1>0. /\ Idle \in Worker /\ Idle.pc = "idle" /\ Idle.job = None
      /\ MAX_ATTEMPTS \in Nat \ {0} /\ None \notin Jobs
  BY VerifyAssumption DEF Idle, Worker, initialVerifyState, StepState
<1>1. ASSUME NEW j \in Jobs, EnqueueFinds(j) \/ EnqueueOpens(j) \/ EnqueueInserts(j) PROVE TypeInv'
  <2>1. TypeOK'
    BY <1>1, VerifyAssumption DEF EnqueueFinds, EnqueueOpens, EnqueueInserts, TypeOK
  <2>2. AttemptsLeft'
    BY <1>1 DEF EnqueueFinds, EnqueueOpens, EnqueueInserts, AttemptsLeft, Busy
  <2> QED
    BY <2>1, <2>2
<1>2. ASSUME NEW j \in Jobs, Advance(j) PROVE TypeInv'
  <2> DEFINE w == CHOOSE w \in Free : TRUE
  <2> DEFINE q == [Idle EXCEPT !.pc = "step", !.job = j, !.s = jobs[j].s, !.attempts = jobs[j].attempts]
  <2>1. w \in Workers
    BY <1>2 DEF Advance, Free
  <2>2. jobs[j] \in Job /\ jobs[j].attempts < MAX_ATTEMPTS
    BY <1>2 DEF Advance, Leasable, AttemptsLeft, TypeOK
  <2>3. /\ q \in Worker /\ q.pc = "step" /\ q.job = j /\ q.attempts = jobs[j].attempts
    BY <2>2 DEF Idle, Worker, initialVerifyState, StepState, Job
  <2>4. [jobs[j] EXCEPT !.status = "running", !.lease = TRUE] \in Job
    BY <2>2 DEF Job
  <2>5. /\ work' = [work EXCEPT ![w] = q]
        /\ jobs' = [jobs EXCEPT ![j] = [jobs[j] EXCEPT !.status = "running", !.lease = TRUE]]
    BY <1>2 DEF Advance, TypeOK
  <2>6. TypeOK'
    BY <1>2, <2>1, <2>3, <2>4, <2>5 DEF Advance, TypeOK
  <2>7. AttemptsLeft'
    BY <2>1, <2>2, <2>3, <2>5 DEF AttemptsLeft, Busy, TypeOK, Job
  <2> QED
    BY <2>6, <2>7
<1>3. ASSUME NEW j \in Jobs, LeaseExpires(j) PROVE TypeInv'
  <2>1. jobs' = [jobs EXCEPT ![j] = [jobs[j] EXCEPT !.lease = FALSE]] /\ [jobs[j] EXCEPT !.lease = FALSE] \in Job
    BY <1>3 DEF LeaseExpires, TypeOK, Job
  <2>2. slow' \in 0..MaxTroubles
    BY <1>3, TroublesBound DEF LeaseExpires, TypeOK
  <2>3. TypeOK'
    BY <1>3, <2>1, <2>2 DEF LeaseExpires, TypeOK
  <2>4. AttemptsLeft'
    BY <1>3, <2>1 DEF LeaseExpires, AttemptsLeft, Busy, TypeOK, Job
  <2> QED
    BY <2>3, <2>4
<1>4. ASSUME NEW w \in Workers, WritesBack(w) \/ RunnerCatches(w) PROVE TypeInv'
  <2> DEFINE r == work[w]
  <2>1. r \in Worker /\ r.job \in Jobs /\ r.attempts < MAX_ATTEMPTS
    BY <1>4 DEF WritesBack, RunnerCatches, AttemptsLeft, Busy, TypeOK
  <2>2. work' = [work EXCEPT ![w] = Idle]
    BY <1>4 DEF WritesBack, RunnerCatches
  <2>3. faults' \in 0..MaxTroubles
    BY <1>4, TroublesBound DEF WritesBack, RunnerCatches, TypeOK
  <2>4. \E q \in Job : jobs' = [jobs EXCEPT ![r.job] = q] /\ (q.status # "failed" => q.attempts < MAX_ATTEMPTS)
    <3>1. jobs[r.job] \in Job
      BY <2>1 DEF TypeOK
    <3>2. CASE WritesBack(w)
      <4> DEFINE q == [jobs[r.job] EXCEPT !.status = StatusAfter(r.next), !.s = r.s, !.lease = FALSE, !.attempts = 0]
      <4>1. q \in Job
        BY <2>1, <3>1, JobUpdates
      <4>2. q.attempts < MAX_ATTEMPTS
        BY <1>0, <3>1 DEF Job
      <4>3. jobs' = [jobs EXCEPT ![r.job] = q]
        BY <2>1, <3>2 DEF WritesBack, TypeOK
      <4> QED
        BY <4>1, <4>2, <4>3
    <3>3. CASE RunnerCatches(w)
      <4> DEFINE q == [jobs[r.job] EXCEPT !.status = IF r.attempts + 1 >= MAX_ATTEMPTS THEN "failed" ELSE "pending",
                         !.lease = FALSE, !.attempts = r.attempts + 1]
      <4>1. q \in Job
        BY <2>1, <3>1, JobUpdates
      <4>2. q.status # "failed" => q.attempts < MAX_ATTEMPTS
        BY <1>0, <2>1, <3>1 DEF Job, Worker
      <4>3. jobs' = [jobs EXCEPT ![r.job] = q]
        BY <2>1, <3>3 DEF RunnerCatches, TypeOK
      <4> QED
        BY <4>1, <4>2, <4>3
    <3> QED
      BY <1>4, <3>2, <3>3
  <2>5. TypeOK'
    BY <1>0, <1>4, <2>1, <2>2, <2>3, <2>4 DEF WritesBack, RunnerCatches, TypeOK
  <2>6. AttemptsLeft'
    BY <1>0, <2>1, <2>2, <2>4 DEF AttemptsLeft, Busy, TypeOK
  <2> QED
    BY <2>5, <2>6
<1>5. ASSUME NEW w \in Workers, Dies(w) PROVE TypeInv'
  <2>1. TypeOK'
    BY <1>0, <1>5, TroublesBound DEF Dies, TypeOK
  <2>2. AttemptsLeft'
    BY <1>0, <1>5 DEF Dies, AttemptsLeft, Busy, TypeOK
  <2> QED
    BY <2>1, <2>2
<1>6. ASSUME NEW w \in Workers, StepWorks(w) PROVE TypeInv'
  <2>1. OwnStep(w) /\ Books'
    BY <1>6, OwnSteps, BooksStep
  <2>2. PICK r : Follows(work[w], r) /\ Becomes(w, r)
    BY <2>1 DEF OwnStep
  <2>3. TypeOK'
    BY <2>1, <2>2 DEF Books, Becomes, Follows, TypeOK
  <2>4. AttemptsLeft'
    BY <2>1, <2>2 DEF OwnStep, Becomes, Follows, AttemptsLeft, Busy, TypeOK
  <2> QED
    BY <2>3, <2>4
<1>7. ASSUME NEW j \in Jobs, NEW n \in DOMAIN trans[j], TranscriptEnds(j, n) PROVE TypeInv'
  <2>1. PICK v \in {"completed", "error"} : trans' = [trans EXCEPT ![j] = [trans[j] EXCEPT ![n] = v]]
    BY <1>7 DEF TranscriptEnds, TypeOK
  <2>2. trans[j] \in Seq({"processing", "completed", "error"})
    BY DEF TypeOK
  <2>3. [trans[j] EXCEPT ![n] = v] \in Seq({"processing", "completed", "error"})
    BY <2>2, SeqUpdate
  <2>4. TypeOK'
    BY <1>7, <2>1, <2>3 DEF TranscriptEnds, TypeOK
  <2>5. AttemptsLeft'
    BY <1>7 DEF TranscriptEnds, AttemptsLeft, Busy
  <2> QED
    BY <2>4, <2>5
<1>8. ASSUME NEW j \in Jobs, NEW n \in DOMAIN ledger[j], SweepSettles(j, n) PROVE TypeInv'
  <2>1. ledger' \in [Jobs -> Seq({"reserved", "settled", "released"})]
    BY <1>8, LedgerWrites DEF SweepSettles
  <2>2. faults' \in 0..MaxTroubles
    BY <1>8, TroublesBound DEF SweepSettles, TypeOK
  <2>3. TypeOK'
    BY <1>8, <2>1, <2>2 DEF SweepSettles, TypeOK
  <2>4. AttemptsLeft'
    BY <1>8 DEF SweepSettles, AttemptsLeft, Busy
  <2> QED
    BY <2>3, <2>4
<1>9. ASSUME NEW t \in Takeovers, Reconciles(t) PROVE TypeInv'
  <2>1. TypeOK'
    BY <1>9 DEF Reconciles, MarkedFailed, TypeOK
  <2>2. AttemptsLeft'
    BY <1>9 DEF Reconciles, AttemptsLeft, Busy
  <2> QED
    BY <2>1, <2>2
<1>10. CASE UNCHANGED vars
  BY <1>10 DEF vars, TypeOK, AttemptsLeft, Busy
<1> QED
  BY <1>1, <1>2, <1>3, <1>4, <1>5, <1>6, <1>7, <1>8, <1>9, <1>10, Steps

\* Rows, records and transcripts keep their types, and a job is given up at its
\* last attempt, never later.
THEOREM Typed == Spec => []TypeOK
<1>1. TypeInv => TypeOK
  BY DEF TypeInv
<1> QED
  BY <1>1, TypeInit, TypeStep, PTL DEF Spec

-----------------------------------------------------------------------------
\* A verification that has a result keeps one, and a completed one stays so.
LEMMA ResultStays ==
  ASSUME TypeInv, [Next]_vars, NEW t \in Takeovers
  PROVE  /\ ver[t] = "completed" => ver'[t] = "completed"
         /\ ver[t] = "failed" => ver'[t] \in {"completed", "failed"}
<1>1. ver \in [Takeovers -> {"none", "pending", "completed", "failed"}]
  BY DEF TypeInv, TypeOK
<1>2. CASE \E j \in Jobs : EnqueueFinds(j) \/ EnqueueOpens(j) \/ EnqueueInserts(j)
  BY <1>1, <1>2 DEF EnqueueFinds, EnqueueOpens, EnqueueInserts
<1>3. CASE \E j \in Jobs : Advance(j) \/ LeaseExpires(j)
  BY <1>3 DEF Advance, LeaseExpires
<1>4. CASE \E w \in Workers : WritesBack(w) \/ RunnerCatches(w) \/ Dies(w)
  BY <1>4 DEF WritesBack, RunnerCatches, Dies
<1>5. CASE \E w \in Workers : StepWorks(w)
  <2> PICK w \in Workers : StepWorks(w)
    BY <1>5
  <2>1. CASE MarksCompleted(w)
    BY <1>1, <2>1 DEF MarksCompleted
  <2>2. CASE MarksFailed(w)
    BY <1>1, <2>2 DEF MarksFailed, MarkedFailed
  <2>3. CASE MarkThrows(w)
    BY <1>1, <2>3 DEF MarkThrows, MarkedFailed
  <2>4. CASE UNCHANGED ver
    BY <2>4
  <2> QED
    BY <2>1, <2>2, <2>3, <2>4
    DEF StepWorks, StepFails, ArtifactsMissing, ArtifactsReady, SubmitWaits, SubmitCounts, Reserves,
        SubmitFails, Submitted, TranscriptPolls, TranscriptFailed, Settles, Closes
<1>6. CASE \/ \E j \in Jobs : \E n \in DOMAIN trans[j] : TranscriptEnds(j, n)
           \/ \E j \in Jobs : \E n \in DOMAIN ledger[j] : SweepSettles(j, n)
  BY <1>6 DEF TranscriptEnds, SweepSettles
<1>7. CASE \E u \in Takeovers : Reconciles(u)
  BY <1>1, <1>7 DEF Reconciles, MarkedFailed
<1>8. CASE UNCHANGED vars
  BY <1>8 DEF vars
<1> QED
  BY <1>2, <1>3, <1>4, <1>5, <1>6, <1>7, <1>8, Steps

\* A completed verification is never downgraded, by any number of jobs of its
\* pass, of workers on them and of retries.
THEOREM CompletedNeverLost == Spec => CompletedStays
<1>1. TypeInv /\ [Next]_vars => [\A t \in Takeovers : ver[t] = "completed" => ver'[t] = "completed"]_vars
  BY ResultStays
<1> QED
  BY <1>1, TypeInit, TypeStep, PTL DEF Spec, CompletedStays

-----------------------------------------------------------------------------
\* While no lease was lost, a worker holds its job's lease and is alone with it.
Alone ==
  slow = 0 =>
    \A w \in Workers : Busy(w) =>
      /\ jobs[work[w].job].lease
      /\ \A v \in Workers : Busy(v) /\ work[v].job = work[w].job => v = w

\* A lease is taken when it is free and given up with the record it was taken for.
LEMMA AloneStep == TypeInv /\ Alone /\ [Next]_vars => Alone'
<1> SUFFICES ASSUME TypeInv, Alone, [Next]_vars, slow' = 0,
                    NEW w \in Workers, Busy(w)'
             PROVE  /\ jobs'[work'[w].job].lease
                    /\ \A v \in Workers : Busy(v)' /\ work'[v].job = work'[w].job => v = w
  BY DEF Alone, Busy
<1>0. /\ Idle.pc = "idle"
      /\ TypeOK /\ AttemptsLeft
  BY DEF Idle, TypeInv
<1>1. CASE \E j \in Jobs : EnqueueFinds(j) \/ EnqueueOpens(j) \/ EnqueueInserts(j)
  BY <1>1 DEF EnqueueFinds, EnqueueOpens, EnqueueInserts, Alone, Busy
<1>2. ASSUME NEW j \in Jobs, Advance(j) PROVE
        /\ jobs'[work'[w].job].lease
        /\ \A v \in Workers : Busy(v)' /\ work'[v].job = work'[w].job => v = w
  <2> DEFINE u == CHOOSE u \in Free : TRUE
  <2>1. u \in Workers /\ slow = 0
    BY <1>2 DEF Advance, Free
  <2>2. /\ \A v \in Workers \ {u} : work'[v] = work[v]
        /\ work'[u].job = j /\ work'[u].pc = "step"
    BY <1>0, <1>2, <2>1 DEF Advance, TypeOK, Idle
  <2>3. /\ jobs'[j].lease
        /\ \A k \in Jobs \ {j} : jobs'[k] = jobs[k]
    BY <1>0, <1>2 DEF Advance, TypeOK, Job
  <2>4. \A v \in Workers : Busy(v) => work[v].job # j /\ work[v].job \in Jobs
    BY <1>0, <1>2, <2>1 DEF Alone, Advance, Leasable, AttemptsLeft
  <2>5. \A v \in Workers : Busy(v)' => v = u \/ (Busy(v) /\ work'[v] = work[v])
    BY <2>2 DEF Busy
  <2>6. CASE w = u
    <3>1. jobs'[work'[w].job].lease
      BY <2>2, <2>3, <2>6
    <3>2. \A v \in Workers : Busy(v)' /\ work'[v].job = work'[w].job => v = w
      BY <2>2, <2>4, <2>5, <2>6
    <3> QED
      BY <3>1, <3>2
  <2>7. CASE w # u
    <3>1. Busy(w) /\ work'[w] = work[w] /\ work[w].job # j /\ work[w].job \in Jobs
      BY <2>4, <2>5, <2>7
    <3>2. jobs'[work'[w].job].lease
      BY <2>1, <2>3, <3>1 DEF Alone
    <3>3. \A v \in Workers : Busy(v)' /\ work'[v].job = work'[w].job => v = w
      BY <2>1, <2>2, <2>5, <3>1 DEF Alone
    <3> QED
      BY <3>2, <3>3
  <2> QED
    BY <2>6, <2>7
<1>3. ASSUME NEW j \in Jobs, LeaseExpires(j) PROVE
        /\ jobs'[work'[w].job].lease
        /\ \A v \in Workers : Busy(v)' /\ work'[v].job = work'[w].job => v = w
  <2>1. slow = 0 /\ On(j) = {}
    BY <1>0, <1>3, VerifyAssumption DEF LeaseExpires, TypeOK
  <2>2. work[w].job # j /\ work[w].job \in Jobs /\ Busy(w)
    BY <1>0, <1>3, <2>1 DEF On, LeaseExpires, Busy, AttemptsLeft
  <2>3. jobs'[work[w].job] = jobs[work[w].job]
    BY <1>0, <1>3, <2>2 DEF LeaseExpires, TypeOK
  <2> QED
    BY <1>3, <2>1, <2>2, <2>3 DEF LeaseExpires, Alone, Busy
<1>4. ASSUME NEW u \in Workers, WritesBack(u) \/ RunnerCatches(u) \/ Dies(u) PROVE
        /\ jobs'[work'[w].job].lease
        /\ \A v \in Workers : Busy(v)' /\ work'[v].job = work'[w].job => v = w
  <2>1. slow = 0 /\ Busy(u)
    BY <1>4 DEF WritesBack, RunnerCatches, Dies, Busy
  <2>2. work' = [work EXCEPT ![u] = Idle]
    BY <1>4 DEF WritesBack, RunnerCatches, Dies
  <2>3. w # u /\ work'[w] = work[w] /\ Busy(w)
    BY <1>0, <2>2 DEF Busy, TypeOK
  <2>4. work[w].job # work[u].job /\ work[w].job \in Jobs
    BY <1>0, <2>1, <2>3 DEF Alone, AttemptsLeft
  <2>5. jobs'[work[w].job] = jobs[work[w].job]
    BY <1>0, <1>4, <2>4 DEF WritesBack, RunnerCatches, Dies, TypeOK
  <2>6. \A v \in Workers : Busy(v)' => Busy(v) /\ work'[v] = work[v]
    BY <1>0, <2>2 DEF Busy, TypeOK
  <2> QED
    BY <2>1, <2>3, <2>5, <2>6 DEF Alone
<1>5. ASSUME NEW u \in Workers, StepWorks(u) PROVE
        /\ jobs'[work'[w].job].lease
        /\ \A v \in Workers : Busy(v)' /\ work'[v].job = work'[w].job => v = w
  <2>1. OwnStep(u)
    BY <1>5, OwnSteps
  <2>2. /\ jobs' = jobs /\ slow = 0
        /\ \A v \in Workers : work'[v].job = work[v].job /\ (Busy(v)' => Busy(v))
    BY <1>0, <2>1 DEF OwnStep, Becomes, Follows, Busy, TypeOK
  <2> QED
    BY <2>2 DEF Alone
<1>6. CASE \/ \E j \in Jobs : \E n \in DOMAIN trans[j] : TranscriptEnds(j, n)
           \/ \E j \in Jobs : \E n \in DOMAIN ledger[j] : SweepSettles(j, n)
           \/ \E t \in Takeovers : Reconciles(t)
  BY <1>6 DEF TranscriptEnds, SweepSettles, Reconciles, Alone, Busy
<1>7. CASE UNCHANGED vars
  BY <1>7 DEF vars, Alone, Busy
<1> QED
  BY <1>1, <1>2, <1>3, <1>4, <1>5, <1>6, <1>7, Steps

\* Two calls of advance run the same job only after a step outlived its lease.
THEOREM OneWorker == Spec => []LeaseExclusive
<1>1. Init => Alone
  BY DEF Init, Alone, Busy, Idle
<1>2. TypeInv /\ Alone => LeaseExclusive
  <2> SUFFICES ASSUME TypeInv, Alone, slow = 0, NEW j \in Jobs PROVE Cardinality(On(j)) <= 1
    BY DEF LeaseExclusive
  <2>1. \A v \in On(j) : v \in Workers /\ Busy(v)
    BY VerifyAssumption DEF On, TypeInv, AttemptsLeft
  <2>2. \A v, w \in On(j) : v = w
    BY <2>1 DEF Alone, On
  <2>4. CASE On(j) = {}
    <3>1. Cardinality(On(j)) = 0
      BY <2>4, FS_EmptySet
    <3> QED
      BY <3>1
  <2>5. CASE On(j) # {}
    <3> PICK v : On(j) = {v}
      BY <2>2, <2>5
    <3>1. Cardinality(On(j)) = 1
      BY FS_Singleton
    <3> QED
      BY <3>1
  <2> QED
    BY <2>4, <2>5
<1> QED
  BY <1>1, <1>2, AloneStep, TypeInit, TypeStep, PTL DEF Spec

-----------------------------------------------------------------------------
\* What the row says when a worker with record r is done with it, or about to be.
Recorded(r, v) ==
  /\ r.pc = "merge" \/ (r.pc = "write" /\ r.next = "done") => v = "completed"
  /\ r.pc = "close" \/ (r.pc = "write" /\ r.next = "failed") => v \in {"completed", "failed"}

\* What ResultRecorded needs: a worker that will end its job has written the row.
ResultInv ==
  /\ \A w \in Workers : Busy(w) => Recorded(work[w], ver[TakeoverOf[work[w].job]])
  /\ ResultRecorded

\* A step writes the row before it tells the runner that the job is over.
LEMMA StepRecords ==
  ASSUME TypeInv, NEW w \in Workers, StepWorks(w),
         Recorded(work[w], ver[TakeoverOf[work[w].job]])
  PROVE  Recorded(work'[w], ver'[TakeoverOf[work[w].job]])
<1> DEFINE r == work[w]
<1>1. /\ r \in Worker /\ r.s \in StepState
      /\ work \in [Workers -> Worker]
  BY DEF TypeInv, TypeOK, Worker
<1>2. Busy(w)
  BY OwnSteps DEF OwnStep
<1>3. TakeoverOf[r.job] \in Takeovers /\ ver \in [Takeovers -> {"none", "pending", "completed", "failed"}]
  BY <1>2, VerifyAssumption DEF TypeInv, TypeOK, AttemptsLeft
<1>4. \A v : \A permanent, free \in BOOLEAN : Recorded(Caught(r, permanent, free), v)
  BY <1>1 DEF Recorded, Caught, Worker
<1>5. \A v : Recorded(PollAgain(r), v) /\ \A max : Recorded(TryAgain(r, max), v)
  BY <1>1, <1>4 DEF Recorded, PollAgain, TryAgain, Worker
<1>u. \A q : Becomes(w, q) => work'[w] = q
  BY <1>1 DEF Becomes
<1>6. CASE StepFails(w) \/ ArtifactsMissing(w) \/ SubmitWaits(w) \/ SubmitFails(w)
           \/ TranscriptPolls(w) \/ TranscriptFailed(w)
  <2>1. \/ \E permanent, free \in BOOLEAN : work'[w] = Caught(r, permanent, free)
        \/ work'[w] = PollAgain(r)
        \/ \E max : work'[w] = TryAgain(r, max)
    BY <1>6, <1>u
    DEF StepFails, ArtifactsMissing, SubmitWaits, SubmitFails, TranscriptPolls, TranscriptFailed
  <2> QED
    BY <1>4, <1>5, <2>1
<1>7. CASE ArtifactsReady(w) \/ SubmitCounts(w) \/ Reserves(w) \/ Submitted(w)
  <2>1. CASE ArtifactsReady(w)
    BY <1>1, <1>u, <2>1 DEF ArtifactsReady, Recorded, Worker
  <2>2. CASE SubmitCounts(w)
    BY <1>1, <1>u, <2>2 DEF SubmitCounts, Recorded, Worker
  <2>3. CASE Reserves(w)
    BY <1>1, <1>u, <2>3 DEF Reserves, Recorded, Worker
  <2>4. CASE Submitted(w)
    BY <1>1, <1>u, <2>4 DEF Submitted, Recorded, Worker
  <2> QED
    BY <1>7, <2>1, <2>2, <2>3, <2>4
<1>8. CASE MarksCompleted(w)
  BY <1>1, <1>3, <1>8 DEF MarksCompleted, Becomes, Recorded, Worker
<1>9. CASE Settles(w)
  BY <1>1, <1>9 DEF Settles, Becomes, Recorded, Worker
<1>10. CASE MarksFailed(w)
  BY <1>1, <1>3, <1>10 DEF MarksFailed, MarkedFailed, Becomes, Recorded, Worker
<1>11. CASE MarkThrows(w)
  BY <1>1, <1>11 DEF MarkThrows, Becomes, Recorded, Worker
<1>12. CASE Closes(w)
  BY <1>1, <1>12 DEF Closes, Becomes, Recorded, Worker
<1> QED
  BY <1>6, <1>7, <1>8, <1>9, <1>10, <1>11, <1>12 DEF StepWorks

\* Every step keeps the rows ahead of the jobs.
LEMMA ResultStep == TypeInv /\ ResultInv /\ [Next]_vars => ResultInv'
<1> SUFFICES ASSUME TypeInv, ResultInv, [Next]_vars PROVE ResultInv'
  OBVIOUS
<1>0. /\ TypeOK /\ AttemptsLeft /\ Idle.pc = "idle"
      /\ TakeoverOf \in [Jobs -> Takeovers]
  BY VerifyAssumption DEF Idle, TypeInv
<1>1. /\ \A t \in Takeovers : ver[t] = "completed" => ver'[t] = "completed"
      /\ \A t \in Takeovers : ver[t] = "failed" => ver'[t] \in {"completed", "failed"}
  BY ResultStays
<1>2. ASSUME NEW w \in Workers, Busy(w), work'[w] = work[w]
      PROVE  Recorded(work'[w], ver'[TakeoverOf[work'[w].job]])
  BY <1>0, <1>1, <1>2 DEF ResultInv, Recorded, AttemptsLeft
<1>3. ASSUME jobs' = jobs PROVE ResultRecorded'
  BY <1>0, <1>1, <1>3 DEF ResultInv, ResultRecorded
<1>4. CASE \/ \E j \in Jobs : EnqueueFinds(j) \/ EnqueueOpens(j) \/ EnqueueInserts(j)
           \/ \E j \in Jobs : \E n \in DOMAIN trans[j] : TranscriptEnds(j, n)
           \/ \E j \in Jobs : \E n \in DOMAIN ledger[j] : SweepSettles(j, n)
           \/ \E t \in Takeovers : Reconciles(t)
           \/ UNCHANGED vars
  <2>1. work' = work /\ jobs' = jobs
    BY <1>4 DEF EnqueueFinds, EnqueueOpens, EnqueueInserts, TranscriptEnds, SweepSettles, Reconciles, vars
  <2> QED
    BY <1>2, <1>3, <2>1 DEF ResultInv, Busy
<1>5. ASSUME NEW j \in Jobs, Advance(j) PROVE ResultInv'
  <2> DEFINE u == CHOOSE u \in Free : TRUE
  <2>1. u \in Workers
    BY <1>5 DEF Advance, Free
  <2>2. \A w \in Workers : (w = u /\ work'[w].pc = "step") \/ work'[w] = work[w]
    BY <1>0, <1>5, <2>1 DEF Advance, TypeOK, Idle
  <2>3. \A w \in Workers : Busy(w)' => Recorded(work'[w], ver'[TakeoverOf[work'[w].job]])
    BY <1>2, <2>2 DEF Busy, Recorded
  <2>4. ResultRecorded'
    BY <1>0, <1>5 DEF Advance, ResultInv, ResultRecorded, TypeOK, Job
  <2> QED
    BY <2>3, <2>4 DEF ResultInv
<1>6. ASSUME NEW j \in Jobs, LeaseExpires(j) PROVE ResultInv'
  <2>1. \A w \in Workers : Busy(w)' => Recorded(work'[w], ver'[TakeoverOf[work'[w].job]])
    BY <1>2, <1>6 DEF LeaseExpires, Busy
  <2>2. ResultRecorded'
    BY <1>0, <1>6 DEF LeaseExpires, ResultInv, ResultRecorded, TypeOK, Job
  <2> QED
    BY <2>1, <2>2 DEF ResultInv
<1>7. ASSUME NEW u \in Workers, WritesBack(u) \/ RunnerCatches(u) \/ Dies(u) PROVE ResultInv'
  <2>1. work' = [work EXCEPT ![u] = Idle] /\ ver' = ver
    BY <1>7 DEF WritesBack, RunnerCatches, Dies
  <2>2. \A w \in Workers : Busy(w)' => Recorded(work'[w], ver'[TakeoverOf[work'[w].job]])
    BY <1>0, <1>2, <2>1 DEF Busy, TypeOK
  <2>3. Busy(u) /\ work[u] \in Worker /\ work[u].job \in Jobs /\ jobs[work[u].job] \in Job
    BY <1>0, <1>7 DEF WritesBack, RunnerCatches, Dies, Busy, AttemptsLeft, TypeOK
  <2>4. CASE WritesBack(u)
    <3>1. Recorded(work[u], ver[TakeoverOf[work[u].job]]) /\ work[u].pc = "write"
      BY <2>3, <2>4 DEF ResultInv, WritesBack
    <3>2. /\ jobs'[work[u].job].status = StatusAfter(work[u].next)
          /\ \A j \in Jobs : j # work[u].job => jobs'[j] = jobs[j]
      BY <1>0, <2>3, <2>4 DEF WritesBack, TypeOK, Job
    <3> QED
      BY <2>1, <2>2, <3>1, <3>2 DEF ResultInv, ResultRecorded, Recorded, StatusAfter
  <2>5. CASE RunnerCatches(u)
    <3>1. /\ jobs'[work[u].job].status \in {"failed", "pending"}
          /\ jobs'[work[u].job].attempts = work[u].attempts + 1
          /\ \A j \in Jobs : j # work[u].job => jobs'[j] = jobs[j]
      BY <1>0, <2>3, <2>5 DEF RunnerCatches, TypeOK, Job
    <3>2. work[u].attempts + 1 # 0
      BY <2>3, VerifyAssumption DEF Worker
    <3> QED
      BY <2>1, <2>2, <3>1, <3>2 DEF ResultInv, ResultRecorded
  <2>6. CASE Dies(u)
    BY <1>3, <2>2, <2>6 DEF Dies, ResultInv
  <2> QED
    BY <1>7, <2>4, <2>5, <2>6
<1>8. ASSUME NEW u \in Workers, StepWorks(u) PROVE ResultInv'
  <2>1. OwnStep(u) /\ jobs' = jobs
    BY <1>8, OwnSteps DEF OwnStep, Becomes
  <2>2. /\ \A w \in Workers \ {u} : work'[w] = work[w]
        /\ work'[u].job = work[u].job
    BY <1>0, <2>1 DEF OwnStep, Becomes, Follows, TypeOK
  <2>3. Recorded(work'[u], ver'[TakeoverOf[work'[u].job]])
    BY <1>8, <2>1, <2>2, StepRecords DEF ResultInv, OwnStep
  <2>4. \A w \in Workers : Busy(w)' => Recorded(work'[w], ver'[TakeoverOf[work'[w].job]])
    BY <1>2, <2>2, <2>3 DEF Busy
  <2> QED
    BY <1>3, <2>1, <2>4 DEF ResultInv
<1> QED
  BY <1>4, <1>5, <1>6, <1>7, <1>8, Steps

\* The row has its result before the job that made it ends.
THEOREM ResultBeforeEnd == Spec => []ResultRecorded
<1>1. Init => ResultInv
  BY DEF Init, ResultInv, ResultRecorded, Busy, Idle, NewJob
<1>2. ResultInv => ResultRecorded
  BY DEF ResultInv
<1> QED
  BY <1>1, <1>2, ResultStep, TypeInit, TypeStep, PTL DEF Spec


\* What the runs check of the runner at once: types, one worker, results recorded first.
THEOREM JobsSoundAlways == Spec => []JobsSound
BY Typed, OneWorker, ResultBeforeEnd, PTL DEF JobsSound

-----------------------------------------------------------------------------
\* The money.  What each step's state says of the transcript and the reservation it
\* stands for, the way the row and every worker's copy of it hold them.
Pairs(j) == {<<s.tr, s.res>> : s \in {jobs[j].s} \cup {work[w].s : w \in On(j)}}
Posting(w) == work[w].pc = "post"

\* A state has a transcript, one of its job's, in its last step only.
Sited(j, s) ==
  /\ s.step = "await_transcript" <=> s.tr # 0
  /\ s.tr \in 0..Len(trans[j])

\* What holds of a record by itself.
Apart(r) ==
  /\ Sited(r.job, r.s)
  /\ r.pc \in {"reserve", "post"} => r.s.step = "submit"
  /\ r.free => r.pc \in {"mark", "close", "throw"} /\ r.s.tr # 0 /\ trans[r.job][r.s.tr] = "error"

Local ==
  /\ \A j \in Jobs : Sited(j, jobs[j].s) /\ (jobs[j].lease => jobs[j].status = "running")
  /\ \A w \in Workers : Busy(w) => Apart(work[w])

\* A transcript has a reservation, given back only after its error.
PairSound(j, p) ==
  /\ p[2] \in 0..Len(ledger[j])
  /\ p[1] = 0 <=> p[2] = 0
  /\ p[1] # 0 /\ trans[j][p[1]] # "error" => ledger[j][p[2]] # "released"

\* A reservation stands for one transcript, and one that waits for its transcript is
\* its worker's own.
PairsSound ==
  \A j \in Jobs : /\ \A p \in Pairs(j) : PairSound(j, p)
                  /\ \A p, q \in Pairs(j) : p[2] = q[2] => p[1] = q[1]

PostSound(w) ==
  LET r == work[w]
  IN /\ r.res \in 1..Len(ledger[r.job])
     /\ ledger[r.job][r.res] # "released"
     /\ \A p \in Pairs(r.job) : p[2] # r.res
     /\ \A v \in Workers : Posting(v) /\ work[v].job = r.job /\ work[v].res = r.res => v = w

Held == PairsSound /\ \A w \in Workers : Posting(w) => PostSound(w)

\* A step that neither submits nor reserves leaves the record's transcript and its
\* reservation alone, and posts nothing it did not post.
LEMMA HoldsOn ==
  ASSUME TypeInv, NEW w \in Workers, StepWorks(w), ~Submitted(w)
  PROVE  /\ work'[w].s.tr = work[w].s.tr
         /\ work'[w].s.res = work[w].s.res
         /\ Posting(w)' => Reserves(w)
<1> DEFINE r == work[w]
<1>1. r \in Worker /\ r.s \in StepState /\ work \in [Workers -> Worker]
  BY DEF TypeInv, TypeOK, Worker
<1>2. \A q : Becomes(w, q) => work'[w] = q
  BY <1>1 DEF Becomes
<1>3. \A permanent, free : LET q == Caught(r, permanent, free)
                           IN q.s.tr = r.s.tr /\ q.s.res = r.s.res /\ q.pc \in {"mark", "write"}
  BY <1>1 DEF Caught, Worker, StepState
<1>4. LET q == PollAgain(r) IN q.s.tr = r.s.tr /\ q.s.res = r.s.res /\ q.pc = "write"
  BY <1>1 DEF PollAgain, Worker, StepState
<1>5. \A max : LET q == TryAgain(r, max)
               IN q.s.tr = r.s.tr /\ q.s.res = r.s.res /\ q.pc \in {"mark", "write"}
  BY <1>3, <1>4 DEF TryAgain
<1>6. CASE StepFails(w) \/ ArtifactsMissing(w) \/ SubmitWaits(w) \/ SubmitFails(w)
           \/ TranscriptPolls(w) \/ TranscriptFailed(w)
  <2>1. \/ \E permanent, free \in BOOLEAN : work'[w] = Caught(r, permanent, free)
        \/ work'[w] = PollAgain(r)
        \/ \E max : work'[w] = TryAgain(r, max)
    BY <1>2, <1>6
    DEF StepFails, ArtifactsMissing, SubmitWaits, SubmitFails, TranscriptPolls, TranscriptFailed
  <2> QED
    BY <1>3, <1>4, <1>5, <2>1 DEF Posting
<1>7. CASE ArtifactsReady(w)
  <2>1. work'[w].s = goto(r.s, "submit") /\ work'[w].pc = "write"
    BY <1>1, <1>2, <1>7 DEF ArtifactsReady, Worker
  <2> QED
    BY <1>1, <2>1 DEF goto, Posting, StepState
<1>8. CASE SubmitCounts(w) \/ MarksCompleted(w) \/ MarksFailed(w) \/ MarkThrows(w)
  BY <1>1, <1>2, <1>8 DEF SubmitCounts, MarksCompleted, MarksFailed, MarkThrows, Posting, Worker
<1>9. CASE Reserves(w)
  BY <1>1, <1>2, <1>9 DEF Reserves, Worker
<1>10. CASE Settles(w) \/ Closes(w)
  BY <1>1, <1>2, <1>10 DEF Settles, Closes, Posting, Worker
<1> QED
  BY <1>6, <1>7, <1>8, <1>9, <1>10 DEF StepWorks

\* What Pairs collects: the row's pair and those of the job's workers.
LEMMA PairsAre ==
  ASSUME NEW j \in Jobs
  PROVE  /\ \A p : p \in Pairs(j) <=> \/ p = <<jobs[j].s.tr, jobs[j].s.res>>
                                      \/ \E w \in Workers : work[w].job = j /\ p = <<work[w].s.tr, work[w].s.res>>
         /\ \A p : p \in Pairs(j)' <=> \/ p = <<jobs'[j].s.tr, jobs'[j].s.res>>
                                       \/ \E w \in Workers : work'[w].job = j /\ p = <<work'[w].s.tr, work'[w].s.res>>
<1>1. \A p : p \in Pairs(j) <=> \/ p = <<jobs[j].s.tr, jobs[j].s.res>>
                                \/ \E w \in Workers : work[w].job = j /\ p = <<work[w].s.tr, work[w].s.res>>
  BY DEF Pairs, On
<1>2. \A p : p \in Pairs(j)' <=> \/ p = <<jobs'[j].s.tr, jobs'[j].s.res>>
                                 \/ \E w \in Workers : work'[w].job = j /\ p = <<work'[w].s.tr, work'[w].s.res>>
  BY DEF Pairs, On
<1> QED
  BY <1>1, <1>2

\* What the runner writes of a row when a worker is done.
LEMMA RowWrites ==
  ASSUME TypeInv, NEW u \in Workers
  PROVE  /\ WritesBack(u) =>
              /\ work[u].job \in Jobs /\ work[u].pc = "write"
              /\ \A j \in Jobs : j # work[u].job => jobs'[j] = jobs[j]
              /\ jobs'[work[u].job].s = work[u].s
              /\ jobs'[work[u].job].status = StatusAfter(work[u].next)
              /\ ~jobs'[work[u].job].lease
         /\ RunnerCatches(u) =>
              /\ work[u].job \in Jobs /\ work[u].pc \in {"write", "throw"}
              /\ \A j \in Jobs : j # work[u].job => jobs'[j] = jobs[j]
              /\ jobs'[work[u].job].s = jobs[work[u].job].s
              /\ ~jobs'[work[u].job].lease
              /\ work[u].pc = "write" => faults' = faults + 1
<1>1. Busy(u) => work[u].job \in Jobs /\ jobs[work[u].job] \in Job
  BY DEF TypeInv, TypeOK, AttemptsLeft
<1>2. jobs \in [Jobs -> Job]
  BY DEF TypeInv, TypeOK
<1>3. ASSUME WritesBack(u)
      PROVE  /\ work[u].job \in Jobs /\ work[u].pc = "write"
             /\ \A j \in Jobs : j # work[u].job => jobs'[j] = jobs[j]
             /\ jobs'[work[u].job].s = work[u].s
             /\ jobs'[work[u].job].status = StatusAfter(work[u].next)
             /\ ~jobs'[work[u].job].lease
  BY <1>1, <1>2, <1>3 DEF WritesBack, Busy, Job
<1>4. ASSUME RunnerCatches(u)
      PROVE  /\ work[u].job \in Jobs /\ work[u].pc \in {"write", "throw"}
             /\ \A j \in Jobs : j # work[u].job => jobs'[j] = jobs[j]
             /\ jobs'[work[u].job].s = jobs[work[u].job].s
             /\ ~jobs'[work[u].job].lease
             /\ work[u].pc = "write" => faults' = faults + 1
  BY <1>1, <1>2, <1>4 DEF RunnerCatches, Busy, Job
<1> QED
  BY <1>3, <1>4

\* A state is copied from the row to a worker and back, and only a submit makes a pair.
LEMMA PairsStay ==
  ASSUME TypeInv, [Next]_vars, \A w \in Workers : ~Submitted(w), NEW j \in Jobs
  PROVE  Pairs(j)' \subseteq Pairs(j)
<1>0. /\ TypeOK /\ AttemptsLeft /\ None \notin Jobs
      /\ Idle.job = None
  BY VerifyAssumption DEF TypeInv, Idle
<1>a. ASSUME NEW w \in Workers, work'[w].job = j => work[w].job = j /\ work'[w].s.tr = work[w].s.tr
                                                    /\ work'[w].s.res = work[w].s.res
      PROVE  work'[w].job = j => <<work'[w].s.tr, work'[w].s.res>> \in Pairs(j)
  BY <1>a, PairsAre
<1>1. CASE \/ \E k \in Jobs : EnqueueFinds(k) \/ EnqueueOpens(k) \/ EnqueueInserts(k)
           \/ \E k \in Jobs : \E n \in DOMAIN trans[k] : TranscriptEnds(k, n)
           \/ \E k \in Jobs : \E n \in DOMAIN ledger[k] : SweepSettles(k, n)
           \/ \E t \in Takeovers : Reconciles(t)
           \/ UNCHANGED vars
  <2>1. work' = work /\ jobs' = jobs
    BY <1>1 DEF EnqueueFinds, EnqueueOpens, EnqueueInserts, TranscriptEnds, SweepSettles, Reconciles, vars
  <2> QED
    BY <2>1, PairsAre
<1>2. ASSUME NEW k \in Jobs, Advance(k) PROVE Pairs(j)' \subseteq Pairs(j)
  <2> DEFINE u == CHOOSE u \in Free : TRUE
  <2>1. u \in Workers
    BY <1>2 DEF Advance, Free
  <2>2. /\ \A w \in Workers \ {u} : work'[w] = work[w]
        /\ work'[u].job = k /\ work'[u].s = jobs[k].s
        /\ jobs'[j].s = jobs[j].s
    BY <1>0, <1>2, <2>1 DEF Advance, TypeOK, Idle, Job
  <2>3. \A w \in Workers : work'[w].job = j => <<work'[w].s.tr, work'[w].s.res>> \in Pairs(j)
    BY <2>2, PairsAre
  <2>4. <<jobs'[j].s.tr, jobs'[j].s.res>> \in Pairs(j)
    BY <2>2, PairsAre
  <2>5. \A p \in Pairs(j)' : \/ p = <<jobs'[j].s.tr, jobs'[j].s.res>>
                             \/ \E w \in Workers : work'[w].job = j /\ p = <<work'[w].s.tr, work'[w].s.res>>
    BY PairsAre
  <2> QED
    BY <2>3, <2>4, <2>5
<1>3. ASSUME NEW k \in Jobs, LeaseExpires(k) PROVE Pairs(j)' \subseteq Pairs(j)
  <2>1. work' = work /\ jobs'[j].s = jobs[j].s
    BY <1>0, <1>3 DEF LeaseExpires, TypeOK, Job
  <2> QED
    BY <2>1, PairsAre
<1>4. ASSUME NEW u \in Workers, WritesBack(u) \/ RunnerCatches(u) \/ Dies(u) PROVE Pairs(j)' \subseteq Pairs(j)
  <2>1. work' = [work EXCEPT ![u] = Idle]
    BY <1>4 DEF WritesBack, RunnerCatches, Dies
  <2>2. \A w \in Workers : work'[w].job = j => work'[w] = work[w]
    BY <1>0, <2>1 DEF TypeOK
  <2>3. jobs'[j].s = jobs[j].s \/ (work[u].job = j /\ jobs'[j].s = work[u].s)
    BY <1>4, RowWrites DEF Dies
  <2> QED
    BY <2>2, <2>3, PairsAre
<1>5. ASSUME NEW u \in Workers, StepWorks(u) PROVE Pairs(j)' \subseteq Pairs(j)
  <2>1. OwnStep(u)
    BY <1>5, OwnSteps
  <2>2. /\ jobs' = jobs
        /\ \A w \in Workers \ {u} : work'[w] = work[w]
        /\ work'[u].job = work[u].job
    BY <1>0, <2>1 DEF OwnStep, Becomes, Follows, TypeOK
  <2>3. work'[u].s.tr = work[u].s.tr /\ work'[u].s.res = work[u].s.res
    BY <1>5, HoldsOn
  <2> QED
    BY <2>2, <2>3, PairsAre
<1> QED
  BY <1>1, <1>2, <1>3, <1>4, <1>5, Steps

-----------------------------------------------------------------------------
\* Transcripts are added, and an error is final.
LEMMA TransGrows ==
  ASSUME TypeInv, [Next]_vars, NEW j \in Jobs
  PROVE  /\ Len(trans'[j]) \in Nat /\ Len(trans[j]) \in Nat /\ Len(trans'[j]) >= Len(trans[j])
         /\ \A n \in 1..Len(trans[j]) : trans[j][n] = "error" => trans'[j][n] = "error"
<1>0. /\ TypeOK /\ trans[j] \in Seq({"processing", "completed", "error"}) /\ Len(trans[j]) \in Nat
  BY DEF TypeInv, TypeOK
<1>1. CASE trans' = trans
  BY <1>0, <1>1
<1>2. ASSUME NEW w \in Workers, Submitted(w)
      PROVE  trans'[j] = trans[j] \/ trans'[j] = Append(trans[j], "processing")
  BY <1>0, <1>2 DEF Submitted, TypeOK
<1>3. ASSUME NEW k \in Jobs, NEW n \in DOMAIN trans[k], TranscriptEnds(k, n)
      PROVE  /\ Len(trans'[j]) = Len(trans[j])
             /\ \A m \in 1..Len(trans[j]) : trans[j][m] = "error" => trans'[j][m] = "error"
  <2>1. PICK v \in {"completed", "error"} : trans' = [trans EXCEPT ![k] = [trans[k] EXCEPT ![n] = v]]
    BY <1>0, <1>3 DEF TranscriptEnds, TypeOK
  <2>2. trans[k][n] = "processing"
    BY <1>3 DEF TranscriptEnds
  <2>3. CASE j # k
    BY <1>0, <2>1, <2>3 DEF TypeOK
  <2>4. CASE j = k
    <3>1. trans'[j] = [trans[j] EXCEPT ![n] = v]
      BY <1>0, <2>1, <2>4 DEF TypeOK
    <3> QED
      BY <1>0, <2>2, <2>4, <3>1
  <2> QED
    BY <2>3, <2>4
<1>4. CASE \E w \in Workers : Submitted(w)
  BY <1>0, <1>2, <1>4
<1>5. CASE \E k \in Jobs : \E n \in DOMAIN trans[k] : TranscriptEnds(k, n)
  BY <1>0, <1>3, <1>5
<1>6. \/ trans' = trans \/ \E w \in Workers : Submitted(w)
      \/ \E k \in Jobs : \E n \in DOMAIN trans[k] : TranscriptEnds(k, n)
  BY Steps
  DEF EnqueueFinds, EnqueueOpens, EnqueueInserts, Advance, LeaseExpires, WritesBack, RunnerCatches, Dies,
      SweepSettles, Reconciles, vars, StepWorks, StepFails, ArtifactsMissing, ArtifactsReady, SubmitWaits,
      SubmitCounts, Reserves, SubmitFails, TranscriptPolls, TranscriptFailed, MarksCompleted, Settles,
      MarksFailed, MarkThrows, Closes
<1> QED
  BY <1>1, <1>4, <1>5, <1>6

\* So a state's place stays, whatever ends beside it.
LEMMA SitedStays ==
  ASSUME TypeInv, [Next]_vars, NEW j \in Jobs, NEW s \in StepState, Sited(j, s)
  PROVE  /\ Sited(j, s)'
         /\ s.tr # 0 /\ trans[j][s.tr] = "error" => trans'[j][s.tr] = "error"
<1>1. s.tr \in Nat
  BY DEF StepState
<1> QED
  BY <1>1, TransGrows DEF Sited

\* What holds of each record and row by itself, at the start and after a step of
\* the worker that has the record.
LEMMA LocalInit == Init => Local
  BY DEF Init, Local, Sited, Busy, Idle, NewJob, initialVerifyState

LEMMA ApartStep ==
  ASSUME TypeInv, [Next]_vars, NEW w \in Workers, StepWorks(w), Apart(work[w])
  PROVE  Apart(work[w])'
<1> DEFINE r == work[w]
<1> DEFINE j == work[w].job
<1>1. /\ r \in Worker /\ r.s \in StepState /\ work \in [Workers -> Worker]
      /\ j \in Jobs /\ trans \in [Jobs -> Seq({"processing", "completed", "error"})]
  BY OwnSteps DEF OwnStep, TypeInv, TypeOK, AttemptsLeft, Worker
<1>2. \A q : Becomes(w, q) => work'[w] = q
  BY <1>1 DEF Becomes
<1>3. work'[w].job = j
  BY <1>1, OwnSteps DEF OwnStep, Becomes, Follows
<1>s. /\ r.s.step = "await_transcript" <=> r.s.tr # 0
      /\ r.s.tr \in 0..Len(trans'[j])
      /\ r.s.tr # 0 /\ trans[j][r.s.tr] = "error" => trans'[j][r.s.tr] = "error"
  BY <1>1, SitedStays DEF Apart, Sited
<1>4. ASSUME NEW permanent \in BOOLEAN, NEW free \in BOOLEAN, work'[w] = Caught(r, permanent, free),
             free => r.s.tr # 0 /\ trans[j][r.s.tr] = "error", r.pc \notin {"mark", "close", "throw"}
      PROVE  Apart(work[w])'
  <2> DEFINE s == [r.s EXCEPT !.failures = @ + 1]
  <2>1. s.step = r.s.step /\ s.tr = r.s.tr
    BY <1>1 DEF StepState
  <2>2. /\ work'[w].s = s
        /\ work'[w].pc \in {"mark", "write"}
        /\ work'[w].free => work'[w].pc = "mark" /\ free
    BY <1>1, <1>4 DEF Caught, Worker, Apart
  <2> HIDE DEF s
  <2> QED
    BY <1>3, <1>s, <1>4, <2>1, <2>2 DEF Apart, Sited
<1>5. ASSUME work'[w] = PollAgain(r), r.pc = "step" PROVE Apart(work[w])'
  <2>1. /\ work'[w].s = [r.s EXCEPT !.tries = @ + 1, !.failures = 0]
        /\ work'[w].pc = "write" /\ ~work'[w].free
    BY <1>1, <1>5 DEF PollAgain, Worker, Apart
  <2>2. work'[w].s.step = r.s.step /\ work'[w].s.tr = r.s.tr
    BY <1>1, <2>1 DEF StepState
  <2> QED
    BY <1>3, <1>s, <2>1, <2>2 DEF Apart, Sited
<1>6. ASSUME NEW max, work'[w] = TryAgain(r, max), r.pc = "step" PROVE Apart(work[w])'
  BY <1>4, <1>5, <1>6 DEF TryAgain
<1>7. CASE StepFails(w) \/ SubmitFails(w)
  BY <1>2, <1>4, <1>7 DEF StepFails, SubmitFails
<1>8. CASE ArtifactsMissing(w) \/ SubmitWaits(w)
  BY <1>2, <1>6, <1>8 DEF ArtifactsMissing, SubmitWaits, InStep
<1>9. CASE TranscriptPolls(w) \/ TranscriptFailed(w)
  BY <1>2, <1>4, <1>5, <1>9 DEF TranscriptPolls, TranscriptFailed, InStep, Apart, Sited
<1>10. CASE ArtifactsReady(w)
  <2>1. work'[w].s = goto(r.s, "submit") /\ work'[w].pc = "write" /\ ~work'[w].free /\ r.s.step = "await_artifacts"
    BY <1>1, <1>2, <1>10 DEF ArtifactsReady, InStep, Worker, Apart
  <2>2. work'[w].s.step = "submit" /\ work'[w].s.tr = r.s.tr
    BY <1>1, <2>1 DEF goto, StepState
  <2> QED
    BY <1>3, <1>s, <2>1, <2>2 DEF Apart, Sited
<1>11. CASE Submitted(w)
  <2>1. /\ work'[w].s = [goto(r.s, "await_transcript") EXCEPT !.tr = Len(trans[j]) + 1, !.res = r.res]
        /\ work'[w].pc = "write" /\ ~work'[w].free
    BY <1>1, <1>2, <1>11 DEF Submitted, Worker, Apart
  <2>2. work'[w].s.step = "await_transcript" /\ work'[w].s.tr = Len(trans[j]) + 1
    BY <1>1, <2>1 DEF goto, StepState
  <2>3. Len(trans[j]) \in Nat /\ Len(trans'[j]) = Len(trans[j]) + 1
    BY <1>1, <1>11 DEF Submitted
  <2> QED
    BY <1>3, <2>1, <2>2, <2>3 DEF Apart, Sited
<1>12. CASE SubmitCounts(w) \/ Reserves(w) \/ MarksCompleted(w) \/ Settles(w)
  <2>1. work'[w].s = r.s /\ ~work'[w].free /\ (work'[w].pc \in {"reserve", "post"} => r.s.step = "submit")
    BY <1>1, <1>2, <1>12 DEF SubmitCounts, Reserves, MarksCompleted, Settles, InStep, Worker, Apart
  <2> QED
    BY <1>3, <1>s, <2>1 DEF Apart, Sited
<1>13. CASE MarksFailed(w) \/ MarkThrows(w) \/ Closes(w)
  <2>1. /\ work'[w].s = r.s /\ work'[w].pc \in {"close", "throw", "write"}
        /\ work'[w].free => r.free /\ work'[w].pc \in {"close", "throw"}
    BY <1>1, <1>2, <1>13 DEF MarksFailed, MarkThrows, Closes, Worker
  <2> QED
    BY <1>3, <1>s, <2>1 DEF Apart, Sited
<1> QED
  BY <1>7, <1>8, <1>9, <1>10, <1>11, <1>12, <1>13 DEF StepWorks

\* Every step keeps what holds of the records and the rows by themselves.
LEMMA LocalStep == TypeInv /\ Local /\ [Next]_vars => Local'
<1> SUFFICES ASSUME TypeInv, Local, [Next]_vars PROVE Local'
  OBVIOUS
<1>0. /\ TypeOK /\ AttemptsLeft /\ Idle.pc = "idle"
      /\ \A j \in Jobs : jobs[j].s \in StepState
      /\ \A w \in Workers : work[w].s \in StepState
  BY DEF TypeInv, TypeOK, Idle, Job, Worker
<1> DEFINE Rows == \A j \in Jobs : Sited(j, jobs[j].s) /\ (jobs[j].lease => jobs[j].status = "running")
<1>a. \A j \in Jobs : Sited(j, jobs[j].s)'  \/ jobs'[j].s # jobs[j].s
  BY <1>0, SitedStays DEF Local, Sited
<1>b. ASSUME NEW w \in Workers, Busy(w), work'[w] = work[w] PROVE Apart(work[w])'
  <2>1. work[w].job \in Jobs
    BY <1>0, <1>b DEF AttemptsLeft
  <2> QED
    BY <1>0, <1>b, <2>1, SitedStays DEF Local, Apart, Sited
<1>1. CASE \/ \E k \in Jobs : EnqueueFinds(k) \/ EnqueueOpens(k) \/ EnqueueInserts(k)
           \/ \E k \in Jobs : \E n \in DOMAIN trans[k] : TranscriptEnds(k, n)
           \/ \E k \in Jobs : \E n \in DOMAIN ledger[k] : SweepSettles(k, n)
           \/ \E t \in Takeovers : Reconciles(t)
           \/ UNCHANGED vars
  <2>1. jobs' = jobs /\ work' = work
    BY <1>1 DEF EnqueueFinds, EnqueueOpens, EnqueueInserts, TranscriptEnds, SweepSettles, Reconciles, vars
  <2> QED
    BY <1>a, <1>b, <2>1 DEF Local, Busy
<1>2. ASSUME NEW k \in Jobs, Advance(k) PROVE Local'
  <2> DEFINE u == CHOOSE u \in Free : TRUE
  <2>1. u \in Workers
    BY <1>2 DEF Advance, Free
  <2>2. /\ \A w \in Workers \ {u} : work'[w] = work[w]
        /\ work'[u].pc = "step" /\ work'[u].s = jobs[k].s /\ work'[u].job = k /\ ~work'[u].free
    BY <1>0, <1>2, <2>1 DEF Advance, TypeOK, Idle
  <2>3. /\ \A j \in Jobs : jobs'[j].s = jobs[j].s /\ (j # k => jobs'[j] = jobs[j])
        /\ jobs'[k].status = "running"
    BY <1>0, <1>2 DEF Advance, TypeOK, Job
  <2> HIDE DEF u
  <2>4. Rows'
    BY <1>a, <2>3 DEF Local
  <2>5. ASSUME NEW w \in Workers, Busy(w)' PROVE Apart(work[w])'
    <3>1. CASE w = u
      BY <1>a, <2>2, <2>3, <3>1 DEF Apart, Sited
    <3>2. CASE w # u
      BY <1>b, <2>2, <2>5, <3>2 DEF Busy
    <3> QED
      BY <3>1, <3>2
  <2> QED
    BY <2>4, <2>5 DEF Local
<1>3. ASSUME NEW k \in Jobs, LeaseExpires(k) PROVE Local'
  <2>1. /\ \A j \in Jobs : jobs'[j].s = jobs[j].s /\ jobs'[j].status = jobs[j].status
                           /\ (jobs'[j].lease => jobs[j].lease)
        /\ work' = work
    BY <1>0, <1>3 DEF LeaseExpires, TypeOK, Job
  <2> QED
    BY <1>a, <1>b, <2>1 DEF Local, Busy
<1>4. ASSUME NEW u \in Workers, WritesBack(u) \/ RunnerCatches(u) \/ Dies(u) PROVE Local'
  <2>1. work' = [work EXCEPT ![u] = Idle] /\ trans' = trans
    BY <1>4 DEF WritesBack, RunnerCatches, Dies
  <2>2. \A w \in Workers : Busy(w)' => Busy(w) /\ work'[w] = work[w]
    BY <1>0, <2>1 DEF Busy, TypeOK
  <2>3. \A w \in Workers : Busy(w)' => Apart(work[w])'
    BY <1>b, <2>2
  <2>4. Rows'
    <3>1. CASE WritesBack(u)
      <4>1. Apart(work[u])
        BY <3>1 DEF Local, WritesBack, Busy
      <4> QED
        BY <1>a, <2>1, <3>1, <4>1, RowWrites DEF Local, Apart, Sited
    <3>2. CASE RunnerCatches(u)
      BY <1>a, <3>2, RowWrites DEF Local
    <3>3. CASE Dies(u)
      BY <1>a, <3>3 DEF Dies, Local
    <3> QED
      BY <1>4, <3>1, <3>2, <3>3
  <2> QED
    BY <2>3, <2>4 DEF Local
<1>5. ASSUME NEW u \in Workers, StepWorks(u) PROVE Local'
  <2>1. OwnStep(u) /\ jobs' = jobs
    BY <1>5, OwnSteps DEF OwnStep, Becomes
  <2>2. Apart(work[u])'
    BY <1>5, <2>1, ApartStep DEF Local, OwnStep
  <2>3. ASSUME NEW w \in Workers, w # u, Busy(w)' PROVE Apart(work[w])'
    <3>1. work'[w] = work[w] /\ Busy(w)
      BY <1>0, <2>1, <2>3 DEF OwnStep, Becomes, Follows, TypeOK, Busy
    <3> QED
      BY <1>b, <3>1
  <2> QED
    BY <1>a, <2>1, <2>2, <2>3 DEF Local
<1> QED
  BY <1>1, <1>2, <1>3, <1>4, <1>5, Steps

-----------------------------------------------------------------------------
\* What the writes of the ledger do to its rows.
LEMMA LedgerEffects ==
  ASSUME TypeInv, NEW k \in Jobs, NEW n \in Nat, NEW j \in Jobs
  PROVE  /\ release(k, n) \/ settle(k, n) =>
              /\ Len(ledger'[j]) = Len(ledger[j])
              /\ \A m \in 1..Len(ledger[j]) : ledger'[j][m] = "reserved" => ledger[j][m] = "reserved" /\ ~(j = k /\ m = n)
         /\ release(k, n) => \A m \in 1..Len(ledger[j]) :
                               ledger'[j][m] = "released" => ledger[j][m] = "released" \/ (j = k /\ m = n)
         /\ settle(k, n) => \A m \in 1..Len(ledger[j]) : ledger'[j][m] = "released" => ledger[j][m] = "released"
<1>1. /\ ledger \in [Jobs -> Seq({"reserved", "settled", "released"})]
      /\ ledger[j] \in Seq({"reserved", "settled", "released"})
      /\ ledger[k] \in Seq({"reserved", "settled", "released"})
  BY DEF TypeInv, TypeOK
<1>2. release(k, n) => ledger' = [ledger EXCEPT ![k] = [ledger[k] EXCEPT
                                    ![n] = IF ledger[k][n] = "reserved" THEN "released" ELSE ledger[k][n]]]
  BY <1>1 DEF release
<1>3. settle(k, n) => ledger' = [ledger EXCEPT ![k] = [ledger[k] EXCEPT ![n] = "settled"]]
  BY <1>1 DEF settle
<1>4. release(k, n) => ledger'[j] = IF j = k THEN [ledger[j] EXCEPT
                                    ![n] = IF ledger[j][n] = "reserved" THEN "released" ELSE ledger[j][n]] ELSE ledger[j]
  BY <1>1, <1>2
<1>5. settle(k, n) => ledger'[j] = IF j = k THEN [ledger[j] EXCEPT ![n] = "settled"] ELSE ledger[j]
  BY <1>1, <1>3
<1>6. ASSUME NEW v, v \in {"settled", "released"} \/ (v = ledger[j][n] /\ v # "reserved"),
             j = k, ledger'[j] = [ledger[j] EXCEPT ![n] = v]
      PROVE  /\ Len(ledger'[j]) = Len(ledger[j])
             /\ \A m \in 1..Len(ledger[j]) : ledger'[j][m] = IF m = n THEN v ELSE ledger[j][m]
  BY <1>1, <1>6
<1>7. CASE j # k
  BY <1>4, <1>5, <1>7
<1>8. CASE j = k /\ release(k, n)
  <2> DEFINE v == IF ledger[j][n] = "reserved" THEN "released" ELSE ledger[j][n]
  <2>1. /\ Len(ledger'[j]) = Len(ledger[j])
        /\ \A m \in 1..Len(ledger[j]) : ledger'[j][m] = IF m = n THEN v ELSE ledger[j][m]
    BY <1>4, <1>6, <1>8
  <2> QED
    BY <1>5, <1>6, <1>8, <2>1
<1>9. CASE j = k /\ settle(k, n)
  <2>1. /\ Len(ledger'[j]) = Len(ledger[j])
        /\ \A m \in 1..Len(ledger[j]) : ledger'[j][m] = IF m = n THEN "settled" ELSE ledger[j][m]
    BY <1>5, <1>6, <1>9
  <2> QED
    BY <1>9, <2>1
<1> QED
  BY <1>7, <1>8, <1>9

\* A step that makes no pair and no posting, and gives back a reservation only when
\* no pair is left that needs it.
GivenBack(j, n) ==
  /\ \A p \in Pairs(j) : p[2] = n => trans'[j][p[1]] = "error"
  /\ \A w \in Workers : Posting(w)' /\ work'[w].job = j => work'[w].res # n

Quiet ==
  /\ \A j \in Jobs : Pairs(j)' \subseteq Pairs(j)
  /\ \A w \in Workers : Posting(w)' => work'[w] = work[w]
  /\ \A j \in Jobs :
       /\ Len(ledger'[j]) = Len(ledger[j])
       /\ \A n \in 1..Len(ledger[j]) :
            ledger'[j][n] = "released" => ledger[j][n] = "released" \/ GivenBack(j, n)

\* The transcripts of the pairs.
LEMMA PairsSited ==
  ASSUME TypeInv, Local, NEW j \in Jobs, NEW p \in Pairs(j)
  PROVE  p[1] \in 0..Len(trans[j])
<1>1. /\ Sited(j, jobs[j].s)
      /\ \A w \in Workers : work[w].job = j => Sited(j, work[w].s)
  BY VerifyAssumption DEF TypeInv, AttemptsLeft, Local, Apart
<1> QED
  BY <1>1, PairsAre DEF Sited

LEMMA QuietHolds ==
  ASSUME TypeInv, Local, Held, [Next]_vars, Quiet
  PROVE  Held'
<1>1. ASSUME NEW j \in Jobs, NEW p \in Pairs(j)' PROVE PairSound(j, p)'
  <2>1. p \in Pairs(j) /\ PairSound(j, p) /\ p[1] \in 0..Len(trans[j])
    BY <1>1, PairsSited DEF Quiet, Held, PairsSound
  <2>2. /\ Len(ledger'[j]) = Len(ledger[j])
        /\ p[2] \in 0..Len(ledger[j])
        /\ p[1] = 0 <=> p[2] = 0
    BY <2>1 DEF Quiet, PairSound
  <2>3. ASSUME p[1] # 0, trans'[j][p[1]] # "error" PROVE ledger'[j][p[2]] # "released"
    <3>1. trans[j][p[1]] # "error"
      BY <2>1, <2>3, TransGrows
    <3>2. ledger[j][p[2]] # "released" /\ p[2] \in 1..Len(ledger[j])
      BY <2>1, <2>2, <2>3, <3>1 DEF PairSound
    <3> QED
      BY <2>1, <2>3, <3>2 DEF Quiet, GivenBack
  <2> QED
    BY <2>2, <2>3 DEF PairSound
<1>2. ASSUME NEW w \in Workers, Posting(w)' PROVE PostSound(w)'
  <2>1. work'[w] = work[w] /\ Posting(w) /\ PostSound(w)
    BY <1>2 DEF Quiet, Posting, Held
  <2>2. work[w].job \in Jobs
    BY <2>1 DEF Posting, TypeInv, AttemptsLeft, Busy
  <2>3. /\ work[w].res \in 1..Len(ledger'[work[w].job])
        /\ ledger'[work[w].job][work[w].res] # "released"
    BY <1>2, <2>1, <2>2 DEF Quiet, GivenBack, PostSound
  <2>4. \A p \in Pairs(work[w].job)' : p[2] # work[w].res
    BY <2>1, <2>2 DEF Quiet, PostSound
  <2>5. \A v \in Workers : Posting(v)' => Posting(v) /\ work'[v] = work[v]
    BY DEF Quiet, Posting
  <2> QED
    BY <2>1, <2>3, <2>4, <2>5 DEF PostSound
<1>3. \A j \in Jobs : \A p, q \in Pairs(j)' : p[2] = q[2] => p[1] = q[1]
  BY DEF Quiet, Held, PairsSound
<1> QED
  BY <1>1, <1>2, <1>3 DEF Held, PairsSound

\* Nothing is posted but by a reservation just made.
LEMMA PostingStays ==
  ASSUME TypeInv, [Next]_vars, NEW w \in Workers, ~Reserves(w), Posting(w)'
  PROVE  work'[w] = work[w]
<1>0. TypeOK /\ Idle.pc = "idle"
  BY DEF TypeInv, Idle
<1>1. CASE \/ \E k \in Jobs : EnqueueFinds(k) \/ EnqueueOpens(k) \/ EnqueueInserts(k)
           \/ \E k \in Jobs : LeaseExpires(k)
           \/ \E k \in Jobs : \E n \in DOMAIN trans[k] : TranscriptEnds(k, n)
           \/ \E k \in Jobs : \E n \in DOMAIN ledger[k] : SweepSettles(k, n)
           \/ \E t \in Takeovers : Reconciles(t)
           \/ UNCHANGED vars
  BY <1>1
  DEF EnqueueFinds, EnqueueOpens, EnqueueInserts, LeaseExpires, TranscriptEnds, SweepSettles, Reconciles, vars
<1>2. CASE \E k \in Jobs : Advance(k)
  BY <1>0, <1>2 DEF Advance, Posting, TypeOK, Idle
<1>3. CASE \E u \in Workers : WritesBack(u) \/ RunnerCatches(u) \/ Dies(u)
  BY <1>0, <1>3 DEF WritesBack, RunnerCatches, Dies, Posting, TypeOK
<1>4. ASSUME NEW u \in Workers, StepWorks(u) PROVE work'[w] = work[w]
  <2>1. w # u => work'[w] = work[w]
    BY <1>0, <1>4, OwnSteps DEF OwnStep, Becomes, TypeOK
  <2>2. CASE Submitted(u)
    BY <1>0, <2>1, <2>2 DEF Submitted, Becomes, Posting, TypeOK, Worker
  <2>3. CASE ~Submitted(u)
    BY <1>4, <2>1, <2>3, HoldsOn
  <2> QED
    BY <2>2, <2>3
<1> QED
  BY <1>1, <1>2, <1>3, <1>4, Steps

\* Only a reservation whose transcript was refused, or reported an error, is given back.
LEMMA QuietStep ==
  ASSUME TypeInv, Local, Held, [Next]_vars, \A w \in Workers : ~Submitted(w) /\ ~Reserves(w)
  PROVE  Quiet
<1> DEFINE Kept(j) == /\ Len(ledger'[j]) = Len(ledger[j])
                      /\ \A n \in 1..Len(ledger[j]) :
                           ledger'[j][n] = "released" => ledger[j][n] = "released" \/ GivenBack(j, n)
<1>0. TypeOK /\ AttemptsLeft
  BY DEF TypeInv
<1>1. CASE ledger' = ledger
  BY <1>1, PairsStay, PostingStays DEF Quiet
<1>2. ASSUME NEW w \in Workers, SubmitFails(w), release(work[w].job, work[w].res), NEW j \in Jobs
      PROVE  Kept(j)
  <2> DEFINE k == work[w].job
  <2> DEFINE n == work[w].res
  <2>1. Posting(w) /\ PostSound(w) /\ k \in Jobs /\ n \in Nat
    BY <1>0, <1>2 DEF SubmitFails, Posting, Held, AttemptsLeft, Busy, TypeOK, Worker
  <2>2. /\ Len(ledger'[j]) = Len(ledger[j])
        /\ \A m \in 1..Len(ledger[j]) : ledger'[j][m] = "released" => ledger[j][m] = "released" \/ (j = k /\ m = n)
    BY <1>2, <2>1, LedgerEffects
  <2>3. ~Posting(w)'
    BY <1>2, HoldsOn DEF StepWorks, Submitted, SubmitFails, Reserves
  <2>4. \A v \in Workers : Posting(v)' => work'[v] = work[v] /\ Posting(v)
    BY PostingStays DEF Posting
  <2>5. GivenBack(k, n)
    BY <2>1, <2>3, <2>4 DEF GivenBack, PostSound
  <2> QED
    BY <2>2, <2>5
<1>3. ASSUME NEW w \in Workers, Closes(w), work[w].s.res # 0, Unbilled(work[w]),
             release(work[w].job, work[w].s.res), NEW j \in Jobs
      PROVE  Kept(j)
  <2> DEFINE k == work[w].job
  <2> DEFINE n == work[w].s.res
  <2> DEFINE p == <<work[w].s.tr, work[w].s.res>>
  <2>1. k \in Jobs /\ n \in Nat /\ Busy(w) /\ trans' = trans
    BY <1>0, <1>3 DEF Closes, AttemptsLeft, Busy, TypeOK, Worker, StepState
  <2>2. p \in Pairs(k) /\ p[2] = n /\ PairSound(k, p)
    BY <2>1, PairsAre DEF Held, PairsSound
  <2>3. p[1] # 0 /\ p[1] = work[w].s.tr
    BY <1>3, <2>2 DEF PairSound
  <2>4. trans[k][p[1]] = "error"
    BY <1>3, <2>1, <2>3 DEF Unbilled, Local, Apart
  <2>5. /\ Len(ledger'[j]) = Len(ledger[j])
        /\ \A m \in 1..Len(ledger[j]) : ledger'[j][m] = "released" => ledger[j][m] = "released" \/ (j = k /\ m = n)
    BY <1>3, <2>1, LedgerEffects
  <2>6. \A v \in Workers : Posting(v)' => work'[v] = work[v] /\ Posting(v)
    BY PostingStays DEF Posting
  <2>7. \A q \in Pairs(k) : q[2] = n => q[1] = p[1]
    BY <2>1, <2>2 DEF Held, PairsSound
  <2>8. \A v \in Workers : Posting(v)' /\ work'[v].job = k => work'[v].res # n
    BY <2>2, <2>6 DEF Held, PostSound
  <2>9. GivenBack(k, n)
    BY <2>1, <2>4, <2>7, <2>8 DEF GivenBack
  <2> QED
    BY <2>5, <2>9
<1>4. ASSUME NEW k \in Jobs, NEW n \in Nat, settle(k, n), NEW j \in Jobs PROVE Kept(j)
  BY <1>4, LedgerEffects
<1>5. ASSUME NEW w \in Workers, StepWorks(w), NEW j \in Jobs PROVE Kept(j)
  <2>1. work[w].job \in Jobs /\ work[w].s.res \in Nat
    BY <1>0, <1>5, OwnSteps DEF OwnStep, AttemptsLeft, TypeOK, Worker, StepState
  <2>2. CASE SubmitFails(w)
    BY <1>2, <2>2 DEF SubmitFails, LedgerFails
  <2>3. CASE Settles(w)
    BY <1>4, <2>1, <2>3 DEF Settles, LedgerFails
  <2>4. CASE Closes(w)
    BY <1>3, <1>4, <2>1, <2>4 DEF Closes, LedgerFails
  <2>5. CASE ledger' = ledger
    BY <2>5
  <2> QED
    BY <1>5, <2>2, <2>3, <2>4, <2>5
    DEF StepWorks, StepFails, ArtifactsMissing, ArtifactsReady, SubmitWaits, SubmitCounts, Submitted,
        TranscriptPolls, TranscriptFailed, MarksCompleted, MarksFailed, MarkThrows
<1>6. ASSUME NEW k \in Jobs, NEW n \in DOMAIN ledger[k], SweepSettles(k, n), NEW j \in Jobs PROVE Kept(j)
  <2>1. n \in Nat
    BY <1>0 DEF TypeOK
  <2> QED
    BY <1>4, <1>6, <2>1 DEF SweepSettles
<1>7. \/ ledger' = ledger
      \/ \E w \in Workers : StepWorks(w)
      \/ \E k \in Jobs : \E n \in DOMAIN ledger[k] : SweepSettles(k, n)
  BY Steps
  DEF EnqueueFinds, EnqueueOpens, EnqueueInserts, Advance, LeaseExpires, WritesBack, RunnerCatches, Dies,
      TranscriptEnds, Reconciles, vars
<1>8. CASE \A j \in Jobs : Kept(j)
  BY <1>8, PairsStay, PostingStays DEF Quiet
<1> QED
  BY <1>1, <1>5, <1>6, <1>7, <1>8

\* A new reservation is its worker's own.
LEMMA ReservesHolds ==
  ASSUME TypeInv, Local, Held, [Next]_vars, NEW w \in Workers, Reserves(w)
  PROVE  Held'
<1> DEFINE k == work[w].job
<1> DEFINE n == Len(ledger[k]) + 1
<1>1. /\ k \in Jobs /\ work \in [Workers -> Worker]
      /\ ledger \in [Jobs -> Seq({"reserved", "settled", "released"})]
      /\ ledger[k] \in Seq({"reserved", "settled", "released"})
      /\ Len(ledger[k]) \in Nat
  BY DEF Reserves, TypeInv, TypeOK, AttemptsLeft, Busy
<1>2. /\ ledger'[k] = Append(ledger[k], "reserved")
      /\ \A j \in Jobs : j # k => ledger'[j] = ledger[j]
      /\ trans' = trans
      /\ work'[w].pc = "post" /\ work'[w].res = n /\ work'[w].job = k
      /\ \A v \in Workers : v # w => work'[v] = work[v]
  BY <1>1 DEF Reserves, Becomes, Worker
<1>3. /\ Len(ledger'[k]) = Len(ledger[k]) + 1
      /\ ledger'[k][n] = "reserved"
      /\ \A m \in 1..Len(ledger[k]) : ledger'[k][m] = ledger[k][m]
  BY <1>1, <1>2
<1>4. \A v \in Workers : ~Submitted(v)
  <2>1. ledger' # ledger
    BY <1>1, <1>3
  <2> QED
    BY <2>1 DEF Submitted
<1>5. \A j \in Jobs : Pairs(j)' \subseteq Pairs(j)
  BY <1>4, PairsStay
<1>6. ASSUME NEW j \in Jobs, NEW m \in 1..Len(ledger[j])
      PROVE  m \in 1..Len(ledger'[j]) /\ ledger'[j][m] = ledger[j][m]
  <2>1. CASE j = k
    BY <1>1, <1>3, <2>1
  <2>2. CASE j # k
    BY <1>2, <2>2
  <2> QED
    BY <2>1, <2>2
<1>7. ASSUME NEW j \in Jobs, NEW p \in Pairs(j)' PROVE PairSound(j, p)' /\ PairSound(j, p)
  <2>1. p \in Pairs(j) /\ PairSound(j, p)
    BY <1>5 DEF Held, PairsSound
  <2> QED
    BY <1>2, <1>6, <2>1 DEF PairSound
<1>8. PairsSound'
  BY <1>5, <1>7 DEF Held, PairsSound
<1>9. ASSUME NEW v \in Workers, v # w, Posting(v)' PROVE PostSound(v)' /\ (work'[v].job = k => work'[v].res # n)
  <2>1. work'[v] = work[v] /\ Posting(v) /\ PostSound(v) /\ work[v].job \in Jobs
    BY <1>2, <1>9 DEF Posting, Held, TypeInv, AttemptsLeft, Busy
  <2>2. work[v].res \in 1..Len(ledger[work[v].job])
    BY <2>1 DEF PostSound
  <2>3. work[v].job = k => work[v].res # n
    BY <1>1, <2>2
  <2>4. \A p \in Pairs(work[v].job)' : p[2] # work[v].res
    BY <1>5, <2>1 DEF PostSound
  <2>5. \A u \in Workers : Posting(u)' /\ work'[u].job = work[v].job /\ work'[u].res = work[v].res => u = v
    BY <1>2, <2>1, <2>3 DEF PostSound, Posting
  <2> QED
    BY <1>6, <2>1, <2>2, <2>3, <2>4, <2>5 DEF PostSound
<1>10. PostSound(w)'
  <2>1. \A p \in Pairs(work[w].job)' : p[2] # n
    BY <1>1, <1>2, <1>7 DEF PairSound
  <2> QED
    BY <1>1, <1>2, <1>3, <1>9, <2>1 DEF PostSound
<1> QED
  BY <1>8, <1>9, <1>10 DEF Held

\* A submit moves the reservation that its worker alone held to a new transcript.
LEMMA SubmittedHolds ==
  ASSUME TypeInv, Local, Held, [Next]_vars, NEW w \in Workers, Submitted(w)
  PROVE  Held'
<1> DEFINE k == work[w].job
<1> DEFINE n == work[w].res
<1> DEFINE t == Len(trans[k]) + 1
<1>1. /\ k \in Jobs /\ work \in [Workers -> Worker] /\ work[w].s \in StepState
      /\ trans \in [Jobs -> Seq({"processing", "completed", "error"})]
      /\ trans[k] \in Seq({"processing", "completed", "error"})
      /\ Len(trans[k]) \in Nat
      /\ Posting(w) /\ PostSound(w)
  BY DEF Submitted, TypeInv, TypeOK, AttemptsLeft, Busy, Posting, Held, Worker
<1>2. /\ ledger' = ledger /\ jobs' = jobs
      /\ trans'[k] = Append(trans[k], "processing")
      /\ work'[w].s = [goto(work[w].s, "await_transcript") EXCEPT !.tr = t, !.res = n]
      /\ work'[w].pc = "write" /\ work'[w].job = k
      /\ \A v \in Workers : v # w => work'[v] = work[v]
  BY <1>1 DEF Submitted, Becomes, Worker
<1>3. work'[w].s.tr = t /\ work'[w].s.res = n
  BY <1>1, <1>2 DEF goto, StepState
<1>4. ASSUME NEW j \in Jobs, NEW p \in Pairs(j)' PROVE p \in Pairs(j) \/ (j = k /\ p = <<t, n>>)
  <2>1. \/ p = <<jobs'[j].s.tr, jobs'[j].s.res>>
        \/ \E v \in Workers : work'[v].job = j /\ p = <<work'[v].s.tr, work'[v].s.res>>
    BY PairsAre
  <2>2. CASE p = <<jobs'[j].s.tr, jobs'[j].s.res>>
    BY <1>2, <2>2, PairsAre
  <2>3. ASSUME NEW v \in Workers, work'[v].job = j, p = <<work'[v].s.tr, work'[v].s.res>>
        PROVE  p \in Pairs(j) \/ (j = k /\ p = <<t, n>>)
    BY <1>2, <1>3, <2>3, PairsAre
  <2> QED
    BY <2>1, <2>2, <2>3
<1>5. ASSUME NEW j \in Jobs, NEW p \in Pairs(j)' PROVE PairSound(j, p)'
  <2>1. CASE p \in Pairs(j)
    <3>1. PairSound(j, p) /\ p[1] \in 0..Len(trans[j])
      BY <2>1, PairsSited DEF Held, PairsSound
    <3>2. p[1] # 0 /\ trans'[j][p[1]] # "error" => trans[j][p[1]] # "error"
      BY <3>1, TransGrows
    <3> QED
      BY <1>2, <3>1, <3>2 DEF PairSound
  <2>2. CASE j = k /\ p = <<t, n>>
    <3>1. p[1] = t /\ p[2] = n /\ t # 0
      BY <1>1, <2>2
    <3>2. n \in 1..Len(ledger[k]) /\ ledger[k][n] # "released"
      BY <1>1 DEF PostSound
    <3> HIDE DEF t, n, k
    <3> QED
      BY <1>2, <2>2, <3>1, <3>2 DEF PairSound
  <2> QED
    BY <1>4, <2>1, <2>2
<1>6. ASSUME NEW j \in Jobs, NEW p \in Pairs(j)', NEW q \in Pairs(j)', p[2] = q[2] PROVE p[1] = q[1]
  <2>1. \A r \in Pairs(k) : r[2] # n
    BY <1>1 DEF PostSound
  <2>2. <<t, n>>[2] = n
    OBVIOUS
  <2>3. p \in Pairs(j) /\ q \in Pairs(j) => p[1] = q[1]
    BY <1>6 DEF Held, PairsSound
  <2> HIDE DEF t, n, k
  <2> QED
    BY <1>4, <1>6, <2>1, <2>2, <2>3
<1>7. ASSUME NEW v \in Workers, Posting(v)' PROVE PostSound(v)'
  <2>1. v # w /\ work'[v] = work[v] /\ Posting(v) /\ PostSound(v) /\ work[v].job \in Jobs
    BY <1>2, <1>7 DEF Posting, Held, TypeInv, AttemptsLeft, Busy
  <2>2. work[v].job = k => work[v].res # n
    BY <1>1, <2>1 DEF PostSound
  <2>3. \A p \in Pairs(work[v].job)' : p[2] # work[v].res
    <3>1. \A p \in Pairs(work[v].job) : p[2] # work[v].res
      BY <2>1 DEF PostSound
    <3>2. <<t, n>>[2] = n
      OBVIOUS
    <3> HIDE DEF t, n, k
    <3> QED
      BY <1>4, <2>1, <2>2, <3>1, <3>2
  <2>4. \A u \in Workers : Posting(u)' => work'[u] = work[u] /\ Posting(u)
    BY <1>2 DEF Posting
  <2> QED
    BY <1>2, <2>1, <2>3, <2>4 DEF PostSound
<1> QED
  BY <1>5, <1>6, <1>7 DEF Held, PairsSound

\* Every step keeps the reservations with their transcripts.
LEMMA HeldStep == TypeInv /\ Local /\ Held /\ [Next]_vars => Held'
  BY QuietStep, QuietHolds, ReservesHolds, SubmittedHolds

LEMMA HeldInit == Init => Held
<1> SUFFICES ASSUME Init PROVE Held
  OBVIOUS
<1>1. ASSUME NEW j \in Jobs, NEW p \in Pairs(j) PROVE p = <<0, 0>>
  BY <1>1, PairsAre, VerifyAssumption DEF Init, NewJob, Idle, initialVerifyState
<1>2. ASSUME NEW j \in Jobs, NEW p \in Pairs(j) PROVE PairSound(j, p)
  BY <1>1, <1>2 DEF Init, PairSound
<1>3. \A w \in Workers : ~Posting(w)
  BY DEF Init, Posting, Idle
<1> QED
  BY <1>1, <1>2, <1>3 DEF Held, PairsSound

\* While a job holds a transcript that reported no error its money is not given back.
LEMMA HeldNotReleased == Held => BilledNotReleased
<1> SUFFICES ASSUME Held, NEW j \in Jobs, jobs[j].s.tr # 0, trans[j][jobs[j].s.tr] # "error"
             PROVE  ledger[j][jobs[j].s.res] # "released"
  BY DEF BilledNotReleased
<1>1. PairSound(j, <<jobs[j].s.tr, jobs[j].s.res>>)
  BY PairsAre DEF Held, PairsSound
<1> QED
  BY <1>1 DEF PairSound

\* A reservation in the ledger that is still open is the business of the worker on the
\* job, or of the row when none is; the record says where.
Holds(r, n) ==
  IF r.pc = "post" THEN r.res = n
  ELSE r.s.res = n /\ ~(r.pc = "write" /\ r.next \in {"done", "failed"})

Open(j, n) == n \in 1..Len(ledger[j]) /\ ledger[j][n] = "reserved"

Owner(j, n) ==
  \/ \E w \in Workers : work[w].job = j /\ Holds(work[w], n)
  \/ (\A w \in Workers : work[w].job # j) /\ ~Ended(j) /\ jobs[j].s.res = n

Owned ==
  slow = 0 /\ faults = 0 =>
    /\ \A j \in Jobs : \A n : Open(j, n) => Owner(j, n)
    /\ \A w \in Workers : work[w].pc # "throw"

\* The worker alone on a job, whose ledger errors none, leaves open only what it holds.
LEMMA HoldsStep ==
  ASSUME TypeInv, Local, Held, NEW w \in Workers, StepWorks(w), faults' = 0,
         \A n : Open(work[w].job, n) => Holds(work[w], n)
  PROVE  /\ \A n : n \in 1..Len(ledger'[work[w].job]) /\ ledger'[work[w].job][n] = "reserved" => Holds(work'[w], n)
         /\ work'[w].pc # "throw"
         /\ \A j \in Jobs : j # work[w].job => ledger'[j] = ledger[j]
<1> DEFINE r == work[w]
<1> DEFINE q == work'[w]
<1> DEFINE k == work[w].job
<1> DEFINE Left(n) == n \in 1..Len(ledger'[k]) /\ ledger'[k][n] = "reserved"
<1>0. /\ Busy(w) /\ k \in Jobs
      /\ work \in [Workers -> Worker] /\ faults \in Nat
      /\ ledger \in [Jobs -> Seq({"reserved", "settled", "released"})]
  BY OwnSteps DEF OwnStep, TypeInv, TypeOK, AttemptsLeft
<1>1. /\ r \in Worker /\ r.s \in StepState /\ work \in [Workers -> Worker] /\ k \in Jobs
      /\ r.s.res \in Nat /\ r.res \in Nat /\ faults \in Nat
      /\ ledger \in [Jobs -> Seq({"reserved", "settled", "released"})]
      /\ ledger[k] \in Seq({"reserved", "settled", "released"})
      /\ Len(ledger[k]) \in Nat
      /\ Busy(w)
  BY <1>0 DEF Worker, StepState
<1>2. \A x : Becomes(w, x) => q = x
  BY <1>1 DEF Becomes
<1>3. ~LedgerFails /\ ~MarkThrows(w)
  BY <1>1 DEF LedgerFails, MarkThrows
<1>4. ASSUME ledger' = ledger, r.pc # "post", q.pc # "post", q.s.res = r.s.res,
             q.pc # "write" \/ q.next = "again", NEW n, Left(n)
      PROVE  Holds(q, n)
  BY <1>4 DEF Open, Holds
<1>5. ASSUME NEW m \in Nat, release(k, m) \/ settle(k, m), NEW n, Left(n)
      PROVE  Open(k, n) /\ n # m
  BY <1>1, <1>5, LedgerEffects DEF Open
<1>6. ASSUME NEW m \in Nat, release(k, m) \/ settle(k, m), NEW j \in Jobs, j # k
      PROVE  ledger'[j] = ledger[j]
  BY <1>1, <1>6 DEF release, settle
<1>7. CASE \/ StepFails(w) \/ ArtifactsMissing(w) \/ SubmitWaits(w) \/ TranscriptPolls(w) \/ TranscriptFailed(w)
  <2>1. ledger' = ledger /\ r.pc \in {"step", "reserve", "merge"}
    BY <1>7 DEF StepFails, ArtifactsMissing, SubmitWaits, TranscriptPolls, TranscriptFailed, InStep
  <2>2. \/ \E permanent, free \in BOOLEAN : q = Caught(r, permanent, free)
        \/ q = PollAgain(r)
    BY <1>2, <1>7
    DEF StepFails, ArtifactsMissing, SubmitWaits, TranscriptPolls, TranscriptFailed, TryAgain
  <2>3. q.pc \in {"mark", "write"} /\ (q.pc = "write" => q.next = "again")
    BY <1>1, <2>2 DEF Caught, PollAgain, Worker
  <2>4. q.s.res = r.s.res
    BY <1>7, HoldsOn DEF StepWorks, Submitted, StepFails, ArtifactsMissing, SubmitWaits, TranscriptPolls, TranscriptFailed, InStep
  <2>5. \A n : Left(n) => Holds(q, n)
    BY <1>4, <2>1, <2>3, <2>4
  <2> QED
    BY <2>1, <2>3, <2>5
<1>8. CASE ArtifactsReady(w) \/ SubmitCounts(w) \/ MarksCompleted(w) \/ MarksFailed(w)
  <2>1. ledger' = ledger /\ r.pc \in {"step", "mark"} /\ ~Submitted(w)
    BY <1>8 DEF ArtifactsReady, SubmitCounts, MarksCompleted, MarksFailed, InStep, Submitted
  <2>2. q.pc \in {"reserve", "merge", "close", "write"} /\ (q.pc = "write" => q.next = "again")
    BY <1>1, <1>2, <1>8 DEF ArtifactsReady, SubmitCounts, MarksCompleted, MarksFailed, Worker
  <2>3. q.s.res = r.s.res
    BY <1>8, <2>1, HoldsOn DEF StepWorks
  <2>4. \A n : Left(n) => Holds(q, n)
    BY <1>4, <2>1, <2>2, <2>3
  <2> QED
    BY <2>1, <2>2, <2>4
<1>9. CASE Reserves(w)
  <2>1. r.s.tr = 0
    BY <1>1, <1>9 DEF Reserves, Local, Apart, Sited
  <2>2. r.s.res = 0
    <3>1. PairSound(k, <<r.s.tr, r.s.res>>)
      BY <1>1, PairsAre DEF Held, PairsSound
    <3> QED
      BY <2>1, <3>1 DEF PairSound
  <2>3. \A n : ~Open(k, n)
    BY <1>9, <2>2 DEF Reserves, Holds, Open
  <2>4. /\ ledger'[k] = Append(ledger[k], "reserved")
        /\ \A j \in Jobs : j # k => ledger'[j] = ledger[j]
        /\ q.pc = "post" /\ q.res = Len(ledger[k]) + 1
    BY <1>1, <1>2, <1>9 DEF Reserves, Worker
  <2>5. \A n : Left(n) => n = Len(ledger[k]) + 1
    <3>1. /\ Len(ledger'[k]) = Len(ledger[k]) + 1
          /\ \A n \in 1..Len(ledger[k]) : ledger'[k][n] = ledger[k][n]
      BY <1>1, <2>4
    <3>2. \A n : n \in 1..Len(ledger'[k]) => n \in 1..Len(ledger[k]) \/ n = Len(ledger[k]) + 1
      BY <1>1, <3>1
    <3>3. \A n \in 1..Len(ledger[k]) : ledger'[k][n] # "reserved"
      BY <2>3, <3>1 DEF Open
    <3> QED
      BY <3>2, <3>3
  <2> QED
    BY <2>4, <2>5 DEF Holds
<1>10. CASE SubmitFails(w)
  <2>1. release(k, r.res) /\ r.pc = "post"
    BY <1>3, <1>10 DEF SubmitFails
  <2>2. \A n : ~Left(n)
    BY <1>1, <1>5, <2>1 DEF Holds
  <2>3. q.pc \in {"mark", "write"}
    BY <1>1, <1>2, <1>10 DEF SubmitFails, Caught, Worker
  <2> QED
    BY <1>1, <1>6, <2>1, <2>2, <2>3
<1>11. CASE Submitted(w)
  <2>1. /\ q.s = [goto(r.s, "await_transcript") EXCEPT !.tr = Len(trans[k]) + 1, !.res = r.res]
        /\ q.pc = "write" /\ q.next = "again" /\ r.pc = "post" /\ ledger' = ledger
    BY <1>1, <1>2, <1>11 DEF Submitted, Worker
  <2>2. q.s.res = r.res
    BY <1>1, <2>1 DEF goto, StepState
  <2> QED
    BY <2>1, <2>2 DEF Holds, Open
<1>12. CASE Settles(w)
  <2>1. settle(k, r.s.res) /\ r.pc = "merge"
    BY <1>3, <1>12 DEF Settles
  <2>2. \A n : ~Left(n)
    BY <1>1, <1>5, <2>1 DEF Holds
  <2>3. q.pc = "write"
    BY <1>1, <1>2, <1>12 DEF Settles, Worker
  <2> QED
    BY <1>1, <1>6, <2>1, <2>2, <2>3
<1>13. CASE Closes(w)
  <2>1. /\ r.pc = "close"
        /\ \/ r.s.res = 0 /\ ledger' = ledger
           \/ release(k, r.s.res) \/ settle(k, r.s.res)
    BY <1>3, <1>13 DEF Closes
  <2>2. \A n : ~Left(n)
    BY <1>1, <1>5, <2>1 DEF Holds, Open
  <2>3. q.pc = "write"
    BY <1>1, <1>2, <1>13 DEF Closes, Worker
  <2> QED
    BY <1>1, <1>6, <2>1, <2>2, <2>3
<1> QED
  BY <1>3, <1>7, <1>8, <1>9, <1>10, <1>11, <1>12, <1>13 DEF StepWorks

\* Every step that is no trouble keeps the owner of every open reservation.
LEMMA OwnedStep ==
  TypeInv /\ Local /\ Held /\ Alone /\ Owned /\ [Next]_vars => Owned'
<1> SUFFICES ASSUME TypeInv, Local, Held, Alone, Owned, [Next]_vars, slow' = 0, faults' = 0
             PROVE  /\ \A j \in Jobs : \A n : Open(j, n)' => Owner(j, n)'
                    /\ \A w \in Workers : work'[w].pc # "throw"
  BY DEF Owned
<1> DEFINE Goal == /\ \A j \in Jobs : \A n : Open(j, n)' => Owner(j, n)'
                   /\ \A w \in Workers : work'[w].pc # "throw"
<1>0. /\ TypeOK /\ AttemptsLeft /\ None \notin Jobs
      /\ Idle.job = None /\ Idle.pc = "idle"
      /\ slow \in Nat /\ faults \in Nat
  BY VerifyAssumption DEF TypeInv, TypeOK, Idle
<1>1. CASE \/ \E k \in Jobs : EnqueueFinds(k) \/ EnqueueOpens(k) \/ EnqueueInserts(k)
           \/ \E k \in Jobs : \E n \in DOMAIN trans[k] : TranscriptEnds(k, n)
           \/ \E t \in Takeovers : Reconciles(t)
           \/ UNCHANGED vars
  <2>1. jobs' = jobs /\ work' = work /\ ledger' = ledger /\ slow' = slow /\ faults' = faults
    BY <1>1 DEF EnqueueFinds, EnqueueOpens, EnqueueInserts, TranscriptEnds, Reconciles, vars
  <2> QED
    BY <2>1 DEF Owned, Owner, Open, Ended
<1>2. ASSUME NEW k \in Jobs, NEW m \in DOMAIN ledger[k], SweepSettles(k, m) PROVE Goal
  <2>1. work' = work /\ jobs' = jobs /\ slow = 0 /\ faults = 0 /\ settle(k, m) /\ m \in Nat
    BY <1>0, <1>2 DEF SweepSettles, TypeOK
  <2>2. \A j \in Jobs : \A n : Open(j, n)' => Open(j, n)
    BY <2>1, LedgerEffects DEF Open
  <2> QED
    BY <2>1, <2>2 DEF Owned, Owner, Ended
<1>3. ASSUME NEW k \in Jobs, Advance(k) PROVE Goal
  <2> DEFINE u == CHOOSE u \in Free : TRUE
  <2>1. u \in Workers /\ work[u].job = None /\ slow = 0 /\ faults = 0 /\ ledger' = ledger
    BY <1>0, <1>3 DEF Advance, Free, AttemptsLeft, Busy
  <2>2. /\ \A w \in Workers \ {u} : work'[w] = work[w]
        /\ work'[u].pc = "step" /\ work'[u].s = jobs[k].s /\ work'[u].job = k
    BY <1>0, <1>3, <2>1 DEF Advance, TypeOK, Idle
  <2>3. \A j \in Jobs : j # k => jobs'[j] = jobs[j]
    BY <1>0, <1>3 DEF Advance, TypeOK
  <2> HIDE DEF u
  <2>4. \A w \in Workers : work[w].job # k
    BY <1>0, <1>3, <2>1 DEF Advance, Leasable, Alone, AttemptsLeft
  <2>5. ASSUME NEW j \in Jobs, NEW n, Open(j, n)' PROVE Owner(j, n)'
    <3>1. Owner(j, n)
      BY <2>1, <2>5 DEF Owned, Open
    <3>2. CASE j = k
      BY <2>1, <2>2, <2>4, <3>1, <3>2 DEF Owner, Holds
    <3>3. CASE j # k
      BY <1>0, <2>1, <2>2, <2>3, <3>1, <3>3 DEF Owner, Ended
    <3> QED
      BY <3>2, <3>3
  <2> QED
    BY <2>1, <2>2, <2>5 DEF Owned
<1>4. ASSUME NEW k \in Jobs, LeaseExpires(k) PROVE Goal
  <2>1. /\ work' = work /\ ledger' = ledger /\ slow = 0 /\ faults = 0
        /\ \A j \in Jobs : jobs'[j].s = jobs[j].s /\ jobs'[j].status = jobs[j].status
    BY <1>0, <1>4 DEF LeaseExpires, TypeOK, Job
  <2> QED
    BY <2>1 DEF Owned, Owner, Open, Ended
<1>5. ASSUME NEW u \in Workers, WritesBack(u) PROVE Goal
  <2> DEFINE k == work[u].job
  <2>1. /\ work' = [work EXCEPT ![u] = Idle] /\ ledger' = ledger
        /\ slow = 0 /\ faults = 0 /\ Busy(u) /\ work[u].pc = "write" /\ work[u].next \in {"again", "done", "failed"}
    BY <1>0, <1>5 DEF WritesBack, Busy, TypeOK, Worker
  <2>2. /\ \A w \in Workers \ {u} : work'[w] = work[w]
        /\ work'[u].job = None /\ work'[u].pc = "idle"
    BY <1>0, <2>1 DEF TypeOK
  <2>3. /\ k \in Jobs
        /\ \A j \in Jobs : j # k => jobs'[j] = jobs[j]
        /\ jobs'[k].s = work[u].s /\ jobs'[k].status = StatusAfter(work[u].next)
    BY <1>5, RowWrites
  <2>4. \A w \in Workers : work[w].job = k => w = u
    BY <1>0, <2>1, <2>3 DEF Alone, AttemptsLeft
  <2>5. ASSUME NEW j \in Jobs, NEW n, Open(j, n)' PROVE Owner(j, n)'
    <3>1. Owner(j, n)
      BY <2>1, <2>5 DEF Owned, Open
    <3>2. CASE j = k
      <4>1. work[u].s.res = n /\ work[u].next = "again"
        BY <2>1, <2>4, <3>1, <3>2 DEF Owner, Holds
      <4>2. \A w \in Workers : work'[w].job # k
        BY <1>0, <2>2, <2>3, <2>4
      <4> QED
        BY <2>3, <3>2, <4>1, <4>2 DEF StatusAfter, Owner, Ended
    <3>3. CASE j # k
      BY <1>0, <2>2, <2>3, <3>1, <3>3 DEF Owner, Ended
    <3> QED
      BY <3>2, <3>3
  <2> QED
    BY <2>1, <2>2, <2>5 DEF Owned
<1>6. ASSUME NEW u \in Workers, RunnerCatches(u) \/ Dies(u) PROVE FALSE
  <2>1. slow = 0 /\ faults = 0 /\ faults' # faults + 1
    BY <1>0, <1>6 DEF RunnerCatches, Dies
  <2> QED
    BY <1>6, <2>1 DEF RunnerCatches, Dies, Owned
<1>7. ASSUME NEW u \in Workers, StepWorks(u) PROVE Goal
  <2> DEFINE k == work[u].job
  <2>1. OwnStep(u) /\ k \in Jobs
    BY <1>0, <1>7, OwnSteps DEF OwnStep, AttemptsLeft
  <2>2. /\ jobs' = jobs /\ slow = 0 /\ Busy(u)
        /\ \A w \in Workers \ {u} : work'[w] = work[w]
        /\ work'[u].job = k
    BY <1>0, <2>1 DEF OwnStep, Becomes, Follows, TypeOK
  <2>3. faults = 0
    <3>1. faults' = faults \/ LedgerFails \/ MarkThrows(u)
      BY <1>7
      DEF StepWorks, StepFails, ArtifactsMissing, ArtifactsReady, SubmitWaits, SubmitCounts, Reserves,
          SubmitFails, Submitted, TranscriptPolls, TranscriptFailed, MarksCompleted, Settles, MarksFailed, Closes
    <3> QED
      BY <1>0, <3>1 DEF LedgerFails, MarkThrows
  <2>4. \A w \in Workers : work[w].job = k => w = u
    BY <1>0, <2>1, <2>2 DEF Alone, AttemptsLeft
  <2>5. \A n : Open(k, n) => Holds(work[u], n)
    BY <2>1, <2>2, <2>3, <2>4 DEF Owned, Owner
  <2>6. /\ \A n : n \in 1..Len(ledger'[k]) /\ ledger'[k][n] = "reserved" => Holds(work'[u], n)
        /\ work'[u].pc # "throw"
        /\ \A j \in Jobs : j # k => ledger'[j] = ledger[j]
    BY <1>7, <2>5, HoldsStep
  <2>7. ASSUME NEW j \in Jobs, NEW n, Open(j, n)' PROVE Owner(j, n)'
    <3>1. CASE j = k
      BY <2>2, <2>6, <2>7, <3>1 DEF Owner, Open
    <3>2. CASE j # k
      <4>1. Owner(j, n)
        BY <2>2, <2>3, <2>6, <2>7, <3>2 DEF Owned, Open
      <4> QED
        BY <2>2, <3>2, <4>1 DEF Owner, Ended
    <3> QED
      BY <3>1, <3>2
  <2> QED
    BY <2>2, <2>3, <2>6, <2>7 DEF Owned
<1> QED
  BY <1>1, <1>2, <1>3, <1>4, <1>5, <1>6, <1>7, Steps

\* Every invariant the money rests on, and what it gives.
MoneyInv == TypeInv /\ Alone /\ Local /\ Held /\ Owned

LEMMA AloneInit == Init => Alone
  BY DEF Init, Alone, Busy, Idle

LEMMA OwnedInit == Init => Owned
  BY DEF Init, Owned, Open, Idle

\* A job that ended is nobody's, so nothing of it is left reserved.
LEMMA OwnedClosed == MoneyInv => ReservationsClosed
<1> SUFFICES ASSUME MoneyInv, slow = 0, faults = 0, NEW j \in Jobs, Ended(j),
                    NEW n \in DOMAIN ledger[j], ledger[j][n] = "reserved"
             PROVE  FALSE
  BY DEF ReservationsClosed
<1>1. Open(j, n)
  BY DEF Open, MoneyInv, TypeInv, TypeOK
<1>2. PICK w \in Workers : work[w].job = j
  BY <1>1 DEF MoneyInv, Owned, Owner
<1>3. jobs[j].lease
  BY <1>2, VerifyAssumption DEF MoneyInv, Alone, TypeInv, AttemptsLeft
<1> QED
  BY <1>3 DEF MoneyInv, Local, Ended

\* Whatever overlaps, dies or is retried, the money of a transcript that a job holds is not
\* given back unless AssemblyAI reported its error, and without a lost lease, a restart or
\* a failed write of the ledger a job that ended has left nothing reserved.
THEOREM MoneyFollowsAlways == Spec => []MoneyFollows
<1>1. Init => MoneyInv
  BY TypeInit, AloneInit, LocalInit, HeldInit, OwnedInit DEF MoneyInv
<1>2. MoneyInv /\ [Next]_vars => MoneyInv'
  BY TypeStep, AloneStep, LocalStep, HeldStep, OwnedStep DEF MoneyInv
<1>3. MoneyInv => MoneyFollows
  BY HeldNotReleased, OwnedClosed DEF MoneyInv, MoneyFollows
<1> QED
  BY <1>1, <1>2, <1>3, PTL DEF Spec

=============================================================================
