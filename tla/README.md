# Baton: TLA+ verification development

Baton hands a live support call from a human representative to an AssemblyAI Voice Agent (the *AI half*) in the
middle of the call, with the case frozen at the moment of the handover. This directory keeps TLA+ models of the
program's own core logic, TLC configurations that check them on small instances, and TLAPS proofs of the results
that hold for every instance. All source paths are relative to `src/src/` (the application).

## 1. The system

### 1.1 Parts, their state and their operations

| Part | State it keeps | Operations | Hard behaviour |
|---|---|---|---|
| Voice Agent slot registry (`server/limits/db-authority.ts`, `ledger.ts`, `server/runs`, `app/api/va/token`, `server/registry/sweeper.ts`) | `live_sessions`, `spend_ledger`, `cases.run_plan`, `takeovers.retries/last_failure_at` | hold, acquire, reserve, mint, release, report, sweep | several transactions per request, a retry that frees its predecessor's slot, restarts, reports computed from stale reads |
| Takeover service (`server/takeovers`) | `takeovers`, `case_snapshots`, `cases.status`, `usage_outbox` | arm, compile (freeze), events, end | the four routes of one takeover and the tools of its AI half overlap on the case row |
| Payments (`server/payments`, pay tools in `server/tools`) | `payments`, `webhook_events`, `tool_calls` | create, poll, webhook, simulate, timeout, send_confirmation | webhook against poll against simulation; duplicate tool calls; redelivered webhooks |
| Job runner and verification (`server/jobs`, `server/qa`) | `jobs`, `verifications`, `aai_async` rows of `spend_ledger` | enqueue, tick, lease, step, write-back, reconcile | a lease that expires under a slow step; check-then-insert enqueue; restarts in a step |
| Takeover machine (`core/protocol/takeover-machine.ts`, `client/takeover/controller.ts`) | the browser's phase, pass, attempt | reducer inputs, timeouts, effects | late answers of an earlier attempt or pass, pagehide, deadlines |
| VA controller (`client/va`) | socket, timers, pay watch, cap, hand-back | connect, start, tools, hand-back, close, cap, ceiling, end | tool answers racing the end of the session, clocks that stand still |
| STT broker and channels (`server/limits` sttAcquire, `app/api/stt/token`, `client/stt`, `client/replay`) | rolling window of opens, FIFO tickets; the page's two channels and their one ticket and timer | acquire, cancel, mint and give back; open, poll, reconnect, pause, resume, terminate | polls that stop, answers that cross, a page that leaves while it connects |
| Spend ledger (`server/limits/ledger.ts`) | reservations and their settlement per day | reserve, settle, release | daily caps checked under one advisory lock |
| Cases (`server/cases`, `client/case`, `core/case`) | the page's queue of turns; utterances, the extraction queue, the verifier's run, snapshot | send, extract, verify, drain, freeze | requests given up and repeated, batches that break, restarts, extraction racing the freeze |
| Drafts (`client/studio`, `server/relays`) | the page's text, its timers and its save, `localStorage`, `relays.draft` and its revision | edit, autosave, save, resolve a conflict, restore, reload | an edit during a save, lost answers, another page's save |
| Publishing (`server/publish`) | `relay_publications`, `relays.status`, the stored agents at AssemblyAI | publish, republish, unpublish, purge | requests that overlap, fail, die or lose an answer between a statement and a call of the provider |
| Members of an organization (`server/identity`) | `members`, `invitations`, `organizations` | invite, accept, revoke, change a role, remove, leave, transfer, delete | requests that read the roles before another one writes them |
| Guests, entitlements, billing, connectors, secrets, audit | tenants, visitors, keys | claim, check, deliver | a visitor claimed while it still writes |
| Transport (`core/aai`, `server/openai`, `client/audio`) | sockets, audio | streaming and synthesis | protocol of outside services |

### 1.2 How they interact

The browser's takeover machine drives the server through five routes: `POST /api/runs` (plan and hold), `arm`,
`compile`, `/api/va/token` and `end`; during the AI half the Voice Agent calls tools through `/api/va/tool`, which
moves `cases.status` as well. `end` frees the slot of the current attempt and enqueues the verification job. The F5
sweeper repairs what no request will: slots without a heartbeat, holds and reservations past their deadline. Nothing
in the server spans two of these steps in one transaction, so every gap between them is an interleaving point.

### 1.3 What makes each part correct

* Slots: never more sessions than `VA_MAX_CONCURRENT`, none without reserved money, none kept for ever, one retry.
* Takeovers: one pass of a call at a time, one snapshot of it, one outcome, metered with it.
* The page: a pass always comes to the AI half or to an end, ends once, with the outcome it shows, and no session of it
  outlives it.
* Payments: paid only what was disclosed and taken, never unpaid again, and told to the session that waits.
* Jobs: one worker at a time while leases hold; a job that ended left its result; a completed verification stays; money
  of a transcript is not given back while AssemblyAI may bill it; every job ends.
* Transcription: rows of the window are given once and given back once, the queue is in order, a channel that waits is
  woken, and a page that left keeps no session.
* The AI half's session: nothing of it is left running when it ends, it is not closed over someone who speaks, and it
  ends.
* Drafts: what the bar says is true, no save replaces a draft its author has not seen, an edit is sent.
* Publications: a live link has an agent that exists, a republish never interrupts it, every agent is counted.
* Organizations: each has an owner, and an admin does not touch one.
* Cases: every turn is settled; what the page reports as complete is in the snapshot and stays as it was; a field is
  VERIFIED only when both parties agreed on it before the call was passed on.

## 2. Modules and the code

### 2.1 `VaSlots`: the slot registry

State: one row per possible slot. A slot is `<<takeover, attempt>>` (`va_<takeover>_<attempt>`) or the Start that made
a hold. `status`, `opened`, `ledgerOf` are columns of `live_sessions`; `ledger` is the status of `spend_ledger` rows
(named by the slot that made them); `plan` is `cases.run_plan`; `tko` the fields of `takeovers` that the token route
reads; `run`, `req`, `rep` are the handlers of `POST /api/runs`, `POST /api/va/token` and the session reports; `sess`
is the provider's session.

One action is one database transaction or one call of the provider; a handler that runs several keeps a program
counter and what it read. `StartReads, StartReleases, StartHolds, StartSaves` are `DbRunService.start`;
`Decide, ReleaseFirst, Acquire*, Reserve*, Mint*, Undo` are the token route; `End, EndReleases` the end of a takeover;
`ReportReads, ReportOpened, ReportClosed` are `report`, whose read is outside its transaction; `Sweep` is
`sweepRegistry`. `Dies` is a restart between two transactions. Clocks are abstracted to "a deadline may have passed":
a sweep takes any set of rows that may be stale. The retry window of the token route is left open, which allows more
than the code does.

### 2.2 `TakeoverService` and `PassLedger`: the passes of a call

`TakeoverService` has `cases.status`, the `takeovers` rows, the end's usage rows and the verification jobs, with a
record per handler of arm, compile, events and end. `createArmed`, `freezeSnapshot` and `store.end` are one action
each, since they lock the case row; the loads before them (`ArmLoads`, `CompileLoads`, `EndLoads`) are actions of
their own. `HandBack` and `SendConfirmation` are the tools that write `cases.status`; `EndMeterFails` is a metering
statement that fails inside the end transaction. A compile is named by its drain report, so a snapshot is the name of
the compile that froze it. `PassLedger` says what the service promises, and `TakeoverService` implements it (`Ledger`,
`LedgerSpec`).

### 2.3 `TakeoverMachine`: the page

The reducer of `core/protocol/takeover-machine.ts` with the controller that runs its effects. `m` is the machine's
state; `net` the requests and effects whose answer is still out; `sock` the socket of each attempt; `wire` the order in
which the server hears of ends and reports. Every operator named after a function of the reducer maps a record of `m`,
`net`, `sock` and `wire` to the next one, as a call of the function does, and an action is one turn of the event loop.
Deadlines are booleans: `Tick(duePhase, dueVa, open)` is a timer that fires with either deadline passed. A
configuration `[live, handoff, bundle, auto]` says whether the page runs a live AI half, what the handoff label is,
whether there is a recorded AI half, and whether auto-baton is on.

### 2.4 `PayFlow` and `WebhookInbox`: the payment of a pass

`PayFlow` has the payments rows, Polar's checkouts, the pay-link calls (`create` statement by statement), the server's
poll with what Polar said in it, and the page's `PaymentWatch`. `AllowedFrom` is `allowedFrom`; `Moved` the
conditional `UPDATE`; `MovedByPolar` the amount check in front of it. Polar (`polar`, `PolarGoes`, `EventsOf`) is
external: a checkout goes open, confirmed, succeeded or failed, or expires, its events may be applied late, repeatedly,
in any order or never, and they always carry the total. Amounts are "the one disclosed" or another (`match`).
`WebhookInbox` has what `PayFlow` leaves open of a webhook: the claim of its row, a failure, the answer.

### 2.5 `VerifyJobs`: the verification of a pass

A worker (`work`) is one call of `advance(id)`, whoever made it: the ticker, the status route, cron. `Advance` is the
conditional `UPDATE` that takes the lease; the worker then keeps the row it leased, and each statement of
`verify-takeover.ts` that reads or writes something shared is an action: `Artifacts*` (S1), `SubmitWaits`,
`SubmitCounts`, `Reserves`, `Submitted`, `SubmitFails` (S2), `Transcript*`, `MarksCompleted`, `Settles` (S3 with S4),
`StepFails` and `Caught` (the step's own catch), `MarksFailed`, `Closes` (`finalizeFailure`). `WritesBack` and
`RunnerCatches` write the job by its id alone, whether or not the lease is still theirs. `LeaseExpires` under a worker
lets a second one run beside it (`slow`); `Dies` is a restart. `EnqueueFinds`, `EnqueueOpens`, `EnqueueInserts` are the
statements of `enqueueVerificationWith`, `Reconciles` the status route's repair, `SweepSettles` the F5 sweep of old
reservations, and `TranscriptEnds` AssemblyAI. A transcript and a reservation are named by their place in their job's
history, so a repeated submit leaves the earlier ones behind. Left out: `run_after` (any due time is possible), the copy
of the result in `takeovers.metrics`, the AI session's own ledger amount, the step `compute` as a stored state (no code
stores it), a kind without a step, and the fallback enqueue of a process without the verification module.

### 2.6 `SttBroker` and `SttChannels`: live transcription

`SttBroker` has the rows of the rolling window (`window`, oldest first; time takes them out at the head), the queue of
tickets and one request per requester. `Grant`, `TurnAway` and `Enqueue` are the three outcomes of the locked
transaction of `sttAcquire`, after the expiry of late tickets (`Fresh`); `Issue` and `GiveBack` are the mint of the
tokens and `releaseAll`. A requester has at most one ticket, so a ticket is known by its owner; times are abstracted to
rows that leave the window and tickets that miss their polls (`late`), and an ETA above the limit may or may not come
out whenever a request has to wait. `SttChannels` extends it with the page: `LiveSttChannelManager` and the orchestrator
that opens, pauses, resumes and ends it. Each await (token, connect, termination, cancelled ticket) ends an action.
`ticket` and `timer` are one for both channels, as in the code. Other pages are `OthersOpen` (a row) and `OthersWait`
(a ticket whose page never polls). `MaxPauses` bounds pauses and inactivity closes; `MaxTroubles` the lost requests and
missed polls.

### 2.7 `VaController`: the session of the AI half

`c` is the state of `VoiceAgentControllerImpl` with its `SessionCap` and the `PaymentWatch` it holds; an operator named
after a method maps it to the next one, and an action is one callback or the part of an async method between two awaits
(`start` is `Start`, `SessionReady`, `Running` or `Resumes`). `call` is where each tool call stands and `sock` the
socket. Timers fire whenever they are set; the cap and the ceiling are `CapEnds` and `CeilingEnds`. The page uses
`payToolMode` "push", the one the application configures.

### 2.8 `StudioDraft`: a draft between its pages and the server

`page` is the store of one page of the Studio, `kept` its entry in `localStorage`, `draft` the relay's draft, `req`
the page's save and `late` the saves of pages that were closed with a request out. `Edit` stands for every operation
that goes through `edit`; `SaveNow` is `saveNow` up to its await, `AnswerOk`, `AnswerConflict` and `AnswerError` what
follows; `Serve` is the server's conditional `UPDATE`. A revision is abstracted to whether it is still the draft's
(`fresh`): revisions only grow, so one left behind never is again. `OtherSaves` is another page, the API or the CLI.
`wiped`, `missed` and `knows` are history variables, read by properties only. Formats and read-only relays are left
out.

### 2.9 `Publishing`: the publications of a relay

Each action is one call of the provider or one statement: `Begin, Find, Refuse, Place, Create, CreateFails, Fail, Swap,
Published, Retire` are `publishFor`, `Delete` and `Settle` are `deleteAgentRow`, which publishes that retire an agent,
unpublishes and the purge share, and `Unmark` closes an unpublish. The provider may refuse a call or lose its answer
(`Create` without an id, `Delete` to `kept`), and a request may die anywhere. Agents are numbered in the order they were
made. `taken` and `mixed` are history: the agents an unpublish or a purge asked to delete, and whether requests ever
overlapped, died, or lost the id of a new agent.

### 2.10 `CaseFields` and `FieldStatus`: the case

`CaseFields` follows each final turn of the call: `Final`, `Answered`, `Refused`, `Lost`, `Rejected` are the page's
queue (`HttpCaseSync`: one request out, repeated while it fails), `Check`, `Join`, `Duplicate`, `Insert` the handler
of `/api/extract` between its awaits, `Commit` and `Break` the end of a batch at the extractor. `pump`, on the page
and in the service, is called last by whatever changes its queue and is part of those actions. `Sol*` is the verifier;
`Arm`, `Drained`, `Freeze`, `WindowEnds` the pass. A request the page gave up goes on at the server (`live`). What a
turn says decides nothing there: its facts are in the case from the transaction that marks its row done. `FieldStatus`
is what is computed from them: `deriveField` as a fold over the facts of one field, with lateness and the verifier's
overlay. A value is a set of words, since compatibility of names is containment of words.

### 2.11 `Members`: who owns an organization

`role` is the organization's `members`, `invited` its pending invitations, `org` its row, `reqs` the handlers. The
routes (`PatchMember`, `DeleteMember`, `LeaveOrg`, `TransferOrg`, `DeleteOrg`, `CreateInvitation`) admit a request by
the caller's role, read once (`Admit`); `Look` is what the first two and the invitation check before they write; `Read`
and `CountOwners` are the statements inside the transactions of `member-store.ts`, and `SetRoles` their write with the
commit. Nothing is locked and the database runs at read committed, so other requests fall between them. An invitation is
accepted through the sign-in library (`AcceptInvitation`, external). Everyone is a signed-in account; the audit, rate
limits, names and the data that goes with a deleted organization are left out. With one request at a time
(`Requests = {r1}`) an organization always has an owner, and no admin touches one; with two, neither holds.

### 2.12 How the modules fit

`VaSlots` and `TakeoverService` share the end of a takeover: each has the part of it that its own rows take. The
browser of `TakeoverMachine` is the environment of both; what it may send is wider in the server's modules (any
request at any time) than what the machine sends, so what holds of the server holds under this browser. The watch of
`PayFlow` is a part of the Voice Agent controller (`watches` of `VaController`), which the machine sees as `paying`;
the socket's events of `TakeoverMachine` are what `VaController` tells its owner. The end of the transcription in
`SttChannels` is the machine's pass. `Freeze` of `CaseFields` is the freeze of `TakeoverService`, seen from the case;
the two share nothing else.

## 3. Runs

| Run | Question | Instance |
|---|---|---|
| `va_slots` | capacity, reservations, the retry, and that everything is freed | one call, one Start, two token requests, one report, one slot: each pair of handlers that can interfere, with the retry |
| `takeover_service` | one pass at a time, compiles that agree, a completed call that stays; the pass ledger | one call with a limit of two: three arms with two of the ends and compiles, or two passes with two compiles and an end, or a report and a stale-slot handler beside one compile and one end |
| `machine` | the safety of a pass and that it ends | one pass on every configuration (auto-baton only where the page is eligible: elsewhere the flag is not read) |
| `payments` | results are final, real and told | two pay-link calls, hence two payments of one pass |
| `verify_jobs` | jobs, results and money through retries, restarts and lost leases | two enqueuing calls of one pass, two workers, each limit one or two |
| `stt_channels` | the broker's rows and queue; the channels of a page to their end | a page and one visitor behind the same address, two opens per window, two tickets, and one thing out of order: a pause, an inactive channel, a lost request or missed polls |
| `case_fields` | turns that are settled, the snapshot against extraction and verifier, the rules of a field's status | three turns of two parties, at most two in a batch, two requests a turn, one verifier's run and two troubles; every conversation of three facts about a name (three values) and of four about a price (two) |
| `va_controller` | what an end leaves running, the hand-back, the goodbye, that the session ends | two tool calls of any kind: two links, two hand-backs, or one with the other |
| `publishing` | links that keep working, agents that are counted | three publishes and two deletions of one relay, two at a time: a first publish and two republishes, with an unpublish or a purge between or beside them |
| `studio_draft` | what is shown and kept is true; no unseen overwrite; edits are sent | three texts, one invalid, one late save: an edit during a save, back to the saved text, and to a third one |

Several short invariants that one reader asks together are one property of a run: `SlotsSound`, `PassesSound`,
`MachineSound`, `MoneySound`, `JobsSound`, `ChannelsSound`, `BrokerSound`, `ControllerSound`, `RowsSound`,
`StudioSound` and `CaseSound` are the type of a module with its smaller safety invariants; `MoneyBacked`,
`OneLivePass` and `MoneyFollows` the claims on money and on passes that belong together; `SlotsClose` the liveness of
slots and reservations; `PassSteps` and `PassEnds` the machine's action and liveness properties.

`Narrow` (of `MCTakeoverService`, `MCPublishing` and `MCSttChannels`) takes only some of the requests or troubles
together: which ones is said by `Within`, `Pairs` and `OneTrouble`. `MaxPasses`, `MaxArms` and `MaxStale` bound passes
of a page, arm requests and answers that stay out when they no longer matter. In `VerifyJobs`, `MaxTroubles` bounds
together the enqueuing calls that find no job, the leases that run out under a worker, the restarts and the uncounted
database errors (two: a second job, or one job and one trouble), and `MaxPolls` the polls within
`TRANSCRIPT_MAX_WAIT_MS`; the code's limits are constants, taken small enough for each to be met. With one attempt of
the runner and two failures of a step, both ways of giving up occur. `MaxLate` bounds the saves of closed pages (one:
an older save that arrives under a newer page). In `CaseFields`, `MaxTrouble` bounds together the turns whose first
request is lost (their retries may be lost as well), rejections, broken batches and restarts. The rules over facts are
looked at in the initial state: they speak of no state. Everything else is finite by itself. Requests of a kind are
interchangeable, so the instances with symmetry lose nothing; runs with liveness use none. `CHECK_DEADLOCK FALSE`
everywhere: a finished call is at rest.

The runs that expect a violation show where the code does not do what it says of itself:

| Run | What the trace shows |
|---|---|
| `payments_webhook_retry` | a webhook whose error could not be written: its retry is taken for a replay |
| `org_owner` | the only owner hands an organization over to an admin whose own removal was read before: nobody owns it |

Known deviations of the same kind that no run checks: each is stated at the end of its module,
and gives its trace when it is added to the configuration named:

* `VaSlots.RetryNotRefusedByOwnSlot` (`MCVaSlots.cfg`): attempt 0's slow request acquires its slot after the retry
  released it, and the retry is refused by its own zombie (`app/api/va/token/route.ts:18`).
* `TakeoverService.NoFreezeAfterEnd` (`MCTakeoverService.cfg`, as the next two): a compile that passed its check freezes
  after the end, and the ended pass's case is `ai_active` (`server/takeovers/service.ts:174`).
* `TakeoverService.CaseTakesLatestOutcome`: a handed-back call is armed again before the old pass's `/end`, which then
  writes the new pass's case (`server/takeovers/store.ts:245`).
* `TakeoverService.AnsweredEndIsEnded`: an error caught inside the end transaction; `/end` answers ok and the commit
  is a rollback (`server/takeovers/terminal-usage.ts:17`).
* `TakeoverMachine.ClosingPosts` (`MCTakeoverMachine.cfg`): navigation inside the application during the AI half; `/end`
  is never posted (`core/protocol/takeover-machine.ts:21`).
* `Members.AdminsSpareOwners` (`MCMembers.cfg`): an admin's change of a member was let through before that member became
  an owner; the new owner is demoted or removed by it (`server/identity/app-members.ts:63`).
* `StudioDraft.AutosaveComes` (`MCStudioDraft.cfg`): the autosave of an edit comes due while another save is out and is
  dropped: nothing sends the edit until the next one (`client/studio/source-store.ts:316`).
* `SttChannels.ReconnectIsAnswered` (`MCSttChannels.cfg`): both channels reconnect at once and share one ticket and one
  timer; the one whose ticket was replaced stays queued (`client/stt/channel-manager.ts:139`).
* `SttChannels.ChosenReplayPlays` (`MCSttChannels.cfg` with `Opens = 3`): the visitor chooses the cached replay while
  the call waits for a slot; the end of the channels, still going on, switches the replay off again
  (`client/session/orchestrator.ts:610`).

Three disagreements of `CaseFields` with the comments of its source are in the model as the code has them:

* A backlog of more than one does occur (`server/cases/extract-service.ts:86` says it never does): two turns that wait
  behind a stalled extraction are taken as one batch.
* A turn whose request the page gave up may pass the frozen check before the freeze and be extracted after it
  (`extract-service.ts:125`): the case moves on, the snapshot does not. `SnapshotWhole` is of turns reported complete.
* After a restart the retry of a turn finds its pending row and is answered as a duplicate (`extract-service.ts:154`):
  the page counts it complete and nothing extracts it. `trouble.cut` names these turns.

## 4. Fairness

* `VaSlots`: weak fairness of the sweep of each row and reservation that stays past its deadline. The in-process ticker
  runs every 15 s and every deadline comes. No request, browser or handler is assumed to go on. (With
  `ENABLE_INPROC_WORKER` off nothing is promised.)
* `TakeoverMachine`: the controller re-arms one timer for the next deadline; the arm request answers or times out after
  the HTTP client's 8 s; the local compile is a microtask. Audio, drain, sockets, the provider and the visitor owe
  nothing.
* `VerifyJobs`: a worker's statements go on (every request has a timeout), a free job is taken up and an old lease
  runs out (the ticker selects due jobs every two seconds). Nobody owes an enqueue, a transcript or a look at the
  status route; `Dies` and lost leases are bounded, as `JobsEnd` is of finitely many.
* `PayFlow`: the watch re-arms its poll whatever became of the last one; a due check, Polar's answer and the answer to
  the page come again and again (strong fairness: any one of them may fail). No webhook, tool or visitor is assumed.
* `VaController`: the ceiling's clock runs in the session's one-second tick whatever else stands still, and an `end`
  that was begun goes on: the socket's `end` has its own timeout. Nothing of the agent, the tools or the customer is
  assumed.
* `StudioDraft`: a timer of an open page fires, a request is served, lost or answered, and its answer is handled. The
  author, other pages and reloads owe nothing.
* `CaseFields`: the page's request goes on at the server and its answer is handled (every request has a time limit),
  and a batch at the extractor ends (its calls have one, and a failure ends it too). A request the page gave up, the
  visitor, the verifier and the pass owe nothing.
* `SttChannels` and `Publishing` have safety and action properties only.

## 5. Proofs

Eight modules of proofs hold for every value of the constants, under the assumptions the components declare and the runs
evaluate: finite sets of requests, disjoint names, natural limits, at least one attempt, and a null that is no value. Every
invariant and every action property of the passing runs is proved; what the runs alone show is liveness. Two modules
hold the proofs of several components (`RelayProofs`, `CallProofs`); `SttSpec` is the specification of `SttChannels`.

| Module | Proved (each `Spec => ...`) | Assumption |
| --- | --- | --- |
| `VaSlotsProofs` | `SlotsSound`, `Capacity`, `MoneyBacked` | `SlotsAssumption` |
| `TakeoverServiceProofs` | `PassesSound`, `OneLivePass`, `LedgerSpec`, `CompletedStays` | `ServiceAssumption` |
| `VerifyJobsProofs` | `JobsSound`, `MoneyFollows`, `CompletedStays` | `VerifyAssumption` |
| `PayFlowProofs` | `MoneySound`, `ToldHolds`, `OneWay` | `PayAssumption` |
| `RelayProofs` | `RowsSound`, `Accounted`, `KeepsServing` (`Publishing`); `StudioSound`, `NoSilentOverwrite` (`StudioDraft`) | `PublishingAssumption`, `StudioAssumption` |
| `TakeoverMachineProofs` | `MachineSound`, `OutcomeTold`, `SettledBeforeEnd`, `PassSteps` | `MachineAssumption` |
| `VaControllerProofs` | `ControllerSound`, `QuietAfterEnd`, `ClosesInSilence` | `ControllerAssumption` |
| `CallProofs` | `VerifiedAgreed`, `LateNotTrusted`, `VerifierOnlyDowngrades` (`FieldStatus`); `CaseSound`, `SnapshotWhole` (`CaseFields`); `ChannelsSound`, `WaitsForSomething`, `OneReconnect` (`SttChannels`); `BrokerSound`, `GrantedHasLeft`, `WindowLimited` (`SttBroker`) | `FieldAssumption`, `CaseAssumption`, `BrokerAssumption`, `ChannelsAssumption` |

* **Slots.** The properties are not inductive by themselves: that two active rows share no reservation depends on what
  the handlers between two transactions still intend to write. `SlotInv` says of every handler at a given statement
  which row it owns (`RequestRows`), that a hold's reservation is its own until it is consumed (`HoldRows`,
  `OneOwner`), that only written rows have money (`Unwritten`, `Booked`), and that a report's old copy is right about
  the reservation (`ReportRows`). Each action that writes a row has a lemma that it keeps `SlotInv`; the rest keep its
  frame. `MoneyBacked` (`ActiveBacked`, `ReservationExclusive`, `SessionPaidFor`) and `OneRetry` follow. `Capacity` is
  a second induction over it, on the cardinality of the active rows: grows by one under `~Full`, or trades a hold for
  a slot.
* **Passes.** `FullInv` has the type, that handlers work on accepted takeovers, `CoreInv` and `AnswersStored`.
  `CoreInv` needs `HandedBackIsOver` and `ShadowingIsFresh`: a case that may be armed has no pass under way unless its
  own tool handed it back, from which `OnePassAtATime` follows at the arm. Seven actions write what `CoreInv` reads;
  the others are `Quiet`, shown once. `PassLimit` is the cardinality argument for the limit under racing arms.
* **Refinement.** `KeepsLedger`: every step of the service is a step of `PassLedger` or leaves its variables, by cases
  on the actions, with `FullInv` and `PassLimit`.
* **Jobs.** `TypeInv` adds to the type that a leased job has an attempt left (`AttemptsLeft`), or the count a thrown
  step writes back would leave its range. Fifteen actions are a worker's step on its own record (`OwnStep`), shown once;
  `Steps` then splits the next-state relation by actor. `CompletedStays` is an action property of it (`ResultStays`).
  `ResultRecorded` needs `ResultInv`: a worker that is about to end its job has the row behind it (`Recorded`), and no
  other worker, of this job or of the pass's second job, takes it back. `LeaseExclusive` follows from `Alone`: until a
  step outlives its lease, a worker holds its job's lease and no other has the job. `MoneyFollows` is a third induction,
  on the pairs of transcript and reservation that a job's row and its workers' copies of it hold: a pair's reservation
  is not given back before its transcript's error (`PairSound`), it stands for no other transcript (`PairsSound`), and
  one that still waits for its transcript is its worker's own (`PostSound`).

* **Payments.** `PayInv` says where a pay-link call stands with its checkout (`CallsAlong`), that a row that was not
  inserted is not moved (`RowsReal`), and that a poll carries a result that has happened (`PollRight`, `WatchRight`).
  The argument is about steps: `Forward` is what one write may do to one payment, `PolarOn` what the provider may do to
  a checkout. Every action moves the rows `Forward`, which gives `OneWay`, and with `PolarOn` keeps what was proved of
  the money and of what the page was told.
* **Publications.** An agent's fate is decided by what the requests remember of it. `PublishInv` has that a new agent is
  its publish's secret until the swap (`Unknown`), that one row holds an agent (`OneHolder`), that the agent a publish
  will retire is in no row after its swap (`Given`), and that a tombstone is no row anybody swaps (`Tombs`). `OneEach`
  counts the agents against the publishes, so that no number is given twice. `Accounted` rests on `SoleInv`: as
  long as requests came one at a time, what the request under way has read or written is as it left it (`Mine`), and an
  agent that no row counts is in its hands (`Counted`).
* **Drafts.** `StudioInv` says of a page in any state what the bar shows (`SaysSaved`), what the browser keeps for it
  (`Keeps`, where a text undone under a save counts as wiped), who its revision is from (`Knows`), and that the request
  under way is its own (`Asked`). The helpers are shown once to keep them, and each handler by its helpers.
* **The AI half's session.** `CtlInv` has one conjunct per part of the controller (`Clock`, `Pending`, `Quiet`,
  `ByPage`, `Ended`, `Joined`, `Goodbye`). The methods every end goes through (`FinishEnded`, `Ending`, `Dropped`,
  `StartFailed`) are shown once to keep `Own` of whatever controller they are given; `With` ties it to the socket and
  the calls. What makes `QuietAfterEnd` inductive is that a session that was told of its end never starts and hears its
  socket no more (`Ended`), and that an answer after the end is `late`.
* **The machine.** The reducer's helpers map a context to a context, so the invariant `Good` is a predicate of one:
  where a pass stands with its arm, its session and its end (`Staged`), whose the sockets are (`Sockets`, `Live`), what
  is asked (`Asked`), and that the end of a pass is asked for once, heard once, and never before a report (`Booked`).
  Each helper is shown once to lead from a good context to a good one (`Leads`, with `Moves`: what it does to the
  pass), and each action by the helpers it chains. A helper called between two others may find a pass in a state no
  step leaves behind; `UnderWay` and `Closable` say what is true of it there. TLC runs one pass of a page; the theorems
  hold for any number, so `PassEnds` is what is known of one pass only.
* **Field statuses.** `FieldStatus` folds the facts heard into a status, a value and what supports or opposes it. The
  library's induction theorems cannot be instantiated here, so the induction is first-order: `Smallest` takes the least
  number of a set of naturals from the well-founded order, and `Upward` makes from it "holds at 0, and at n whenever at
  n-1" for a set. `Story` says of the state after n facts from which fact on its value has been held and has grown only by
  values it contains (`Since`), and who contradicted, denied or confirmed it since; each rule of the status code keeps
  it. The three rules (`AgreedRuleHolds`, `LateRuleHolds`, `OverlayRuleHolds`) hold for conversations of any length, any
  fields and any values, where the run enumerates short ones.
* **The case.** `CaseInv` says that the page has one request under way at most (`Alive`), that a request waits only for
  a turn under way (`Joined`), that a pending row is at the extractor, waits for it or was cut off by a restart
  (`Pending`), that before the freeze an answer means an extracted turn (`Early`), and what the report of the drain
  knows of the frozen snapshot (`Passed`). `CaseSound` and `SnapshotWhole` follow.
* **Live transcription.** `Kept` takes places out of a sequence; by the same induction what is left embeds into what was
  (`Embeds`), and order, one place per requester and the count of rows follow for every handler of the broker. With
  `Unserved`, who asks without a ticket or was granted has no place, so a place is not taken twice. What is left is no
  longer than what was, so `WindowLimited` is an induction beside it. `PageInv` says that
  each channel of the page is in one place: asked for (`Due`: a request, a poll, or a ticket left behind), connecting,
  with a session, or paused (`Placed`); that its sessions are numbered as they open, every older one is being ended, and
  each is paid for by the opening, the one reconnect or a pause (`Own`); and that requests that are out share no
  channel (`Asking`). `WaitsForSomething` is one of its conjuncts: it is kept because an answer, a poll or a reconnect
  that takes over the ticket leaves another channel without its waker only when two were out. The run explores one
  pause or fault (`Narrow`); the theorems are about `SttSpec`, with any number.

Out of the prover's reach, and with TLC only: liveness under fairness (`SlotsClose`, `PassEnds`, `PaidIsTold`, `JobsEnd`,
`AutosaveTries`, `CeilingReached`, `TurnsEnd`), for which the bounds of section 3 are all that is known. `OrgHasOwner` and
`RetryProcessed` are violated by the code and so have no theorem.

## 6. What is not modelled, and what comes next

Left out for good: prompts, wording and layout (the compiler's output, the views), signal processing, the outside
services' own protocols, sign-in and billing libraries, single-statement logs and counters. `PROJECT.json` lists every
part with its reason.

Planned, in this order; each replaces or joins a run so that the set stays small:

1. Two passes of one page: late answers of the first carry no pass and count for the second. A two-pass instance shows
   `PassSettles` violated (a `compiled` of the first pass moves the second to CONNECTING, where a failed arm is
   ignored); it is too large for a run of its own beside `machine`, and its order needs an answer as late as a whole
   AI session.
2. Daily sums of the spend ledger, `tool_calls`, the outbox, and guests: their start, the link to an account (its
   failure leaves the guest's organization without a member) and the claim.
3. The takeover machine composed with `TakeoverService`, for what only both together promise: a pass the page ended is
   ended on the server.
