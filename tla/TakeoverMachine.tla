-------------------------- MODULE TakeoverMachine --------------------------
(***************************************************************************)
(* The browser's side of a pass of the baton: the takeover protocol        *)
(* reducer and the controller that runs its effects, with the Voice Agent  *)
(* sockets it opens and the answers it waits for.                          *)
(*                                                                         *)
(* A reducer helper maps a context (machine, requests, sockets, wire) to   *)
(* the next one, as reduce() and the effects after it do in one turn of    *)
(* the event loop.  Every answer is a request of net that is taken out,    *)
(* in any order.  Clocks are left out: a deadline may pass whenever the    *)
(* machine waits for it, and what the audio sampler measures (quiet, an    *)
(* open partial, how far the rep's line is) is any value.  Cut turns, the  *)
(* drain report, notices and HUD marks are data the protocol only carries. *)
(***************************************************************************)
EXTENDS Naturals, Sequences, FiniteSets

CONSTANTS
  Configs,    \* page configurations (MachineConfig)
  MaxPasses,  \* MAX_TAKEOVERS_PER_CASE
  MaxArms,    \* bound: arm requests one page sends
  MaxStale,   \* bound: unanswered requests a second pass may find
  None        \* null

VARIABLES
  cfg,        \* MachineConfig of the page
  m,          \* TakeoverMachineState
  net,        \* requests whose answer has not come
  sock,       \* Voice Agent socket of each pass and attempt
  wire,       \* session reports and ends the server got, in order
  unmounted   \* the controller was disposed of (in-app navigation)

vars == <<cfg, m, net, sock, wire, unmounted>>

Ids == 1..MaxArms
Attempts == {0, 1}
Before == {"armed", "sealing", "draining", "compiling", "connecting", "retrying"}
VaPhases == Before \cup {"greeting"}
Over == {"done", "failed", "fallback"}
Phases == {"idle", "active", "paying", "closing"} \cup VaPhases \cup Over
Outcomes == {"completed", "handed_back", "abandoned", "failed"}
Connected == {"opening", "open", "starting", "ready", "audible"}
VaStatuses == {"idle", "minting", "ended", "dead"} \cup Connected
Kinds == {"arm", "mint", "connect", "start", "clip", "drain", "compile", "local",
          "repback", "recorded", "failure", "closed", "end"}
SocketStates == {"none", "connecting", "open", "started", "ready", "gone", "stray", "orphan"}

Config == [live: BOOLEAN, handoff: {"none", "declined", "accepted"}, bundle: BOOLEAN, auto: BOOLEAN]

VaState == [attempt: Attempts, status: VaStatuses, held: BOOLEAN]
Closing == [outcome: Outcomes, step: {"rep_back", "ending"}]
Pass == [id: Ids, auto: BOOLEAN, lineKnown: BOOLEAN, arm: {"pending", "ok", "failed"},
         compile: {"idle", "waiting_arm", "server", "local", "done"},
         va: VaState, closing: Closing \cup {None}, endPosted: BOOLEAN]

ASSUME MachineAssumption ==
  /\ Configs \subseteq Config
  /\ {MaxPasses, MaxArms, MaxStale} \subseteq Nat
  /\ None \notin Pass \cup Closing

Machine == [phase: Phases, passes: 0..MaxPasses, lastOutcome: Outcomes \cup {None},
            pass: Pass \cup {None}, arms: 0..MaxArms, autoUsed: BOOLEAN,
            recordedStarted: BOOLEAN, runReleased: BOOLEAN, disposed: BOOLEAN]
Request == [k: Kinds, id: 0..MaxArms, att: Attempts, outcome: Outcomes \cup {None}]
Told == [k: {"closed", "end"}, id: Ids, outcome: Outcomes \cup {None}]

TypeOK ==
  /\ cfg \in Configs
  /\ m \in Machine
  /\ net \in SUBSET Request
  /\ sock \in [Ids \X Attempts -> SocketStates]
  /\ wire \in Seq(Told)
  /\ unmounted \in BOOLEAN

Init ==
  /\ cfg \in Configs
  /\ m = [phase |-> "idle", passes |-> 0, lastOutcome |-> None, pass |-> None, arms |-> 0,
          autoUsed |-> FALSE, recordedStarted |-> FALSE, runReleased |-> FALSE, disposed |-> FALSE]
  /\ net = {}
  /\ sock = [x \in Ids \X Attempts |-> "none"]
  /\ wire = <<>>
  /\ unmounted = FALSE

-----------------------------------------------------------------------------
(* Effects. *)

Now == [m |-> m, net |-> net, sock |-> sock, wire |-> wire]
Become(c) == m' = c.m /\ net' = c.net /\ sock' = c.sock /\ wire' = c.wire

Req(k, id, att) == [k |-> k, id |-> id, att |-> att, outcome |-> None]
Ask(c, k, att) == [c EXCEPT !.net = @ \cup {Req(k, c.m.pass.id, att)}]
Enter(c, ph) == [c EXCEPT !.m.phase = ph]
VaIs(c, status) == [c EXCEPT !.m.pass.va.status = status]
Concluded(c, outcome) == [c EXCEPT !.m.lastOutcome = outcome]

HasSocket(va) == va.status \in Connected
VaPhase(c) == c.m.phase \in VaPhases
Current(c) == <<c.m.pass.id, c.m.pass.va.attempt>>

\* abort_va and end_va_now: unsubscribe, then endNow, which has no session to
\* end while connect() still waits for the socket to open.
HangUp(c) == [c EXCEPT !.sock[Current(c)] = IF @ = "connecting" THEN "stray" ELSE "gone"]
\* Mutant: the failed attempt's socket is left to itself.
AbortForgets(c) == c
Abort(c) == IF HasSocket(c.m.pass.va) THEN HangUp(c) ELSE c

\* Mutant: every end tells the same outcome.
PostEndCompleted(c, outcome) ==
  IF c.m.pass.arm # "ok" THEN c
  ELSE [c EXCEPT !.net = @ \cup {[k |-> "end", id |-> c.m.pass.id, att |-> 0, outcome |-> "completed"]}]

\* post_end, which the controller sends once the pass's session report is answered.
PostEnd(c, outcome) ==
  IF c.m.pass.endPosted \/ c.m.pass.arm # "ok" THEN c
  ELSE [c EXCEPT !.m.pass.endPosted = TRUE,
                 !.net = @ \cup {[k |-> "end", id |-> c.m.pass.id, att |-> 0, outcome |-> outcome]}]

-----------------------------------------------------------------------------
(* Voice Agent. *)

\* CONNECTING to GREETING, or wait (held) for tSend when the rep's line is still long.
MaybeStart(c, early) ==
  LET p == c.m.pass
      x == Current(c)
  IN IF \/ p = None
        \/ c.m.phase \notin {"connecting", "retrying"}
        \/ p.compile # "done" \/ p.va.status # "open" \/ ~p.lineKnown THEN c
     ELSE IF early THEN [c EXCEPT !.m.pass.va.held = TRUE]
     ELSE LET d == Enter(VaIs([c EXCEPT !.m.pass.va.held = FALSE], "starting"), "greeting")
          IN IF c.sock[x] = "open" THEN [d EXCEPT !.sock[x] = "started"] ELSE Ask(d, "start", x[2])

GiveUp(c) ==
  LET e == Concluded(PostEnd(VaIs(Abort(c), "dead"), "failed"), "failed")
  IN IF cfg.bundle THEN Enter(Ask(e, "recorded", 0), "fallback") ELSE Enter(e, "failed")

StartClosing(c, outcome, repBack) ==
  IF c.m.pass.closing # None THEN c
  ELSE LET d == [Enter(c, "closing") EXCEPT
                   !.m.pass.closing = [outcome |-> outcome,
                                       step |-> IF repBack THEN "rep_back" ELSE "ending"]]
       IN IF repBack THEN Ask(d, "repback", 0) ELSE d

Retry(c) ==
  LET d == Ask(Ask(Abort(c), "failure", 0), "mint", 1)
      e == [d EXCEPT !.m.pass.va = [attempt |-> 1, status |-> "minting", held |-> FALSE]]
  IN IF c.m.phase \in {"connecting", "greeting"} THEN Enter(e, "retrying") ELSE e

VaFailure(c, att, retryable) ==
  LET p == c.m.pass IN
  IF p = None THEN c
  ELSE IF p.va.attempt # att \/ p.va.status \in {"dead", "ended", "idle"} THEN c
  ELSE IF c.m.phase \in {"active", "paying"} THEN StartClosing(c, "failed", FALSE)
  ELSE IF ~VaPhase(c) THEN c
  ELSE IF att = 0 /\ retryable /\ p.arm = "ok" THEN Retry(c)
  ELSE LET d == VaIs(Abort(c), "dead")
       IN IF c.m.phase \in {"connecting", "retrying", "greeting"} THEN GiveUp(d) ELSE d

VaToken(c, att) ==
  LET p == c.m.pass IN
  IF p = None THEN c
  ELSE IF p.va.attempt # att \/ p.va.status # "minting" \/ p.closing # None THEN c
  ELSE Ask(VaIs([c EXCEPT !.sock[Current(c)] = "connecting"], "opening"), "connect", att)

VaOpen(c, att, early) ==
  LET p == c.m.pass IN
  IF p = None THEN c
  ELSE IF p.va.attempt # att \/ p.va.status # "opening" \/ p.closing # None THEN c
  ELSE MaybeStart(VaIs(c, "open"), early)

VaReady(c, att) ==
  LET p == c.m.pass IN
  IF p = None THEN c
  ELSE IF p.va.attempt # att \/ p.va.status # "starting" THEN c
  ELSE VaIs(c, "ready")

VaAudible(c, att) ==
  LET p == c.m.pass IN
  IF p = None THEN c
  ELSE IF p.va.attempt # att \/ p.va.status # "ready" \/ c.m.phase # "greeting" THEN c
  ELSE Enter(VaIs(c, "audible"), "active")

FinishPass(c) ==
  LET p == c.m.pass
      wasOpen == p.va.status \notin {"idle", "minting", "dead"}
      d == IF wasOpen THEN Ask(c, "closed", 0) ELSE c
      e == PostEnd(VaIs(d, "ended"), p.closing.outcome)
  IN Enter(Concluded(e, p.closing.outcome), IF p.closing.outcome = "failed" THEN "failed" ELSE "done")

\* why: the session cap, the page in the background, or anything else.
OutcomeOf(why) == CASE why = "cap" -> "handed_back" [] why = "left" -> "abandoned" [] OTHER -> "failed"
VaEnded(c, att, why) ==
  LET p == c.m.pass IN
  IF p = None THEN c
  ELSE IF p.va.attempt # att \/ p.va.status \in {"ended", "dead"} THEN c
  ELSE IF c.m.phase = "closing" THEN FinishPass(c)
  ELSE IF c.m.phase \in {"active", "paying"}
  THEN FinishPass([c EXCEPT !.m.pass.closing = [outcome |-> OutcomeOf(why), step |-> "ending"]])
  ELSE VaFailure(c, att, TRUE)

RepBackDone(c) ==
  LET p == c.m.pass IN
  IF p = None THEN c
  ELSE IF p.closing = None THEN c
  ELSE IF p.closing.step # "rep_back" THEN c
  ELSE [c EXCEPT !.m.pass.closing.step = "ending"]

-----------------------------------------------------------------------------
(* Drain and compile. *)

EnterDraining(c) == Ask(Enter(c, "draining"), "drain", 0)

\* open: a channel still has an open partial.
Seal(c, open) ==
  LET s == c.m
      d == IF s.pass.auto THEN c
           ELSE IF cfg.handoff # "none" /\ s.passes = 1 /\ s.lastOutcome = None THEN Ask(c, "clip", 0)
           ELSE [c EXCEPT !.m.pass.lineKnown = TRUE]
  IN IF open THEN Enter(d, "sealing") ELSE EnterDraining(d)

StartServerCompile(c) == Ask([c EXCEPT !.m.pass.compile = "server"], "compile", 0)

\* Mutant: a refused arm is waited for like one that is pending.
EnterCompilingWaits(c) ==
  LET d == Enter(c, "compiling") IN
  IF c.m.pass.arm = "ok" THEN StartServerCompile(d) ELSE [d EXCEPT !.m.pass.compile = "waiting_arm"]

EnterCompiling(c) ==
  LET d == Enter(c, "compiling") IN
  CASE c.m.pass.arm = "failed" -> GiveUp(d)
    [] c.m.pass.arm = "pending" -> [d EXCEPT !.m.pass.compile = "waiting_arm"]
    [] OTHER -> StartServerCompile(d)

Drained(c) == IF c.m.phase = "draining" THEN EnterCompiling(c) ELSE c

EnterConnecting(c, early) ==
  IF c.m.pass.va.status = "dead" THEN GiveUp(c)
  ELSE MaybeStart(Enter(c, IF c.m.pass.va.attempt = 1 THEN "retrying" ELSE "connecting"), early)

\* Mutant: a compile that answers late starts the connection over.
CompiledAnyPhase(c, early) == EnterConnecting([c EXCEPT !.m.pass.compile = "done"], early)

Compiled(c, early) ==
  IF c.m.phase # "compiling" THEN c
  ELSE EnterConnecting([c EXCEPT !.m.pass.compile = "done"], early)

CompileLocal(c) == Ask([c EXCEPT !.m.pass.compile = "local"], "local", 0)
ServerCompileFailed(c) ==
  IF c.m.phase = "compiling" /\ c.m.pass.compile = "server" THEN CompileLocal(c) ELSE c
LocalCompileFailed(c) == IF c.m.phase = "compiling" THEN GiveUp(c) ELSE c

-----------------------------------------------------------------------------
(* Arm. *)

CanArm ==
  /\ ~m.recordedStarted /\ m.passes < MaxPasses
  /\ \/ m.phase = "idle"
     \/ m.phase = "done" /\ m.lastOutcome = "handed_back"

AutoBatonEligible == cfg.auto /\ cfg.live /\ cfg.handoff = "accepted"

NewPass(c, auto) ==
  LET pass == [id |-> c.m.arms + 1, auto |-> auto, lineKnown |-> auto, arm |-> "pending",
               compile |-> "idle", closing |-> None, endPosted |-> FALSE,
               va |-> [attempt |-> 0, status |-> "idle", held |-> FALSE]]
      s == [c.m EXCEPT !.passes = @ + 1, !.arms = @ + 1, !.phase = "armed", !.pass = pass]
  IN Ask([c EXCEPT !.m = [s EXCEPT !.autoUsed = @ \/ auto]], "arm", 0)

OnArmOk(c) ==
  IF c.m.pass = None THEN c
  ELSE IF c.m.pass.arm # "pending" THEN c
  ELSE LET d == [c EXCEPT !.m.pass.arm = "ok"]
           e == IF d.m.pass.va.status = "idle"
                THEN Ask(VaIs(d, "minting"), "mint", 0) ELSE d
       IN IF e.m.pass.compile = "waiting_arm" THEN StartServerCompile(e) ELSE e

OnArmFailed(c) ==
  IF c.m.pass = None THEN c
  ELSE IF c.m.pass.arm # "pending" THEN c
  ELSE IF c.m.phase = "armed"
  THEN LET ph == IF c.m.lastOutcome = "handed_back" THEN "done" ELSE "idle"
       IN [c EXCEPT !.m = [c.m EXCEPT !.pass = None, !.passes = @ - 1, !.phase = ph]]
  ELSE LET d == [c EXCEPT !.m.pass.arm = "failed"]
       IN IF d.m.phase = "compiling" THEN GiveUp(d) ELSE d

-----------------------------------------------------------------------------
(* Inputs of the page: the visitor, the audio sampler and the recording. *)

Alive == ~m.disposed /\ ~unmounted

\* arm("manual"): already quiet on both channels, it seals at once.
Click(quiet, open) ==
  /\ Alive /\ cfg.live /\ CanArm
  /\ m.arms < MaxArms /\ Cardinality(net) <= MaxStale
  /\ LET c == NewPass(Now, FALSE) IN Become(IF quiet THEN Seal(c, open) ELSE c)
  /\ UNCHANGED <<cfg, unmounted>>

\* The recorded handoff line begins; past: its acceptance is over already.
AutoBaton(past, open) ==
  /\ Alive /\ CanArm
  /\ m.arms < MaxArms /\ Cardinality(net) <= MaxStale
  /\ AutoBatonEligible /\ ~m.autoUsed /\ m.passes = 0 /\ m.phase = "idle"
  /\ LET c == NewPass(Now, TRUE) IN Become(IF past THEN Seal(c, open) ELSE c)
  /\ UNCHANGED <<cfg, unmounted>>

StartRecorded ==
  /\ Alive /\ ~cfg.live /\ cfg.handoff = "accepted"
  /\ m.phase = "idle" /\ ~m.recordedStarted
  /\ LET c == [Now EXCEPT !.m.recordedStarted = TRUE] IN
     Become(IF cfg.bundle
            THEN [Enter(c, "fallback") EXCEPT !.net = @ \cup {Req("recorded", 0, 0)}]
            ELSE Enter(c, "done"))
  /\ UNCHANGED <<cfg, unmounted>>

\* A sample while the pass can still need one, or the end of the recording.
SampleSeals(open) ==
  /\ Alive /\ m.phase = "armed"
  /\ Become(Seal(Now, open))
  /\ UNCHANGED <<cfg, unmounted>>

FinalsDone ==
  /\ Alive /\ m.phase = "sealing"
  /\ Become(EnterDraining(Now))
  /\ UNCHANGED <<cfg, unmounted>>

\* The recording ended without a pass: the unused hold is released.
RecordingEnded ==
  /\ Alive /\ m.phase = "idle" /\ m.passes = 0 /\ ~m.runReleased
  /\ Become([Now EXCEPT !.m.runReleased = TRUE])
  /\ UNCHANGED <<cfg, unmounted>>

OnEndCall(c) ==
  CASE c.m.phase \in {"greeting", "active", "paying"} -> StartClosing(c, "abandoned", FALSE)
    [] c.m.phase \in Before ->
         Enter(Concluded(PostEnd(VaIs(Abort(c), "dead"), "abandoned"), "abandoned"), "done")
    [] c.m.phase = "fallback" -> Enter(c, "done")
    [] OTHER -> c

EndCall ==
  /\ Alive /\ m.phase \in VaPhases \cup {"active", "paying", "fallback"}
  /\ Become(OnEndCall(Now))
  /\ UNCHANGED <<cfg, unmounted>>

\* end_va_now, keepalive /end and run release; then the page is gone, with its
\* sockets and every chain of calls it had not finished.
PageHide ==
  /\ Alive
  /\ LET p == m.pass
         live == m.phase \notin {"idle", "done", "failed"}
         c == IF p = None THEN Now ELSE Abort(Now)
         d == [c EXCEPT !.m = [c.m EXCEPT !.runReleased = TRUE, !.disposed = TRUE],
                        !.net = {r \in @ : r.k = "arm"}]
         ends == IF p = None THEN FALSE ELSE live /\ ~p.endPosted /\ p.arm = "ok"
     IN Become(IF ends
               THEN [d EXCEPT !.m.pass.endPosted = TRUE,
                              !.wire = Append(@, [k |-> "end", id |-> p.id, outcome |-> "abandoned"])]
               ELSE d)
  /\ UNCHANGED <<cfg, unmounted>>

\* In-app navigation: End call while armed, then dispose() of the controller,
\* which stops its timer and its listeners and drops every later input.
Unmount ==
  /\ Alive
  /\ unmounted' = TRUE
  /\ Become(IF m.phase \in {"idle"} \cup Over THEN Now ELSE OnEndCall(Now))
  /\ UNCHANGED cfg

-----------------------------------------------------------------------------
(* Deadlines. *)

PhaseDeadline ==
  \/ m.phase \in {"armed", "sealing", "draining", "closing"}
  \/ m.phase = "compiling" /\ m.pass.compile = "server"
  \/ m.phase \in {"connecting", "retrying"} /\ ~m.pass.lineKnown

VaDeadline(c) ==
  LET p == c.m.pass IN
  /\ p # None /\ VaPhase(c)
  /\ p.closing = None
  /\ \/ p.va.status \in {"minting", "opening", "starting", "ready"}
     \/ p.va.status = "open" /\ p.va.held

TickPhase(c, open) ==
  CASE c.m.phase = "armed" -> Seal(c, open)
    [] c.m.phase = "sealing" -> EnterDraining(c)
    [] c.m.phase = "draining" -> Drained(c)
    [] c.m.phase = "compiling" -> CompileLocal(c)
    [] c.m.phase \in {"connecting", "retrying"} ->
         MaybeStart([c EXCEPT !.m.pass.lineKnown = TRUE], FALSE)
    [] c.m.phase = "closing" ->
         IF c.m.pass.closing.step = "rep_back" THEN RepBackDone(c) ELSE FinishPass(HangUp(c))

VaTimeout(c) ==
  IF c.m.pass.va.status = "open" THEN MaybeStart(c, FALSE)
  ELSE VaFailure(c, c.m.pass.va.attempt, TRUE)

\* tick: the phase's deadline, the Voice Agent's, or both; one that the first
\* just set is not due.
Tick(duePhase, dueVa, open) ==
  /\ Alive /\ m.pass # None
  /\ duePhase \/ dueVa
  /\ duePhase => PhaseDeadline
  /\ dueVa => VaDeadline(Now)
  /\ LET c == IF duePhase THEN TickPhase(Now, open) ELSE Now
     IN Become(IF dueVa /\ VaDeadline(c) /\ c.m.pass.va = m.pass.va THEN VaTimeout(c) ELSE c)
  /\ UNCHANGED <<cfg, unmounted>>

-----------------------------------------------------------------------------
(* Answers and Voice Agent events. *)

Without(c, r) == [c EXCEPT !.net = @ \ {r}]

\* The other answers reach the machine only while its controller lives.

\* POST /api/takeovers: accepted, or refused or not answered in time.
ArmAnswered(r, ok) ==
  /\ r.k = "arm"
  /\ LET c == Without(Now, r) IN
     Become(IF ~Alive THEN c ELSE IF ok THEN OnArmOk(c) ELSE OnArmFailed(c))
  /\ UNCHANGED <<cfg, unmounted>>

\* POST /api/va/token; attempt 1 is asked for once its failure is reported.
MintAnswered(r, ok, retryable) ==
  /\ Alive /\ r.k = "mint"
  /\ r.att = 1 => Req("failure", r.id, 0) \notin net
  /\ LET c == Without(Now, r) IN
     Become(IF ok THEN VaToken(c, r.att) ELSE VaFailure(c, r.att, retryable))
  /\ UNCHANGED <<cfg, unmounted>>

\* connect(): a socket nobody holds any more opens all the same.
Connects(r, early) ==
  /\ ~m.disposed /\ r.k = "connect"
  /\ LET x == <<r.id, r.att>>
         c == [Without(Now, r) EXCEPT !.sock[x] = IF @ = "connecting" THEN "open" ELSE "orphan"]
     IN Become(IF Alive THEN VaOpen(c, r.att, early) ELSE c)
  /\ UNCHANGED <<cfg, unmounted>>

ConnectFails(r) ==
  /\ ~m.disposed /\ r.k = "connect"
  /\ LET c == [Without(Now, r) EXCEPT !.sock[<<r.id, r.att>>] = "gone"]
     IN Become(IF Alive THEN VaFailure(c, r.att, TRUE) ELSE c)
  /\ UNCHANGED <<cfg, unmounted>>

\* Answers the machine takes whenever they come.
Answered(r, ok, early) ==
  /\ Alive
  /\ LET c == Without(Now, r) IN
     Become(
       CASE r.k = "start" -> VaFailure(c, r.att, TRUE)
         [] r.k = "clip" -> IF m.pass = None THEN c
                            ELSE IF m.pass.lineKnown THEN c
                            ELSE MaybeStart([c EXCEPT !.m.pass.lineKnown = TRUE], early)
         [] r.k = "drain" -> Drained(c)
         [] r.k = "compile" -> IF ok THEN Compiled(c, early) ELSE ServerCompileFailed(c)
         [] r.k = "local" -> IF ok THEN Compiled(c, early) ELSE LocalCompileFailed(c)
         [] r.k = "repback" -> RepBackDone(c)
         [] r.k = "recorded" -> IF m.phase = "fallback" THEN Enter(c, "done") ELSE c)
  /\ UNCHANGED <<cfg, unmounted>>

LocalCompiled(ok, early) == \E r \in net : r.k = "local" /\ Answered(r, ok, early)

\* Promise chains that go on without the controller, but not without the page.
FailureAnswered(r) ==
  /\ ~m.disposed /\ r.k = "failure"
  /\ net' = net \ {r}
  /\ UNCHANGED <<cfg, m, sock, wire, unmounted>>

ReportAnswered(r) ==
  /\ ~m.disposed /\ r.k = "closed"
  /\ net' = net \ {r}
  /\ wire' = Append(wire, [k |-> "closed", id |-> r.id, outcome |-> None])
  /\ UNCHANGED <<cfg, m, sock, unmounted>>

\* Mutant: the end does not wait for the report.
EndSentAtOnce(r) ==
  /\ ~m.disposed /\ r.k = "end"
  /\ net' = net \ {r}
  /\ wire' = Append(wire, [k |-> "end", id |-> r.id, outcome |-> r.outcome])
  /\ UNCHANGED <<cfg, m, sock, unmounted>>

EndSent(r) ==
  /\ ~m.disposed /\ r.k = "end"
  /\ Req("closed", r.id, 0) \notin net
  /\ net' = net \ {r}
  /\ wire' = Append(wire, [k |-> "end", id |-> r.id, outcome |-> r.outcome])
  /\ UNCHANGED <<cfg, m, sock, unmounted>>

SessionReady(x) ==
  /\ Alive /\ sock[x] = "started"
  /\ Become(VaReady([Now EXCEPT !.sock[x] = "ready"], x[2]))
  /\ UNCHANGED <<cfg, unmounted>>

GreetingPlays(x) ==
  /\ Alive /\ sock[x] = "ready"
  /\ Become(VaAudible(Now, x[2]))
  /\ UNCHANGED <<cfg, unmounted>>

\* The tools of the AI half and the quiet after its confirmation.
SessionTalks(x) ==
  /\ Alive /\ sock[x] = "ready" /\ m.phase \in {"active", "paying"}
  /\ \/ Become(Enter(Now, IF m.phase = "active" THEN "paying" ELSE "active"))
     \/ Become(StartClosing(Now, "completed", FALSE))
     \/ Become(StartClosing(Now, "handed_back", TRUE))
  /\ UNCHANGED <<cfg, unmounted>>

SessionFails(x, retryable) ==
  /\ Alive /\ sock[x] \in {"started", "ready"}
  /\ Become(VaFailure(Now, x[2], retryable))
  /\ UNCHANGED <<cfg, unmounted>>

\* A dropped socket is noticed only once the session was started.
SocketDrops(x) ==
  /\ Alive /\ sock[x] = "open"
  /\ sock' = [sock EXCEPT ![x] = "gone"]
  /\ UNCHANGED <<cfg, m, net, wire, unmounted>>

SessionEnds(x, why) ==
  /\ Alive /\ sock[x] \in {"started", "ready"}
  /\ sock[x] = "started" => why = "closed"
  /\ Become(VaEnded([Now EXCEPT !.sock[x] = "gone"], x[2], why))
  /\ UNCHANGED <<cfg, unmounted>>

-----------------------------------------------------------------------------
Visitor ==
  \/ \E quiet, open \in BOOLEAN : Click(quiet, open) \/ AutoBaton(quiet, open)
  \/ \E open \in BOOLEAN : SampleSeals(open)
  \/ StartRecorded \/ FinalsDone \/ RecordingEnded
  \/ EndCall \/ PageHide \/ Unmount

Timer == \E duePhase, dueVa, open \in BOOLEAN : Tick(duePhase, dueVa, open)

ArmAnswer == \E r \in net, ok \in BOOLEAN : ArmAnswered(r, ok)

Answer ==
  \/ ArmAnswer
  \/ \E r \in net, ok, b \in BOOLEAN : MintAnswered(r, ok, b)
  \/ \E r \in net, early \in BOOLEAN : Connects(r, early)
  \/ \E r \in net : ConnectFails(r) \/ FailureAnswered(r) \/ ReportAnswered(r) \/ EndSent(r)
  \/ \E r \in net, ok, early \in BOOLEAN :
       /\ r.k \in {"start", "clip", "drain", "compile", "local", "repback", "recorded"}
       /\ Answered(r, ok, early)

Session ==
  \E x \in Ids \X Attempts :
    \/ SessionReady(x) \/ GreetingPlays(x) \/ SessionTalks(x) \/ SocketDrops(x)
    \/ \E retryable \in BOOLEAN : SessionFails(x, retryable)
    \/ \E why \in {"cap", "left", "closed"} : SessionEnds(x, why)

Next == Visitor \/ Timer \/ Answer \/ Session

\* One timer is always armed at the next deadline, requests answer or time out
\* after 8 s, and the local compile is a microtask.  Visitor, audio, drain,
\* sockets and the provider owe nothing.
Fairness ==
  /\ WF_vars(Timer)
  /\ WF_vars(ArmAnswer)
  /\ WF_vars(\E ok, early \in BOOLEAN : LocalCompiled(ok, early))

Spec == Init /\ [][Next]_vars
FairSpec == Spec /\ Fairness

-----------------------------------------------------------------------------
(* Properties. *)

\* A socket in use belongs to the attempt the machine talks to: no replaced,
\* given up or finished session is kept open.
OneSocket ==
  \A x \in Ids \X Attempts :
    sock[x] \in {"connecting", "open", "started", "ready"} =>
      m.disposed \/ (m.pass # None /\ x = Current(Now) /\ m.pass.va.status \in Connected)

\* The page shows the AI half as live only while its session is up: a session
\* that ends by itself takes the page out of ACTIVE and PAYING in the same turn.
ActiveHasSession ==
  Alive /\ m.phase \in {"active", "paying"} => sock[Current(Now)] = "ready"

\* However a pass ends (End call, failure, hand-back, pagehide), the server hears
\* of its end at most once.
EndsOnce ==
  \A i, j \in 1..Len(wire) :
    wire[i].k = "end" /\ wire[j].k = "end" /\ wire[i].id = wire[j].id => i = j

\* The end of the current pass tells the outcome the page shows and acts on
\* (only a handed-back call can be passed again).
OutcomeTold ==
  \A r \in net : r.k = "end" /\ m.pass # None /\ m.phase \in Over =>
    (r.id = m.pass.id => r.outcome = m.lastOutcome)

\* A session's billed seconds reach the server before the end of its pass,
\* whose safety net would settle the slot without them.
SettledBeforeEnd ==
  \A i, j \in 1..Len(wire) :
    i < j /\ wire[i].k = "end" /\ wire[j].k = "closed" => wire[i].id # wire[j].id

Rank(ph) == CASE ph = "armed" -> 1 [] ph = "sealing" -> 2 [] ph = "draining" -> 3
              [] ph = "compiling" -> 4 [] ph \in {"connecting", "retrying", "greeting"} -> 5
              [] ph \in {"active", "paying"} -> 6 [] ph = "closing" -> 7 [] OTHER -> 8

SamePass == m.pass # None /\ m'.pass # None /\ m.pass.id = m'.pass.id

\* No late answer, deadline or event moves a pass back.
PhasesAdvance == [][SamePass => Rank(m.phase) <= Rank(m'.phase)]_vars

\* A second session never follows a greeting that was heard.
NoSecondGreeting ==
  [][SamePass /\ m.pass.va.status = "audible" => m'.pass.va.attempt = m.pass.va.attempt]_vars

\* The step that finishes a pass whose takeover the page knows asks for its end.
FinishPosts ==
  [][SamePass /\ m.phase \notin Over /\ m'.phase \in Over /\ m.pass.arm = "ok"
       => m'.pass.endPosted]_vars

\* The visitor is never left waiting: from the click the pass comes to the AI
\* half or to an end whatever the server, the socket and the audio do.
PassSettles == (m.phase \in VaPhases) ~> (m.phase \notin VaPhases \/ ~Alive)

\* A closing pass is over at last, whether or not the session says it ended.
ClosingEnds == (m.phase = "closing") ~> (m.phase # "closing" \/ ~Alive)

\* CLOSING --> session.end --> ended --> POST /end, also when the visitor leaves
\* the page by a link of the application.
ClosingPosts == unmounted /\ m.phase = "closing" => m.pass.endPosted

\* The machine is sound: no socket but the current attempt's is in use, the AI half
\* is shown as live only while its session is up, and a pass is ended at most once.
MachineSound == TypeOK /\ OneSocket /\ ActiveHasSession /\ EndsOnce

\* What no step of a pass does: move it back, follow a heard greeting with a second
\* session, or finish it without asking for its end.
PassSteps == PhasesAdvance /\ NoSecondGreeting /\ FinishPosts

\* A pass settles at the AI half or at an end, and a closing one is over at last.
PassEnds == PassSettles /\ ClosingEnds
=============================================================================
