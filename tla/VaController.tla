---------------------------- MODULE VaController ----------------------------
(***************************************************************************)
(* One session of the Voice Agent in the page                              *)
(* (VoiceAgentControllerImpl, with SessionCap and PaymentWatch): connect,  *)
(* start, replies and speech, the tools with their answers, the payment    *)
(* being waited for, the hand-back, the goodbye, the cap, the ceiling, a   *)
(* hidden page, and the end by any of these, by the owner or by the        *)
(* provider.                                                               *)
(*                                                                         *)
(* c is the state of the object; an operator named after a method maps it  *)
(* to the next one, and an action is one callback or one part of an async  *)
(* method between two awaits.  Times are abstracted to a timer that fires. *)
(* The page uses payToolMode "push", and its stage source answers within   *)
(* the turn.  What is said, heard and shown is left out.                   *)
(***************************************************************************)
EXTENDS Naturals, FiniteSets

CONSTANTS
  Calls,  \* tool calls of the agent
  None    \* null

ASSUME ControllerAssumption == IsFiniteSet(Calls) /\ None \notin Calls

VARIABLES
  c,     \* the controller
  sock,  \* its socket
  call   \* the tool calls: where each stands, and which tool it calls

vars == <<c, sock, call>>

Phases == {"idle", "connecting", "open", "ready", "active", "paying", "closing", "ended", "failed"}
\* "old" is the timer of a hand-back that a second one replaced.
Timers == {"beats", "ios", "close", "handback", "old"}
Tools  == {"pay", "handback", "confirm"}

TypeOK ==
  /\ sock \in {"none", "opening", "open", "closing", "closed"}
  /\ call \in [Calls -> [pc: {"idle", "asked", "answered", "late"}, tool: Tools]]
  /\ c \in [phase: Phases, attached: BOOLEAN,
            starting: {"no", "waiting", "resuming", "done", "failed"}, deferred: BOOLEAN,
            ending: {"no", "waiting", "done"}, byUs: BOOLEAN, told: BOOLEAN, early: BOOLEAN,
            timers: SUBSET Timers, wired: BOOLEAN, feeder: BOOLEAN,
            watch: Calls \cup {None}, watches: [Calls -> {"none", "watching", "timed_out"}],
            paying: BOOLEAN, closing: BOOLEAN, capDone: BOOLEAN,
            confirmed: BOOLEAN, closeReady: BOOLEAN,
            speaking: BOOLEAN, reply: {"no", "old", "new"},
            handBack: Calls \cup {None}, fired: BOOLEAN]
  /\ \A x \in Calls : c.watches[x] # "none" => c.watch = x

Init ==
  /\ sock = "none"
  /\ call = [x \in Calls |-> [pc |-> "idle", tool |-> "pay"]]
  /\ c = [phase |-> "idle", attached |-> FALSE, starting |-> "no", deferred |-> FALSE,
          ending |-> "no", byUs |-> FALSE, told |-> FALSE, early |-> FALSE,
          timers |-> {}, wired |-> FALSE, feeder |-> FALSE,
          watch |-> None, watches |-> [x \in Calls |-> "none"],
          paying |-> FALSE, closing |-> FALSE, capDone |-> FALSE,
          confirmed |-> FALSE, closeReady |-> FALSE, speaking |-> FALSE, reply |-> "no",
          handBack |-> None, fired |-> FALSE]

-----------------------------------------------------------------------------
(* The methods every end goes through *)

\* Mutant: the timer of the goodbye is left running.
StopOthers(s) == [s EXCEPT !.timers = @ \cap {"old", "close"}]
StopTimers(s) == [s EXCEPT !.timers = @ \cap {"old"}]
StopWatch(s)  == IF s.watch = None THEN s ELSE [s EXCEPT !.watches[s.watch] = "none"]
Cleanup(s)    == [StopTimers(s) EXCEPT !.wired = FALSE]

FinishEnded(s) ==
  IF s.told THEN s
  ELSE Cleanup([s EXCEPT !.told = TRUE, !.phase = IF @ = "failed" THEN @ ELSE "ended"])

\* end up to its await; without a session it goes on in the same turn.
Closing(s) ==
  [StopWatch(StopTimers(s)) EXCEPT
     !.byUs = TRUE, !.phase = "closing", !.closing = @ \/ s.starting = "done",
     !.feeder = FALSE, !.early = @ \/ s.starting \in {"waiting", "resuming"}]
Ending(s) ==
  IF s.ending # "no" THEN s
  ELSE IF s.attached THEN [Closing(s) EXCEPT !.ending = "waiting"]
  ELSE FinishEnded([Closing(s) EXCEPT !.ending = "done"])

StartFailed(s) == Cleanup([s EXCEPT !.starting = "failed", !.phase = "failed"])

\* onClose
Dropped(s) ==
  IF s.byUs THEN s
  ELSE IF s.starting \in {"waiting", "resuming"} THEN [s EXCEPT !.deferred = (s.starting = "resuming")]
  ELSE IF s.starting # "done" THEN s
  ELSE FinishEnded([StopWatch(StopTimers(s)) EXCEPT !.feeder = FALSE, !.phase = "failed"])

-----------------------------------------------------------------------------
(* connect, start *)

Connect ==
  /\ c.phase = "idle"
  /\ c' = [c EXCEPT !.phase = "connecting"]
  /\ sock' = "opening"
  /\ UNCHANGED call

Opens ==
  /\ sock = "opening"
  /\ sock' = "open"
  /\ c' = [c EXCEPT !.attached = TRUE, !.wired = TRUE, !.phase = "open"]
  /\ UNCHANGED call

ConnectFails ==
  /\ sock = "opening"
  /\ sock' = "closed"
  /\ c' = [c EXCEPT !.phase = "failed"]
  /\ UNCHANGED call

\* The owner starts a session it has not ended; a socket that closed meanwhile fails at once,
\* a bad first update before anything is sent.
Start ==
  /\ c.attached /\ c.starting = "no" /\ ~c.byUs
  /\ c' \in {IF sock = "open" THEN [c EXCEPT !.starting = "waiting"] ELSE StartFailed(c),
             [c EXCEPT !.starting = "failed"]}
  /\ UNCHANGED <<sock, call>>

SessionReady ==
  /\ sock = "open" /\ c.starting = "waiting"
  /\ c' = [c EXCEPT !.starting = "resuming"]
  /\ UNCHANGED <<sock, call>>

\* An error or the deadline of session.ready.
StartFails ==
  /\ c.starting = "waiting"
  /\ c' = StartFailed(c)
  /\ UNCHANGED <<sock, call>>

\* start goes on: audio in, cap and heartbeats; then what happened since session.ready.
Running(s) == [s EXCEPT !.starting = "done", !.timers = @ \cup {"beats"}, !.feeder = TRUE,
                        !.phase = "ready", !.deferred = FALSE]
Resumes ==
  /\ c.starting = "resuming"
  /\ c' = IF c.deferred THEN Dropped(Running(c)) ELSE Running(c)
  /\ UNCHANGED <<sock, call>>

\* The socket closes, by the provider, the network or the page.
Closes ==
  /\ sock \in {"open", "closing"}
  /\ sock' = "closed"
  /\ LET heard == IF c.wired THEN Dropped(c) ELSE c IN
     c' = IF c.starting = "waiting" THEN StartFailed(heard) ELSE heard
  /\ UNCHANGED call

-----------------------------------------------------------------------------
(* Replies and speech *)

Hearing == sock = "open" /\ c.wired /\ c.starting = "done"

\* Mutant: a reply that starts leaves the goodbye's timer running.
KeepClose(s)   == s
CancelClose(s) == [s EXCEPT !.timers = @ \ {"close"}]

ReplyStarted ==
  /\ Hearing /\ c.reply = "no"
  /\ c' = [CancelClose(c) EXCEPT !.reply = "new"]
  /\ UNCHANGED <<sock, call>>

SpeechStarted ==
  /\ Hearing /\ ~c.speaking
  /\ c' = [CancelClose(c) EXCEPT !.speaking = TRUE]
  /\ UNCHANGED <<sock, call>>

SpeechStopped ==
  /\ Hearing /\ c.speaking
  /\ c' = [c EXCEPT !.speaking = FALSE]
  /\ UNCHANGED <<sock, call>>

\* After the agent's sentence the hand-back waits for its playback only.
MaybeFireHandBack(s) ==
  IF s.handBack = None \/ s.fired \/ s.reply # "new" THEN s
  ELSE [s EXCEPT !.timers = @ \cup {"handback"}]
MaybeScheduleClose(s) ==
  IF ~s.confirmed \/ s.closeReady THEN s ELSE [s EXCEPT !.timers = @ \cup {"close"}]

\* Only an audible reply that nobody interrupted counts.
ReplyDone ==
  /\ Hearing /\ c.reply # "no"
  /\ \E counts \in BOOLEAN :
       c' = [(IF counts THEN MaybeScheduleClose(MaybeFireHandBack(c)) ELSE c) EXCEPT !.reply = "no"]
  /\ UNCHANGED <<sock, call>>

\* The greeting is heard.
FirstAudible ==
  /\ c.wired /\ c.phase = "ready"
  /\ c' = [c EXCEPT !.phase = "active"]
  /\ UNCHANGED <<sock, call>>

-----------------------------------------------------------------------------
(* Tools *)

ToolCall(x) ==
  /\ Hearing /\ call[x].pc = "idle"
  /\ \E tool \in Tools : call' = [call EXCEPT ![x] = [pc |-> "asked", tool |-> tool]]
  /\ UNCHANGED <<c, sock>>

\* Mutant: the wait begins and nobody watches the payment.
Unwatched(s, x) == [StopWatch(s) EXCEPT !.paying = TRUE, !.phase = "paying"]
BeginPaying(s, x) ==
  [StopWatch(s) EXCEPT !.paying = TRUE, !.phase = "paying",
                       !.watch = x, !.watches[x] = "watching"]
EndPaying(s) ==
  IF ~s.paying /\ s.phase # "paying" THEN s
  ELSE [s EXCEPT !.paying = FALSE, !.phase = IF @ = "paying" THEN "active" ELSE @]

\* A hand-back replaces the one before, whose timer goes on.
ArmHandBack(s, x) ==
  [s EXCEPT !.handBack = x, !.fired = FALSE, !.reply = IF @ = "new" THEN "old" ELSE @,
            !.timers = {"handback"} \cup (IF "handback" \in @ THEN @ \cup {"old"} ELSE @)]

\* The answer of POST /api/va/tool; nothing asks whether the session is still on.
ToolAnswers(x) ==
  /\ call[x].pc = "asked"
  /\ call' = [call EXCEPT ![x].pc = IF c.byUs \/ c.told THEN "late" ELSE "answered"]
  /\ c' \in {c, CASE call[x].tool = "pay"      -> BeginPaying(c, x)
                  [] call[x].tool = "handback" -> ArmHandBack(c, x)
                  [] call[x].tool = "confirm"  -> [c EXCEPT !.confirmed = TRUE]}
  /\ UNCHANGED sock

\* PaymentWatch at its deadline: it goes on, for a late success.
WatchTimesOut(x) ==
  /\ c.watches[x] = "watching"
  /\ c' = EndPaying([c EXCEPT !.watches[x] = "timed_out"])
  /\ UNCHANGED <<sock, call>>

\* A poll finds the payment at its end; after the deadline only a success counts, which is a
\* choice of the environment here.
WatchResolves(x) ==
  /\ c.watches[x] # "none"
  /\ c' = EndPaying([c EXCEPT !.watches[x] = "none"])
  /\ UNCHANGED <<sock, call>>

-----------------------------------------------------------------------------
(* Timers *)

HandBackFires ==
  /\ \E t \in {"handback", "old"} \cap c.timers :
       c' = IF c.fired THEN [c EXCEPT !.timers = @ \ {t}]
            ELSE [c EXCEPT !.fired = TRUE, !.timers = @ \ {t, "handback"}]
  /\ UNCHANGED <<sock, call>>

CloseFires ==
  /\ "close" \in c.timers
  /\ LET s == CancelClose(c) IN
     c' = IF c.speaking \/ c.closeReady THEN s ELSE [s EXCEPT !.closeReady = TRUE, !.closing = TRUE]
  /\ UNCHANGED <<sock, call>>

\* SessionCap.tick: the cap stands still while paying and closing, the ceiling never does.
CapEnds ==
  /\ "beats" \in c.timers /\ ~c.capDone
  /\ ~c.paying /\ ~c.closing
  /\ c' = Ending([c EXCEPT !.capDone = TRUE])
  /\ UNCHANGED <<sock, call>>

\* Mutant: the ceiling stands still like the cap.
CeilingPaused == ~c.paying /\ ~c.closing
CeilingDue    == TRUE
CeilingEnds ==
  /\ "beats" \in c.timers /\ ~c.capDone /\ CeilingDue
  /\ c' = Ending([c EXCEPT !.capDone = TRUE])
  /\ UNCHANGED <<sock, call>>

\* An iOS page is hidden; it is shown again, or the session ends after iosHiddenEndMs.
Hidden ==
  /\ c.wired /\ c.starting = "done" /\ "ios" \notin c.timers
  /\ c' = [c EXCEPT !.timers = @ \cup {"ios"}]
  /\ UNCHANGED <<sock, call>>
Shown ==
  /\ c.wired /\ "ios" \in c.timers
  /\ c' = [c EXCEPT !.timers = @ \ {"ios"}]
  /\ UNCHANGED <<sock, call>>
HiddenEnds ==
  /\ "ios" \in c.timers
  /\ c' = Ending([c EXCEPT !.timers = @ \ {"ios"}])
  /\ UNCHANGED <<sock, call>>

-----------------------------------------------------------------------------
(* The owner ends the session *)

End ==
  /\ c.phase # "idle" /\ c.ending = "no"
  /\ c' = Ending(c)
  /\ UNCHANGED <<sock, call>>

\* session.ended came, or its wait ran out.
EndCloses ==
  /\ c.ending = "waiting" /\ sock = "open"
  /\ sock' = "closing"
  /\ UNCHANGED <<c, call>>

\* The socket has closed, or its wait ran out.
EndReturns ==
  /\ c.ending = "waiting" /\ sock \in {"closing", "closed"}
  /\ c' = FinishEnded([c EXCEPT !.ending = "done"])
  /\ UNCHANGED <<sock, call>>

EndNow ==
  /\ c.phase # "idle"
  /\ sock' = IF c.attached /\ sock = "open" THEN "closing" ELSE sock
  /\ c' = FinishEnded([StopWatch(StopTimers(c)) EXCEPT !.byUs = TRUE, !.feeder = FALSE])
  /\ UNCHANGED call

\* Between session.ready and the turn in which start goes on, only the socket may close.
Turn == c.starting # "resuming"

Next ==
  \/ Resumes \/ Closes
  \/ /\ Turn
     /\ \/ Connect \/ Opens \/ ConnectFails \/ Start \/ SessionReady \/ StartFails
        \/ ReplyStarted \/ SpeechStarted \/ SpeechStopped \/ ReplyDone \/ FirstAudible
        \/ \E x \in Calls : ToolCall(x) \/ ToolAnswers(x) \/ WatchTimesOut(x) \/ WatchResolves(x)
        \/ HandBackFires \/ CloseFires \/ CapEnds \/ CeilingEnds
        \/ Hidden \/ Shown \/ HiddenEnds
        \/ End \/ EndCloses \/ EndReturns \/ EndNow

\* The page's interval fires, and the waits of end() are bounded.
Fairness ==
  WF_vars(CeilingEnds) /\ WF_vars(EndCloses) /\ WF_vars(EndReturns)

Spec == Init /\ [][Next]_vars /\ Fairness

-----------------------------------------------------------------------------
(* Properties *)

Late == \E x \in Calls : call[x].pc = "late"

\* After the owner was told that the session ended, nothing of it runs: no heartbeat, cap or
\* goodbye; no hand-back or wait for a payment unless a tool answered too late; no audio in,
\* unless the end came before session.ready (the feeder that start makes then is stopped by no
\* one).  The session takes no phase of a running one.
QuietAfterEnd ==
  c.told =>
    /\ c.timers \cap {"beats", "ios", "close"} = {}
    /\ c.feeder => c.early
    /\ ~Late => /\ "handback" \notin c.timers
                /\ \A x \in Calls : c.watches[x] = "none"
                /\ c.phase \notin {"ready", "active", "paying"}

\* The wrap-up clock stands still exactly as long as a payment is waited for: no outcome of
\* another payment sets it going, and none leaves it standing, until the session is ended.
CapWaits ==
  LET waits == \E x \in Calls : c.watches[x] = "watching" IN
  /\ waits => c.paying
  /\ c.paying => waits \/ c.byUs \/ c.told

\* The goodbye is over only when a confirmation was sent, nobody speaks and no reply is under way.
ClosesInSilence ==
  [][c.closeReady' /\ ~c.closeReady => c.confirmed /\ ~c.speaking /\ c.reply = "no"]_vars

\* The owner will hear of a hand-back, whatever the agent says or does not say after it and
\* whichever hand-back it replaces, unless the session is being ended.
HandBackPending == c.handBack # None => c.fired \/ "handback" \in c.timers \/ c.byUs \/ c.told

\* A session that started ends, at the ceiling if nothing else ends it.
CeilingReached == c.starting = "done" ~> c.told

\* The controller is sound: its cap stands still exactly while a payment is waited
\* for, and no hand-back is forgotten.
ControllerSound == TypeOK /\ CapWaits /\ HandBackPending
=============================================================================
