------------------------- MODULE VaControllerProofs -------------------------
(***************************************************************************)
(* Proofs about VaController, for any set of tool calls: the cap and the   *)
(* hand-back are sound, a session that ended is quiet, and the goodbye is  *)
(* over in silence.                                                        *)
(***************************************************************************)
EXTENDS VaController, TLAPS

Sockets == {"none", "opening", "open", "closing", "closed"}
CallStates == [pc: {"idle", "asked", "answered", "late"}, tool: Tools]
Ctl ==
  [phase: Phases, attached: BOOLEAN,
   starting: {"no", "waiting", "resuming", "done", "failed"}, deferred: BOOLEAN,
   ending: {"no", "waiting", "done"}, byUs: BOOLEAN, told: BOOLEAN, early: BOOLEAN,
   timers: SUBSET Timers, wired: BOOLEAN, feeder: BOOLEAN,
   watch: Calls \cup {None}, watches: [Calls -> {"none", "watching", "timed_out"}],
   paying: BOOLEAN, closing: BOOLEAN, capDone: BOOLEAN,
   confirmed: BOOLEAN, closeReady: BOOLEAN,
   speaking: BOOLEAN, reply: {"no", "old", "new"},
   handBack: Calls \cup {None}, fired: BOOLEAN]

\* Nothing is waited for, and one payment is at most.
NoWatch(s)  == \A x \in Calls : s.watches[x] = "none"
OneWatch(s) == \A x \in Calls : s.watches[x] # "none" => s.watch = x

Waits(s) == \E x \in Calls : s.watches[x] = "watching"
Clock(s) == (Waits(s) => s.paying) /\ (s.paying => Waits(s) \/ s.byUs \/ s.told)

\* A hand-back is armed by a session that started.
Pending(s) ==
  s.handBack # None =>
    s.starting = "done" /\ (s.fired \/ "handback" \in s.timers \/ s.byUs \/ s.told)

\* What an end leaves: late says that a tool answered after it.
Quiet(s, late) ==
  s.told =>
    /\ s.timers \cap {"beats", "ios", "close"} = {}
    /\ s.feeder => s.early
    /\ ~late => "handback" \notin s.timers /\ s.phase \notin {"ready", "active", "paying"}

\* An end by the page stops the wait, and comes before the audio or finds it to stop.
ByPage(s, late) ==
  /\ s.ending = "waiting" => s.byUs
  /\ s.byUs /\ s.feeder => s.early
  /\ s.byUs /\ ~s.told /\ s.starting \in {"waiting", "resuming"} => s.early
  /\ (s.byUs \/ s.told) /\ ~late => NoWatch(s)

\* A session that was ended does not start, and hears its socket no more.
Ended(s) ==
  s.told => /\ s.phase # "idle" /\ s.starting # "resuming"
            /\ s.byUs \/ s.starting = "done"
            /\ s.wired => s.starting = "no"

\* Before it has its socket a session runs nothing.
Joined(s) ==
  IF s.attached THEN s.phase # "idle" ELSE s.starting = "no" /\ ~s.wired /\ s.timers = {}

Goodbye(s) == "close" \in s.timers => s.confirmed /\ s.reply = "no"

Own(s, late) ==
  /\ s \in Ctl /\ OneWatch(s) /\ Clock(s) /\ Pending(s)
  /\ Quiet(s, late) /\ ByPage(s, late) /\ Ended(s) /\ Joined(s) /\ Goodbye(s)

\* The controller with its socket and its tool calls.
With(s, k, calls) ==
  /\ k \in {"none", "opening"} => ~s.attached
  /\ s.told /\ s.starting = "waiting" => k # "open"
  /\ \A x \in Calls : calls[x].pc # "idle" => s.starting = "done"

CtlInv ==
  /\ sock \in Sockets /\ call \in [Calls -> CallStates]
  /\ Own(c, Late) /\ With(c, sock, call)

-----------------------------------------------------------------------------
(* The methods every end goes through, as one update each *)

LEMMA StopsAll ==
  ASSUME NEW s \in Ctl, OneWatch(s)
  PROVE  \E w \in [Calls -> {"none", "watching", "timed_out"}] :
           /\ \A x \in Calls : w[x] = "none"
           /\ StopWatch(StopTimers(s)) = [s EXCEPT !.timers = s.timers \cap {"old"}, !.watches = w]
<1> DEFINE t == [s EXCEPT !.timers = s.timers \cap {"old"}]
<1>1. StopTimers(s) = t /\ t \in Ctl /\ t.watch = s.watch /\ t.watches = s.watches
  BY DEF StopTimers, Ctl
<1>2. CASE s.watch = None
  <2>1. \A x \in Calls : s.watches[x] = "none"
    BY <1>2, ControllerAssumption DEF OneWatch
  <2>2. StopWatch(t) = t
    BY <1>1, <1>2 DEF StopWatch
  <2>3. t = [s EXCEPT !.timers = s.timers \cap {"old"}, !.watches = s.watches]
    BY DEF Ctl
  <2>4. s.watches \in [Calls -> {"none", "watching", "timed_out"}]
    BY DEF Ctl
  <2> HIDE DEF t
  <2> QED
    BY <1>1, <2>1, <2>2, <2>3, <2>4
<1>3. CASE s.watch # None
  <2> DEFINE w == [s.watches EXCEPT ![s.watch] = "none"]
  <2>1. w \in [Calls -> {"none", "watching", "timed_out"}] /\ \A x \in Calls : w[x] = "none"
    BY <1>3 DEF OneWatch, Ctl
  <2>2. StopWatch(t) = [t EXCEPT !.watches = w]
    BY <1>1, <1>3 DEF StopWatch
  <2> HIDE DEF w
  <2>3. StopWatch(t) = [s EXCEPT !.timers = s.timers \cap {"old"}, !.watches = w]
    BY <2>2 DEF Ctl
  <2> QED
    BY <1>1, <2>1, <2>3
<1> QED
  BY <1>2, <1>3

LEMMA FinishesOnce ==
  ASSUME NEW s \in Ctl, ~s.told
  PROVE  \E ph \in {"failed", "ended"} :
           FinishEnded(s) = [s EXCEPT !.told = TRUE, !.phase = ph, !.wired = FALSE,
                                      !.timers = s.timers \cap {"old"}]
<1> DEFINE ph == IF s.phase = "failed" THEN "failed" ELSE "ended"
<1> DEFINE t == [s EXCEPT !.told = TRUE, !.phase = ph]
<1>1. ph \in {"failed", "ended"} /\ FinishEnded(s) = Cleanup(t)
  BY DEF FinishEnded, Ctl
<1> HIDE DEF ph
<1>2. Cleanup(t) = [s EXCEPT !.told = TRUE, !.phase = ph, !.wired = FALSE,
                             !.timers = s.timers \cap {"old"}]
  BY DEF Cleanup, StopTimers, Ctl
<1> QED
  BY <1>1, <1>2

LEMMA ClosingOwn ==
  ASSUME NEW s, NEW late \in BOOLEAN, Own(s, late), s.phase # "idle"
  PROVE  /\ Own(Closing(s), late) /\ NoWatch(Closing(s)) /\ Closing(s).byUs
         /\ Closing(s).attached = s.attached /\ Closing(s).starting = s.starting
         /\ Closing(s).told = s.told
<1> DEFINE over == s.closing \/ s.starting = "done"
<1> DEFINE soon == s.early \/ s.starting \in {"waiting", "resuming"}
<1>1. s \in Ctl /\ OneWatch(s)
  BY DEF Own
<1>2. PICK w \in [Calls -> {"none", "watching", "timed_out"}] :
        /\ \A x \in Calls : w[x] = "none"
        /\ StopWatch(StopTimers(s)) = [s EXCEPT !.timers = s.timers \cap {"old"}, !.watches = w]
  BY <1>1, StopsAll
<1>3. Closing(s) = [s EXCEPT !.timers = s.timers \cap {"old"}, !.watches = w, !.byUs = TRUE,
                             !.phase = "closing", !.closing = over, !.feeder = FALSE, !.early = soon]
  BY <1>1, <1>2 DEF Closing, Ctl
<1>4. over \in BOOLEAN /\ soon \in BOOLEAN /\ (s.early => soon)
      /\ (s.starting \in {"waiting", "resuming"} => soon)
  BY <1>1 DEF Ctl
<1> HIDE DEF over, soon
<1>5. Closing(s) \in Ctl
  <2> DEFINE ts == s.timers \cap {"old"}
  <2>1. ts \in SUBSET Timers /\ "closing" \in Phases /\ w \in [Calls -> {"none", "watching", "timed_out"}]
    BY <1>1, <1>2 DEF Ctl, Phases
  <2>2. Closing(s) = [s EXCEPT !.timers = ts, !.watches = w, !.byUs = TRUE, !.phase = "closing",
                               !.closing = over, !.feeder = FALSE, !.early = soon]
    BY <1>3
  <2> HIDE DEF ts
  <2> DEFINE t == [s EXCEPT !.timers = ts, !.watches = w, !.phase = "closing"]
  <2>3. t \in Ctl
    BY <1>1, <2>1 DEF Ctl
  <2>4. Closing(s) = [t EXCEPT !.byUs = TRUE, !.closing = over, !.feeder = FALSE, !.early = soon]
    BY <1>1, <2>2 DEF Ctl
  <2> HIDE DEF t
  <2> QED
    BY <1>4, <2>3, <2>4 DEF Ctl
<1> QED
  BY <1>1, <1>2, <1>3, <1>4, <1>5
  DEF Own, NoWatch, OneWatch, Waits, Clock, Pending, Quiet, ByPage, Ended, Joined, Goodbye, Ctl
LEMMA FinishEndedOwn ==
  ASSUME NEW s \in Ctl, NEW late \in BOOLEAN,
         s.told => Own(s, late),
         ~s.told => /\ OneWatch(s) /\ (Waits(s) => s.paying)
                    /\ s.handBack # None => s.starting = "done"
                    /\ s.feeder => s.early
                    /\ ~late => NoWatch(s)
                    /\ s.byUs \/ s.starting = "done"
                    /\ s.starting # "resuming"
                    /\ ~s.attached => s.starting = "no" /\ s.timers = {}
                    /\ s.ending = "waiting" => s.byUs
  PROVE  /\ Own(FinishEnded(s), late) /\ FinishEnded(s).told
         /\ FinishEnded(s).attached = s.attached /\ FinishEnded(s).starting = s.starting
<1>1. CASE s.told
  BY <1>1 DEF FinishEnded
<1>2. CASE ~s.told
  <2>1. PICK ph \in {"failed", "ended"} :
          FinishEnded(s) = [s EXCEPT !.told = TRUE, !.phase = ph, !.wired = FALSE,
                                     !.timers = s.timers \cap {"old"}]
    BY <1>2, FinishesOnce
  <2>2. ph \in Phases /\ ph \in {"failed", "ended"}
    BY <2>1 DEF Phases
  <2> DEFINE ts == s.timers \cap {"old"}
  <2>3. ts \in SUBSET Timers
    BY DEF Ctl
  <2>4. FinishEnded(s) = [s EXCEPT !.told = TRUE, !.phase = ph, !.wired = FALSE, !.timers = ts]
    BY <2>1
  <2>5. FinishEnded(s) \in Ctl
    <3> HIDE DEF ts
    <3> DEFINE u == [s EXCEPT !.phase = ph, !.timers = ts]
    <3>1. u \in Ctl
      BY <2>2, <2>3 DEF Ctl
    <3>2. FinishEnded(s) = [u EXCEPT !.told = TRUE, !.wired = FALSE]
      BY <2>4 DEF Ctl
    <3> HIDE DEF u
    <3> QED
      BY <3>1, <3>2 DEF Ctl
  <2> QED
    BY <1>2, <2>2, <2>4, <2>5
    DEF Own, NoWatch, OneWatch, Waits, Clock, Pending, Quiet, ByPage, Ended, Joined, Goodbye, Ctl
<1> QED
  BY <1>1, <1>2

\* end() up to its await, or to its end.
LEMMA EndingOwn ==
  ASSUME NEW s, NEW late \in BOOLEAN, Own(s, late), s.phase # "idle", s.starting # "resuming"
  PROVE  /\ Own(Ending(s), late)
         /\ Ending(s).attached = s.attached /\ Ending(s).starting = s.starting
         /\ Ending(s).told /\ s.attached => s.told
<1> DEFINE t == Closing(s)
<1>1. /\ Own(t, late) /\ NoWatch(t) /\ t.byUs /\ t.attached = s.attached
      /\ t.starting = s.starting /\ t.told = s.told
  BY ClosingOwn
<1>2. CASE s.ending # "no"
  BY <1>2 DEF Ending
<1> HIDE DEF t
<1>3. CASE s.ending = "no" /\ s.attached
  <2>1. Ending(s) = [t EXCEPT !.ending = "waiting"]
    BY <1>3 DEF Ending, t
  <2> QED
    BY <1>1, <2>1 DEF Own, NoWatch, OneWatch, Waits, Clock, Pending, Quiet, ByPage, Ended, Joined, Goodbye, Ctl
<1>4. CASE s.ending = "no" /\ ~s.attached
  <2> DEFINE u == [t EXCEPT !.ending = "done"]
  <2>1. Ending(s) = FinishEnded(u)
    BY <1>4 DEF Ending, t
  <2>2. /\ Own(u, late) /\ NoWatch(u) /\ u.byUs /\ u.attached = s.attached /\ u.starting = s.starting
    BY <1>1 DEF Own, NoWatch, OneWatch, Waits, Clock, Pending, Quiet, ByPage, Ended, Joined, Goodbye, Ctl
  <2> HIDE DEF u
  <2>3. /\ u \in Ctl /\ OneWatch(u) /\ (Waits(u) => u.paying)
        /\ u.handBack # None => u.starting = "done"
        /\ u.feeder => u.early
        /\ ~u.attached => u.starting = "no" /\ u.timers = {}
    BY <2>2 DEF Own, Clock, Pending, ByPage, Joined
  <2>4. Own(FinishEnded(u), late) /\ FinishEnded(u).attached = u.attached /\ FinishEnded(u).starting = u.starting
    BY <2>2, <2>3, FinishEndedOwn
  <2> QED
    BY <1>4, <2>1, <2>2, <2>4
<1> QED
  BY <1>2, <1>3, <1>4

LEMMA DroppedOwn ==
  ASSUME NEW s, NEW late \in BOOLEAN, Own(s, late)
  PROVE  /\ Own(Dropped(s), late)
         /\ Dropped(s).attached = s.attached /\ Dropped(s).starting = s.starting
         /\ Dropped(s).told => s.told \/ s.starting = "done"
<1>1. CASE s.byUs \/ s.starting \in {"no", "failed"}
  <2>1. Dropped(s) = s
    BY <1>1 DEF Dropped
  <2> QED
    BY <2>1
<1>2. CASE ~s.byUs /\ s.starting \in {"waiting", "resuming"}
  <2> DEFINE d == s.starting = "resuming"
  <2>1. Dropped(s) = [s EXCEPT !.deferred = d] /\ d \in BOOLEAN
    BY <1>2 DEF Dropped
  <2> HIDE DEF d
  <2> QED
    BY <2>1 DEF Own, NoWatch, OneWatch, Waits, Clock, Pending, Quiet, ByPage, Ended, Joined, Goodbye, Ctl
<1>3. CASE ~s.byUs /\ s.starting = "done"
  <2>1. s \in Ctl /\ OneWatch(s)
    BY DEF Own
  <2>2. PICK w \in [Calls -> {"none", "watching", "timed_out"}] :
          /\ \A x \in Calls : w[x] = "none"
          /\ StopWatch(StopTimers(s)) = [s EXCEPT !.timers = s.timers \cap {"old"}, !.watches = w]
    BY <2>1, StopsAll
  <2> DEFINE ts == s.timers \cap {"old"}
  <2> DEFINE u == [s EXCEPT !.timers = ts, !.watches = w, !.feeder = FALSE, !.phase = "failed"]
  <2>3. Dropped(s) = FinishEnded(u)
    BY <1>3, <2>1, <2>2 DEF Dropped, Ctl
  <2>4. ts \in SUBSET Timers /\ "failed" \in Phases /\ w \in [Calls -> {"none", "watching", "timed_out"}]
    BY <2>1, <2>2 DEF Ctl, Phases
  <2>5. u \in Ctl
    <3> HIDE DEF ts
    <3> QED
      BY <2>1, <2>4 DEF Ctl
  <2>6. /\ OneWatch(u) /\ NoWatch(u) /\ ~Waits(u) /\ ~u.feeder /\ u.starting = "done" /\ u.attached = s.attached
        /\ u.attached /\ u.ending # "waiting"
    BY <1>3, <2>1, <2>2 DEF Own, OneWatch, NoWatch, Waits, ByPage, Joined, Ctl
  <2>7. u.told => Own(u, late)
    BY <1>3, <2>1, <2>2, <2>5
    DEF Own, NoWatch, OneWatch, Waits, Clock, Pending, Quiet, ByPage, Ended, Joined, Goodbye, Ctl
  <2> HIDE DEF u
  <2>8. Own(FinishEnded(u), late) /\ FinishEnded(u).attached = u.attached /\ FinishEnded(u).starting = u.starting
    BY <2>5, <2>6, <2>7, FinishEndedOwn
  <2> QED
    BY <1>3, <2>3, <2>6, <2>8
<1> QED
  BY <1>1, <1>2, <1>3 DEF Own, Ctl

LEMMA StartFailedOwn ==
  ASSUME NEW s, NEW late \in BOOLEAN, Own(s, late), s.attached,
         s.starting \in {"no", "waiting", "failed"}
  PROVE  Own(StartFailed(s), late) /\ StartFailed(s).attached /\ StartFailed(s).starting = "failed"
<1> DEFINE ts == s.timers \cap {"old"}
<1>1. s \in Ctl /\ ts \in SUBSET Timers
  BY DEF Own, Ctl
<1>2. StartFailed(s) = [s EXCEPT !.starting = "failed", !.phase = "failed", !.timers = ts, !.wired = FALSE]
  BY <1>1 DEF StartFailed, Cleanup, StopTimers, Ctl
<1>3. StartFailed(s) \in Ctl
  <2> HIDE DEF ts
  <2> DEFINE u == [s EXCEPT !.starting = "failed", !.phase = "failed", !.timers = ts]
  <2>1. "failed" \in Phases
    BY DEF Phases
  <2>2. u \in Ctl
    BY <1>1, <2>1 DEF Ctl
  <2>3. StartFailed(s) = [u EXCEPT !.wired = FALSE]
    BY <1>1, <1>2 DEF Ctl
  <2> HIDE DEF u
  <2> QED
    BY <2>2, <2>3 DEF Ctl
<1> QED
  BY <1>1, <1>2, <1>3
  DEF Own, NoWatch, OneWatch, Waits, Clock, Pending, Quiet, ByPage, Ended, Joined, Goodbye, Ctl

-----------------------------------------------------------------------------
(* The steps *)

LEMMA StepKeeps ==
  ASSUME CtlInv, UNCHANGED call, sock' \in Sockets, Own(c', Late), With(c', sock', call)
  PROVE  CtlInv'
BY DEF CtlInv, Late

LEMMA RunningOwn ==
  ASSUME NEW s, NEW late \in BOOLEAN, Own(s, late), s.starting = "resuming"
  PROVE  LET r == Running(s) IN
         /\ Own(r, late) /\ r.attached /\ r.starting = "done" /\ ~r.told /\ r.closeReady = s.closeReady
<1> DEFINE r == Running(s)
<1> DEFINE ts == s.timers \cup {"beats"}
<1>1. s \in Ctl /\ s.attached /\ ~s.told
  BY DEF Own, Joined, Ended
<1>2. r = [s EXCEPT !.starting = "done", !.timers = ts, !.feeder = TRUE,
                    !.phase = "ready", !.deferred = FALSE]
  BY DEF Running
<1>3. r \in Ctl /\ r.closeReady = s.closeReady
  <2>1. ts \in SUBSET Timers /\ "ready" \in Phases
    BY <1>1 DEF Ctl, Timers, Phases
  <2> HIDE DEF ts
  <2> DEFINE u == [s EXCEPT !.starting = "done", !.timers = ts, !.phase = "ready"]
  <2>2. u \in Ctl /\ u.closeReady = s.closeReady
    BY <1>1, <2>1 DEF Ctl
  <2>3. r = [u EXCEPT !.feeder = TRUE, !.deferred = FALSE]
    BY <1>1, <1>2 DEF Ctl
  <2> HIDE DEF u, r
  <2> QED
    BY <2>2, <2>3 DEF Ctl
<1>4. Own(r, late) /\ r.attached /\ r.starting = "done" /\ ~r.told
  <2> HIDE DEF r
  <2> QED
    BY <1>1, <1>2, <1>3
    DEF Own, NoWatch, OneWatch, Waits, Clock, Pending, Quiet, ByPage, Ended, Joined, Goodbye, Ctl
<1> QED
  BY <1>3, <1>4

\* connect and start.
LEMMA StartStep ==
  ASSUME CtlInv,
         Connect \/ Opens \/ ConnectFails \/ Start \/ SessionReady \/ StartFails \/ Resumes \/ Closes
  PROVE  CtlInv'
<1>1. /\ UNCHANGED call /\ sock \in Sockets /\ Late \in BOOLEAN
      /\ Own(c, Late) /\ With(c, sock, call) /\ c \in Ctl
  BY DEF CtlInv, Own, Late, Connect, Opens, ConnectFails, Start, SessionReady, StartFails, Resumes, Closes
<1> DEFINE late == Late
<1> HIDE DEF late
<1>2. SUFFICES sock' \in Sockets /\ Own(c', late) /\ With(c', sock', call)
  BY <1>1, StepKeeps DEF late
<1>3. Own(c, late) /\ late \in BOOLEAN
  BY <1>1 DEF late
<1>4. CASE Connect
  <2>1. c' = [c EXCEPT !.phase = "connecting"] /\ sock' = "opening" /\ c.phase = "idle" /\ "connecting" \in Phases
    BY <1>4 DEF Connect, Phases
  <2> QED
    BY <1>1, <1>3, <2>1
    DEF With, Own, NoWatch, OneWatch, Waits, Clock, Pending, Quiet, ByPage, Ended, Joined, Goodbye, Ctl, Sockets
<1>5. CASE Opens
  <2>1. /\ sock = "opening" /\ sock' = "open" /\ "open" \in Phases
        /\ c' = [c EXCEPT !.attached = TRUE, !.wired = TRUE, !.phase = "open"]
    BY <1>5 DEF Opens, Phases
  <2>2. ~c.attached /\ c.starting = "no"
    BY <1>1, <1>3, <2>1 DEF With, Own, Joined
  <2> DEFINE u == [c EXCEPT !.attached = TRUE, !.wired = TRUE]
  <2>3. u \in Ctl
    BY <1>1 DEF Ctl
  <2>4. c' = [u EXCEPT !.phase = "open"]
    BY <1>1, <2>1 DEF Ctl
  <2>5. c' \in Ctl
    <3> HIDE DEF u
    <3> QED
      BY <2>1, <2>3, <2>4 DEF Ctl
  <2> QED
    BY <1>1, <1>3, <2>1, <2>2, <2>5
    DEF With, Own, NoWatch, OneWatch, Waits, Clock, Pending, Quiet, ByPage, Ended, Joined, Goodbye, Ctl, Sockets
<1>6. CASE ConnectFails
  <2>1. /\ sock = "opening" /\ sock' = "closed" /\ "failed" \in Phases
        /\ c' = [c EXCEPT !.phase = "failed"]
    BY <1>6 DEF ConnectFails, Phases
  <2> QED
    BY <1>1, <1>3, <2>1
    DEF With, Own, NoWatch, OneWatch, Waits, Clock, Pending, Quiet, ByPage, Ended, Joined, Goodbye, Ctl, Sockets
<1>7. CASE Start
  <2>1. c.attached /\ c.starting = "no" /\ ~c.byUs /\ ~c.told /\ sock' = sock
    BY <1>3, <1>7 DEF Start, Own, Ended
  <2>2. CASE c' = StartFailed(c)
    <3>1. Own(c', late) /\ c'.attached /\ c'.starting = "failed"
      BY <1>3, <2>1, <2>2, StartFailedOwn
    <3> QED
      BY <1>1, <2>1, <3>1 DEF With
  <2>3. CASE sock = "open" /\ c' = [c EXCEPT !.starting = "waiting"]
    BY <1>1, <1>3, <2>1, <2>3
    DEF With, Own, NoWatch, OneWatch, Waits, Clock, Pending, Quiet, ByPage, Ended, Joined, Goodbye, Ctl
  <2>4. CASE c' = [c EXCEPT !.starting = "failed"]
    BY <1>1, <1>3, <2>1, <2>4
    DEF With, Own, NoWatch, OneWatch, Waits, Clock, Pending, Quiet, ByPage, Ended, Joined, Goodbye, Ctl
  <2> QED
    BY <1>7, <2>2, <2>3, <2>4 DEF Start
<1>8. CASE SessionReady
  <2>1. /\ sock = "open" /\ c.starting = "waiting" /\ sock' = sock /\ ~c.told
        /\ c' = [c EXCEPT !.starting = "resuming"]
    BY <1>1, <1>8 DEF SessionReady, With
  <2> QED
    BY <1>1, <1>3, <2>1
    DEF With, Own, NoWatch, OneWatch, Waits, Clock, Pending, Quiet, ByPage, Ended, Joined, Goodbye, Ctl
<1>9. CASE StartFails
  <2>1. c.starting = "waiting" /\ sock' = sock /\ c' = StartFailed(c)
    BY <1>9 DEF StartFails
  <2>2. c.attached
    BY <1>3, <2>1 DEF Own, Joined
  <2>3. Own(c', late) /\ c'.attached /\ c'.starting = "failed"
    BY <1>3, <2>1, <2>2, StartFailedOwn
  <2> QED
    BY <1>1, <2>1, <2>2, <2>3 DEF With
<1>10. CASE Resumes
  <2>1. c.starting = "resuming" /\ sock' = sock /\ c' = (IF c.deferred THEN Dropped(Running(c)) ELSE Running(c))
    BY <1>10 DEF Resumes
  <2>2. c.attached /\ ~c.told
    BY <1>3, <2>1 DEF Own, Joined, Ended
  <2> DEFINE r == Running(c)
  <2>3. Own(r, late) /\ r.attached /\ r.starting = "done" /\ ~r.told
    BY <1>3, <2>1, <2>2, RunningOwn
  <2> HIDE DEF r
  <2>6. Own(c', late) /\ c'.attached /\ c'.starting = "done"
    BY <1>3, <2>1, <2>3, DroppedOwn DEF r
  <2> QED
    BY <1>1, <2>1, <2>2, <2>6 DEF With
<1>11. CASE Closes
  <2>1. /\ sock \in {"open", "closing"} /\ sock' = "closed"
        /\ c' = LET heard == IF c.wired THEN Dropped(c) ELSE c IN
                IF c.starting = "waiting" THEN StartFailed(heard) ELSE heard
    BY <1>11 DEF Closes
  <2> DEFINE heard == IF c.wired THEN Dropped(c) ELSE c
  <2>2. Own(heard, late) /\ heard.attached = c.attached /\ heard.starting = c.starting
    BY <1>3, DroppedOwn
  <2> HIDE DEF heard
  <2>3. CASE c.starting = "waiting"
    <3>1. heard.attached
      BY <2>2, <2>3 DEF Own, Joined
    <3>2. Own(c', late) /\ c'.attached /\ c'.starting = "failed"
      BY <1>3, <2>1, <2>2, <2>3, <3>1, StartFailedOwn DEF heard
    <3> QED
      BY <1>1, <2>1, <2>3, <3>2 DEF With, Sockets
  <2>4. CASE c.starting # "waiting"
    <3>1. c' = heard
      BY <2>1, <2>4 DEF heard
    <3> QED
      BY <1>1, <2>1, <2>2, <3>1 DEF With, Sockets
  <2> QED
    BY <2>3, <2>4
<1> QED
  BY <1>4, <1>5, <1>6, <1>7, <1>8, <1>9, <1>10, <1>11

LEMMA TalkStep ==
  ASSUME CtlInv, ReplyStarted \/ SpeechStarted \/ SpeechStopped \/ ReplyDone \/ FirstAudible
  PROVE  CtlInv'
<1>1. /\ UNCHANGED <<call, sock>> /\ sock \in Sockets /\ Late \in BOOLEAN
      /\ Own(c, Late) /\ With(c, sock, call) /\ c \in Ctl
  BY DEF CtlInv, Own, Late, ReplyStarted, SpeechStarted, SpeechStopped, ReplyDone, FirstAudible
<1> DEFINE late == Late
<1> HIDE DEF late
<1>2. SUFFICES Own(c', late) /\ c'.attached = c.attached /\ c'.starting = c.starting /\ c'.told = c.told
  BY <1>1, StepKeeps DEF late, With
<1>3. Own(c, late) /\ late \in BOOLEAN
  BY <1>1 DEF late
<1> DEFINE silent == c.timers \ {"close"}
<1>4. /\ silent \in SUBSET Timers /\ CancelClose(c) = [c EXCEPT !.timers = silent]
      /\ "close" \notin silent /\ silent \subseteq c.timers
      /\ \A t \in c.timers : t # "close" => t \in silent
  BY <1>1 DEF Ctl, CancelClose
<1> HIDE DEF silent
<1>5. CASE ReplyStarted
  <2>1. c' = [c EXCEPT !.timers = silent, !.reply = "new"]
    BY <1>1, <1>4, <1>5 DEF ReplyStarted, Ctl
  <2>2. c' \in Ctl
    BY <1>1, <1>4, <2>1 DEF Ctl
  <2>3. "close" \notin c'.timers /\ ("handback" \in c.timers => "handback" \in c'.timers) /\ c'.timers \subseteq c.timers
    BY <1>1, <1>4, <2>1 DEF Ctl
  <2> QED
    BY <1>1, <1>3, <2>1, <2>2, <2>3
    DEF Own, NoWatch, OneWatch, Waits, Clock, Pending, Quiet, ByPage, Ended, Joined, Goodbye, Ctl
<1>6. CASE SpeechStarted
  <2>1. c' = [c EXCEPT !.timers = silent, !.speaking = TRUE]
    BY <1>1, <1>4, <1>6 DEF SpeechStarted, Ctl
  <2>2. c' \in Ctl
    BY <1>1, <1>4, <2>1 DEF Ctl
  <2>3. "close" \notin c'.timers /\ ("handback" \in c.timers => "handback" \in c'.timers) /\ c'.timers \subseteq c.timers
    BY <1>1, <1>4, <2>1 DEF Ctl
  <2> QED
    BY <1>1, <1>3, <2>1, <2>2, <2>3
    DEF Own, NoWatch, OneWatch, Waits, Clock, Pending, Quiet, ByPage, Ended, Joined, Goodbye, Ctl
<1>7. CASE SpeechStopped
  <2>1. c' = [c EXCEPT !.speaking = FALSE]
    BY <1>7 DEF SpeechStopped
  <2> QED
    BY <1>1, <1>3, <2>1
    DEF Own, NoWatch, OneWatch, Waits, Clock, Pending, Quiet, ByPage, Ended, Joined, Goodbye, Ctl
<1>8. CASE FirstAudible
  <2>1. c' = [c EXCEPT !.phase = "active"] /\ c.phase = "ready" /\ "active" \in Phases
    BY <1>8 DEF FirstAudible, Phases
  <2> QED
    BY <1>1, <1>3, <2>1
    DEF Own, NoWatch, OneWatch, Waits, Clock, Pending, Quiet, ByPage, Ended, Joined, Goodbye, Ctl
<1>9. CASE ReplyDone
  <2>1. c.wired /\ c.starting = "done" /\ ~c.told
    BY <1>3, <1>9 DEF ReplyDone, Hearing, Own, Ended
  <2>2. PICK counts \in BOOLEAN :
          c' = [(IF counts THEN MaybeScheduleClose(MaybeFireHandBack(c)) ELSE c) EXCEPT !.reply = "no"]
    BY <1>9 DEF ReplyDone
  <2>3. \E ts \in SUBSET Timers :
          /\ c' = [c EXCEPT !.timers = ts, !.reply = "no"]
          /\ c.timers \subseteq ts /\ ts \subseteq c.timers \cup {"handback", "close"}
          /\ "close" \in ts => "close" \in c.timers \/ c.confirmed
    <3> DEFINE h == MaybeFireHandBack(c)
    <3>1. \E ts \in SUBSET Timers :
            /\ h = [c EXCEPT !.timers = ts] /\ c.timers \subseteq ts /\ ts \subseteq c.timers \cup {"handback"}
      <4>1. CASE h = c
        <5>1. c = [c EXCEPT !.timers = c.timers] /\ c.timers \in SUBSET Timers
          BY <1>1 DEF Ctl
        <5> QED
          BY <4>1, <5>1
      <4>2. CASE h = [c EXCEPT !.timers = c.timers \cup {"handback"}]
        <5>1. c.timers \cup {"handback"} \in SUBSET Timers
          BY <1>1 DEF Ctl, Timers
        <5> QED
          BY <4>2, <5>1
      <4> QED
        BY <4>1, <4>2 DEF MaybeFireHandBack
    <3> HIDE DEF h
    <3>2. PICK t1 \in SUBSET Timers :
            /\ h = [c EXCEPT !.timers = t1] /\ c.timers \subseteq t1 /\ t1 \subseteq c.timers \cup {"handback"}
      BY <3>1
    <3>3. h.timers = t1 /\ h.confirmed = c.confirmed /\ h.closeReady = c.closeReady
      BY <1>1, <3>2 DEF Ctl
    <3>4. CASE ~counts
      <4>1. c' = [c EXCEPT !.timers = c.timers, !.reply = "no"] /\ c.timers \in SUBSET Timers
        BY <1>1, <2>2, <3>4 DEF Ctl
      <4> QED
        BY <4>1
    <3>5. CASE counts /\ MaybeScheduleClose(h) = h
      <4>1. c' = [c EXCEPT !.timers = t1, !.reply = "no"]
        BY <1>1, <2>2, <3>2, <3>5 DEF Ctl, h
      <4> QED
        BY <3>2, <4>1
    <3>6. CASE counts /\ c.confirmed /\ MaybeScheduleClose(h) = [h EXCEPT !.timers = t1 \cup {"close"}]
      <4>1. c' = [c EXCEPT !.timers = t1 \cup {"close"}, !.reply = "no"]
        BY <1>1, <2>2, <3>2, <3>6 DEF Ctl, h
      <4>2. t1 \cup {"close"} \in SUBSET Timers
        BY <3>2 DEF Timers
      <4> QED
        BY <3>2, <3>6, <4>1, <4>2
    <3> QED
      BY <2>2, <3>3, <3>4, <3>5, <3>6 DEF MaybeScheduleClose
  <2>4. PICK ts \in SUBSET Timers :
          /\ c' = [c EXCEPT !.timers = ts, !.reply = "no"]
          /\ c.timers \subseteq ts /\ ts \subseteq c.timers \cup {"handback", "close"}
          /\ "close" \in ts => "close" \in c.timers \/ c.confirmed
    BY <2>3
  <2>5. c' \in Ctl
    BY <1>1, <2>4 DEF Ctl
  <2> QED
    BY <1>1, <1>3, <2>1, <2>4, <2>5
    DEF Own, NoWatch, OneWatch, Waits, Clock, Pending, Quiet, ByPage, Ended, Joined, Goodbye, Ctl
<1> QED
  BY <1>5, <1>6, <1>7, <1>8, <1>9

LEMMA StopsWatch ==
  ASSUME NEW s \in Ctl, OneWatch(s)
  PROVE  \E w \in [Calls -> {"none", "watching", "timed_out"}] :
           (\A x \in Calls : w[x] = "none") /\ StopWatch(s) = [s EXCEPT !.watches = w]
<1>1. CASE s.watch = None
  <2>1. \A x \in Calls : s.watches[x] = "none"
    BY <1>1, ControllerAssumption DEF OneWatch
  <2>2. StopWatch(s) = [s EXCEPT !.watches = s.watches]
    BY <1>1 DEF StopWatch, Ctl
  <2>3. s.watches \in [Calls -> {"none", "watching", "timed_out"}]
    BY DEF Ctl
  <2> QED
    BY <2>1, <2>2, <2>3
<1>2. CASE s.watch # None
  <2> DEFINE w == [s.watches EXCEPT ![s.watch] = "none"]
  <2>1. w \in [Calls -> {"none", "watching", "timed_out"}] /\ \A x \in Calls : w[x] = "none"
    BY <1>2 DEF OneWatch, Ctl
  <2>2. StopWatch(s) = [s EXCEPT !.watches = w]
    BY <1>2 DEF StopWatch
  <2> QED
    BY <2>1, <2>2
<1> QED
  BY <1>1, <1>2

\* The tools.
LEMMA ToolCallStep ==
  ASSUME CtlInv, NEW x \in Calls, ToolCall(x)
  PROVE  CtlInv'
<1>1. PICK tool \in Tools : call' = [call EXCEPT ![x] = [pc |-> "asked", tool |-> tool]]
  BY DEF ToolCall
<1>2. /\ UNCHANGED <<c, sock>> /\ c.starting = "done" /\ call[x].pc = "idle"
      /\ sock \in Sockets /\ call \in [Calls -> CallStates] /\ Own(c, Late) /\ With(c, sock, call)
  BY DEF CtlInv, ToolCall, Hearing
<1>3. call' \in [Calls -> CallStates]
  BY <1>1, <1>2 DEF CallStates
<1>4. call'[x].pc = "asked" /\ \A y \in Calls : y # x => call'[y] = call[y]
  BY <1>1, <1>2
<1>5. Late' <=> Late
  BY <1>2, <1>4 DEF Late
<1>6. Own(c', Late')
  BY <1>2, <1>5
<1>7. With(c', sock', call')
  BY <1>2 DEF With
<1> QED
  BY <1>2, <1>3, <1>6, <1>7 DEF CtlInv

LEMMA ToolAnswersStep ==
  ASSUME CtlInv, NEW x \in Calls, ToolAnswers(x)
  PROVE  CtlInv'
<1> DEFINE end == IF c.byUs \/ c.told THEN "late" ELSE "answered"
<1>1. /\ sock' = sock /\ call[x].pc = "asked" /\ call' = [call EXCEPT ![x].pc = end]
      /\ sock \in Sockets /\ call \in [Calls -> CallStates] /\ Own(c, Late) /\ With(c, sock, call)
  BY DEF CtlInv, ToolAnswers
<1>2. call' \in [Calls -> CallStates] /\ call'[x].pc = end /\ \A y \in Calls : y # x => call'[y] = call[y]
  BY <1>1 DEF CallStates
<1>3. (Late => Late') /\ (c.byUs \/ c.told => Late')
  BY <1>1, <1>2 DEF Late
<1> DEFINE late == Late'
<1>4. (Late => late) /\ (c.byUs \/ c.told => late) /\ late \in BOOLEAN
  BY <1>3 DEF Late
<1> HIDE DEF late
<1>5. Own(c, late) /\ c \in Ctl /\ c.starting = "done"
  BY <1>1, <1>4
  DEF With, Own, NoWatch, OneWatch, Waits, Clock, Pending, Quiet, ByPage, Ended, Joined, Goodbye
<1>6. SUFFICES Own(c', late) /\ c'.attached = c.attached /\ c'.starting = c.starting /\ c'.told = c.told
  BY <1>1, <1>2, <1>5 DEF CtlInv, With, late
<1>7. CASE c' = c
  BY <1>5, <1>7
<1>8. CASE c' = BeginPaying(c, x)
  <2>1. PICK w \in [Calls -> {"none", "watching", "timed_out"}] :
          (\A y \in Calls : w[y] = "none") /\ StopWatch(c) = [c EXCEPT !.watches = w]
    BY <1>5, StopsWatch DEF Own
  <2> DEFINE v == [w EXCEPT ![x] = "watching"]
  <2>2. /\ v \in [Calls -> {"none", "watching", "timed_out"}] /\ v[x] = "watching"
        /\ \A y \in Calls : y # x => v[y] = "none"
    BY <2>1
  <2>3. BeginPaying(c, x) = [c EXCEPT !.paying = TRUE, !.phase = "paying", !.watch = x, !.watches = v]
    BY <1>5, <2>1 DEF BeginPaying, Ctl
  <2> HIDE DEF v
  <2> DEFINE u == [c EXCEPT !.phase = "paying", !.watch = x, !.watches = v]
  <2>4. "paying" \in Phases
    BY DEF Phases
  <2>5. u \in Ctl
    BY <1>5, <2>2, <2>4 DEF Ctl
  <2>6. c' = [u EXCEPT !.paying = TRUE]
    BY <1>5, <1>8, <2>3 DEF Ctl
  <2>7. c' \in Ctl
    <3> HIDE DEF u
    <3> QED
      BY <2>5, <2>6 DEF Ctl
  <2> QED
    BY <1>4, <1>5, <1>8, <2>2, <2>3, <2>7
    DEF Own, NoWatch, OneWatch, Waits, Clock, Pending, Quiet, ByPage, Ended, Joined, Goodbye, Ctl
<1>9. CASE c' = ArmHandBack(c, x)
  <2> DEFINE ts == {"handback"} \cup (IF "handback" \in c.timers THEN c.timers \cup {"old"} ELSE c.timers)
  <2> DEFINE r == IF c.reply = "new" THEN "old" ELSE c.reply
  <2>1. c' = [c EXCEPT !.handBack = x, !.fired = FALSE, !.reply = r, !.timers = ts]
    BY <1>9 DEF ArmHandBack
  <2>2. /\ ts \in SUBSET Timers /\ "handback" \in ts /\ ts \subseteq c.timers \cup {"handback", "old"}
        /\ r \in {"no", "old", "new"} /\ (c.reply = "no" => r = "no")
    BY <1>5 DEF Ctl, Timers
  <2> HIDE DEF ts, r
  <2> DEFINE u == [c EXCEPT !.handBack = x, !.reply = r, !.timers = ts]
  <2>3. u \in Ctl
    BY <1>5, <2>2 DEF Ctl
  <2>4. c' = [u EXCEPT !.fired = FALSE]
    BY <1>5, <2>1 DEF Ctl
  <2>5. c' \in Ctl
    <3> HIDE DEF u
    <3> QED
      BY <2>3, <2>4 DEF Ctl
  <2> QED
    BY <1>4, <1>5, <2>1, <2>2, <2>5
    DEF Own, NoWatch, OneWatch, Waits, Clock, Pending, Quiet, ByPage, Ended, Joined, Goodbye, Ctl
<1>10. CASE c' = [c EXCEPT !.confirmed = TRUE]
  BY <1>5, <1>10
  DEF Own, NoWatch, OneWatch, Waits, Clock, Pending, Quiet, ByPage, Ended, Joined, Goodbye, Ctl
<1>11. call[x].tool \in Tools
  BY <1>1 DEF CallStates
<1> QED
  BY <1>7, <1>8, <1>9, <1>10, <1>11 DEF ToolAnswers, Tools

LEMMA WatchStep ==
  ASSUME CtlInv, NEW x \in Calls, WatchTimesOut(x) \/ WatchResolves(x)
  PROVE  CtlInv'
<1>1. /\ UNCHANGED <<call, sock>> /\ sock \in Sockets /\ Late \in BOOLEAN
      /\ Own(c, Late) /\ With(c, sock, call) /\ c \in Ctl
  BY DEF CtlInv, Own, Late, WatchTimesOut, WatchResolves
<1> DEFINE late == Late
<1> HIDE DEF late
<1>2. SUFFICES Own(c', late) /\ c'.attached = c.attached /\ c'.starting = c.starting /\ c'.told = c.told
  BY <1>1, StepKeeps DEF late, With
<1>3. Own(c, late) /\ late \in BOOLEAN
  BY <1>1 DEF late
<1>4. PICK v \in {"none", "timed_out"} : c' = EndPaying([c EXCEPT !.watches[x] = v]) /\ c.watches[x] # "none"
  BY DEF WatchTimesOut, WatchResolves
<1> DEFINE w == [c.watches EXCEPT ![x] = v]
<1> DEFINE ph == IF c.phase = "paying" THEN "active" ELSE c.phase
<1>5. /\ w \in [Calls -> {"none", "watching", "timed_out"}] /\ w[x] # "watching"
      /\ \A y \in Calls : y # x => w[y] = c.watches[y]
  BY <1>1, <1>4 DEF Ctl
<1>6. ph \in Phases /\ ph # "paying" /\ (ph = "idle" => c.phase = "idle")
  BY <1>1 DEF Ctl, Phases
<1> DEFINE t == [c EXCEPT !.watches = w]
<1>7. c' = EndPaying(t) /\ t.paying = c.paying /\ t.phase = c.phase
  BY <1>1, <1>4 DEF Ctl
<1> HIDE DEF w
<1>8. c' = [c EXCEPT !.watches = w, !.phase = ph, !.paying = FALSE]
  <2>1. CASE ~c.paying /\ c.phase # "paying"
    BY <1>1, <1>7, <2>1 DEF EndPaying, Ctl
  <2>2. CASE c.paying \/ c.phase = "paying"
    BY <1>1, <1>7, <2>2 DEF EndPaying, Ctl
  <2> QED
    BY <2>1, <2>2
<1>9. \A y \in Calls : y # x => c.watches[y] = "none"
  BY <1>3, <1>4 DEF Own, OneWatch
<1> HIDE DEF ph
<1>10. c' \in Ctl
  <2> DEFINE u == [c EXCEPT !.watches = w, !.phase = ph]
  <2>1. u \in Ctl
    BY <1>1, <1>5, <1>6 DEF Ctl
  <2>2. c' = [u EXCEPT !.paying = FALSE]
    BY <1>1, <1>8 DEF Ctl
  <2> HIDE DEF u
  <2> QED
    BY <2>1, <2>2 DEF Ctl
<1>11. (c.told \/ c.byUs) => late
  BY <1>3, <1>4 DEF Own, ByPage, NoWatch
<1>12. c'.watches = w /\ c'.phase = ph /\ ~c'.paying
  BY <1>1, <1>8 DEF Ctl
<1>13. /\ c'.attached = c.attached /\ c'.starting = c.starting /\ c'.told = c.told /\ c'.byUs = c.byUs
       /\ c'.timers = c.timers /\ c'.feeder = c.feeder /\ c'.early = c.early /\ c'.ending = c.ending
       /\ c'.wired = c.wired /\ c'.watch = c.watch /\ c'.handBack = c.handBack /\ c'.fired = c.fired
       /\ c'.confirmed = c.confirmed /\ c'.reply = c.reply
  BY <1>1, <1>8 DEF Ctl
<1>14. OneWatch(c') /\ Clock(c')
  BY <1>3, <1>4, <1>5, <1>9, <1>12, <1>13 DEF Own, OneWatch, Clock, Waits
<1>15. Pending(c') /\ Ended(c') /\ Joined(c') /\ Goodbye(c')
  BY <1>3, <1>6, <1>12, <1>13 DEF Own, Pending, Ended, Joined, Goodbye
<1>16. Quiet(c', late) /\ ByPage(c', late)
  BY <1>3, <1>11, <1>13 DEF Own, Quiet, ByPage
<1> QED
  BY <1>10, <1>13, <1>14, <1>15, <1>16 DEF Own

\* The flags of the wrap-up are no one's business here.
Alike(s, t) ==
  /\ t.phase = s.phase /\ t.attached = s.attached /\ t.starting = s.starting /\ t.ending = s.ending
  /\ t.byUs = s.byUs /\ t.told = s.told /\ t.early = s.early /\ t.timers = s.timers
  /\ t.wired = s.wired /\ t.feeder = s.feeder /\ t.watch = s.watch /\ t.watches = s.watches
  /\ t.paying = s.paying /\ t.confirmed = s.confirmed /\ t.reply = s.reply
  /\ t.handBack = s.handBack /\ t.fired = s.fired

LEMMA AlikeOwn ==
  ASSUME NEW s, NEW late \in BOOLEAN, Own(s, late), NEW t \in Ctl, Alike(s, t)
  PROVE  Own(t, late)
<1>1. OneWatch(t) /\ Clock(t) /\ Pending(t) /\ Quiet(t, late)
  BY DEF Alike, Own, OneWatch, Waits, Clock, Pending, Quiet
<1>2. ByPage(t, late) /\ Ended(t) /\ Joined(t) /\ Goodbye(t)
  BY DEF Alike, Own, ByPage, NoWatch, Ended, Joined, Goodbye
<1> QED
  BY <1>1, <1>2 DEF Own

\* Timers may be set and cleared: not the hand-back's, unless it fired, and none after the end.
LEMMA TimersOwn ==
  ASSUME NEW s, NEW late \in BOOLEAN, Own(s, late), NEW ts \in SUBSET Timers,
         "handback" \in s.timers => "handback" \in ts,
         "close" \in ts => "close" \in s.timers,
         ~s.attached => ts = {},
         s.told => ts \subseteq s.timers
  PROVE  LET t == [s EXCEPT !.timers = ts] IN
         /\ Own(t, late) /\ t.attached = s.attached /\ t.starting = s.starting
         /\ t.told = s.told /\ t.phase = s.phase
<1> DEFINE t == [s EXCEPT !.timers = ts]
<1>1. s \in Ctl /\ t \in Ctl
  BY DEF Own, Ctl
<1>2. /\ t.phase = s.phase /\ t.attached = s.attached /\ t.starting = s.starting /\ t.ending = s.ending
      /\ t.byUs = s.byUs /\ t.told = s.told /\ t.early = s.early /\ t.timers = ts
      /\ t.wired = s.wired /\ t.feeder = s.feeder /\ t.watch = s.watch /\ t.watches = s.watches
      /\ t.paying = s.paying /\ t.confirmed = s.confirmed /\ t.reply = s.reply
      /\ t.handBack = s.handBack /\ t.fired = s.fired
  BY <1>1 DEF Ctl
<1> HIDE DEF t
<1>3. OneWatch(t) /\ Clock(t) /\ Pending(t)
  BY <1>2 DEF Own, OneWatch, Waits, Clock, Pending
<1>4. Quiet(t, late)
  BY <1>2 DEF Own, Quiet
<1>5. ByPage(t, late) /\ Ended(t) /\ Joined(t) /\ Goodbye(t)
  BY <1>2 DEF Own, ByPage, NoWatch, Ended, Joined, Goodbye
<1> QED
  BY <1>1, <1>2, <1>3, <1>4, <1>5 DEF Own, t

LEMMA TimerStep ==
  ASSUME CtlInv, HandBackFires \/ CloseFires \/ Hidden \/ Shown
  PROVE  CtlInv'
<1>1. /\ UNCHANGED <<call, sock>> /\ sock \in Sockets /\ Late \in BOOLEAN
      /\ Own(c, Late) /\ With(c, sock, call) /\ c \in Ctl
  BY DEF CtlInv, Own, Late, HandBackFires, CloseFires, Hidden, Shown
<1> DEFINE late == Late
<1> HIDE DEF late
<1>2. SUFFICES Own(c', late) /\ c'.attached = c.attached /\ c'.starting = c.starting /\ c'.told = c.told
  BY <1>1, StepKeeps DEF late, With
<1>3. Own(c, late) /\ late \in BOOLEAN
  BY <1>1 DEF late
<1>4. CASE HandBackFires
  <2>1. PICK t \in {"handback", "old"} :
          c' = IF c.fired THEN [c EXCEPT !.timers = c.timers \ {t}]
               ELSE [c EXCEPT !.fired = TRUE, !.timers = c.timers \ {t, "handback"}]
    BY <1>4 DEF HandBackFires
  <2> DEFINE ts == IF c.fired THEN c.timers \ {t} ELSE c.timers \ {t, "handback"}
  <2>2. c' = [c EXCEPT !.fired = TRUE, !.timers = ts]
    BY <1>1, <2>1 DEF Ctl
  <2>3. ts \in SUBSET Timers /\ ts \subseteq c.timers
    BY <1>1 DEF Ctl
  <2> HIDE DEF ts
  <2>4. c' \in Ctl
    BY <1>1, <2>2, <2>3 DEF Ctl
  <2> QED
    BY <1>1, <1>3, <2>2, <2>3, <2>4
    DEF Own, NoWatch, OneWatch, Waits, Clock, Pending, Quiet, ByPage, Ended, Joined, Goodbye, Ctl
<1>5. CASE CloseFires
  <2> DEFINE ts == c.timers \ {"close"}
  <2>1. /\ ts \in SUBSET Timers /\ ts \subseteq c.timers /\ ("handback" \in c.timers => "handback" \in ts)
    BY <1>1 DEF Ctl
  <2>2. CancelClose(c) = [c EXCEPT !.timers = ts]
    BY DEF CancelClose
  <2> HIDE DEF ts
  <2>3. \/ c' = [c EXCEPT !.timers = ts]
        \/ c' = [c EXCEPT !.timers = ts, !.closeReady = TRUE, !.closing = TRUE]
    <3>1. \/ c' = CancelClose(c)
          \/ c' = [CancelClose(c) EXCEPT !.closeReady = TRUE, !.closing = TRUE]
      BY <1>5 DEF CloseFires
    <3> QED
      BY <1>1, <2>2, <3>1 DEF Ctl
  <2> DEFINE u == [c EXCEPT !.timers = ts]
  <2>4. u \in Ctl
    BY <1>1, <2>1 DEF Ctl
  <2>5. c' = u \/ c' = [u EXCEPT !.closeReady = TRUE, !.closing = TRUE]
    BY <1>1, <2>3 DEF Ctl
  <2>6. Own(u, late) /\ u.attached = c.attached /\ u.starting = c.starting /\ u.told = c.told
    BY <1>1, <1>3, <2>1, TimersOwn DEF Own, Joined
  <2> HIDE DEF u
  <2>7. c' \in Ctl /\ Alike(u, c')
    BY <2>4, <2>5 DEF Ctl, Alike
  <2>8. Own(c', late)
    BY <1>3, <2>6, <2>7, AlikeOwn
  <2> QED
    BY <2>6, <2>7, <2>8 DEF Alike
<1>6. CASE Hidden \/ Shown
  <2> DEFINE ts == IF "ios" \in c.timers THEN c.timers \ {"ios"} ELSE c.timers \cup {"ios"}
  <2>1. /\ ts \in SUBSET Timers /\ ts \subseteq c.timers \cup {"ios"}
        /\ ("handback" \in c.timers => "handback" \in ts)
    BY <1>1 DEF Ctl, Timers
  <2>2. c' = [c EXCEPT !.timers = ts] /\ (c.starting = "done" \/ ts \subseteq c.timers) /\ c.wired
    BY <1>6 DEF Hidden, Shown
  <2> HIDE DEF ts
  <2>3. c.told => ts \subseteq c.timers
    BY <1>3, <2>2 DEF Own, Ended
  <2>4. c.attached
    BY <1>3, <2>2 DEF Own, Joined
  <2> QED
    BY <1>3, <2>1, <2>2, <2>3, <2>4, TimersOwn
<1> QED
  BY <1>4, <1>5, <1>6

\* The ends: by the cap, the ceiling, a page that was hidden too long, and the owner.
LEMMA EndStep ==
  ASSUME CtlInv, Turn, CapEnds \/ CeilingEnds \/ HiddenEnds \/ End \/ EndCloses \/ EndReturns \/ EndNow
  PROVE  CtlInv'
<1>1. /\ UNCHANGED call /\ sock \in Sockets /\ Late \in BOOLEAN
      /\ Own(c, Late) /\ With(c, sock, call) /\ c \in Ctl /\ c.starting # "resuming"
  BY DEF CtlInv, Own, Late, Turn, CapEnds, CeilingEnds, HiddenEnds, End, EndCloses, EndReturns, EndNow
<1> DEFINE late == Late
<1> HIDE DEF late
<1>2. SUFFICES sock' \in Sockets /\ Own(c', late) /\ With(c', sock', call)
  BY <1>1, StepKeeps DEF late
<1>3. Own(c, late) /\ late \in BOOLEAN
  BY <1>1 DEF late
<1>4. ASSUME NEW s, Own(s, late), s.phase # "idle", s.attached = c.attached, s.starting = c.starting,
             s.told = c.told, sock' = sock, c' = Ending(s)
      PROVE  sock' \in Sockets /\ Own(c', late) /\ With(c', sock', call)
  <2>1. /\ Own(c', late) /\ c'.attached = c.attached /\ c'.starting = c.starting
        /\ c'.told /\ c.attached => c.told
    BY <1>1, <1>3, <1>4, EndingOwn
  <2>2. ~c.attached => c.starting = "no"
    BY <1>3 DEF Own, Joined
  <2> QED
    BY <1>1, <1>4, <2>1, <2>2 DEF With
<1>5. CASE CapEnds \/ CeilingEnds
  <2> DEFINE s == [c EXCEPT !.capDone = TRUE]
  <2>1. "beats" \in c.timers /\ c' = Ending(s) /\ sock' = sock
    BY <1>5 DEF CapEnds, CeilingEnds
  <2>2. s \in Ctl /\ Alike(c, s)
    BY <1>1 DEF Ctl, Alike
  <2> HIDE DEF s
  <2>3. Own(s, late) /\ s.attached = c.attached /\ s.starting = c.starting /\ s.told = c.told /\ s.phase = c.phase
    BY <1>3, <2>2, AlikeOwn DEF Alike
  <2>4. c.phase # "idle"
    BY <1>3, <2>1 DEF Own, Joined
  <2> QED
    BY <1>4, <2>1, <2>3, <2>4
<1>6. CASE HiddenEnds
  <2> DEFINE ts == c.timers \ {"ios"}
  <2> DEFINE s == [c EXCEPT !.timers = ts]
  <2>1. "ios" \in c.timers /\ c' = Ending(s) /\ sock' = sock
    BY <1>6 DEF HiddenEnds
  <2>2. /\ ts \in SUBSET Timers /\ ts \subseteq c.timers
        /\ ("handback" \in c.timers => "handback" \in ts)
    BY <1>1 DEF Ctl
  <2> HIDE DEF ts
  <2>3. /\ Own(s, late) /\ s.attached = c.attached /\ s.starting = c.starting /\ s.told = c.told
        /\ s.phase = c.phase
    BY <1>1, <1>3, <2>2
    DEF Own, NoWatch, OneWatch, Waits, Clock, Pending, Quiet, ByPage, Ended, Joined, Goodbye, Ctl
  <2> HIDE DEF s
  <2>4. c.phase # "idle"
    BY <1>3, <2>1 DEF Own, Joined
  <2> QED
    BY <1>4, <2>1, <2>3, <2>4
<1>7. CASE End
  <2>1. c' = Ending(c) /\ sock' = sock /\ c.phase # "idle"
    BY <1>7 DEF End
  <2> QED
    BY <1>3, <1>4, <2>1
<1>8. CASE EndCloses
  <2>1. c' = c /\ sock = "open" /\ sock' = "closing"
    BY <1>8 DEF EndCloses
  <2> QED
    BY <1>1, <1>3, <2>1 DEF With, Sockets
<1>9. CASE EndReturns
  <2> DEFINE s == [c EXCEPT !.ending = "done"]
  <2>1. c.ending = "waiting" /\ sock \in {"closing", "closed"} /\ sock' = sock /\ c' = FinishEnded(s)
    BY <1>9 DEF EndReturns
  <2>2. c.byUs
    BY <1>3, <2>1 DEF Own, ByPage
  <2>3. /\ Own(s, late) /\ s.byUs /\ s.attached = c.attached /\ s.starting = c.starting
    BY <1>1, <1>3, <2>2
    DEF Own, NoWatch, OneWatch, Waits, Clock, Pending, Quiet, ByPage, Ended, Joined, Goodbye, Ctl
  <2> HIDE DEF s
  <2>4. /\ s \in Ctl /\ OneWatch(s) /\ (Waits(s) => s.paying)
        /\ s.handBack # None => s.starting = "done"
        /\ s.feeder => s.early
        /\ ~late => NoWatch(s)
        /\ ~s.attached => s.starting = "no" /\ s.timers = {}
    BY <2>3 DEF Own, Clock, Pending, ByPage, Joined
  <2>5. Own(c', late) /\ c'.attached = c.attached /\ c'.starting = c.starting
    BY <1>1, <1>3, <2>1, <2>3, <2>4, FinishEndedOwn
  <2> QED
    BY <1>1, <2>1, <2>5 DEF With
<1>10. CASE EndNow
  <2>1. PICK w \in [Calls -> {"none", "watching", "timed_out"}] :
          /\ \A x \in Calls : w[x] = "none"
          /\ StopWatch(StopTimers(c)) = [c EXCEPT !.timers = c.timers \cap {"old"}, !.watches = w]
    BY <1>1, <1>3, StopsAll DEF Own
  <2> DEFINE ts == c.timers \cap {"old"}
  <2> DEFINE s == [c EXCEPT !.timers = ts, !.watches = w, !.byUs = TRUE, !.feeder = FALSE]
  <2>2. c' = FinishEnded(s) /\ c.phase # "idle" /\ sock' = (IF c.attached /\ sock = "open" THEN "closing" ELSE sock)
    BY <1>1, <1>10, <2>1 DEF EndNow, Ctl
  <2>3. /\ ts \in SUBSET Timers /\ ts \subseteq {"old"} /\ (c.timers = {} => ts = {})
        /\ w \in [Calls -> {"none", "watching", "timed_out"}]
    BY <1>1, <2>1 DEF Ctl
  <2> HIDE DEF ts
  <2>4. s \in Ctl
    <3> DEFINE t == [c EXCEPT !.timers = ts, !.watches = w]
    <3>1. t \in Ctl
      BY <1>1, <2>3 DEF Ctl
    <3>2. s = [t EXCEPT !.byUs = TRUE, !.feeder = FALSE]
      BY <1>1 DEF Ctl
    <3> HIDE DEF t, s
    <3> QED
      BY <3>1, <3>2 DEF Ctl
  <2>5. /\ s.told = c.told /\ s.starting = c.starting /\ s.attached = c.attached /\ s.byUs /\ ~s.feeder
        /\ s.handBack = c.handBack /\ s.timers = ts /\ s.watches = w /\ s.phase = c.phase
        /\ s.confirmed = c.confirmed /\ s.reply = c.reply /\ s.wired = c.wired /\ s.ending = c.ending
    BY <1>1 DEF Ctl
  <2> HIDE DEF s
  <2>6. OneWatch(s) /\ NoWatch(s) /\ ~Waits(s)
    BY <2>1, <2>5 DEF OneWatch, NoWatch, Waits
  <2>7. c.told => Own(s, late)
    BY <1>3, <2>3, <2>4, <2>5, <2>6
    DEF Own, Clock, Pending, Quiet, ByPage, Ended, Joined, Goodbye
  <2>8. /\ s.handBack # None => s.starting = "done"
        /\ ~s.attached => s.starting = "no" /\ s.timers = {}
    BY <1>3, <2>3, <2>5 DEF Own, Pending, Joined
  <2>9. Own(c', late) /\ c'.attached = c.attached /\ c'.starting = c.starting
    BY <1>1, <1>3, <2>2, <2>4, <2>5, <2>6, <2>7, <2>8, FinishEndedOwn
  <2>10. ~c.attached => c.starting = "no"
    BY <1>3 DEF Own, Joined
  <2> QED
    BY <1>1, <2>2, <2>9, <2>10 DEF With, Sockets
<1> QED
  BY <1>5, <1>6, <1>7, <1>8, <1>9, <1>10

-----------------------------------------------------------------------------
(* The theorems *)

LEMMA InitHolds == Init => CtlInv
<1> SUFFICES ASSUME Init PROVE CtlInv
  OBVIOUS
<1>1. sock \in Sockets /\ call \in [Calls -> CallStates] /\ c \in Ctl
  BY ControllerAssumption DEF Init, Sockets, CallStates, Ctl, Phases, Timers, Tools
<1>2. Late \in BOOLEAN
  BY DEF Late
<1>3. Own(c, Late)
  BY <1>1, <1>2
  DEF Init, Own, NoWatch, OneWatch, Waits, Clock, Pending, Quiet, ByPage, Ended, Joined, Goodbye
<1> QED
  BY <1>1, <1>3 DEF CtlInv, With, Init

LEMMA StutterKeeps == ASSUME CtlInv, UNCHANGED vars PROVE CtlInv'
BY DEF CtlInv, With, Late, vars

LEMMA NextHolds == CtlInv /\ [Next]_vars => CtlInv'
<1> SUFFICES ASSUME CtlInv, [Next]_vars PROVE CtlInv'
  OBVIOUS
<1>1. CASE Resumes \/ Closes \/ Connect \/ Opens \/ ConnectFails \/ Start \/ SessionReady \/ StartFails
  BY <1>1, StartStep
<1>2. CASE ReplyStarted \/ SpeechStarted \/ SpeechStopped \/ ReplyDone \/ FirstAudible
  BY <1>2, TalkStep
<1>3. CASE \E x \in Calls : ToolCall(x) \/ ToolAnswers(x) \/ WatchTimesOut(x) \/ WatchResolves(x)
  BY <1>3, ToolCallStep, ToolAnswersStep, WatchStep
<1>4. CASE HandBackFires \/ CloseFires \/ Hidden \/ Shown
  BY <1>4, TimerStep
<1>5. CASE Turn /\ (CapEnds \/ CeilingEnds \/ HiddenEnds \/ End \/ EndCloses \/ EndReturns \/ EndNow)
  BY <1>5, EndStep
<1>6. CASE UNCHANGED vars
  BY <1>6, StutterKeeps
<1> QED
  BY <1>1, <1>2, <1>3, <1>4, <1>5, <1>6 DEF Next

\* The inductive invariant, in every state of the controller.
THEOREM CtlInvAlways == Spec => []CtlInv
<1>1. Init => CtlInv
  BY InitHolds
<1>2. CtlInv /\ [Next]_vars => CtlInv'
  BY NextHolds
<1> QED
  BY <1>1, <1>2, PTL DEF Spec

\* The wrap-up clock stands still exactly while a payment is waited for, and no
\* hand-back is forgotten, for any number of tool calls.
THEOREM ControllerSoundAlways == Spec => []ControllerSound
<1>1. CtlInv => ControllerSound
  <2> SUFFICES ASSUME CtlInv PROVE ControllerSound
    OBVIOUS
  <2>1. TypeOK
    BY DEF CtlInv, Own, TypeOK, Sockets, CallStates, Ctl, OneWatch
  <2>2. CapWaits /\ HandBackPending
    BY DEF CtlInv, Own, CapWaits, HandBackPending, Clock, Waits, Pending
  <2> QED
    BY <2>1, <2>2 DEF ControllerSound
<1> QED
  BY <1>1, CtlInvAlways, PTL

\* After the owner was told that the session ended nothing of it runs, but what an
\* answer that came too late began.
THEOREM QuietAfterEndAlways == Spec => []QuietAfterEnd
<1>1. CtlInv => QuietAfterEnd
  BY DEF CtlInv, Own, QuietAfterEnd, Quiet, ByPage, NoWatch
<1> QED
  BY <1>1, CtlInvAlways, PTL

-----------------------------------------------------------------------------
(* The goodbye *)

LEMMA EndsLeaveGoodbye ==
  ASSUME NEW s \in Ctl, OneWatch(s)
  PROVE  /\ FinishEnded(s).closeReady = s.closeReady
         /\ Ending(s).closeReady = s.closeReady
         /\ Dropped(s).closeReady = s.closeReady
<1>1. ASSUME NEW t \in Ctl PROVE FinishEnded(t).closeReady = t.closeReady
  <2>1. CASE t.told
    BY <2>1 DEF FinishEnded
  <2>2. CASE ~t.told
    BY <1>1, <2>2, FinishesOnce DEF Ctl
  <2> QED
    BY <2>1, <2>2
<1>2. PICK w \in [Calls -> {"none", "watching", "timed_out"}] :
        /\ \A x \in Calls : w[x] = "none"
        /\ StopWatch(StopTimers(s)) = [s EXCEPT !.timers = s.timers \cap {"old"}, !.watches = w]
  BY StopsAll
<1> DEFINE ts == s.timers \cap {"old"}
<1> DEFINE t == [s EXCEPT !.timers = ts, !.watches = w]
<1>3. ts \in SUBSET Timers /\ w \in [Calls -> {"none", "watching", "timed_out"}]
  BY <1>2 DEF Ctl
<1>4. t \in Ctl /\ t.closeReady = s.closeReady /\ StopWatch(StopTimers(s)) = t
  <2> HIDE DEF ts
  <2>1. t \in Ctl /\ t.closeReady = s.closeReady
    BY <1>3 DEF Ctl
  <2> QED
    BY <1>2, <2>1 DEF ts
<1> HIDE DEF t
<1>5. \A e \in {"waiting", "done"} :
        [Closing(s) EXCEPT !.ending = e] \in Ctl /\ [Closing(s) EXCEPT !.ending = e].closeReady = s.closeReady
  <2> DEFINE over == s.closing \/ s.starting = "done"
  <2> DEFINE soon == s.early \/ s.starting \in {"waiting", "resuming"}
  <2> DEFINE u == [t EXCEPT !.phase = "closing"]
  <2> DEFINE v == [u EXCEPT !.byUs = TRUE, !.closing = over, !.feeder = FALSE, !.early = soon]
  <2>1. over \in BOOLEAN /\ soon \in BOOLEAN /\ "closing" \in Phases
    BY DEF Ctl, Phases
  <2>2. Closing(s) = [t EXCEPT !.byUs = TRUE, !.phase = "closing", !.closing = over, !.feeder = FALSE,
                               !.early = soon]
    <3>1. t.closing = s.closing /\ t.early = s.early
      BY <1>3 DEF Ctl, t
    <3> QED
      BY <1>4, <3>1 DEF Closing
  <2> HIDE DEF over, soon
  <2>3. u \in Ctl /\ u.closeReady = s.closeReady
    BY <1>4, <2>1 DEF Ctl
  <2>4. v = Closing(s)
    BY <1>4, <2>2 DEF Ctl
  <2> HIDE DEF u
  <2>5. v \in Ctl /\ v.closeReady = s.closeReady
    <3> DEFINE x == [u EXCEPT !.byUs = TRUE, !.feeder = FALSE]
    <3>1. x \in Ctl /\ x.closeReady = s.closeReady
      BY <2>3 DEF Ctl
    <3>2. v = [x EXCEPT !.closing = over, !.early = soon]
      BY <2>3 DEF Ctl
    <3> HIDE DEF x, v
    <3> QED
      BY <2>1, <3>1, <3>2 DEF Ctl
  <2> HIDE DEF v
  <2> QED
    BY <2>4, <2>5 DEF Ctl
<1>6. Ending(s).closeReady = s.closeReady
  BY <1>1, <1>5 DEF Ending
<1>7. Dropped(s).closeReady = s.closeReady
  <2> DEFINE u == [t EXCEPT !.phase = "failed"]
  <2> DEFINE v == [u EXCEPT !.feeder = FALSE]
  <2>1. u \in Ctl /\ u.closeReady = s.closeReady
    BY <1>4 DEF Ctl, Phases
  <2>2. v = [t EXCEPT !.feeder = FALSE, !.phase = "failed"]
    BY <1>4 DEF Ctl
  <2> HIDE DEF u
  <2>3. v \in Ctl /\ v.closeReady = s.closeReady
    BY <2>1 DEF Ctl
  <2> HIDE DEF v
  <2>4. FinishEnded(v).closeReady = s.closeReady
    BY <1>1, <2>3
  <2>5. [s EXCEPT !.deferred = (s.starting = "resuming")].closeReady = s.closeReady
    BY DEF Ctl
  <2> QED
    BY <1>4, <2>2, <2>4, <2>5 DEF Dropped
<1> QED
  BY <1>1, <1>6, <1>7

\* The goodbye is over only when a confirmation was sent, nobody speaks and no reply
\* is under way, whatever replies, speech and answers come between.
THEOREM ClosesInSilenceAlways == Spec => ClosesInSilence
<1> DEFINE Over == c.closeReady' /\ ~c.closeReady => c.confirmed /\ ~c.speaking /\ c.reply = "no"
<1>1. ASSUME CtlInv, [Next]_vars PROVE Over
  <2>1. Own(c, Late) /\ c \in Ctl /\ OneWatch(c)
    BY <1>1 DEF CtlInv, Own
  <2>2. CASE CloseFires
    <3>1. c.confirmed /\ c.reply = "no"
      BY <2>1, <2>2 DEF CloseFires, Own, Goodbye
    <3>2. CancelClose(c).closeReady = c.closeReady
      BY <2>1 DEF CancelClose, Ctl
    <3> QED
      BY <2>1, <2>2, <3>1, <3>2 DEF CloseFires
  <2> DEFINE Same == c.closeReady' = c.closeReady
  <2>3. SUFFICES ASSUME ~CloseFires PROVE Same
    BY <2>2
  <2>4. ASSUME NEW s \in Ctl PROVE StartFailed(s).closeReady = s.closeReady
    BY <2>4 DEF StartFailed, Cleanup, StopTimers, Ctl
  <2>5. CASE Connect \/ Opens \/ ConnectFails \/ Start \/ SessionReady \/ StartFails
    BY <2>1, <2>4, <2>5 DEF Connect, Opens, ConnectFails, Start, SessionReady, StartFails, Ctl
  <2>6. CASE Resumes
    <3>1. c.starting = "resuming" /\ c' = (IF c.deferred THEN Dropped(Running(c)) ELSE Running(c))
      BY <2>6 DEF Resumes
    <3>2. Own(Running(c), Late) /\ Running(c).closeReady = c.closeReady
      BY <2>1, <3>1, RunningOwn DEF Late
    <3>3. Running(c) \in Ctl /\ OneWatch(Running(c))
      BY <3>2 DEF Own
    <3>4. Dropped(Running(c)).closeReady = c.closeReady
      BY <3>2, <3>3, EndsLeaveGoodbye
    <3> QED
      BY <3>1, <3>2, <3>4
  <2>7. CASE Closes
    <3> DEFINE heard == IF c.wired THEN Dropped(c) ELSE c
    <3>1. c' = IF c.starting = "waiting" THEN StartFailed(heard) ELSE heard
      BY <2>7 DEF Closes
    <3>2. Own(heard, Late)
      BY <2>1, DroppedOwn DEF Late
    <3>3. heard \in Ctl
      BY <3>2 DEF Own
    <3>4. heard.closeReady = c.closeReady
      BY <2>1, EndsLeaveGoodbye
    <3> HIDE DEF heard
    <3> QED
      BY <2>4, <3>1, <3>3, <3>4
  <2>8. CASE ReplyStarted \/ SpeechStarted \/ SpeechStopped \/ FirstAudible \/ ReplyDone
    BY <2>1, <2>8 DEF ReplyStarted, SpeechStarted, SpeechStopped, FirstAudible, ReplyDone, CancelClose,
                      MaybeScheduleClose, MaybeFireHandBack, Ctl
  <2>9. ASSUME NEW x \in Calls, ToolCall(x) \/ ToolAnswers(x) \/ WatchTimesOut(x) \/ WatchResolves(x)
        PROVE  Same
    <3>1. StopWatch(c).closeReady = c.closeReady /\ BeginPaying(c, x).closeReady = c.closeReady
      BY <2>1 DEF StopWatch, BeginPaying, Ctl
    <3>2. \A v \in {"none", "timed_out"} : EndPaying([c EXCEPT !.watches[x] = v]).closeReady = c.closeReady
      BY <2>1 DEF EndPaying, Ctl
    <3>3. CASE WatchTimesOut(x) \/ WatchResolves(x)
      BY <3>2, <3>3 DEF WatchTimesOut, WatchResolves
    <3>4. CASE ToolCall(x)
      BY <3>4 DEF ToolCall
    <3>5. CASE ToolAnswers(x)
      <4>1. ArmHandBack(c, x).closeReady = c.closeReady /\ [c EXCEPT !.confirmed = TRUE].closeReady = c.closeReady
        BY <2>1 DEF ArmHandBack, Ctl
      <4>2. call[x].tool \in Tools
        BY <1>1 DEF CtlInv, CallStates
      <4> QED
        BY <3>1, <3>5, <4>1, <4>2 DEF ToolAnswers, Tools
    <3> QED
      BY <2>9, <3>3, <3>4, <3>5
  <2>10. CASE HandBackFires \/ Hidden \/ Shown
    BY <2>1, <2>10 DEF HandBackFires, Hidden, Shown, Ctl
  <2>11. CASE CapEnds \/ CeilingEnds
    <3> DEFINE s == [c EXCEPT !.capDone = TRUE]
    <3>1. s \in Ctl /\ s.closeReady = c.closeReady /\ OneWatch(s)
      BY <2>1 DEF Ctl, OneWatch
    <3>2. c' = Ending(s)
      BY <2>11 DEF CapEnds, CeilingEnds
    <3> HIDE DEF s
    <3> QED
      BY <3>1, <3>2, EndsLeaveGoodbye
  <2>12. CASE HiddenEnds
    <3> DEFINE ts == c.timers \ {"ios"}
    <3> DEFINE s == [c EXCEPT !.timers = ts]
    <3>1. c' = Ending(s) /\ ts \in SUBSET Timers
      BY <2>1, <2>12 DEF HiddenEnds, Ctl
    <3> HIDE DEF ts
    <3>2. s \in Ctl /\ s.closeReady = c.closeReady /\ OneWatch(s)
      BY <2>1, <3>1 DEF Ctl, OneWatch
    <3> HIDE DEF s
    <3> QED
      BY <3>1, <3>2, EndsLeaveGoodbye
  <2>13. CASE End \/ EndCloses
    BY <2>1, <2>13, EndsLeaveGoodbye DEF End, EndCloses
  <2>14. CASE EndReturns
    <3>1. c' = FinishEnded([c EXCEPT !.ending = "done"])
      BY <2>14 DEF EndReturns
    <3>2. /\ [c EXCEPT !.ending = "done"] \in Ctl /\ OneWatch([c EXCEPT !.ending = "done"])
          /\ [c EXCEPT !.ending = "done"].closeReady = c.closeReady
      BY <2>1 DEF Ctl, OneWatch
    <3> QED
      BY <3>1, <3>2, EndsLeaveGoodbye
  <2>15. CASE EndNow
    <3>1. PICK w \in [Calls -> {"none", "watching", "timed_out"}] :
            /\ \A x \in Calls : w[x] = "none"
            /\ StopWatch(StopTimers(c)) = [c EXCEPT !.timers = c.timers \cap {"old"}, !.watches = w]
      BY <2>1, StopsAll
    <3> DEFINE ts == c.timers \cap {"old"}
    <3> DEFINE t == [c EXCEPT !.timers = ts, !.watches = w]
    <3> DEFINE s == [t EXCEPT !.byUs = TRUE, !.feeder = FALSE]
    <3>2. c' = FinishEnded(s)
      BY <2>15, <3>1 DEF EndNow
    <3>3. ts \in SUBSET Timers /\ w \in [Calls -> {"none", "watching", "timed_out"}]
      BY <2>1, <3>1 DEF Ctl
    <3> HIDE DEF ts
    <3>4. t \in Ctl /\ t.watches = w /\ t.closeReady = c.closeReady
      BY <2>1, <3>3 DEF Ctl
    <3> HIDE DEF t
    <3>5. s \in Ctl /\ s.watches = w /\ s.closeReady = c.closeReady
      BY <3>4 DEF Ctl
    <3> HIDE DEF s
    <3> QED
      BY <3>1, <3>2, <3>5, EndsLeaveGoodbye DEF OneWatch
  <2>16. CASE UNCHANGED vars
    BY <2>16 DEF vars
  <2> QED
    BY <1>1, <2>3, <2>5, <2>6, <2>7, <2>8, <2>9, <2>10, <2>11, <2>12, <2>13, <2>14, <2>15, <2>16 DEF Next
<1>2. CtlInv /\ [Next]_vars => [Over]_vars
  BY <1>1
<1>3. QED
  BY <1>2, CtlInvAlways, PTL DEF Spec, ClosesInSilence

=============================================================================
