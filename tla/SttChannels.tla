---------------------------- MODULE SttChannels ----------------------------
(***************************************************************************)
(* The two live transcription sessions of a call page                      *)
(* (LiveSttChannelManager) with the broker that grants them, the cached    *)
(* replay a channel falls back to, and the page that drives them: it opens *)
(* them, waits for them before the recording plays, pauses and resumes     *)
(* them, and ends them at the pass or when the visitor asks for the cached *)
(* replay.  Other pages take rows of the window, or leave a ticket behind.  *)
(*                                                                         *)
(* Every await of the manager ends an action: the token request, the       *)
(* connect, the session's termination, the cancelled ticket.  What runs    *)
(* on one answer before the next await is one action.  The strict Begin    *)
(* check of a development build is a connect that fails.                   *)
(***************************************************************************)
EXTENDS SttBroker

CONSTANTS
  Visitors,    \* pages that left the queue without a word
  MaxPauses,   \* how often the page goes to the background
  MaxTroubles  \* how many token requests are lost or polls missed

Channels == {"rep", "customer"}
\* The requests of the page: for both channels or for one of them.
Pages    == {"both", "rep", "customer"}
ChannelsOf(p) == IF p = "both" THEN Channels ELSE {p}
PageFor(chs)  == CHOOSE p \in Pages : ChannelsOf(p) = chs
\* Who calls terminateAll: "Watch the cached replay now", and the pass.
Enders   == {"judge", "pass"}

ASSUME ChannelsAssumption ==
  /\ Requesters = Pages \cup Visitors /\ Pages \cap Visitors = {}
  /\ Null \notin [who: Pages, reconnect: BOOLEAN]
  /\ MaxPauses \in Nat /\ MaxTroubles \in Nat

VARIABLES
  st,         \* status of each channel
  sess,       \* its session: the number of the session, 0 for none
  count,      \* how many sessions it has opened
  live,       \* sessions open at the provider
  dying,      \* those that were sent Terminate
  left,       \* reconnectsLeft
  ticket,     \* the request whose ticket the manager holds
  timer,      \* the poll it has set: the request and its reconnect flag
  connecting, \* channels with a connect on its way
  waiting,    \* who awaits the end of the channel's session, in order
  ender,      \* terminateAll: where each call of it stands, or the ticket it is cancelling
  replaying,  \* channels whose cached replay is active
  phase,       \* "new", "opening", "connecting", "queued", "started" or "disposed"
  pauses,
  crossed,      \* a channel has asked while another request of the page was out
  lost, missed  \* token requests lost, polls missed

sessions == <<sess, count, live, dying>>
asking   == <<ticket, timer, connecting>>
ending   == <<waiting, ender>>
faults   == <<crossed, lost, missed>>
pageVars == <<st, sessions, left, asking, ending, replaying, phase, pauses, faults>>
sttVars == <<brokerVars, pageVars>>

Loading  == {"opening", "connecting", "queued"}
Running  == Loading \cup {"started"}
Status   == {"idle", "queued", "open", "closed", "cached", "paused"}
Sessions == Channels \X (1..(2 + MaxPauses))

SttTypeOK ==
  /\ BrokerTypeOK
  /\ st \in [Channels -> Status]
  /\ sess \in [Channels -> Nat] /\ count \in [Channels -> Nat]
  /\ dying \subseteq live /\ live \subseteq Sessions
  /\ left \in [Channels -> 0..1]
  /\ ticket \in Pages \cup {Null}
  /\ timer \in [who: Pages, reconnect: BOOLEAN] \cup {Null}
  /\ connecting \subseteq Channels
  /\ waiting \in [Channels -> Seq(Enders \cup {"pause"})]
  /\ ender \in [Enders -> {"idle", "closing", "done"} \cup Pages]
  /\ replaying \subseteq Channels
  /\ phase \in {"new", "disposed"} \cup Running
  /\ crossed \in BOOLEAN /\ pauses \in 0..MaxPauses
  /\ lost \in Nat /\ missed \in Nat /\ lost + missed <= MaxTroubles

SttInit ==
  /\ window = <<>> /\ req = [r \in Requesters |-> NoRequest] /\ queue = <<>>
  /\ st = [ch \in Channels |-> "idle"]
  /\ sess = [ch \in Channels |-> 0] /\ count = [ch \in Channels |-> 0]
  /\ live = {} /\ dying = {}
  /\ left = [ch \in Channels |-> 1]
  /\ ticket = Null /\ timer = Null
  /\ connecting = {}
  /\ waiting = [ch \in Channels |-> <<>>]
  /\ ender = [e \in Enders |-> "idle"]
  /\ replaying = {}
  /\ phase = "new" /\ pauses = 0 /\ crossed = FALSE /\ lost = 0 /\ missed = 0

Current(ch) == <<ch, sess[ch]>>
Become(chs, to) == [ch \in Channels |-> IF ch \in chs THEN to ELSE st[ch]]
\* toCached: the prefetched replay takes the channels over.
ToCached(chs) == st' = Become(chs, "cached") /\ replaying' = replaying \cup chs

-----------------------------------------------------------------------------
(* Opening, and the answers of POST /api/stt/token *)

Open ==
  /\ phase = "new"
  /\ phase' = "opening"
  /\ st' = Become(Channels, "queued")
  /\ Ask("both", 2, FALSE, FALSE)
  /\ UNCHANGED <<sessions, left, asking, ending, replaying, pauses, faults>>

\* The recording starts when both connects have been answered; after a queued answer
\* (waitForStt) when no channel waits, or when the judge chose the replay.
Start ==
  /\ \/ phase = "connecting" /\ connecting = {}
     \/ phase = "queued" /\ (ender["judge"] # "idle" \/ \A ch \in Channels : st[ch] # "queued")
  /\ phase' = "started"
  /\ UNCHANGED <<brokerVars, st, sessions, left, asking, ending, replaying, pauses, faults>>

\* The manager has the answer; nothing is sent back.
TakesAnswer(p, answer) ==
  /\ req[p].pc = "answered" /\ req[p].answer = answer
  /\ req' = [req EXCEPT ![p] = NoRequest]
  /\ UNCHANGED <<window, queue>>

HearsNothing(p) ==
  /\ phase = "disposed"
  /\ \E answer \in Answers : TakesAnswer(p, answer)
  /\ UNCHANGED pageVars

HearsGranted(p) ==
  /\ phase # "disposed"
  /\ TakesAnswer(p, "granted")
  /\ ticket' = Null
  /\ connecting' = connecting \cup ChannelsOf(p)
  /\ phase' = IF phase = "opening" THEN "connecting" ELSE phase
  /\ UNCHANGED <<st, sessions, left, timer, ending, replaying, pauses, faults>>

\* Mutant: a reconnect relies on the poll that is set already.
PollOnce(p) == IF req[p].reconnect THEN timer ELSE [who |-> p, reconnect |-> FALSE]
NextPoll(p) == [who |-> p, reconnect |-> req[p].reconnect]

HearsQueued(p) ==
  /\ phase # "disposed"
  /\ TakesAnswer(p, "queued")
  /\ ticket' = p
  /\ timer' = NextPoll(p)
  /\ st' = Become(ChannelsOf(p), "queued")
  /\ phase' = IF phase = "opening" THEN "queued" ELSE phase
  /\ UNCHANGED <<sessions, left, connecting, ending, replaying, pauses, faults>>

HearsDenied(p) ==
  /\ phase # "disposed"
  /\ TakesAnswer(p, "denied")
  /\ ToCached(ChannelsOf(p))
  /\ phase' = IF phase = "opening" THEN "started" ELSE phase
  /\ UNCHANGED <<sessions, left, asking, ending, pauses, faults>>

\* The network loses the request or its answer: fetch rejects and no one catches it.
RequestLost(p) ==
  /\ pauses + lost + missed < MaxTroubles
  /\ req[p].pc \in {"sent", "answered"}
  /\ req' = [req EXCEPT ![p] = NoRequest]
  /\ lost' = lost + 1
  /\ UNCHANGED <<window, queue, st, sessions, left, asking, ending, replaying, phase,
                 pauses, crossed, missed>>

\* The poll's timer fires.
Poll ==
  /\ timer # Null
  /\ timer' = Null
  /\ IF phase = "disposed" \/ ticket = Null THEN UNCHANGED brokerVars
     ELSE Ask(timer.who, Cardinality(ChannelsOf(timer.who)), timer.reconnect, TRUE)
  /\ UNCHANGED <<st, sessions, left, ticket, connecting, ending, replaying, phase,
                 pauses, faults>>

-----------------------------------------------------------------------------
(* Sessions *)

TooLate == phase = "disposed"

ConnectOpens(ch) ==
  LET s == <<ch, count[ch] + 1>> IN
  /\ ch \in connecting
  /\ connecting' = connecting \ {ch}
  /\ count' = [count EXCEPT ![ch] = @ + 1]
  /\ live' = live \cup {s}
  /\ IF TooLate
     THEN dying' = dying \cup {s} /\ UNCHANGED <<sess, st>>
     ELSE /\ sess' = [sess EXCEPT ![ch] = s[2]]
          /\ st' = Become({ch}, "open")
          /\ UNCHANGED dying
  /\ UNCHANGED <<brokerVars, left, ticket, timer, ending, replaying, phase, pauses, faults>>

ConnectFails(ch) ==
  /\ ch \in connecting
  /\ connecting' = connecting \ {ch}
  /\ ToCached({ch})
  /\ UNCHANGED <<brokerVars, sessions, left, ticket, timer, ending, phase, pauses, faults>>

\* Channels that lost their session, or were paused, ask for a reconnect.
AskAgain(chs) ==
  /\ Ask(PageFor(chs), Cardinality(chs), TRUE, FALSE)
  /\ crossed' = (crossed \/ timer # Null \/ \E p \in Pages : req[p].pc # "idle")

\* The provider closes a session the page did not ask to end (onClose).
ProviderCloses(ch) ==
  /\ Current(ch) \in live \ dying
  /\ live' = live \ {Current(ch)}
  /\ sess' = [sess EXCEPT ![ch] = 0]

ClosesClean(ch) ==
  /\ ProviderCloses(ch)
  /\ st' = Become({ch}, "closed")
  /\ UNCHANGED <<brokerVars, count, dying, left, asking, ending, replaying, phase,
                 pauses, faults>>

CanReconnect(ch) == left[ch] > 0
Reconnecting(ch) == st' = Become({ch}, "queued") /\ UNCHANGED replaying

ClosesTransient(ch) ==
  /\ ProviderCloses(ch)
  /\ CanReconnect(ch)
  /\ left' = [left EXCEPT ![ch] = @ - 1]
  /\ Reconnecting(ch)
  /\ AskAgain({ch})
  /\ UNCHANGED <<count, dying, asking, ending, phase, pauses, lost, missed>>

ClosesInactive(ch) ==
  /\ ProviderCloses(ch)
  /\ pauses < MaxPauses
  /\ pauses' = pauses + 1
  /\ st' = Become({ch}, "paused")
  /\ UNCHANGED <<brokerVars, count, dying, left, asking, ending, replaying, phase, faults>>

\* A fatal close, or a transient one with no reconnect left.
ClosesFatal(ch) ==
  /\ ProviderCloses(ch)
  /\ ToCached({ch})
  /\ UNCHANGED <<brokerVars, count, dying, left, asking, ending, phase, pauses, faults>>

-----------------------------------------------------------------------------
(* Pause, resume, terminateAll, dispose *)

\* A session that has closed already terminates at once.
WithSession == {ch \in Channels : Current(ch) \in live}

\* closeSession's part before its await, for the channels that have a session.
SendTerminate(chs, who) ==
  /\ dying' = dying \cup {Current(ch) : ch \in chs}
  /\ waiting' = [ch \in Channels |->
       IF ch \in chs THEN Append(waiting[ch], who) ELSE waiting[ch]]

Pause ==
  LET chs == {ch \in WithSession : st[ch] = "open"} IN
  /\ phase \in Running /\ pauses < MaxPauses /\ chs # {}
  /\ pauses' = pauses + 1
  /\ SendTerminate(chs, "pause")
  /\ UNCHANGED <<brokerVars, st, sess, count, live, left, asking, ender, replaying,
                 phase, faults>>

\* Mutant: a paused channel stays so until its session is back.
StillPaused(chs) == st
Resumed(chs) == Become(chs, "queued")

Resume ==
  LET chs == {ch \in Channels : st[ch] = "paused"} IN
  /\ phase \in Running /\ chs # {}
  /\ st' = Resumed(chs)
  /\ AskAgain(chs)
  /\ UNCHANGED <<sessions, left, asking, ending, replaying, phase, pauses, lost, missed>>

Ended == {"open", "queued", "paused"}

\* terminateAll after the ticket: sessions are ended, a channel without one is closed at once.
CloseAll(e, replays) ==
  /\ SendTerminate(WithSession, e)
  /\ st' = [ch \in Channels |->
       IF ch \notin WithSession /\ st[ch] \in Ended THEN "closed" ELSE st[ch]]
  /\ ender' = [ender EXCEPT ![e] = IF WithSession = {} THEN "done" ELSE "closing"]
  /\ replaying' = IF WithSession = {} THEN {} ELSE replays

\* The judge's choice is offered while the call waits; the replay is started in the same turn.
TerminateAll(e) ==
  LET replays == IF e = "judge" THEN Channels ELSE replaying IN
  /\ ender[e] = "idle"
  /\ phase = (IF e = "judge" THEN "queued" ELSE "started")
  /\ timer' = Null /\ ticket' = Null
  /\ IF ticket # Null
     THEN /\ ender' = [ender EXCEPT ![e] = ticket]
          /\ replaying' = replays
          /\ UNCHANGED <<st, dying, waiting>>
     ELSE CloseAll(e, replays)
  /\ UNCHANGED <<brokerVars, sess, count, live, left, connecting, phase, pauses, faults>>

\* DELETE /api/stt/queue answers; it never rejects.
Cancelled(e) ==
  /\ ender[e] \in Pages
  /\ Cancel(ender[e])
  /\ CloseAll(e, replaying)
  /\ UNCHANGED <<window, req, sess, count, live, left, asking, phase, pauses, faults>>

Awaits(w, ch, who) == \E i \in DOMAIN w[ch] : w[ch][i] = who
\* A session that was sent Terminate has closed, or was aborted 3 s later; those who awaited
\* it go on, in the order they began.
StatusAfter(ch) ==
  LET who == waiting[ch]
  IN IF who[Len(who)] = "pause" THEN "paused"
     ELSE IF st[ch] \in Ended \/ Awaits(waiting, ch, "pause") THEN "closed" ELSE st[ch]
SessionEnds(s) ==
  LET ch      == s[1]
      heard   == waiting[ch] # <<>> /\ s = Current(ch)
      left_   == [waiting EXCEPT ![ch] = <<>>]
      through == {e \in Enders : ender[e] = "closing" /\ \A c \in Channels : ~Awaits(left_, c, e)}
  IN
  /\ s \in dying
  /\ live' = live \ {s} /\ dying' = dying \ {s}
  /\ IF heard
     THEN /\ sess' = [sess EXCEPT ![ch] = 0]
          /\ st' = Become({ch}, StatusAfter(ch))
          /\ waiting' = left_
          /\ ender' = [e \in Enders |-> IF e \in through THEN "done" ELSE ender[e]]
          /\ replaying' = IF through # {} THEN {} ELSE replaying
     ELSE UNCHANGED <<sess, st, ending, replaying>>
  /\ UNCHANGED <<brokerVars, count, left, asking, phase, pauses, faults>>

Dispose ==
  /\ phase \in Running
  /\ phase' = "disposed"
  /\ timer' = Null
  /\ dying' = dying \cup {Current(ch) : ch \in WithSession}
  /\ UNCHANGED <<brokerVars, st, sess, count, live, left, ticket, connecting, ending,
                 replaying, pauses, faults>>

-----------------------------------------------------------------------------
(* The other pages and the clock *)

\* Before this page opens, others are granted at once: nobody waits and the window has room.
OthersOpen ==
  /\ phase = "new" /\ queue = <<>> /\ Len(window) < Opens
  /\ window' = Append(window, Null)
  /\ UNCHANGED <<queue, req, pageVars>>

\* Another page opens, has to wait and is closed without a word: before this page opens, or
\* while it is live and nothing has happened to it.
OthersWait(v) ==
  /\ \/ phase = "new"
     \/ phase = "started" /\ ender["pass"] = "idle" /\ pauses + lost + missed = 0
  /\ TicketsOf(queue, v) = {}
  /\ queue # <<>> \/ Len(window) + 2 > Opens
  /\ queue' = Place(queue, [who |-> v, n |-> 2, reconnect |-> FALSE, late |-> FALSE])
  /\ UNCHANGED <<window, req, pageVars>>

\* Only a request about to be decided tells whether time has passed.
Clock ==
  /\ \E r \in Requesters : req[r].pc = "sent"
  /\ Slides \/ \E v \in Visitors : MissesPolls(v)
  /\ UNCHANGED pageVars

PageIsLate ==
  /\ pauses + lost + missed < MaxTroubles
  /\ missed' = missed + 1
  /\ \E p \in Pages : MissesPolls(p)
  /\ UNCHANGED <<st, sessions, left, asking, ending, replaying, phase, pauses,
                 crossed, lost>>

\* The route refuses a call that is passed on: it is no longer shadowing.
Serves(r) ==
  /\ Handle(r)
  /\ req[r].pc = "sent" /\ r \in Pages /\ ender["pass"] # "idle" => IsRefused(r)
  /\ UNCHANGED pageVars

Hears(p) == HearsNothing(p) \/ HearsGranted(p) \/ HearsQueued(p) \/ HearsDenied(p)
Connects(ch) == ConnectOpens(ch) \/ ConnectFails(ch)

SttNext ==
  \/ Open \/ Start \/ Poll \/ Pause \/ Resume \/ Dispose
  \/ \E p \in Pages : Hears(p) \/ RequestLost(p)
  \/ \E ch \in Channels :
       \/ Connects(ch)
       \/ ClosesClean(ch) \/ ClosesTransient(ch) \/ ClosesInactive(ch) \/ ClosesFatal(ch)
  \/ \E e \in Enders : TerminateAll(e) \/ Cancelled(e)
  \/ \E s \in Sessions : SessionEnds(s)
  \/ \E r \in Requesters : Serves(r)
  \/ \E v \in Visitors : OthersWait(v)
  \/ OthersOpen \/ Clock \/ PageIsLate

SttSpec == SttInit /\ [][SttNext]_sttVars

-----------------------------------------------------------------------------
(* Properties *)

\* Every session open at the provider is its channel's session or has been sent Terminate: a
\* reconnect, a resume or an end never loses one, which would go on being billed.
SessionsHeld == \A s \in live : s = Current(s[1]) \/ s \in dying

\* A channel is not transcribed twice, by its session and by the cached replay, as long as the
\* judge has not asked for the replay while a connect was on its way.
HeardOnce ==
  ender["judge"] = "idle" =>
    \A ch \in replaying : Current(ch) \in live => Current(ch) \in dying

\* Once the page is gone every session still open is being ended, the one whose connect was on
\* its way included.
DisposedEnds == phase = "disposed" => live \subseteq dying

\* The page's channels are sound: no provider session is lost to be billed on, none outlives
\* the page, and no channel is transcribed by its session and by the cached replay at once.
ChannelsSound == SttTypeOK /\ SessionsHeld /\ DisposedEnds /\ HeardOnce

\* What wakes a channel that waits: an answer, a connect, a poll, or the end that is under way.
WillWake(ch) ==
  \/ ch \in connecting
  \/ \E e \in Enders : ender[e] \in Pages
  \/ \E p \in Pages : /\ ch \in ChannelsOf(p)
                      /\ \/ req[p].pc # "idle"
                         \/ timer # Null /\ timer.who = p /\ ticket # Null

\* A channel that waits is woken, unless the network lost its request or two requests of the
\* page were out at once (the manager has one ticket and one timer for both channels).
WaitsForSomething ==
  lost = 0 /\ ~crossed /\ phase # "disposed" =>
    \A ch \in Channels : st[ch] = "queued" => WillWake(ch)

\* channel-manager.ts says "ONE reconnect per channel ... Denied/failed -> that channel goes
\* cached": a channel that waits for its reconnect is woken whatever the other channel does.
ReconnectIsAnswered ==
  lost = 0 /\ phase # "disposed" => \A ch \in Channels : st[ch] = "queued" => WillWake(ch)

\* cached-replay.ts says the whole call is replayed when the judge chooses "Watch the cached
\* replay now": once that choice is settled, the replay of both channels is on.
ChosenReplayPlays ==
  ender["judge"] = "done" /\ phase = "started" => replaying = Channels
=============================================================================
