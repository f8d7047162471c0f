------------------------ MODULE TakeoverMachineProofs ------------------------
(***************************************************************************)
(* Proofs about TakeoverMachine, for any number of passes and arms of any  *)
(* pages: the machine is sound, the outcomes it tells are the page's, its  *)
(* reports come before its ends, and no step moves a pass back.            *)
(*                                                                         *)
(* The reducer's helpers map a context to a context, so the invariant is   *)
(* a predicate of one, and each helper is shown once to keep it.           *)
(***************************************************************************)
EXTENDS TakeoverMachine, TLAPS

Context == [m: Machine, net: SUBSET Request,
            sock: [Ids \X Attempts -> SocketStates], wire: Seq(Told)]
InPass(c) == c \in Context /\ c.m.pass \in Pass

InUse == {"connecting", "open", "started", "ready"}
Silent(c) == \A x \in Ids \X Attempts : c.sock[x] \notin InUse

\* Where a pass stands with its arm, its session and its end.
Staged(s) ==
  IF s.pass = None THEN s.phase \in {"idle", "done", "fallback"}
  ELSE LET p == s.pass
           st == s.pass.va.status
       IN /\ s.phase # "idle" /\ s.passes >= 1 /\ p.id <= s.arms
          /\ p.arm # "ok" => st \in {"idle", "dead"} /\ ~p.endPosted
          /\ p.closing # None => s.phase \in {"closing"} \cup Over
          /\ s.phase = "closing" => p.closing # None /\ p.arm = "ok"
          /\ s.phase = "greeting" => st \in {"starting", "ready"}
          /\ s.phase \in {"active", "paying"} => st = "audible"
          /\ st = "audible" => s.phase \in {"active", "paying", "closing"}
          /\ s.phase \in Over => st \in {"dead", "ended"}
          /\ p.endPosted => s.phase \in Over \/ s.disposed

Sockets(c) ==
  \A x \in Ids \X Attempts :
    c.sock[x] \in InUse =>
      c.m.disposed \/ (c.m.pass # None /\ x = Current(c) /\ c.m.pass.va.status \in Connected)

Live(c) == ~c.m.disposed /\ c.m.phase \in {"active", "paying"} => c.sock[Current(c)] = "ready"

\* Requests under way: a socket that is still awaited is not open yet.
Asked(c) ==
  \A r \in c.net :
    /\ r.k # "recorded" => r.id \in Ids
    /\ r.k # "end" => r = Req(r.k, r.id, r.att)
    /\ r.k = "closed" => r.att = 0
    /\ r.k = "connect" => c.sock[<<r.id, r.att>>] \notin {"open", "started", "ready"}

\* An end that was asked for, of the current pass or of an earlier one.
Posted(s, id) == id <= s.arms /\ (s.pass # None /\ s.pass.id = id => s.pass.endPosted)

EndAsked(c, r) ==
  /\ Posted(c.m, r.id)
  /\ \A q \in c.net : q.k = "end" /\ q.id = r.id => q = r
  /\ \A i \in 1..Len(c.wire) : c.wire[i].k = "end" => c.wire[i].id # r.id
  /\ c.m.pass # None /\ c.m.pass.id = r.id /\ c.m.phase \in Over => r.outcome = c.m.lastOutcome

EndHeard(c, i) ==
  /\ Posted(c.m, c.wire[i].id)
  /\ \A r \in c.net : r.k = "closed" => r.id # c.wire[i].id
  /\ \A j \in 1..Len(c.wire) :
       c.wire[j].id = c.wire[i].id =>
         /\ c.wire[j].k = "end" => j = i
         /\ c.wire[j].k = "closed" => j < i

Booked(c) ==
  /\ \A r \in c.net : r.k = "end" => EndAsked(c, r)
  /\ \A i \in 1..Len(c.wire) : c.wire[i].k = "end" => EndHeard(c, i)

Good(c) == c \in Context /\ Staged(c.m) /\ Sockets(c) /\ Live(c) /\ Asked(c) /\ Booked(c)

\* What a step does to a pass: a new one follows it, or it goes on.
Moves(s, t) ==
  s.pass # None /\ t.pass # None =>
    \/ s.pass.id < t.pass.id
    \/ /\ s.pass.id = t.pass.id
       /\ Rank(s.phase) <= Rank(t.phase)
       /\ s.pass.va.status = "audible" => t.pass.va.attempt = s.pass.va.attempt
       /\ s.phase \notin Over /\ t.phase \in Over /\ s.pass.arm = "ok" => t.pass.endPosted

Leads(c, d) == Good(d) /\ Moves(c.m, d.m)

\* A pass on its way to the AI half, whatever its session is doing.
UnderWay(c) ==
  /\ InPass(c) /\ ~c.m.disposed
  /\ c.m.phase \in VaPhases /\ c.m.passes >= 1 /\ c.m.pass.id <= c.m.arms
  /\ c.m.pass.arm # "ok" => c.m.pass.va.status \in {"idle", "dead"}
  /\ c.m.pass.closing = None /\ ~c.m.pass.endPosted /\ c.m.pass.va.status # "audible"
  /\ Sockets(c) /\ Asked(c) /\ Booked(c)

-----------------------------------------------------------------------------
(* Single updates of a context *)

LEMMA HasPass ==
  ASSUME NEW c \in Context
  PROVE  c.m.pass # None <=> InPass(c)
BY MachineAssumption DEF InPass, Context, Machine

LEMMA StatusSet ==
  ASSUME NEW c, InPass(c), NEW st \in VaStatuses
  PROVE  InPass(VaIs(c, st))
<1>1. VaIs(c, st) \in Context
  BY DEF VaIs, InPass, Context, Machine, Pass, VaState
<1>2. VaIs(c, st).m.pass \in Pass
  BY DEF VaIs, InPass, Context, Machine, Pass, VaState
<1> QED
  BY <1>1, <1>2 DEF InPass

LEMMA VaSet ==
  ASSUME NEW c, InPass(c), NEW va \in VaState
  PROVE  InPass([c EXCEPT !.m.pass.va = va])
<1>1. [c EXCEPT !.m.pass.va = va] \in Context
  BY DEF InPass, Context, Machine, Pass
<1>2. [c EXCEPT !.m.pass.va = va].m.pass \in Pass
  BY DEF InPass, Context, Machine, Pass
<1> QED
  BY <1>1, <1>2 DEF InPass

LEMMA HeldSet ==
  ASSUME NEW c, InPass(c), NEW b \in BOOLEAN
  PROVE  InPass([c EXCEPT !.m.pass.va.held = b])
<1>1. [c EXCEPT !.m.pass.va.held = b] \in Context
  BY DEF InPass, Context, Machine, Pass, VaState
<1>2. [c EXCEPT !.m.pass.va.held = b].m.pass \in Pass
  BY DEF InPass, Context, Machine, Pass, VaState
<1> QED
  BY <1>1, <1>2 DEF InPass

LEMMA LineSet ==
  ASSUME NEW c, InPass(c)
  PROVE  InPass([c EXCEPT !.m.pass.lineKnown = TRUE])
<1>1. [c EXCEPT !.m.pass.lineKnown = TRUE] \in Context
  BY DEF InPass, Context, Machine, Pass
<1>2. [c EXCEPT !.m.pass.lineKnown = TRUE].m.pass \in Pass
  BY DEF InPass, Context, Machine, Pass
<1> QED
  BY <1>1, <1>2 DEF InPass

LEMMA PostedSet ==
  ASSUME NEW c, InPass(c)
  PROVE  InPass([c EXCEPT !.m.pass.endPosted = TRUE])
<1>1. [c EXCEPT !.m.pass.endPosted = TRUE] \in Context
  BY DEF InPass, Context, Machine, Pass
<1>2. [c EXCEPT !.m.pass.endPosted = TRUE].m.pass \in Pass
  BY DEF InPass, Context, Machine, Pass
<1> QED
  BY <1>1, <1>2 DEF InPass

LEMMA CompileSet ==
  ASSUME NEW c, InPass(c), NEW k \in {"idle", "waiting_arm", "server", "local", "done"}
  PROVE  InPass([c EXCEPT !.m.pass.compile = k])
<1>1. [c EXCEPT !.m.pass.compile = k] \in Context
  BY DEF InPass, Context, Machine, Pass
<1>2. [c EXCEPT !.m.pass.compile = k].m.pass \in Pass
  BY DEF InPass, Context, Machine, Pass
<1> QED
  BY <1>1, <1>2 DEF InPass

LEMMA ArmSet ==
  ASSUME NEW c, InPass(c), NEW k \in {"pending", "ok", "failed"}
  PROVE  InPass([c EXCEPT !.m.pass.arm = k])
<1>1. [c EXCEPT !.m.pass.arm = k] \in Context
  BY DEF InPass, Context, Machine, Pass
<1>2. [c EXCEPT !.m.pass.arm = k].m.pass \in Pass
  BY DEF InPass, Context, Machine, Pass
<1> QED
  BY <1>1, <1>2 DEF InPass

LEMMA ClosingSet ==
  ASSUME NEW c, InPass(c), NEW cl \in Closing
  PROVE  InPass([c EXCEPT !.m.pass.closing = cl])
<1>1. [c EXCEPT !.m.pass.closing = cl] \in Context
  BY DEF InPass, Context, Machine, Pass
<1>2. [c EXCEPT !.m.pass.closing = cl].m.pass \in Pass
  BY DEF InPass, Context, Machine, Pass
<1> QED
  BY <1>1, <1>2 DEF InPass

LEMMA PhaseSet ==
  ASSUME NEW c \in Context, NEW ph \in Phases
  PROVE  Enter(c, ph) \in Context /\ (InPass(c) => InPass(Enter(c, ph)))
<1>1. Enter(c, ph) \in Context
  BY DEF Enter, Context, Machine
<1>2. Enter(c, ph).m.pass = c.m.pass
  BY DEF Enter, Context, Machine
<1> QED
  BY <1>1, <1>2 DEF InPass

LEMMA OutcomeSet ==
  ASSUME NEW c, InPass(c), NEW o \in Outcomes
  PROVE  InPass(Concluded(c, o))
<1>1. Concluded(c, o) \in Context
  BY DEF Concluded, InPass, Context, Machine
<1>2. Concluded(c, o).m.pass \in Pass
  BY DEF Concluded, InPass, Context, Machine
<1> QED
  BY <1>1, <1>2 DEF InPass

LEMMA SockSet ==
  ASSUME NEW c \in Context, NEW x \in Ids \X Attempts, NEW st \in SocketStates
  PROVE  [c EXCEPT !.sock[x] = st] \in Context
BY DEF Context

LEMMA NetSet ==
  ASSUME NEW c \in Context, NEW n \in SUBSET Request
  PROVE  [c EXCEPT !.net = n] \in Context
BY DEF Context

LEMMA MachineSet ==
  ASSUME NEW c \in Context, NEW s \in Machine
  PROVE  [c EXCEPT !.m = s] \in Context
BY DEF Context

-----------------------------------------------------------------------------
(* What keeps the parts of the invariant *)

LEMMA SocketsKept ==
  ASSUME NEW c, NEW d, Sockets(c), d.sock = c.sock, d.m.disposed = c.m.disposed,
         c.m.pass # None => /\ d.m.pass # None /\ d.m.pass.id = c.m.pass.id
                            /\ d.m.pass.va.attempt = c.m.pass.va.attempt
                            /\ c.m.pass.va.status \in Connected => d.m.pass.va.status \in Connected
  PROVE  Sockets(d)
BY DEF Sockets, Current

LEMMA AskedKept ==
  ASSUME NEW c, NEW d, Asked(c), d.sock = c.sock, d.net \subseteq c.net
  PROVE  Asked(d)
BY DEF Asked

\* The end of a pass concerns its books, and nothing else does.
LEMMA BookedKept ==
  ASSUME NEW c, NEW d, Booked(c), d.wire = c.wire, d.m.arms = c.m.arms,
         \A r \in d.net : r.k \in {"end", "closed"} => r \in c.net,
         d.m.pass # None => /\ c.m.pass # None /\ d.m.pass.id = c.m.pass.id
                            /\ c.m.pass.endPosted => d.m.pass.endPosted
                            /\ d.m.phase \in Over => /\ c.m.phase \in Over
                                                     /\ d.m.lastOutcome = c.m.lastOutcome
  PROVE  Booked(d)
<1>1. \A id : Posted(c.m, id) => Posted(d.m, id)
  BY DEF Posted
<1>2. ASSUME NEW r \in d.net, r.k = "end" PROVE EndAsked(d, r)
  BY <1>1, <1>2 DEF Booked, EndAsked
<1>3. ASSUME NEW i \in 1..Len(d.wire), d.wire[i].k = "end" PROVE EndHeard(d, i)
  BY <1>1, <1>3 DEF Booked, EndHeard
<1> QED
  BY <1>2, <1>3 DEF Booked

LEMMA Requests ==
  ASSUME NEW k \in Kinds, NEW id \in 0..MaxArms, NEW att \in Attempts
  PROVE  /\ Req(k, id, att) \in Request
         /\ Req(k, id, att).k = k /\ Req(k, id, att).id = id /\ Req(k, id, att).att = att
BY DEF Req, Request

LEMMA PassIds ==
  ASSUME NEW c, InPass(c)
  PROVE  /\ c.m.pass # None /\ c \in Context /\ c.m \in Machine
         /\ c.m.pass.id \in Ids /\ c.m.pass.id \in 0..MaxArms
         /\ c.m.pass.va \in VaState /\ c.m.pass.va.attempt \in Attempts /\ c.m.pass.va.status \in VaStatuses
         /\ Current(c) \in Ids \X Attempts
         /\ c.m.pass.closing \in Closing \cup {None}
BY MachineAssumption DEF InPass, Context, Machine, Pass, VaState, Current, Ids

\* A request of another kind than the reports and the ends.
LEMMA Asks ==
  ASSUME NEW c, InPass(c), Asked(c), Booked(c), NEW att \in Attempts,
         NEW k \in Kinds \ {"end", "closed"},
         k = "connect" => c.sock[<<c.m.pass.id, att>>] \notin {"open", "started", "ready"}
  PROVE  LET d == Ask(c, k, att) IN
         /\ InPass(d) /\ d.m = c.m /\ d.sock = c.sock /\ d.wire = c.wire
         /\ Asked(d) /\ Booked(d)
<1> DEFINE q == Req(k, c.m.pass.id, att)
<1> DEFINE d == Ask(c, k, att)
<1>1. q \in Request /\ q.k = k /\ q.id = c.m.pass.id /\ q.att = att /\ q.id \in Ids
  BY PassIds, Requests
<1>2. d = [c EXCEPT !.net = c.net \cup {q}]
  BY DEF Ask
<1>3. q = Req(q.k, q.id, q.att)
  BY <1>1
<1> HIDE DEF q, d
<1>4. c.net \cup {q} \in SUBSET Request /\ c \in Context
  BY <1>1 DEF InPass, Context
<1>5. InPass(d) /\ d.m = c.m /\ d.sock = c.sock /\ d.wire = c.wire /\ d.net = c.net \cup {q}
  <2>1. d \in Context
    BY <1>2, <1>4, NetSet
  <2>2. d.m = c.m /\ d.sock = c.sock /\ d.wire = c.wire /\ d.net = c.net \cup {q}
    BY <1>2, <1>4 DEF Context
  <2> QED
    BY <2>1, <2>2 DEF InPass
<1>6. Asked(d)
  BY <1>1, <1>3, <1>5 DEF Asked
<1>7. Booked(d)
  BY <1>1, <1>5, BookedKept
<1> QED
  BY <1>5, <1>6, <1>7 DEF d

LEMMA HangsUp ==
  ASSUME NEW c, InPass(c), Asked(c),
         \A x \in Ids \X Attempts : c.sock[x] \in InUse => x = Current(c)
  PROVE  LET d == HangUp(c) IN
         /\ InPass(d) /\ d.m = c.m /\ d.net = c.net /\ d.wire = c.wire
         /\ Silent(d) /\ Asked(d)
<1> DEFINE st == IF c.sock[Current(c)] = "connecting" THEN "stray" ELSE "gone"
<1> DEFINE d == HangUp(c)
<1>1. d = [c EXCEPT !.sock[Current(c)] = st] /\ st \in {"stray", "gone"}
  BY DEF HangUp
<1> HIDE DEF st, d
<1>2. c \in Context /\ Current(c) \in Ids \X Attempts /\ st \in SocketStates
  BY <1>1, PassIds DEF SocketStates
<1>3. InPass(d) /\ d.m = c.m /\ d.net = c.net /\ d.wire = c.wire
  <2>1. d \in Context
    BY <1>1, <1>2, SockSet
  <2>2. d.m = c.m /\ d.net = c.net /\ d.wire = c.wire
    BY <1>1, <1>2 DEF Context
  <2> QED
    BY <2>1, <2>2 DEF InPass
<1>4. d.sock = [c.sock EXCEPT ![Current(c)] = st] /\ c.sock \in [Ids \X Attempts -> SocketStates]
  BY <1>1, <1>2 DEF Context
<1>5. Silent(d)
  BY <1>1, <1>4 DEF Silent, InUse
<1>6. \A x : c.sock[x] \notin {"open", "started", "ready"} => d.sock[x] \notin {"open", "started", "ready"}
  BY <1>1, <1>4
<1>7. Asked(d)
  BY <1>3, <1>6 DEF Asked
<1> QED
  BY <1>3, <1>5, <1>7 DEF d

LEMMA Aborts ==
  ASSUME NEW c, InPass(c), Asked(c), Sockets(c), ~c.m.disposed
  PROVE  LET d == Abort(c) IN
         /\ InPass(d) /\ d.m = c.m /\ d.net = c.net /\ d.wire = c.wire
         /\ Silent(d) /\ Asked(d)
<1>1. CASE HasSocket(c.m.pass.va)
  BY <1>1, HangsUp DEF Abort, Sockets
<1>2. CASE ~HasSocket(c.m.pass.va)
  BY <1>2 DEF Abort, Sockets, Silent, HasSocket
<1> QED
  BY <1>1, <1>2

LEMMA SilentSockets ==
  ASSUME NEW c, Silent(c)
  PROVE  Sockets(c)
BY DEF Silent, Sockets

-----------------------------------------------------------------------------
(* The end of a pass *)

\* Nobody has asked for the end of a pass that has not posted it.
LEMMA NoEndYet ==
  ASSUME NEW c, InPass(c), Booked(c), ~c.m.pass.endPosted
  PROVE  /\ \A r \in c.net : r.k = "end" => r.id # c.m.pass.id
         /\ \A i \in 1..Len(c.wire) : c.wire[i].k = "end" => c.wire[i].id # c.m.pass.id
BY PassIds DEF Booked, EndAsked, EndHeard, Posted

LEMMA PostsEnd ==
  ASSUME NEW c, InPass(c), Asked(c), Booked(c), NEW o \in Outcomes,
         ~c.m.pass.endPosted, c.m.pass.id <= c.m.arms, c.m.phase \notin Over
  PROVE  LET d == PostEnd(c, o) IN
         /\ InPass(d) /\ d.sock = c.sock /\ d.wire = c.wire /\ Asked(d) /\ Booked(d)
         /\ d.m.phase = c.m.phase /\ d.m.passes = c.m.passes /\ d.m.arms = c.m.arms
         /\ d.m.disposed = c.m.disposed
         /\ d.m.pass.id = c.m.pass.id /\ d.m.pass.arm = c.m.pass.arm /\ d.m.pass.va = c.m.pass.va
         /\ d.m.pass.closing = c.m.pass.closing
         /\ d.m.pass.endPosted <=> c.m.pass.arm = "ok"
         /\ \A r \in d.net : r.k = "end" /\ r.id = c.m.pass.id => r.outcome = o
<1> DEFINE d == PostEnd(c, o)
<1>1. CASE c.m.pass.arm # "ok"
  <2>1. d = c
    BY <1>1 DEF PostEnd
  <2> HIDE DEF d
  <2>2. \A r \in d.net : r.k = "end" /\ r.id = c.m.pass.id => r.outcome = o
    BY <2>1, NoEndYet
  <2>3. d.m.pass.endPosted <=> c.m.pass.arm = "ok"
    BY <1>1, <2>1
  <2> QED
    BY <2>1, <2>2, <2>3 DEF d
<1>2. CASE c.m.pass.arm = "ok"
  <2> DEFINE q == [k |-> "end", id |-> c.m.pass.id, att |-> 0, outcome |-> o]
  <2> DEFINE e == [c EXCEPT !.m.pass.endPosted = TRUE]
  <2>1. q \in Request /\ q.k = "end" /\ q.id = c.m.pass.id /\ q.id \in Ids /\ q.outcome = o
    BY PassIds DEF Request, Kinds, Attempts
  <2>2. InPass(e)
    BY PostedSet
  <2>3. /\ e.sock = c.sock /\ e.wire = c.wire /\ e.net = c.net
        /\ e.m.phase = c.m.phase /\ e.m.passes = c.m.passes /\ e.m.arms = c.m.arms
        /\ e.m.disposed = c.m.disposed
        /\ e.m.pass.id = c.m.pass.id /\ e.m.pass.arm = c.m.pass.arm /\ e.m.pass.va = c.m.pass.va
        /\ e.m.pass.closing = c.m.pass.closing
    BY DEF InPass, Context, Machine, Pass
  <2>4. e.m.pass.endPosted
    BY DEF InPass, Context, Machine, Pass
  <2>5. d = [e EXCEPT !.net = c.net \cup {q}]
    BY <1>2 DEF PostEnd, InPass, Context
  <2> HIDE DEF e, q, d
  <2>6. e \in Context /\ c.net \cup {q} \in SUBSET Request
    BY <2>1, <2>2, <2>3 DEF InPass, Context
  <2>7. d \in Context /\ d.m = e.m /\ d.sock = e.sock /\ d.wire = e.wire /\ d.net = c.net \cup {q}
    <3>1. d \in Context
      BY <2>5, <2>6, NetSet
    <3> QED
      BY <2>5, <2>6, <3>1 DEF Context
  <2>8. Asked(d)
    BY <2>1, <2>3, <2>7 DEF Asked
  <2>9. \A r \in d.net : r.k = "end" /\ r.id = c.m.pass.id => r = q
    BY <2>7, NoEndYet
  <2>10. \A id : Posted(c.m, id) => Posted(d.m, id)
    BY <2>2, <2>3, <2>4, <2>7, PassIds DEF Posted
  <2>11. Posted(d.m, q.id)
    BY <2>1, <2>3, <2>4, <2>7 DEF Posted
  <2>12. ASSUME NEW r \in d.net, r.k = "end" PROVE EndAsked(d, r)
    <3>1. CASE r = q
      BY <2>1, <2>3, <2>7, <2>9, <2>11, <3>1, NoEndYet DEF EndAsked
    <3>2. CASE r # q
      <4>1. r \in c.net /\ EndAsked(c, r) /\ r.id # c.m.pass.id
        BY <2>7, <2>9, <2>12, <3>2 DEF Booked
      <4> QED
        BY <2>1, <2>3, <2>7, <2>10, <4>1 DEF EndAsked
    <3> QED
      BY <3>1, <3>2
  <2>13. ASSUME NEW i \in 1..Len(d.wire), d.wire[i].k = "end" PROVE EndHeard(d, i)
    <3>1. EndHeard(c, i)
      BY <2>3, <2>7, <2>13 DEF Booked
    <3> QED
      BY <2>1, <2>3, <2>7, <2>10, <3>1 DEF EndHeard
  <2>14. Booked(d)
    BY <2>12, <2>13 DEF Booked
  <2>15. \A r \in d.net : r.k = "end" /\ r.id = c.m.pass.id => r.outcome = o
    BY <2>1, <2>9
  <2>16. d.m.pass.endPosted <=> c.m.pass.arm = "ok"
    BY <1>2, <2>4, <2>7
  <2>17. InPass(d)
    BY <2>2, <2>7 DEF InPass
  <2> QED
    BY <2>3, <2>7, <2>8, <2>14, <2>15, <2>16, <2>17 DEF d
<1> QED
  BY <1>1, <1>2

\* A pass ends in silence: its end is posted, its outcome kept, and it is over.
LEMMA Finishes ==
  ASSUME NEW c, InPass(c), Silent(c), Asked(c), Booked(c), NEW o \in Outcomes,
         NEW st \in {"dead", "ended"}, st = "ended" => c.m.pass.arm = "ok", NEW ph \in Over,
         ~c.m.pass.endPosted, c.m.pass.id <= c.m.arms, c.m.passes >= 1, c.m.phase \notin Over,
         ~c.m.disposed
  PROVE  LET e == Concluded(PostEnd(VaIs(c, st), o), o) IN
         /\ Leads(c, Enter(e, ph)) /\ Leads(c, Enter(Ask(e, "recorded", 0), ph))
         /\ ~Enter(e, ph).m.disposed /\ ~Enter(Ask(e, "recorded", 0), ph).m.disposed
<1> DEFINE a == VaIs(c, st)
<1> DEFINE b == PostEnd(a, o)
<1> DEFINE e == Concluded(b, o)
<1>1. InPass(a) /\ st \in VaStatuses
  BY StatusSet DEF VaStatuses
<1>2. /\ a.m.phase = c.m.phase /\ a.m.passes = c.m.passes /\ a.m.arms = c.m.arms
      /\ a.m.disposed = c.m.disposed /\ a.net = c.net /\ a.sock = c.sock /\ a.wire = c.wire
      /\ a.m.pass.id = c.m.pass.id /\ a.m.pass.arm = c.m.pass.arm
      /\ a.m.pass.va.status = st /\ a.m.pass.va.attempt = c.m.pass.va.attempt
      /\ a.m.pass.endPosted = c.m.pass.endPosted
  BY DEF VaIs, InPass, Context, Machine, Pass, VaState
<1> HIDE DEF a
<1>3. Asked(a) /\ Booked(a)
  BY <1>1, <1>2, AskedKept, BookedKept, PassIds
<1>4. /\ InPass(b) /\ b.sock = a.sock /\ b.wire = a.wire /\ Asked(b) /\ Booked(b)
      /\ b.m.phase = a.m.phase /\ b.m.passes = a.m.passes /\ b.m.arms = a.m.arms
      /\ b.m.disposed = a.m.disposed
      /\ b.m.pass.id = a.m.pass.id /\ b.m.pass.arm = a.m.pass.arm /\ b.m.pass.va = a.m.pass.va
      /\ b.m.pass.endPosted <=> a.m.pass.arm = "ok"
      /\ \A r \in b.net : r.k = "end" /\ r.id = a.m.pass.id => r.outcome = o
  BY <1>1, <1>2, <1>3, PostsEnd
<1> HIDE DEF b
<1>5. InPass(e)
  BY <1>4, OutcomeSet
<1>6. /\ e.m.phase = b.m.phase /\ e.m.passes = b.m.passes /\ e.m.arms = b.m.arms
      /\ e.m.disposed = b.m.disposed /\ e.net = b.net /\ e.sock = b.sock /\ e.wire = b.wire
      /\ e.m.pass = b.m.pass /\ e.m.lastOutcome = o
  BY <1>4 DEF Concluded, InPass, Context, Machine
<1> HIDE DEF e
<1>7. Asked(e) /\ Booked(e)
  BY <1>2, <1>4, <1>5, <1>6, AskedKept, BookedKept, PassIds
<1>8. ASSUME NEW f, InPass(f), f.m = e.m, f.sock = e.sock, f.wire = e.wire, Asked(f), Booked(f),
             \A r \in f.net : r.k = "end" => r \in e.net
      PROVE  Leads(c, Enter(f, ph)) /\ ~Enter(f, ph).m.disposed
  <2> DEFINE d == Enter(f, ph)
  <2>1. InPass(d)
    BY <1>8, PhaseSet DEF InPass, Phases
  <2>2. /\ d.m.phase = ph /\ d.m.passes = f.m.passes /\ d.m.arms = f.m.arms
        /\ d.m.disposed = f.m.disposed /\ d.net = f.net /\ d.sock = f.sock /\ d.wire = f.wire
        /\ d.m.pass = f.m.pass /\ d.m.lastOutcome = f.m.lastOutcome
    BY <1>8 DEF Enter, InPass, Context, Machine
  <2> HIDE DEF d
  <2>3. Silent(d) /\ Asked(d)
    BY <1>2, <1>4, <1>6, <1>8, <2>2 DEF Silent, Asked
  <2>4. Staged(d.m)
    BY <1>2, <1>4, <1>6, <1>8, <2>1, <2>2, PassIds DEF Staged, Over
  <2>5. \A id : Posted(f.m, id) => Posted(d.m, id)
    BY <2>2 DEF Posted
  <2>6. ASSUME NEW r \in d.net, r.k = "end" PROVE EndAsked(d, r)
    <3>1. EndAsked(f, r)
      BY <1>8, <2>2, <2>6 DEF Booked
    <3>2. r.id = d.m.pass.id => r.outcome = d.m.lastOutcome
      BY <1>2, <1>4, <1>6, <1>8, <2>2, <2>6
    <3> QED
      BY <2>2, <2>5, <3>1, <3>2 DEF EndAsked
  <2>7. ASSUME NEW i \in 1..Len(d.wire), d.wire[i].k = "end" PROVE EndHeard(d, i)
    <3>1. EndHeard(f, i)
      BY <1>8, <2>2, <2>7 DEF Booked
    <3> QED
      BY <2>2, <2>5, <3>1 DEF EndHeard
  <2>8. Booked(d)
    BY <2>6, <2>7 DEF Booked
  <2>9. Good(d)
    BY <2>1, <2>2, <2>3, <2>4, <2>8, SilentSockets DEF Good, InPass, Live, Over
  <2>10. Moves(c.m, d.m)
    <3>1. Rank(d.m.phase) = 8 /\ Rank(c.m.phase) <= 8
      BY <2>2 DEF Rank, Over
    <3> QED
      BY <1>2, <1>4, <1>6, <1>8, <2>2, <3>1 DEF Moves
  <2>11. ~d.m.disposed
    BY <1>2, <1>4, <1>6, <1>8, <2>2
  <2> QED
    BY <2>9, <2>10, <2>11 DEF Leads, d
<1>9. Leads(c, Enter(e, ph)) /\ ~Enter(e, ph).m.disposed
  BY <1>5, <1>7, <1>8
<1>10. Leads(c, Enter(Ask(e, "recorded", 0), ph)) /\ ~Enter(Ask(e, "recorded", 0), ph).m.disposed
  <2> DEFINE f == Ask(e, "recorded", 0)
  <2>1. InPass(f) /\ f.m = e.m /\ f.sock = e.sock /\ f.wire = e.wire /\ Asked(f) /\ Booked(f)
    BY <1>5, <1>7, Asks DEF Kinds, Attempts
  <2>2. \A r \in f.net : r.k = "end" => r \in e.net
    BY <1>5 DEF Ask, Req, InPass, Context
  <2> HIDE DEF f
  <2> QED
    BY <1>8, <2>1, <2>2 DEF f
<1> QED
  BY <1>9, <1>10 DEF a, b, e

-----------------------------------------------------------------------------
(* The session of a pass *)

LEMMA Ranks == \A ph : Rank(ph) \in 1..8
BY DEF Rank

LEMMA Stutters == ASSUME NEW c, Good(c) PROVE Leads(c, c)
BY Ranks DEF Leads, Moves

\* What a step must show that opens, closes and ends nothing.
LEMMA Keeps ==
  ASSUME NEW c, NEW d, Good(c), InPass(c), InPass(d), Staged(d.m), Asked(d),
         d.sock = c.sock, d.wire = c.wire,
         \A r \in d.net : r.k \in {"end", "closed"} => r \in c.net,
         d.m.disposed = c.m.disposed, d.m.arms = c.m.arms, d.m.pass.id = c.m.pass.id,
         d.m.pass.endPosted = c.m.pass.endPosted, d.m.pass.va.attempt = c.m.pass.va.attempt,
         c.m.pass.va.status \in Connected => d.m.pass.va.status \in Connected,
         d.m.phase \in Over => c.m.phase \in Over /\ d.m.lastOutcome = c.m.lastOutcome,
         d.m.phase \in {"active", "paying"} => c.sock[Current(c)] = "ready",
         Rank(c.m.phase) <= Rank(d.m.phase)
  PROVE  Leads(c, d)
<1>1. d \in Context /\ c.m.pass # None /\ d.m.pass # None
  BY PassIds
<1>2. Sockets(d)
  BY <1>1, SocketsKept DEF Good
<1>3. Booked(d)
  BY <1>1, BookedKept DEF Good
<1>4. Live(d)
  BY DEF Live, Current
<1>5. Moves(c.m, d.m)
  BY DEF Moves
<1> QED
  BY <1>1, <1>2, <1>3, <1>4, <1>5 DEF Leads, Good

LEMMA AskLeads ==
  ASSUME NEW c, NEW d, Leads(c, d), InPass(d), NEW att \in Attempts,
         NEW k \in Kinds \ {"end", "closed", "connect"}
  PROVE  Leads(c, Ask(d, k, att)) /\ InPass(Ask(d, k, att)) /\ Ask(d, k, att).m = d.m
<1> DEFINE e == Ask(d, k, att)
<1>1. InPass(e) /\ e.m = d.m /\ e.sock = d.sock /\ e.wire = d.wire /\ Asked(e) /\ Booked(e)
  BY Asks DEF Leads, Good
<1> HIDE DEF e
<1>2. Sockets(e) /\ Live(e)
  BY <1>1 DEF Leads, Good, Sockets, Live, Current
<1>3. Good(e)
  BY <1>1, <1>2 DEF Leads, Good, InPass
<1> QED
  BY <1>1, <1>3 DEF Leads, e

LEMMA GoodUnderWay ==
  ASSUME NEW c, Good(c), c.m.phase \in VaPhases, ~c.m.disposed
  PROVE  UnderWay(c)
<1>1. InPass(c) /\ c.m.pass # None
  BY HasPass DEF Good, Staged, VaPhases, Before
<1> QED
  BY <1>1 DEF Good, Staged, UnderWay, VaPhases, Before, Over

LEMMA GiveUpLeads ==
  ASSUME NEW c, UnderWay(c)
  PROVE  Leads(c, GiveUp(c)) /\ ~GiveUp(c).m.disposed
<1> DEFINE a == Abort(c)
<1>1. InPass(a) /\ a.m = c.m /\ Silent(a) /\ Asked(a) /\ a.wire = c.wire /\ a.net = c.net
  BY Aborts DEF UnderWay
<1> HIDE DEF a
<1>2. Booked(a)
  BY <1>1, BookedKept, PassIds DEF UnderWay
<1>3. c.m.phase \notin Over
  BY DEF UnderWay, VaPhases, Before, Over
<1>4. ASSUME NEW ph \in Over
      PROVE  LET e == Concluded(PostEnd(VaIs(a, "dead"), "failed"), "failed") IN
             /\ Leads(a, Enter(e, ph)) /\ Leads(a, Enter(Ask(e, "recorded", 0), ph))
             /\ ~Enter(e, ph).m.disposed /\ ~Enter(Ask(e, "recorded", 0), ph).m.disposed
  BY <1>1, <1>2, <1>3, Finishes DEF UnderWay, Outcomes
<1>5. {"fallback", "failed"} \subseteq Over
  BY DEF Over
<1>6. Leads(a, GiveUp(c)) /\ ~GiveUp(c).m.disposed
  BY <1>4, <1>5 DEF GiveUp, a
<1> QED
  BY <1>1, <1>6 DEF Leads

LEMMA StartClosingLeads ==
  ASSUME NEW c, Good(c), ~c.m.disposed, c.m.phase \in {"greeting", "active", "paying"},
         NEW o \in Outcomes, NEW repBack \in BOOLEAN
  PROVE  Leads(c, StartClosing(c, o, repBack))
<1> DEFINE cl == [outcome |-> o, step |-> IF repBack THEN "rep_back" ELSE "ending"]
<1> DEFINE b == Enter(c, "closing")
<1> DEFINE d == [b EXCEPT !.m.pass.closing = cl]
<1>1. InPass(c) /\ c.m.pass # None /\ c.m.pass.closing = None /\ c.m.pass.arm = "ok" /\ ~c.m.pass.endPosted
  BY HasPass DEF Good, Staged, Over
<1>2. StartClosing(c, o, repBack) = IF repBack THEN Ask(d, "repback", 0) ELSE d
  BY <1>1 DEF StartClosing
<1>3. cl \in Closing
  BY DEF Closing
<1>4. InPass(b)
  BY <1>1, PhaseSet DEF Phases, InPass
<1>5. InPass(d)
  <2> HIDE DEF b, cl
  <2> QED
    BY <1>3, <1>4, ClosingSet
<1>6. /\ d.m.phase = "closing" /\ d.m.passes = c.m.passes /\ d.m.arms = c.m.arms
      /\ d.m.disposed = c.m.disposed /\ d.net = c.net /\ d.sock = c.sock /\ d.wire = c.wire
      /\ d.m.pass.id = c.m.pass.id /\ d.m.pass.arm = c.m.pass.arm /\ d.m.pass.va = c.m.pass.va
      /\ d.m.pass.endPosted = c.m.pass.endPosted /\ d.m.pass.closing = cl
  <2> HIDE DEF cl
  <2> QED
    BY <1>1 DEF Enter, InPass, Context, Machine, Pass
<1> HIDE DEF b, cl, d
<1>7. Staged(d.m)
  BY <1>1, <1>3, <1>5, <1>6, PassIds, MachineAssumption DEF Good, Staged, Over
<1>8. Asked(d)
  BY <1>6, AskedKept DEF Good
<1>9. Rank(c.m.phase) <= Rank(d.m.phase)
  BY <1>6 DEF Rank
<1>10. Leads(c, d)
  BY <1>1, <1>5, <1>6, <1>7, <1>8, <1>9, Keeps DEF Over
<1> QED
  BY <1>2, <1>5, <1>10, AskLeads DEF Kinds, Attempts

\* A socket that is open and held becomes the session's.
LEMMA SockMoves ==
  ASSUME NEW c, Good(c), InPass(c), NEW x \in Ids \X Attempts, x = Current(c), c.sock[x] \in {"open", "started"},
         c.m.pass.va.status \in Connected, NEW st \in {"started", "ready"},
         c.m.phase \notin {"active", "paying"}
  PROVE  LET d == [c EXCEPT !.sock[x] = st] IN Good(d) /\ InPass(d) /\ d.m = c.m /\ d.sock[x] = st
<1> DEFINE d == [c EXCEPT !.sock[x] = st]
<1>1. c \in Context /\ st \in SocketStates /\ c.sock \in [Ids \X Attempts -> SocketStates] /\ c.m.pass # None
  BY PassIds DEF InPass, Context, SocketStates
<1>2. d \in Context
  BY <1>1, SockSet
<1>3. d.m = c.m /\ d.net = c.net /\ d.wire = c.wire /\ d.sock = [c.sock EXCEPT ![x] = st]
  BY <1>1 DEF Context
<1> HIDE DEF d
<1>4. Sockets(d)
  BY <1>1, <1>3 DEF Good, Sockets, Current
<1>5. Asked(d)
  <2>1. ASSUME NEW r \in c.net, r.k = "connect"
        PROVE  d.sock[<<r.id, r.att>>] = c.sock[<<r.id, r.att>>]
    <3>1. <<r.id, r.att>> # x /\ r.id \in Ids
      BY <2>1 DEF Good, Asked
    <3>2. r.att \in Attempts
      BY <1>1 DEF Context, Request
    <3> QED
      BY <1>1, <1>3, <3>1, <3>2
  <2> QED
    BY <1>1, <1>3, <2>1 DEF Good, Asked
<1>6. Booked(d) /\ Live(d)
  BY <1>1, <1>3, BookedKept DEF Good, Live
<1> QED
  BY <1>1, <1>2, <1>3, <1>4, <1>5, <1>6 DEF Good, InPass, d

LEMMA MaybeStartLeads ==
  ASSUME NEW c, Good(c), ~c.m.disposed, NEW early \in BOOLEAN
  PROVE  Leads(c, MaybeStart(c, early)) /\ ~MaybeStart(c, early).m.disposed
<1> DEFINE Waits == \/ c.m.pass = None
                    \/ c.m.phase \notin {"connecting", "retrying"}
                    \/ c.m.pass.compile # "done" \/ c.m.pass.va.status # "open" \/ ~c.m.pass.lineKnown
<1>1. CASE Waits
  BY <1>1, Stutters DEF MaybeStart
<1>2. CASE ~Waits
  <2>1. InPass(c) /\ UnderWay(c) /\ c.m.pass.va.status = "open" /\ c.m.phase \in {"connecting", "retrying"}
    BY <1>2, HasPass, GoodUnderWay DEF Good, VaPhases, Before
  <2>2. CASE early
    <3> DEFINE d == [c EXCEPT !.m.pass.va.held = TRUE]
    <3>1. MaybeStart(c, early) = d
      BY <1>2, <2>2 DEF MaybeStart
    <3>2. InPass(d)
      BY <2>1, HeldSet
    <3>3. /\ d.m.phase = c.m.phase /\ d.m.passes = c.m.passes /\ d.m.arms = c.m.arms
          /\ d.m.disposed = c.m.disposed /\ d.net = c.net /\ d.sock = c.sock /\ d.wire = c.wire
          /\ d.m.pass.id = c.m.pass.id /\ d.m.pass.arm = c.m.pass.arm
          /\ d.m.pass.va.status = c.m.pass.va.status /\ d.m.pass.va.attempt = c.m.pass.va.attempt
          /\ d.m.pass.endPosted = c.m.pass.endPosted /\ d.m.pass.closing = c.m.pass.closing
          /\ d.m.lastOutcome = c.m.lastOutcome
      BY <2>1 DEF InPass, Context, Machine, Pass, VaState
    <3> HIDE DEF d
    <3>4. Staged(d.m) /\ Asked(d)
      BY <2>1, <3>2, <3>3, PassIds, AskedKept DEF Good, Staged
    <3>5. Leads(c, d) /\ ~d.m.disposed
      BY <2>1, <3>2, <3>3, <3>4, Keeps, Ranks
    <3> QED
      BY <3>1, <3>5
  <2>3. CASE ~early
    <3> DEFINE x == Current(c)
    <3> DEFINE a == [c EXCEPT !.m.pass.va.held = FALSE]
    <3> DEFINE b == VaIs(a, "starting")
    <3> DEFINE d == Enter(b, "greeting")
    <3>1. MaybeStart(c, early) = IF c.sock[x] = "open" THEN [d EXCEPT !.sock[x] = "started"] ELSE Ask(d, "start", x[2])
      BY <1>2, <2>3 DEF MaybeStart
    <3>2. InPass(d)
      <4>1. InPass(a)
        BY <2>1, HeldSet
      <4> HIDE DEF a
      <4>2. InPass(b)
        BY <4>1, StatusSet DEF VaStatuses, Connected
      <4> HIDE DEF b
      <4> QED
        BY <4>2, PhaseSet DEF InPass, Phases, VaPhases
    <3>3. /\ d.m.phase = "greeting" /\ d.m.passes = c.m.passes /\ d.m.arms = c.m.arms
          /\ d.m.disposed = c.m.disposed /\ d.net = c.net /\ d.sock = c.sock /\ d.wire = c.wire
          /\ d.m.pass.id = c.m.pass.id /\ d.m.pass.arm = c.m.pass.arm
          /\ d.m.pass.va.status = "starting" /\ d.m.pass.va.attempt = c.m.pass.va.attempt
          /\ d.m.pass.endPosted = c.m.pass.endPosted /\ d.m.pass.closing = c.m.pass.closing
          /\ d.m.lastOutcome = c.m.lastOutcome
      BY <2>1 DEF Enter, VaIs, InPass, Context, Machine, Pass, VaState
    <3> HIDE DEF d
    <3>4. Staged(d.m) /\ Asked(d)
      BY <2>1, <3>2, <3>3, PassIds, AskedKept DEF Good, Staged, Over, UnderWay
    <3>5. Rank(c.m.phase) <= Rank(d.m.phase) /\ "starting" \in Connected
      BY <2>1, <3>3 DEF Rank, Connected
    <3>6. Leads(c, d) /\ ~d.m.disposed
      BY <2>1, <3>2, <3>3, <3>4, <3>5, Keeps DEF Over
    <3>7. CASE c.sock[x] = "open"
      <4>1. x \in Ids \X Attempts /\ Current(d) = x
        BY <2>1, <3>3, PassIds DEF Current
      <4> DEFINE e == [d EXCEPT !.sock[x] = "started"]
      <4>2. Good(e) /\ e.m = d.m
        <5>1. /\ Good(d) /\ d.sock[x] \in {"open", "started"} /\ x = Current(d)
              /\ d.m.pass.va.status \in Connected /\ d.m.phase \notin {"active", "paying"}
          BY <3>3, <3>5, <3>6, <3>7, <4>1 DEF Leads
        <5> HIDE DEF x
        <5> QED
          BY <3>2, <4>1, <5>1, SockMoves
      <4> QED
        BY <3>1, <3>6, <3>7, <4>2 DEF Leads
    <3>8. CASE c.sock[x] # "open"
      <4>1. x[2] \in Attempts
        BY <2>1, PassIds DEF Current
      <4> QED
        BY <3>1, <3>2, <3>6, <3>8, <4>1, AskLeads DEF Kinds
    <3> QED
      BY <3>7, <3>8
  <2> QED
    BY <2>2, <2>3
<1> QED
  BY <1>1, <1>2

\* The second attempt starts without a socket.
LEMMA RetryLeads ==
  ASSUME NEW c, UnderWay(c), c.m.pass.arm = "ok"
  PROVE  Leads(c, Retry(c))
<1> DEFINE va == [attempt |-> 1, status |-> "minting", held |-> FALSE]
<1> DEFINE a == Abort(c)
<1> DEFINE b == Ask(a, "failure", 0)
<1> DEFINE d == Ask(b, "mint", 1)
<1> DEFINE e == [d EXCEPT !.m.pass.va = va]
<1>1. InPass(a) /\ a.m = c.m /\ Silent(a) /\ Asked(a) /\ a.wire = c.wire /\ a.net = c.net /\ Booked(a)
  <2>1. InPass(a) /\ a.m = c.m /\ Silent(a) /\ Asked(a) /\ a.wire = c.wire /\ a.net = c.net
    BY Aborts DEF UnderWay
  <2> HIDE DEF a
  <2> QED
    BY <2>1, BookedKept, PassIds DEF UnderWay
<1>2. Retry(c) = IF c.m.phase \in {"connecting", "greeting"} THEN Enter(e, "retrying") ELSE e
  BY DEF Retry
<1> HIDE DEF a
<1>3. InPass(b) /\ b.m = a.m /\ b.sock = a.sock /\ b.wire = a.wire /\ Asked(b) /\ Booked(b)
  BY <1>1, Asks DEF Kinds, Attempts
<1> HIDE DEF b
<1>4. InPass(d) /\ d.m = a.m /\ d.sock = a.sock /\ d.wire = a.wire /\ Asked(d) /\ Booked(d)
  BY <1>3, Asks DEF Kinds, Attempts
<1> HIDE DEF d
<1>5. va \in VaState
  BY DEF VaState, VaStatuses, Attempts
<1>6. InPass(e)
  <2> HIDE DEF va
  <2> QED
    BY <1>4, <1>5, VaSet
<1>7. /\ e.m.phase = c.m.phase /\ e.m.passes = c.m.passes /\ e.m.arms = c.m.arms
      /\ e.m.disposed = c.m.disposed /\ e.net = d.net /\ e.sock = d.sock /\ e.wire = d.wire
      /\ e.m.pass.id = c.m.pass.id /\ e.m.pass.arm = c.m.pass.arm
      /\ e.m.pass.va = va
      /\ e.m.pass.endPosted = c.m.pass.endPosted /\ e.m.pass.closing = c.m.pass.closing
  <2> HIDE DEF va
  <2> QED
    BY <1>1, <1>4 DEF InPass, Context, Machine, Pass
<1>8. va.status = "minting"
  OBVIOUS
<1> HIDE DEF e, va
<1>9. ASSUME NEW f, InPass(f), f.net = e.net, f.sock = e.sock, f.wire = e.wire, f.m.pass = e.m.pass,
             f.m.passes = e.m.passes, f.m.arms = e.m.arms, f.m.disposed = e.m.disposed,
             \/ f.m.phase = "retrying" /\ c.m.phase \in {"connecting", "greeting"}
             \/ f.m.phase = c.m.phase /\ c.m.phase \notin {"connecting", "greeting"}
      PROVE  Leads(c, f)
  <2>1. f.m.phase \in VaPhases /\ f.m.phase # "greeting"
    BY <1>9 DEF UnderWay, VaPhases, Before
  <2>2. Staged(f.m)
    BY <1>7, <1>8, <1>9, <2>1, PassIds DEF Staged, UnderWay, VaPhases, Before, Over
  <2>3. Asked(f) /\ Sockets(f)
    BY <1>1, <1>4, <1>7, <1>9, AskedKept, SilentSockets DEF Silent
  <2>4. Booked(f)
    BY <1>1, <1>4, <1>7, <1>9, <2>1, BookedKept, PassIds DEF VaPhases, Before, Over
  <2>5. Rank(c.m.phase) <= Rank(f.m.phase)
    BY <1>9, Ranks DEF Rank
  <2>6. Live(f)
    BY <2>1 DEF Live, VaPhases, Before
  <2>7. Moves(c.m, f.m)
    BY <1>7, <1>9, <2>1, <2>5 DEF Moves, UnderWay, VaPhases, Before, Over
  <2> QED
    BY <1>9, <2>2, <2>3, <2>4, <2>6, <2>7 DEF Leads, Good, InPass
<1>10. CASE c.m.phase \in {"connecting", "greeting"}
  <2> DEFINE f == Enter(e, "retrying")
  <2>1. InPass(f)
    BY <1>6, PhaseSet DEF InPass, Phases, VaPhases, Before
  <2>2. /\ f.net = e.net /\ f.sock = e.sock /\ f.wire = e.wire /\ f.m.pass = e.m.pass
        /\ f.m.passes = e.m.passes /\ f.m.arms = e.m.arms /\ f.m.disposed = e.m.disposed
        /\ f.m.phase = "retrying"
    BY <1>6 DEF Enter, InPass, Context, Machine
  <2> HIDE DEF f
  <2>3. Leads(c, f)
    BY <1>9, <1>10, <2>1, <2>2
  <2> QED
    BY <1>2, <1>10, <2>3 DEF f
<1>11. CASE c.m.phase \notin {"connecting", "greeting"}
  BY <1>2, <1>6, <1>7, <1>9, <1>11
<1> QED
  BY <1>10, <1>11

LEMMA VaFailureLeads ==
  ASSUME NEW c, Good(c), ~c.m.disposed, NEW att \in Attempts, NEW retryable \in BOOLEAN
  PROVE  Leads(c, VaFailure(c, att, retryable))
<1> DEFINE p == c.m.pass
<1> DEFINE d == VaIs(Abort(c), "dead")
<1>1. CASE \/ p = None
           \/ p.va.attempt # att \/ p.va.status \in {"dead", "ended", "idle"}
           \/ c.m.phase \notin {"active", "paying"} /\ ~VaPhase(c)
  BY <1>1, Stutters DEF VaFailure
<1>2. CASE p # None /\ p.va.attempt = att /\ p.va.status \notin {"dead", "ended", "idle"}
           /\ c.m.phase \in {"active", "paying"}
  <2>1. VaFailure(c, att, retryable) = StartClosing(c, "failed", FALSE)
    BY <1>2 DEF VaFailure
  <2> QED
    BY <1>2, <2>1, StartClosingLeads DEF Outcomes
<1>3. CASE p # None /\ p.va.attempt = att /\ p.va.status \notin {"dead", "ended", "idle"}
           /\ c.m.phase \notin {"active", "paying"} /\ VaPhase(c)
  <2>1. UnderWay(c) /\ InPass(c)
    BY <1>3, GoodUnderWay DEF VaPhase, UnderWay
  <2>2. CASE att = 0 /\ retryable /\ p.arm = "ok"
    <3>1. VaFailure(c, att, retryable) = Retry(c)
      BY <1>3, <2>2 DEF VaFailure
    <3> QED
      BY <2>1, <2>2, <3>1, RetryLeads
  <2>3. CASE ~(att = 0 /\ retryable /\ p.arm = "ok")
    <3> DEFINE a == Abort(c)
    <3>1. VaFailure(c, att, retryable) =
            IF c.m.phase \in {"connecting", "retrying", "greeting"} THEN GiveUp(d) ELSE d
      BY <1>3, <2>3 DEF VaFailure
    <3>2. InPass(a) /\ a.m = c.m /\ Silent(a) /\ Asked(a) /\ a.wire = c.wire /\ a.net = c.net
      BY <2>1, Aborts DEF UnderWay
    <3> HIDE DEF a
    <3>3. d = VaIs(a, "dead")
      BY DEF a
    <3> HIDE DEF d
    <3>4. InPass(d)
      BY <3>2, <3>3, StatusSet DEF VaStatuses
    <3>5. /\ d.m.phase = c.m.phase /\ d.m.passes = c.m.passes /\ d.m.arms = c.m.arms
          /\ d.m.disposed = c.m.disposed /\ d.net = c.net /\ d.sock = a.sock /\ d.wire = c.wire
          /\ d.m.pass.id = c.m.pass.id /\ d.m.pass.arm = c.m.pass.arm
          /\ d.m.pass.va.status = "dead" /\ d.m.pass.va.attempt = c.m.pass.va.attempt
          /\ d.m.pass.endPosted = c.m.pass.endPosted /\ d.m.pass.closing = c.m.pass.closing
          /\ d.m.lastOutcome = c.m.lastOutcome
      BY <3>2, <3>3 DEF VaIs, InPass, Context, Machine, Pass, VaState
    <3>6. Sockets(d) /\ Asked(d)
      BY <3>2, <3>5, AskedKept, SilentSockets DEF Silent
    <3>7. Booked(d)
      BY <2>1, <3>4, <3>5, BookedKept, PassIds DEF UnderWay
    <3>8. UnderWay(d)
      BY <2>1, <3>4, <3>5, <3>6, <3>7 DEF UnderWay
    <3>9. CASE c.m.phase \in {"connecting", "retrying", "greeting"}
      <4>1. Leads(d, GiveUp(d))
        BY <3>8, GiveUpLeads
      <4>2. Moves(c.m, GiveUp(d).m)
        BY <2>1, <3>4, <3>5, <4>1, PassIds DEF Leads, Moves, UnderWay
      <4> QED
        BY <3>1, <3>9, <4>1, <4>2 DEF Leads
    <3>10. CASE c.m.phase \notin {"connecting", "retrying", "greeting"}
      <4>1. Staged(d.m)
        BY <2>1, <3>4, <3>5, <3>10, PassIds DEF Staged, UnderWay, VaPhases, Before, Over
      <4>2. Live(d)
        BY <2>1, <3>5 DEF Live, UnderWay, VaPhases, Before
      <4>3. Moves(c.m, d.m)
        BY <2>1, <3>5, Ranks DEF Moves, UnderWay
      <4> QED
        BY <3>1, <3>4, <3>6, <3>7, <3>10, <4>1, <4>2, <4>3 DEF Leads, Good, InPass
    <3> QED
      BY <3>9, <3>10
  <2> QED
    BY <2>2, <2>3
<1> QED
  BY <1>1, <1>2, <1>3

\* Minted: the only socket of the machine is asked for.
LEMMA VaTokenLeads ==
  ASSUME NEW c, Good(c), ~c.m.disposed, NEW att \in Attempts
  PROVE  Leads(c, VaToken(c, att))
<1> DEFINE p == c.m.pass
<1> DEFINE Old == p = None \/ p.va.attempt # att \/ p.va.status # "minting" \/ p.closing # None
<1>1. CASE Old
  BY <1>1, Stutters DEF VaToken
<1>2. CASE ~Old
  <2> DEFINE x == Current(c)
  <2> DEFINE a == [c EXCEPT !.sock[x] = "connecting"]
  <2> DEFINE b == VaIs(a, "opening")
  <2>1. VaToken(c, att) = Ask(b, "connect", att)
    BY <1>2 DEF VaToken
  <2>2. InPass(c) /\ x \in Ids \X Attempts /\ x = <<p.id, att>> /\ c \in Context
    BY <1>2, HasPass, PassIds DEF Good, Current
  <2>3. InPass(a) /\ a.m = c.m /\ a.net = c.net /\ a.wire = c.wire
        /\ a.sock = [c.sock EXCEPT ![x] = "connecting"]
    <3> HIDE DEF x
    <3>1. a \in Context
      BY <2>2, SockSet DEF SocketStates
    <3>2. a.m = c.m /\ a.net = c.net /\ a.wire = c.wire
          /\ a.sock = [c.sock EXCEPT ![x] = "connecting"]
      BY <2>2 DEF Context
    <3> QED
      BY <2>2, <3>1, <3>2 DEF InPass
  <2> HIDE DEF a
  <2>4. InPass(b)
    BY <2>3, StatusSet DEF VaStatuses, Connected
  <2>5. /\ b.m.phase = c.m.phase /\ b.m.passes = c.m.passes /\ b.m.arms = c.m.arms
        /\ b.m.disposed = c.m.disposed /\ b.net = c.net /\ b.sock = a.sock /\ b.wire = c.wire
        /\ b.m.pass.id = c.m.pass.id /\ b.m.pass.arm = c.m.pass.arm
        /\ b.m.pass.va.status = "opening" /\ b.m.pass.va.attempt = c.m.pass.va.attempt
        /\ b.m.pass.endPosted = c.m.pass.endPosted /\ b.m.pass.closing = c.m.pass.closing
        /\ b.m.lastOutcome = c.m.lastOutcome
    BY <2>3 DEF VaIs, InPass, Context, Machine, Pass, VaState
  <2> HIDE DEF b
  <2>6. Silent(c)
    BY <1>2 DEF Good, Sockets, Silent, Connected
  <2>7. c.sock \in [Ids \X Attempts -> SocketStates]
    BY <2>2 DEF Context
  <2>8. Sockets(b)
    <3>1. Current(b) = x
      BY <2>5 DEF Current
    <3> HIDE DEF x
    <3> QED
      BY <2>2, <2>3, <2>4, <2>5, <2>6, <2>7, <3>1, PassIds DEF Sockets, Silent, Connected
  <2>9. Asked(b)
    <3>1. \A y : c.sock[y] \notin {"open", "started", "ready"} => b.sock[y] \notin {"open", "started", "ready"}
      BY <2>2, <2>3, <2>5, <2>7
    <3> QED
      BY <2>5, <3>1 DEF Good, Asked
  <2>10. Booked(b)
    BY <2>2, <2>4, <2>5, BookedKept, PassIds DEF Good
  <2>11. Staged(b.m)
    BY <1>2, <2>2, <2>4, <2>5, PassIds DEF Good, Staged, Over
  <2>12. b.m.phase \notin {"active", "paying"}
    BY <1>2, <2>5 DEF Good, Staged
  <2> DEFINE d == Ask(b, "connect", att)
  <2>13. InPass(d) /\ d.m = b.m /\ d.sock = b.sock /\ Asked(d) /\ Booked(d)
    <3>1. b.sock[<<b.m.pass.id, att>>] \notin {"open", "started", "ready"}
      BY <2>2, <2>3, <2>5, <2>7
    <3> QED
      BY <2>4, <2>9, <2>10, <3>1, Asks DEF Kinds
  <2> HIDE DEF d
  <2>14. Sockets(d) /\ Live(d)
    BY <2>8, <2>12, <2>13 DEF Sockets, Live, Current
  <2>15. Moves(c.m, d.m)
    BY <2>5, <2>13, Ranks DEF Moves
  <2>16. Leads(c, d)
    BY <2>11, <2>13, <2>14, <2>15 DEF Leads, Good, InPass
  <2> QED
    BY <2>1, <2>16 DEF d
<1> QED
  BY <1>1, <1>2

\* What the session's status alone may become.
LEMMA StatusLeads ==
  ASSUME NEW c, Good(c), InPass(c), NEW st \in VaStatuses, st # "audible",
         c.m.pass.va.status # "audible",
         c.m.pass.va.status \in Connected => st \in Connected,
         c.m.pass.arm # "ok" => st \in {"idle", "dead"},
         c.m.phase = "greeting" => st \in {"starting", "ready"},
         c.m.phase \in Over => st \in {"dead", "ended"}
  PROVE  Leads(c, VaIs(c, st)) /\ InPass(VaIs(c, st)) /\ VaIs(c, st).m.phase = c.m.phase
         /\ VaIs(c, st).m.disposed = c.m.disposed
<1> DEFINE d == VaIs(c, st)
<1>1. InPass(d)
  BY StatusSet
<1>2. /\ d.m.phase = c.m.phase /\ d.m.passes = c.m.passes /\ d.m.arms = c.m.arms
      /\ d.m.disposed = c.m.disposed /\ d.net = c.net /\ d.sock = c.sock /\ d.wire = c.wire
      /\ d.m.pass.id = c.m.pass.id /\ d.m.pass.arm = c.m.pass.arm
      /\ d.m.pass.va.status = st /\ d.m.pass.va.attempt = c.m.pass.va.attempt
      /\ d.m.pass.endPosted = c.m.pass.endPosted /\ d.m.pass.closing = c.m.pass.closing
      /\ d.m.lastOutcome = c.m.lastOutcome
  BY DEF VaIs, InPass, Context, Machine, Pass, VaState
<1> HIDE DEF d
<1>3. Staged(d.m)
  BY <1>1, <1>2, PassIds DEF Good, Staged
<1>4. d.m.phase \notin {"active", "paying"}
  BY <1>2, PassIds DEF Good, Staged
<1>5. Leads(c, d)
  BY <1>1, <1>2, <1>3, <1>4, AskedKept, Keeps, Ranks DEF Good
<1> QED
  BY <1>1, <1>2, <1>5 DEF d

LEMMA VaOpenLeads ==
  ASSUME NEW c, Good(c), ~c.m.disposed, NEW att \in Attempts, NEW early \in BOOLEAN
  PROVE  Leads(c, VaOpen(c, att, early))
<1> DEFINE p == c.m.pass
<1> DEFINE Old == p = None \/ p.va.attempt # att \/ p.va.status # "opening" \/ p.closing # None
<1>1. CASE Old
  BY <1>1, Stutters DEF VaOpen
<1>2. CASE ~Old
  <2> DEFINE d == VaIs(c, "open")
  <2>1. VaOpen(c, att, early) = MaybeStart(d, early)
    BY <1>2 DEF VaOpen
  <2>2. InPass(c) /\ c.m.phase \notin Over /\ c.m.pass.arm = "ok" /\ c.m.phase # "greeting"
    BY <1>2, HasPass DEF Good, Staged
  <2>3. Leads(c, d) /\ InPass(d) /\ d.m.phase = c.m.phase /\ ~d.m.disposed
    BY <1>2, <2>2, StatusLeads DEF VaStatuses, Connected
  <2>4. d.m.pass.id = p.id /\ d.m.pass.va.status = "open" /\ d.m.pass.arm = p.arm
    BY <2>2 DEF VaIs, InPass, Context, Machine, Pass, VaState
  <2> HIDE DEF d
  <2>5. Leads(d, MaybeStart(d, early))
    BY <2>3, MaybeStartLeads DEF Leads
  <2>6. Moves(c.m, MaybeStart(d, early).m)
    BY <1>2, <2>2, <2>3, <2>4, <2>5, PassIds DEF Leads, Moves
  <2> QED
    BY <2>1, <2>5, <2>6 DEF Leads
<1> QED
  BY <1>1, <1>2

LEMMA VaReadyLeads ==
  ASSUME NEW c, Good(c), ~c.m.disposed, NEW att \in Attempts
  PROVE  Leads(c, VaReady(c, att))
<1> DEFINE p == c.m.pass
<1> DEFINE Old == p = None \/ p.va.attempt # att \/ p.va.status # "starting"
<1>1. CASE Old
  BY <1>1, Stutters DEF VaReady
<1>2. CASE ~Old
  <2>1. VaReady(c, att) = VaIs(c, "ready")
    BY <1>2 DEF VaReady
  <2>2. InPass(c) /\ c.m.phase \notin Over /\ c.m.pass.arm = "ok"
    BY <1>2, HasPass DEF Good, Staged
  <2> QED
    BY <1>2, <2>1, <2>2, StatusLeads DEF VaStatuses, Connected
<1> QED
  BY <1>1, <1>2

\* The greeting is heard on the socket of the current attempt.
LEMMA VaAudibleLeads ==
  ASSUME NEW c, Good(c), ~c.m.disposed, NEW x \in Ids \X Attempts, c.sock[x] = "ready"
  PROVE  Leads(c, VaAudible(c, x[2]))
<1> DEFINE p == c.m.pass
<1> DEFINE Old == p = None \/ p.va.attempt # x[2] \/ p.va.status # "ready" \/ c.m.phase # "greeting"
<1>1. CASE Old
  BY <1>1, Stutters DEF VaAudible
<1>2. CASE ~Old
  <2> DEFINE b == VaIs(c, "audible")
  <2> DEFINE d == Enter(b, "active")
  <2>1. VaAudible(c, x[2]) = d
    BY <1>2 DEF VaAudible
  <2>2. InPass(c) /\ x = Current(c)
    BY <1>2, HasPass DEF Good, Sockets, InUse
  <2>3. InPass(d)
    <3>1. InPass(b)
      BY <2>2, StatusSet DEF VaStatuses, Connected
    <3> HIDE DEF b
    <3> QED
      BY <3>1, PhaseSet DEF InPass, Phases
  <2>4. /\ d.m.phase = "active" /\ d.m.passes = c.m.passes /\ d.m.arms = c.m.arms
        /\ d.m.disposed = c.m.disposed /\ d.net = c.net /\ d.sock = c.sock /\ d.wire = c.wire
        /\ d.m.pass.id = c.m.pass.id /\ d.m.pass.arm = c.m.pass.arm
        /\ d.m.pass.va.status = "audible" /\ d.m.pass.va.attempt = c.m.pass.va.attempt
        /\ d.m.pass.endPosted = c.m.pass.endPosted /\ d.m.pass.closing = c.m.pass.closing
        /\ d.m.lastOutcome = c.m.lastOutcome
    BY <2>2 DEF Enter, VaIs, InPass, Context, Machine, Pass, VaState
  <2> HIDE DEF d
  <2>5. Staged(d.m)
    BY <1>2, <2>3, <2>4, PassIds DEF Good, Staged, Over
  <2>6. Rank(c.m.phase) <= Rank(d.m.phase) /\ "audible" \in Connected
    BY <1>2, <2>4 DEF Rank, Connected
  <2>7. Leads(c, d)
    BY <2>2, <2>3, <2>4, <2>5, <2>6, AskedKept, Keeps DEF Good, Over
  <2> QED
    BY <2>1, <2>7
<1> QED
  BY <1>1, <1>2

\* A pass that is closing and whose socket is gone.
Closable(c) ==
  /\ InPass(c) /\ Silent(c) /\ Asked(c) /\ Booked(c) /\ ~c.m.disposed
  /\ c.m.phase \notin Over /\ c.m.pass.closing # None /\ c.m.pass.arm = "ok"
  /\ ~c.m.pass.endPosted /\ c.m.pass.id <= c.m.arms /\ c.m.passes >= 1

LEMMA FinishPassLeads ==
  ASSUME NEW c, Closable(c)
  PROVE  Leads(c, FinishPass(c)) /\ ~FinishPass(c).m.disposed
<1> DEFINE o == c.m.pass.closing.outcome
<1> DEFINE wasOpen == c.m.pass.va.status \notin {"idle", "minting", "dead"}
<1> DEFINE d == IF wasOpen THEN Ask(c, "closed", 0) ELSE c
<1> DEFINE e == PostEnd(VaIs(d, "ended"), o)
<1> DEFINE ph == IF o = "failed" THEN "failed" ELSE "done"
<1>1. o \in Outcomes /\ ph \in Over
  BY PassIds DEF Closable, Closing, Over
<1>2. FinishPass(c) = Enter(Concluded(e, o), ph)
  BY DEF FinishPass
<1>3. InPass(d) /\ d.m = c.m /\ d.sock = c.sock /\ d.wire = c.wire /\ Asked(d) /\ Booked(d)
  <2>1. CASE ~wasOpen
    BY <2>1 DEF Closable
  <2>2. CASE wasOpen
    <3> DEFINE q == Req("closed", c.m.pass.id, 0)
    <3>1. q \in Request /\ q.k = "closed" /\ q.id = c.m.pass.id /\ q.att = 0 /\ q.id \in Ids
      BY PassIds, Requests DEF Closable, Kinds, Attempts
    <3>2. q = Req(q.k, q.id, q.att)
      BY <3>1
    <3>3. d = [c EXCEPT !.net = c.net \cup {q}]
      BY <2>2 DEF Ask
    <3> HIDE DEF q, d
    <3>4. c.net \cup {q} \in SUBSET Request /\ c \in Context
      BY <3>1 DEF Closable, InPass, Context
    <3>5. d \in Context /\ d.m = c.m /\ d.sock = c.sock /\ d.wire = c.wire /\ d.net = c.net \cup {q}
      <4>1. d \in Context
        BY <3>3, <3>4, NetSet
      <4> QED
        BY <3>3, <3>4, <4>1 DEF Context
    <3>6. Asked(d)
      BY <3>1, <3>2, <3>5 DEF Closable, Asked
    <3>7. ASSUME NEW r \in d.net, r.k = "end" PROVE EndAsked(d, r)
      BY <3>1, <3>5, <3>7 DEF Closable, Booked, EndAsked
    <3>8. ASSUME NEW i \in 1..Len(d.wire), d.wire[i].k = "end" PROVE EndHeard(d, i)
      <4>1. EndHeard(c, i) /\ c.wire[i].id # c.m.pass.id
        BY <3>5, <3>8, NoEndYet DEF Closable, Booked
      <4> QED
        BY <3>1, <3>5, <4>1 DEF EndHeard
    <3> QED
      BY <3>5, <3>6, <3>7, <3>8 DEF InPass, Closable, Booked
  <2> QED
    BY <2>1, <2>2
<1> HIDE DEF d, o, ph
<1>4. /\ Leads(d, Enter(Concluded(PostEnd(VaIs(d, "ended"), o), o), ph))
      /\ ~Enter(Concluded(PostEnd(VaIs(d, "ended"), o), o), ph).m.disposed
  <2>1. Silent(d)
    BY <1>3 DEF Closable, Silent
  <2> QED
    BY <1>1, <1>3, <2>1, Finishes DEF Closable
<1> QED
  BY <1>2, <1>3, <1>4 DEF Leads

\* A session that ends by itself, whatever the page is doing.
LEMMA VaEndedLeads ==
  ASSUME NEW c, Good(c), ~c.m.disposed, NEW x \in Ids \X Attempts, c.sock[x] \in {"started", "ready"},
         NEW why \in {"cap", "left", "closed"}
  PROVE  Leads(c, VaEnded([c EXCEPT !.sock[x] = "gone"], x[2], why))
<1> DEFINE a == [c EXCEPT !.sock[x] = "gone"]
<1> DEFINE p == c.m.pass
<1>1. InPass(c) /\ x = Current(c) /\ p.va.status \in Connected /\ p # None
  BY HasPass DEF Good, Sockets, InUse
<1>2. x[2] = p.va.attempt /\ x[2] \in Attempts /\ p.va.status \notin {"ended", "dead"}
  BY <1>1 DEF Current, Connected
<1>3. c \in Context /\ c.sock \in [Ids \X Attempts -> SocketStates]
  BY <1>1 DEF InPass, Context
<1>4. InPass(a) /\ a.m = c.m /\ a.net = c.net /\ a.wire = c.wire /\ a.sock = [c.sock EXCEPT ![x] = "gone"]
  <2>1. a \in Context
    BY <1>3, SockSet DEF SocketStates
  <2>2. a.m = c.m /\ a.net = c.net /\ a.wire = c.wire /\ a.sock = [c.sock EXCEPT ![x] = "gone"]
    BY <1>3 DEF Context
  <2> QED
    BY <1>1, <2>1, <2>2 DEF InPass
<1> HIDE DEF a
<1>5. Silent(a)
  BY <1>1, <1>3, <1>4 DEF Good, Sockets, Silent, InUse
<1>6. Asked(a)
  <2>1. \A y : c.sock[y] \notin {"open", "started", "ready"} => a.sock[y] \notin {"open", "started", "ready"}
    BY <1>3, <1>4
  <2> QED
    BY <1>4, <2>1 DEF Good, Asked
<1>7. Booked(a)
  BY <1>1, <1>4, BookedKept DEF Good
<1>8. /\ p.id <= c.m.arms /\ c.m.passes >= 1 /\ p.arm = "ok" /\ c.m.phase \notin Over /\ ~p.endPosted
      /\ c.m.phase = "closing" => p.closing # None
      /\ c.m.phase # "idle"
  BY <1>1, <1>2, HasPass DEF Good, Staged, Connected
<1>9. CASE c.m.phase = "closing"
  <2>1. VaEnded(a, x[2], why) = FinishPass(a)
    BY <1>1, <1>2, <1>4, <1>9 DEF VaEnded
  <2>2. Closable(a)
    BY <1>4, <1>5, <1>6, <1>7, <1>8, <1>9 DEF Closable
  <2> QED
    BY <1>4, <2>1, <2>2, FinishPassLeads DEF Leads, a
<1>10. CASE c.m.phase \in {"active", "paying"}
  <2> DEFINE cl == [outcome |-> OutcomeOf(why), step |-> "ending"]
  <2> DEFINE b == [a EXCEPT !.m.pass.closing = cl]
  <2>1. VaEnded(a, x[2], why) = FinishPass(b)
    BY <1>1, <1>2, <1>4, <1>10 DEF VaEnded
  <2>2. cl \in Closing
    BY DEF Closing, OutcomeOf, Outcomes
  <2> HIDE DEF cl
  <2>3. InPass(b)
    BY <1>4, <2>2, ClosingSet
  <2>4. /\ b.m.phase = a.m.phase /\ b.m.passes = a.m.passes /\ b.m.arms = a.m.arms
        /\ b.m.disposed = a.m.disposed /\ b.net = a.net /\ b.sock = a.sock /\ b.wire = a.wire
        /\ b.m.pass.id = a.m.pass.id /\ b.m.pass.arm = a.m.pass.arm /\ b.m.pass.va = a.m.pass.va
        /\ b.m.pass.endPosted = a.m.pass.endPosted /\ b.m.pass.closing = cl
    BY <1>4 DEF InPass, Context, Machine, Pass
  <2> HIDE DEF b
  <2>5. Silent(b) /\ Asked(b) /\ Booked(b)
    BY <1>4, <1>5, <1>6, <1>7, <1>8, <2>3, <2>4, AskedKept, BookedKept, PassIds DEF Silent
  <2>6. Closable(b)
    BY <1>4, <1>8, <2>2, <2>3, <2>4, <2>5, MachineAssumption DEF Closable
  <2>7. Leads(b, FinishPass(b))
    BY <2>6, FinishPassLeads
  <2>8. Moves(c.m, FinishPass(b).m)
    BY <1>1, <1>4, <2>3, <2>4, <2>7, PassIds DEF Leads, Moves
  <2> QED
    BY <2>1, <2>7, <2>8 DEF Leads, a
<1>11. CASE c.m.phase \notin {"closing", "active", "paying"}
  <2>1. VaEnded(a, x[2], why) = VaFailure(a, x[2], TRUE)
    BY <1>1, <1>2, <1>4, <1>11 DEF VaEnded
  <2>2. Good(a)
    BY <1>4, <1>5, <1>6, <1>7, <1>11, SilentSockets DEF Good, InPass, Live
  <2>3. Leads(a, VaFailure(a, x[2], TRUE))
    BY <1>2, <1>4, <2>2, VaFailureLeads
  <2> QED
    BY <1>4, <2>1, <2>3 DEF Leads, a
<1> QED
  BY <1>9, <1>10, <1>11

LEMMA RepBackDoneLeads ==
  ASSUME NEW c, Good(c)
  PROVE  Leads(c, RepBackDone(c)) /\ RepBackDone(c).m.disposed = c.m.disposed
<1> DEFINE p == c.m.pass
<1>1. CASE p = None \/ p.closing = None
  BY <1>1, Stutters DEF RepBackDone
<1>2. CASE p # None /\ p.closing # None /\ p.closing.step # "rep_back"
  BY <1>2, Stutters DEF RepBackDone
<1>3. CASE p # None /\ p.closing # None /\ p.closing.step = "rep_back"
  <2> DEFINE cl == [p.closing EXCEPT !.step = "ending"]
  <2> DEFINE d == [c EXCEPT !.m.pass.closing = cl]
  <2>1. InPass(c) /\ p.closing \in Closing
    BY <1>3, HasPass, PassIds DEF Good
  <2>2. RepBackDone(c) = d
    BY <1>3 DEF RepBackDone
  <2>3. cl \in Closing
    BY <2>1 DEF Closing
  <2> HIDE DEF cl
  <2>4. InPass(d)
    BY <2>1, <2>3, ClosingSet
  <2>5. /\ d.m.phase = c.m.phase /\ d.m.passes = c.m.passes /\ d.m.arms = c.m.arms
        /\ d.m.disposed = c.m.disposed /\ d.net = c.net /\ d.sock = c.sock /\ d.wire = c.wire
        /\ d.m.pass.id = c.m.pass.id /\ d.m.pass.arm = c.m.pass.arm /\ d.m.pass.va = c.m.pass.va
        /\ d.m.pass.endPosted = c.m.pass.endPosted /\ d.m.pass.closing = cl
        /\ d.m.lastOutcome = c.m.lastOutcome
    BY <2>1 DEF InPass, Context, Machine, Pass
  <2> HIDE DEF d
  <2>6. Staged(d.m)
    BY <1>3, <2>1, <2>3, <2>4, <2>5, PassIds, MachineAssumption DEF Good, Staged
  <2>7. d.m.phase \notin {"active", "paying"}
    BY <1>3, <2>5 DEF Good, Staged, Over
  <2>8. Leads(c, d) /\ d.m.disposed = c.m.disposed
    BY <2>1, <2>4, <2>5, <2>6, <2>7, AskedKept, Keeps, Ranks DEF Good
  <2> QED
    BY <2>2, <2>8
<1> QED
  BY <1>1, <1>2, <1>3

-----------------------------------------------------------------------------
(* Sealing, draining, compiling, connecting *)

\* One helper after another, before the greeting.
LEMMA Chains ==
  ASSUME NEW c, NEW d, NEW e, Good(c), Leads(c, d), Leads(d, e), c.m.pass # None, d.m.pass # None,
         c.m.pass.va.status # "audible", c.m.pass.arm = "ok" => d.m.pass.arm = "ok",
         d.m.phase \in Over => c.m.phase \in Over
  PROVE  Leads(c, e)
<1>1. InPass(c) /\ InPass(d) /\ c.m.pass.id \in Nat /\ d.m.pass.id \in Nat
  BY HasPass, PassIds DEF Good, Leads, Ids
<1>2. e.m.pass # None => e.m.pass.id \in Nat
  BY HasPass, PassIds DEF Good, Leads, Ids
<1>3. Moves(c.m, d.m) /\ Moves(d.m, e.m)
  BY DEF Leads
<1>4. Moves(c.m, e.m)
  BY <1>1, <1>2, <1>3, Ranks DEF Moves
<1> QED
  BY <1>4 DEF Leads

\* Two contexts that differ in what the invariant does not read.
SameView(c, d) ==
  /\ d.m.phase = c.m.phase /\ d.m.passes = c.m.passes /\ d.m.arms = c.m.arms
  /\ d.m.disposed = c.m.disposed /\ d.m.lastOutcome = c.m.lastOutcome
  /\ d.net = c.net /\ d.sock = c.sock /\ d.wire = c.wire
  /\ d.m.pass.id = c.m.pass.id /\ d.m.pass.arm = c.m.pass.arm
  /\ d.m.pass.va.status = c.m.pass.va.status /\ d.m.pass.va.attempt = c.m.pass.va.attempt
  /\ d.m.pass.endPosted = c.m.pass.endPosted /\ d.m.pass.closing = c.m.pass.closing

LEMMA ViewLeads ==
  ASSUME NEW c, NEW d, Good(c), InPass(c), InPass(d), SameView(c, d), ~c.m.disposed
  PROVE  Leads(c, d)
<1>1. Staged(d.m) /\ Asked(d)
  BY PassIds, AskedKept DEF Good, Staged, SameView
<1>2. d.m.phase \in {"active", "paying"} => c.sock[Current(c)] = "ready"
  BY DEF Good, Live, SameView
<1> QED
  BY <1>1, <1>2, Keeps, Ranks DEF SameView

LEMMA LineLeads ==
  ASSUME NEW c, Good(c), InPass(c), ~c.m.disposed
  PROVE  LET d == [c EXCEPT !.m.pass.lineKnown = TRUE] IN
         Leads(c, d) /\ InPass(d) /\ SameView(c, d)
<1> DEFINE d == [c EXCEPT !.m.pass.lineKnown = TRUE]
<1>1. InPass(d)
  BY LineSet
<1>2. SameView(c, d)
  BY DEF SameView, InPass, Context, Machine, Pass
<1> HIDE DEF d
<1> QED
  BY <1>1, <1>2, ViewLeads DEF d

LEMMA CompileLeads ==
  ASSUME NEW c, Good(c), InPass(c), ~c.m.disposed,
         NEW k \in {"idle", "waiting_arm", "server", "local", "done"}
  PROVE  LET d == [c EXCEPT !.m.pass.compile = k] IN
         Leads(c, d) /\ InPass(d) /\ SameView(c, d)
<1> DEFINE d == [c EXCEPT !.m.pass.compile = k]
<1>1. InPass(d)
  BY CompileSet
<1>2. SameView(c, d)
  BY DEF SameView, InPass, Context, Machine, Pass
<1> HIDE DEF d
<1> QED
  BY <1>1, <1>2, ViewLeads DEF d

LEMMA EnterLeads ==
  ASSUME NEW c, Good(c), InPass(c), ~c.m.disposed, c.m.phase \in VaPhases,
         NEW ph \in {"sealing", "draining", "compiling", "connecting", "retrying"},
         Rank(c.m.phase) <= Rank(ph)
  PROVE  LET d == Enter(c, ph) IN
         /\ Leads(c, d) /\ InPass(d) /\ UnderWay(d) /\ d.m.phase = ph /\ ~d.m.disposed
         /\ d.m.pass = c.m.pass
<1> DEFINE d == Enter(c, ph)
<1>1. c \in Context /\ ph \in Phases /\ ph \in VaPhases
  BY DEF InPass, Phases, VaPhases, Before
<1>2. InPass(d)
  BY <1>1, PhaseSet
<1>3. /\ d.m.phase = ph /\ d.m.passes = c.m.passes /\ d.m.arms = c.m.arms
      /\ d.m.disposed = c.m.disposed /\ d.net = c.net /\ d.sock = c.sock /\ d.wire = c.wire
      /\ d.m.pass = c.m.pass
  BY <1>1 DEF Enter, Context, Machine
<1> HIDE DEF d
<1>4. Staged(d.m)
  BY <1>1, <1>2, <1>3, PassIds DEF Good, Staged, VaPhases, Before, Over
<1>5. d.m.phase \notin Over \cup {"active", "paying"}
  BY <1>3 DEF Over
<1>6. Leads(c, d)
  BY <1>2, <1>3, <1>4, <1>5, AskedKept, Keeps DEF Good
<1>7. UnderWay(d)
  BY <1>1, <1>3, <1>6, GoodUnderWay DEF Leads
<1> QED
  BY <1>2, <1>3, <1>6, <1>7 DEF d

LEMMA EnterDrainingLeads ==
  ASSUME NEW c, Good(c), InPass(c), ~c.m.disposed, c.m.phase \in {"armed", "sealing"}
  PROVE  LET d == EnterDraining(c) IN
         Leads(c, d) /\ InPass(d) /\ d.m.pass = c.m.pass /\ d.m.phase = "draining" /\ ~d.m.disposed
<1>1. c.m.phase \in VaPhases /\ Rank(c.m.phase) <= Rank("draining")
  BY DEF VaPhases, Before, Rank
<1>2. Leads(c, Enter(c, "draining")) /\ InPass(Enter(c, "draining")) /\ Enter(c, "draining").m.pass = c.m.pass
      /\ Enter(c, "draining").m.phase = "draining" /\ ~Enter(c, "draining").m.disposed
  BY <1>1, EnterLeads
<1> QED
  BY <1>2, AskLeads DEF EnterDraining, Kinds, Attempts

\* A pass that is sealed is still its own, however it goes on.
LEMMA SealLeads ==
  ASSUME NEW c, Good(c), InPass(c), ~c.m.disposed, c.m.phase = "armed", NEW open \in BOOLEAN
  PROVE  /\ Leads(c, Seal(c, open)) /\ ~Seal(c, open).m.disposed
         /\ Seal(c, open).m.pass # None /\ Seal(c, open).m.pass.id = c.m.pass.id
<1> DEFINE d == IF c.m.pass.auto THEN c
                ELSE IF cfg.handoff # "none" /\ c.m.passes = 1 /\ c.m.lastOutcome = None THEN Ask(c, "clip", 0)
                ELSE [c EXCEPT !.m.pass.lineKnown = TRUE]
<1>1. Seal(c, open) = IF open THEN Enter(d, "sealing") ELSE EnterDraining(d)
  BY DEF Seal
<1>2. Leads(c, c)
  BY Stutters
<1>3. Leads(c, Ask(c, "clip", 0)) /\ InPass(Ask(c, "clip", 0)) /\ Ask(c, "clip", 0).m = c.m
  BY <1>2, AskLeads DEF Kinds, Attempts
<1>4. /\ Leads(c, d) /\ InPass(d) /\ ~d.m.disposed /\ d.m.phase = "armed"
      /\ d.m.pass.id = c.m.pass.id /\ d.m.pass.arm = c.m.pass.arm
  BY <1>2, <1>3, LineLeads DEF SameView
<1> HIDE DEF d
<1>5. Good(d) /\ c.m.pass # None /\ d.m.pass # None /\ c.m.pass.va.status # "audible" /\ d.m.phase \notin Over
      /\ d.m.phase \in VaPhases /\ Rank(d.m.phase) <= Rank("sealing")
  BY <1>4, PassIds DEF Leads, Good, Staged, Over, VaPhases, Before, Rank
<1>6. CASE open
  <2>1. /\ Leads(d, Enter(d, "sealing")) /\ InPass(Enter(d, "sealing"))
        /\ Enter(d, "sealing").m.pass = d.m.pass /\ ~Enter(d, "sealing").m.disposed
    BY <1>4, <1>5, EnterLeads
  <2> QED
    BY <1>1, <1>4, <1>5, <1>6, <2>1, Chains, PassIds
<1>7. CASE ~open
  <2>1. /\ Leads(d, EnterDraining(d)) /\ InPass(EnterDraining(d))
        /\ EnterDraining(d).m.pass = d.m.pass /\ ~EnterDraining(d).m.disposed
    BY <1>4, <1>5, EnterDrainingLeads
  <2> QED
    BY <1>1, <1>4, <1>5, <1>7, <2>1, Chains, PassIds
<1> QED
  BY <1>6, <1>7

LEMMA ServerCompileLeads ==
  ASSUME NEW c, Good(c), InPass(c), ~c.m.disposed
  PROVE  /\ Leads(c, StartServerCompile(c)) /\ ~StartServerCompile(c).m.disposed
         /\ Leads(c, CompileLocal(c)) /\ ~CompileLocal(c).m.disposed
<1>1. ASSUME NEW k \in {"server", "local"}
      PROVE  LET d == [c EXCEPT !.m.pass.compile = k] IN Leads(c, d) /\ InPass(d) /\ ~d.m.disposed
  <2> DEFINE d == [c EXCEPT !.m.pass.compile = k]
  <2>1. Leads(c, d) /\ InPass(d) /\ SameView(c, d)
    BY CompileLeads
  <2> HIDE DEF d
  <2> QED
    BY <2>1 DEF SameView, d
<1> QED
  BY <1>1, AskLeads DEF StartServerCompile, CompileLocal, Kinds, Attempts

LEMMA DrainedLeads ==
  ASSUME NEW c, Good(c), ~c.m.disposed
  PROVE  Leads(c, Drained(c)) /\ ~Drained(c).m.disposed
<1>1. CASE c.m.phase # "draining"
  BY <1>1, Stutters DEF Drained
<1>2. CASE c.m.phase = "draining"
  <2> DEFINE d == Enter(c, "compiling")
  <2>1. c.m.phase \in VaPhases /\ Rank(c.m.phase) <= Rank("compiling")
    BY <1>2 DEF VaPhases, Before, Rank
  <2>2. InPass(c) /\ c.m.pass.va.status # "audible" /\ c.m.pass # None
    BY <2>1, GoodUnderWay, PassIds DEF UnderWay
  <2>3. Leads(c, d) /\ InPass(d) /\ UnderWay(d) /\ d.m.phase = "compiling" /\ d.m.pass = c.m.pass
        /\ ~d.m.disposed
    BY <2>1, <2>2, EnterLeads
  <2>4. Drained(c) = CASE c.m.pass.arm = "failed" -> GiveUp(d)
                       [] c.m.pass.arm = "pending" -> [d EXCEPT !.m.pass.compile = "waiting_arm"]
                       [] OTHER -> StartServerCompile(d)
    BY <1>2 DEF Drained, EnterCompiling
  <2> HIDE DEF d
  <2>5. Leads(d, GiveUp(d)) /\ Leads(d, StartServerCompile(d)) /\ Leads(d, [d EXCEPT !.m.pass.compile = "waiting_arm"])
        /\ ~GiveUp(d).m.disposed /\ ~StartServerCompile(d).m.disposed
        /\ ~[d EXCEPT !.m.pass.compile = "waiting_arm"].m.disposed
    BY <2>3, GiveUpLeads, ServerCompileLeads, CompileLeads DEF Leads, SameView
  <2>6. Leads(d, Drained(c)) /\ ~Drained(c).m.disposed
    BY <2>4, <2>5
  <2>7. d.m.phase \notin Over
    BY <2>3 DEF Over
  <2> QED
    BY <2>2, <2>3, <2>6, <2>7, Chains
<1> QED
  BY <1>1, <1>2

\* The instructions are there: the pass connects, or gives up when its session is dead.
LEMMA CompiledLeads ==
  ASSUME NEW c, Good(c), ~c.m.disposed, NEW early \in BOOLEAN
  PROVE  Leads(c, Compiled(c, early))
<1>1. CASE c.m.phase # "compiling"
  BY <1>1, Stutters DEF Compiled
<1>2. CASE c.m.phase = "compiling"
  <2> DEFINE a == [c EXCEPT !.m.pass.compile = "done"]
  <2> DEFINE ph == IF a.m.pass.va.attempt = 1 THEN "retrying" ELSE "connecting"
  <2> DEFINE d == Enter(a, ph)
  <2>1. Compiled(c, early) = IF a.m.pass.va.status = "dead" THEN GiveUp(a) ELSE MaybeStart(d, early)
    BY <1>2 DEF Compiled, EnterConnecting
  <2>2. c.m.phase \in VaPhases
    BY <1>2 DEF VaPhases, Before
  <2>3. InPass(c) /\ c.m.pass.va.status # "audible" /\ c.m.pass # None
    BY <2>2, GoodUnderWay, PassIds DEF UnderWay
  <2>4. Leads(c, a) /\ InPass(a) /\ SameView(c, a)
    BY <2>3, CompileLeads
  <2> HIDE DEF a
  <2>5. Good(a) /\ UnderWay(a) /\ a.m.pass # None /\ ~a.m.disposed /\ a.m.phase = "compiling" /\ a.m.phase \in VaPhases
        /\ a.m.pass.arm = c.m.pass.arm /\ a.m.pass.va.status # "audible"
    BY <1>2, <2>2, <2>3, <2>4, GoodUnderWay, PassIds DEF Leads, SameView
  <2>6. ph \in {"retrying", "connecting"} /\ Rank("compiling") <= Rank(ph)
    BY DEF Rank
  <2> HIDE DEF ph
  <2>7. Leads(a, d) /\ InPass(d) /\ UnderWay(d) /\ ~d.m.disposed /\ d.m.phase = ph /\ d.m.pass = a.m.pass
    BY <2>4, <2>5, <2>6, EnterLeads
  <2> HIDE DEF d
  <2>8. Leads(a, MaybeStart(d, early))
    <3>1. Leads(d, MaybeStart(d, early)) /\ d.m.phase \notin Over /\ d.m.pass # None
      BY <2>5, <2>6, <2>7, MaybeStartLeads DEF Leads, Over
    <3> QED
      BY <2>5, <2>7, <3>1, Chains
  <2>9. Leads(a, GiveUp(a))
    BY <2>5, GiveUpLeads
  <2>10. Leads(a, Compiled(c, early)) /\ a.m.phase \notin Over
    BY <2>1, <2>5, <2>8, <2>9 DEF Over
  <2> QED
    BY <2>3, <2>4, <2>5, <2>10, Chains
<1> QED
  BY <1>1, <1>2

LEMMA CompileFailedLeads ==
  ASSUME NEW c, Good(c), ~c.m.disposed
  PROVE  Leads(c, ServerCompileFailed(c)) /\ Leads(c, LocalCompileFailed(c))
<1>1. CASE c.m.phase # "compiling"
  BY <1>1, Stutters DEF ServerCompileFailed, LocalCompileFailed
<1>2. CASE c.m.phase = "compiling"
  <2>1. UnderWay(c) /\ InPass(c)
    BY <1>2, GoodUnderWay DEF UnderWay, VaPhases, Before
  <2> QED
    BY <1>2, <2>1, GiveUpLeads, ServerCompileLeads, Stutters DEF ServerCompileFailed, LocalCompileFailed
<1> QED
  BY <1>1, <1>2

-----------------------------------------------------------------------------
(* Arming and ending *)

\* Another pass begins where none is under way.
LEMMA NewPassLeads ==
  ASSUME NEW c, Good(c), ~c.m.disposed, c.m.phase \in {"idle", "done"},
         c.m.arms < MaxArms, c.m.passes < MaxPasses, NEW auto \in BOOLEAN
  PROVE  LET d == NewPass(c, auto) IN
         /\ Leads(c, d) /\ InPass(d) /\ d.m.phase = "armed" /\ ~d.m.disposed
         /\ c.m.pass # None => c.m.pass.id < d.m.pass.id
<1> DEFINE p == [id |-> c.m.arms + 1, auto |-> auto, lineKnown |-> auto, arm |-> "pending",
                 compile |-> "idle", closing |-> None, endPosted |-> FALSE,
                 va |-> [attempt |-> 0, status |-> "idle", held |-> FALSE]]
<1> DEFINE n == c.m.arms + 1
<1> DEFINE k == c.m.passes + 1
<1> DEFINE u == c.m.autoUsed \/ auto
<1> DEFINE s == [c.m EXCEPT !.passes = k, !.arms = n, !.phase = "armed", !.pass = p]
<1> DEFINE t == [s EXCEPT !.autoUsed = u]
<1> DEFINE d == [c EXCEPT !.m = t]
<1>0. /\ c \in Context /\ c.m \in Machine
      /\ c.m.arms \in 0..MaxArms /\ c.m.passes \in 0..MaxPasses /\ MaxArms \in Nat /\ MaxPasses \in Nat
  BY MachineAssumption DEF Good, Context, Machine
<1>1. p \in Pass
  BY <1>0 DEF Pass, Ids, VaState, VaStatuses, Attempts
<1>2. /\ p.id = n /\ p.arm = "pending" /\ p.closing = None /\ ~p.endPosted
      /\ p.va.status = "idle" /\ p.va.attempt = 0
  OBVIOUS
<1>3. n \in 0..MaxArms /\ k \in 0..MaxPasses /\ u \in BOOLEAN /\ "armed" \in Phases /\ n \in Ids
  BY <1>0 DEF Machine, Phases, VaPhases, Before, Ids
<1>4. NewPass(c, auto) = Ask(d, "arm", 0)
  <2>1. c.m.autoUsed = s.autoUsed
    BY <1>0 DEF Machine
  <2> QED
    BY <2>1 DEF NewPass
<1>5. n = c.m.arms + 1 /\ k = c.m.passes + 1
  OBVIOUS
<1> HIDE DEF n, k, u, p
<1>6. s \in Machine
  BY <1>0, <1>1, <1>3 DEF Machine
<1>7. /\ t.phase = "armed" /\ t.passes = k /\ t.arms = n /\ t.disposed = c.m.disposed
      /\ t.pass = p
  BY <1>0 DEF Machine
<1>8. t \in Machine
  <2> HIDE DEF s
  <2> QED
    BY <1>3, <1>6 DEF Machine
<1> HIDE DEF s, t
<1>9. d \in Context /\ d.m = t /\ d.net = c.net /\ d.sock = c.sock /\ d.wire = c.wire
  <2>1. d \in Context
    BY <1>0, <1>8, MachineSet
  <2> QED
    BY <1>0, <2>1 DEF Context
<1> HIDE DEF d
<1>10. InPass(d) /\ d.m.pass # None
  BY <1>1, <1>7, <1>9, MachineAssumption DEF InPass
<1>11. Silent(c)
  BY DEF Good, Staged, Sockets, Silent, Over, Connected
<1>12. Sockets(d) /\ Live(d)
  BY <1>7, <1>9, <1>11 DEF Silent, Sockets, Live
<1>13. Asked(d)
  BY <1>9, AskedKept DEF Good
<1>14. Staged(d.m)
  BY <1>0, <1>2, <1>5, <1>7, <1>9, <1>10 DEF Staged, Over
<1>15. \A id \in Nat : Posted(c.m, id) => id < d.m.pass.id /\ Posted(d.m, id)
  BY <1>0, <1>2, <1>5, <1>7, <1>9 DEF Posted
<1>16. Booked(d)
  <2>1. ASSUME NEW r \in d.net, r.k = "end" PROVE EndAsked(d, r)
    <3>1. r.id \in Nat /\ EndAsked(c, r)
      BY <1>0, <1>9, <2>1 DEF Good, Booked, Context, Request
    <3> QED
      BY <1>7, <1>9, <1>15, <3>1 DEF EndAsked, Over
  <2>2. ASSUME NEW i \in 1..Len(d.wire), d.wire[i].k = "end" PROVE EndHeard(d, i)
    <3>1. d.wire[i] \in Told /\ c.wire = d.wire
      BY <1>9 DEF Context
    <3>2. c.wire[i].id \in Nat /\ EndHeard(c, i)
      BY <1>0, <2>2, <3>1 DEF Good, Booked, Told, Ids
    <3> QED
      BY <1>9, <1>15, <3>1, <3>2 DEF EndHeard
  <2> QED
    BY <2>1, <2>2 DEF Booked
<1>17. c.m.pass # None => c.m.pass.id < d.m.pass.id
  BY <1>0, <1>2, <1>5, <1>7, <1>9, HasPass, PassIds DEF Good, Staged, Ids
<1>18. Leads(c, d)
  BY <1>9, <1>12, <1>13, <1>14, <1>16, <1>17 DEF Leads, Good, Moves
<1> QED
  BY <1>4, <1>7, <1>9, <1>10, <1>17, <1>18, AskLeads DEF Kinds, Attempts

LEMMA ArmIs ==
  ASSUME NEW c, Good(c), InPass(c), ~c.m.disposed, c.m.pass.arm = "pending", NEW k \in {"ok", "failed"}
  PROVE  LET d == [c EXCEPT !.m.pass.arm = k] IN
         /\ Leads(c, d) /\ InPass(d) /\ ~d.m.disposed
         /\ d.m.phase = c.m.phase /\ d.m.pass.arm = k /\ d.m.pass.va = c.m.pass.va
<1> DEFINE d == [c EXCEPT !.m.pass.arm = k]
<1>1. InPass(d)
  BY ArmSet
<1>2. /\ d.m.phase = c.m.phase /\ d.m.passes = c.m.passes /\ d.m.arms = c.m.arms
      /\ d.m.disposed = c.m.disposed /\ d.net = c.net /\ d.sock = c.sock /\ d.wire = c.wire
      /\ d.m.pass.id = c.m.pass.id /\ d.m.pass.arm = k /\ d.m.pass.va = c.m.pass.va
      /\ d.m.pass.endPosted = c.m.pass.endPosted /\ d.m.pass.closing = c.m.pass.closing
      /\ d.m.lastOutcome = c.m.lastOutcome
  BY DEF InPass, Context, Machine, Pass
<1> HIDE DEF d
<1>3. Staged(d.m)
  BY <1>1, <1>2, PassIds DEF Good, Staged
<1>4. d.m.phase \notin {"active", "paying"}
  BY <1>2, PassIds DEF Good, Staged
<1>5. Leads(c, d)
  BY <1>1, <1>2, <1>3, <1>4, AskedKept, Keeps, Ranks DEF Good
<1> QED
  BY <1>1, <1>2, <1>5 DEF d

LEMMA OnArmOkLeads ==
  ASSUME NEW c, Good(c), ~c.m.disposed
  PROVE  Leads(c, OnArmOk(c))
<1>1. CASE c.m.pass = None \/ c.m.pass.arm # "pending"
  BY <1>1, Stutters DEF OnArmOk
<1>2. CASE c.m.pass # None /\ c.m.pass.arm = "pending"
  <2> DEFINE d == [c EXCEPT !.m.pass.arm = "ok"]
  <2> DEFINE b == VaIs(d, "minting")
  <2> DEFINE e == IF d.m.pass.va.status = "idle" THEN Ask(b, "mint", 0) ELSE d
  <2>1. InPass(c) /\ c.m.pass.va.status \in {"idle", "dead"}
    BY <1>2, HasPass DEF Good, Staged
  <2>2. OnArmOk(c) = IF e.m.pass.compile = "waiting_arm" THEN StartServerCompile(e) ELSE e
    BY <1>2 DEF OnArmOk
  <2>3. /\ Leads(c, d) /\ InPass(d) /\ ~d.m.disposed /\ d.m.pass.arm = "ok" /\ d.m.phase = c.m.phase
        /\ d.m.pass.va = c.m.pass.va
    BY <1>2, <2>1, ArmIs
  <2> HIDE DEF d
  <2>4. Good(d) /\ d.m.pass # None /\ (d.m.pass.va.status = "idle" => d.m.phase \notin Over \cup {"greeting"})
    BY <2>3, PassIds DEF Leads, Good, Staged
  <2>5. ASSUME d.m.pass.va.status = "idle"
        PROVE  /\ Leads(d, b) /\ InPass(b) /\ b.m.phase = d.m.phase /\ ~b.m.disposed
    BY <2>3, <2>4, <2>5, StatusLeads DEF VaStatuses, Connected
  <2> HIDE DEF b
  <2>6. Leads(d, e) /\ InPass(e) /\ e.m.phase = d.m.phase /\ ~e.m.disposed
    <3>1. CASE d.m.pass.va.status = "idle"
      BY <2>5, <3>1, AskLeads DEF Kinds, Attempts
    <3>2. CASE d.m.pass.va.status # "idle"
      BY <2>3, <2>4, <3>2, Stutters
    <3> QED
      BY <3>1, <3>2
  <2> HIDE DEF e
  <2>7. Good(e) /\ e.m.pass # None
    BY <2>6, PassIds DEF Leads
  <2>8. Leads(c, e)
    BY <1>2, <2>1, <2>3, <2>4, <2>6, <2>7, Chains
  <2>9. Leads(e, StartServerCompile(e))
    BY <2>6, <2>7, ServerCompileLeads
  <2>10. Leads(c, StartServerCompile(e))
    BY <1>2, <2>1, <2>3, <2>6, <2>7, <2>8, <2>9, Chains
  <2> QED
    BY <2>2, <2>8, <2>10
<1> QED
  BY <1>1, <1>2

\* A refused arm takes the pass back while it is only armed.
LEMMA OnArmFailedLeads ==
  ASSUME NEW c, Good(c), ~c.m.disposed
  PROVE  Leads(c, OnArmFailed(c))
<1>1. CASE c.m.pass = None \/ c.m.pass.arm # "pending"
  BY <1>1, Stutters DEF OnArmFailed
<1>2. CASE c.m.pass # None /\ c.m.pass.arm = "pending" /\ c.m.phase = "armed"
  <2> DEFINE ph == IF c.m.lastOutcome = "handed_back" THEN "done" ELSE "idle"
  <2> DEFINE k == c.m.passes - 1
  <2> DEFINE s == [c.m EXCEPT !.pass = None, !.passes = k, !.phase = ph]
  <2> DEFINE d == [c EXCEPT !.m = s]
  <2>1. /\ c \in Context /\ c.m \in Machine /\ c.m.passes \in 0..MaxPasses /\ MaxPasses \in Nat /\ c.m.passes >= 1
        /\ c.m.pass.va.status \in {"idle", "dead"}
    BY <1>2, MachineAssumption DEF Good, Staged, Context, Machine
  <2>2. OnArmFailed(c) = d
    BY <1>2 DEF OnArmFailed
  <2>3. k \in 0..MaxPasses /\ ph \in Phases /\ ph \in {"idle", "done"}
    BY <2>1 DEF Phases, Over
  <2> HIDE DEF k, ph
  <2>4. s \in Machine /\ s.pass = None /\ s.phase = ph /\ s.arms = c.m.arms /\ s.disposed = c.m.disposed
    BY <2>1, <2>3 DEF Machine
  <2> HIDE DEF s
  <2>5. d \in Context /\ d.m = s /\ d.net = c.net /\ d.sock = c.sock /\ d.wire = c.wire
    <3>1. d \in Context
      BY <2>1, <2>4, MachineSet
    <3> QED
      BY <2>1, <3>1 DEF Context
  <2> HIDE DEF d
  <2>6. Silent(d)
    BY <2>1, <2>5 DEF Good, Sockets, Silent, Connected
  <2>7. Asked(d) /\ Booked(d)
    BY <2>4, <2>5, AskedKept, BookedKept DEF Good
  <2>8. Leads(c, d)
    BY <2>3, <2>4, <2>5, <2>6, <2>7, SilentSockets DEF Leads, Good, Staged, Live, Moves
  <2> QED
    BY <2>2, <2>8
<1>3. CASE c.m.pass # None /\ c.m.pass.arm = "pending" /\ c.m.phase # "armed"
  <2> DEFINE d == [c EXCEPT !.m.pass.arm = "failed"]
  <2>1. OnArmFailed(c) = IF d.m.phase = "compiling" THEN GiveUp(d) ELSE d
    BY <1>3 DEF OnArmFailed
  <2>2. InPass(c) /\ c.m.pass.va.status # "audible"
    BY <1>3, HasPass DEF Good, Staged
  <2>3. Leads(c, d) /\ InPass(d) /\ ~d.m.disposed /\ d.m.phase = c.m.phase
    BY <1>3, <2>2, ArmIs
  <2> HIDE DEF d
  <2>4. CASE d.m.phase # "compiling"
    BY <2>1, <2>3, <2>4
  <2>5. CASE d.m.phase = "compiling"
    <3>1. d.m.phase \in VaPhases /\ d.m.phase \notin Over /\ Good(d) /\ d.m.pass # None
      BY <2>3, <2>5, PassIds DEF VaPhases, Before, Over, Leads
    <3>2. Leads(d, GiveUp(d))
      BY <2>3, <3>1, GoodUnderWay, GiveUpLeads
    <3> QED
      BY <1>3, <2>1, <2>2, <2>3, <2>5, <3>1, <3>2, Chains
  <2> QED
    BY <2>4, <2>5
<1> QED
  BY <1>1, <1>2, <1>3

\* The recorded ending is over; no pass stands behind it, or one that is over.
LEMMA RecordedOver ==
  ASSUME NEW c, Good(c), c.m.phase = "fallback"
  PROVE  Leads(c, Enter(c, "done"))
<1> DEFINE d == Enter(c, "done")
<1>1. c \in Context /\ "done" \in Phases
  BY DEF Good, Phases, Over
<1>2. d \in Context
  BY <1>1, PhaseSet
<1>3. /\ d.m.phase = "done" /\ d.m.passes = c.m.passes /\ d.m.arms = c.m.arms
      /\ d.m.disposed = c.m.disposed /\ d.net = c.net /\ d.sock = c.sock /\ d.wire = c.wire
      /\ d.m.pass = c.m.pass /\ d.m.lastOutcome = c.m.lastOutcome
  BY <1>1 DEF Enter, Context, Machine
<1> HIDE DEF d
<1>4. Staged(d.m)
  BY <1>3 DEF Good, Staged, Over
<1>5. Sockets(d) /\ Live(d) /\ Asked(d)
  BY <1>3, AskedKept, SocketsKept DEF Good, Live
<1>6. Booked(d)
  BY <1>3, BookedKept DEF Good, Over
<1>7. Moves(c.m, d.m)
  BY <1>3 DEF Moves, Rank, Over
<1> QED
  BY <1>2, <1>4, <1>5, <1>6, <1>7 DEF Leads, Good, d

LEMMA OnEndCallLeads ==
  ASSUME NEW c, Good(c), ~c.m.disposed
  PROVE  Leads(c, OnEndCall(c))
<1>1. CASE c.m.phase \in {"greeting", "active", "paying"}
  <2>1. OnEndCall(c) = StartClosing(c, "abandoned", FALSE)
    BY <1>1 DEF OnEndCall, Before
  <2> QED
    BY <1>1, <2>1, StartClosingLeads DEF Outcomes
<1>2. CASE c.m.phase \in Before
  <2> DEFINE a == Abort(c)
  <2>1. UnderWay(c)
    BY <1>2, GoodUnderWay DEF VaPhases
  <2>2. OnEndCall(c) = Enter(Concluded(PostEnd(VaIs(a, "dead"), "abandoned"), "abandoned"), "done")
    BY <1>2 DEF OnEndCall, Before
  <2>3. InPass(a) /\ a.m = c.m /\ Silent(a) /\ Asked(a) /\ a.wire = c.wire /\ a.net = c.net
    BY <2>1, Aborts DEF UnderWay
  <2> HIDE DEF a
  <2>4. Booked(a) /\ c.m.phase \notin Over /\ "done" \in Over
    BY <1>2, <2>1, <2>3, BookedKept, PassIds DEF UnderWay, Before, Over
  <2>5. Leads(a, OnEndCall(c))
    BY <2>1, <2>2, <2>3, <2>4, Finishes DEF UnderWay, Outcomes
  <2> QED
    BY <2>3, <2>5 DEF Leads
<1>3. CASE c.m.phase = "fallback"
  <2>1. OnEndCall(c) = Enter(c, "done")
    BY <1>3 DEF OnEndCall, Before
  <2> QED
    BY <1>3, <2>1, RecordedOver
<1>4. CASE c.m.phase \notin {"greeting", "active", "paying", "fallback"} \cup Before
  <2>1. OnEndCall(c) = c
    BY <1>4 DEF OnEndCall
  <2> QED
    BY <2>1, Stutters
<1> QED
  BY <1>1, <1>2, <1>3, <1>4

-----------------------------------------------------------------------------
(* Deadlines *)

\* The session is closed by force when it does not say that it ended.
LEMMA ForcedLeads ==
  ASSUME NEW c, Good(c), ~c.m.disposed, c.m.phase = "closing"
  PROVE  Leads(c, FinishPass(HangUp(c))) /\ ~FinishPass(HangUp(c)).m.disposed
<1> DEFINE a == HangUp(c)
<1>1. InPass(c) /\ c.m.pass.closing # None /\ c.m.pass.arm = "ok" /\ ~c.m.pass.endPosted
      /\ c.m.pass.id <= c.m.arms /\ c.m.passes >= 1 /\ c.m.phase \notin Over
  BY HasPass DEF Good, Staged, Over
<1>2. \A x \in Ids \X Attempts : c.sock[x] \in InUse => x = Current(c)
  BY DEF Good, Sockets
<1>3. InPass(a) /\ a.m = c.m /\ a.net = c.net /\ a.wire = c.wire /\ Silent(a) /\ Asked(a)
  BY <1>1, <1>2, HangsUp DEF Good
<1> HIDE DEF a
<1>4. Booked(a)
  BY <1>1, <1>3, BookedKept DEF Good
<1>5. Closable(a)
  BY <1>1, <1>3, <1>4 DEF Closable
<1> QED
  BY <1>3, <1>5, FinishPassLeads DEF Leads, a

LEMMA TickPhaseLeads ==
  ASSUME NEW c, Good(c), ~c.m.disposed, NEW open \in BOOLEAN,
         c.m.phase \in {"armed", "sealing", "draining", "compiling", "connecting", "retrying", "closing"}
  PROVE  Leads(c, TickPhase(c, open)) /\ ~TickPhase(c, open).m.disposed
<1>1. InPass(c)
  BY HasPass DEF Good, Staged
<1>2. CASE c.m.phase = "armed"
  BY <1>1, <1>2, SealLeads DEF TickPhase
<1>3. CASE c.m.phase = "sealing"
  BY <1>1, <1>3, EnterDrainingLeads DEF TickPhase
<1>4. CASE c.m.phase = "draining"
  BY <1>4, DrainedLeads DEF TickPhase
<1>5. CASE c.m.phase = "compiling"
  BY <1>1, <1>5, ServerCompileLeads DEF TickPhase
<1>6. CASE c.m.phase \in {"connecting", "retrying"}
  <2> DEFINE d == [c EXCEPT !.m.pass.lineKnown = TRUE]
  <2>1. Leads(c, d) /\ InPass(d) /\ SameView(c, d)
    BY <1>1, LineLeads
  <2>2. TickPhase(c, open) = MaybeStart(d, FALSE)
    BY <1>6 DEF TickPhase
  <2> HIDE DEF d
  <2>3. ~d.m.disposed /\ Good(d) /\ d.m.pass # None /\ c.m.pass # None /\ c.m.pass.va.status # "audible"
        /\ d.m.phase \notin Over /\ d.m.pass.arm = c.m.pass.arm
    BY <1>1, <1>6, <2>1, PassIds DEF SameView, Leads, Good, Staged, Over
  <2>4. Leads(d, MaybeStart(d, FALSE)) /\ ~MaybeStart(d, FALSE).m.disposed
    BY <2>3, MaybeStartLeads
  <2> QED
    BY <2>1, <2>2, <2>3, <2>4, Chains
<1>7. CASE c.m.phase = "closing"
  BY <1>7, RepBackDoneLeads, ForcedLeads DEF TickPhase
<1> QED
  BY <1>2, <1>3, <1>4, <1>5, <1>6, <1>7

LEMMA VaTimeoutLeads ==
  ASSUME NEW c, Good(c), ~c.m.disposed, c.m.pass # None
  PROVE  Leads(c, VaTimeout(c))
<1>1. c.m.pass.va.attempt \in Attempts
  BY HasPass, PassIds DEF Good
<1> QED
  BY <1>1, MaybeStartLeads, VaFailureLeads DEF VaTimeout

\* The phase's deadline and the session's in one tick.
LEMMA BothLead ==
  ASSUME NEW c, NEW d, Good(c), Leads(c, d), ~d.m.disposed, c.m.pass # None, VaDeadline(d)
  PROVE  Leads(c, VaTimeout(d))
<1>1. Good(d) /\ d.m.pass # None /\ d.m.phase \in VaPhases
  BY DEF Leads, VaDeadline, VaPhase
<1>2. Leads(d, VaTimeout(d))
  BY <1>1, VaTimeoutLeads
<1>3. d.m.pass.arm = "ok"
  BY <1>1 DEF VaDeadline, Good, Staged
<1>4. d.m.phase \notin Over /\ Rank(d.m.phase) < 6
  BY <1>1 DEF VaPhases, Before, Over, Rank
<1>5. InPass(c) /\ InPass(d) /\ c.m.pass.id \in Nat /\ d.m.pass.id \in Nat
  BY <1>1, HasPass, PassIds DEF Good, Ids
<1>6. VaTimeout(d).m.pass # None => VaTimeout(d).m.pass.id \in Nat
  BY <1>2, HasPass, PassIds DEF Leads, Good, Ids
<1>7. \/ c.m.pass.id < d.m.pass.id
      \/ c.m.pass.id = d.m.pass.id /\ c.m.pass.va.status # "audible"
  <2>1. c.m.pass.id = d.m.pass.id /\ c.m.pass.va.status = "audible" => Rank(c.m.phase) \in {6, 7}
    BY <1>5, PassIds DEF Good, Staged, Rank
  <2> QED
    BY <1>1, <1>4, <1>5, <2>1, PassIds, Ranks DEF Leads, Moves
<1>8. Moves(c.m, VaTimeout(d).m)
  BY <1>1, <1>2, <1>3, <1>4, <1>5, <1>6, <1>7, Ranks DEF Leads, Moves
<1> QED
  BY <1>2, <1>8 DEF Leads

-----------------------------------------------------------------------------
(* The steps *)

\* Invariant and steps, in terms of the variables.
MachInv == TypeOK /\ Good(Now)
StepOK == cfg' = cfg /\ unmounted' \in BOOLEAN /\ Good(Now)' /\ Moves(m, m')

LEMMA NowIs ==
  /\ Now.m = m /\ Now.net = net /\ Now.sock = sock /\ Now.wire = wire
  /\ TypeOK <=> Now \in Context /\ cfg \in Configs /\ unmounted \in BOOLEAN
BY DEF Now, Context, TypeOK

LEMMA Becoming ==
  ASSUME NEW c, Become(c), Leads(Now, c), cfg' = cfg, unmounted' \in BOOLEAN
  PROVE  StepOK
<1>1. c \in Context /\ Good(c)
  BY DEF Leads, Good
<1>2. c = [m |-> m', net |-> net', sock |-> sock', wire |-> wire']
  BY <1>1 DEF Become, Context
<1>3. Good(Now)' <=> Good([m |-> m', net |-> net', sock |-> sock', wire |-> wire'])
  BY DEF Now, Good, Staged, Sockets, Live, Asked, Booked, EndAsked, EndHeard, Posted, Current
<1>4. Moves(m, m')
  BY NowIs DEF Leads, Become
<1> QED
  BY <1>1, <1>2, <1>3, <1>4 DEF StepOK

LEMMA Appends ==
  ASSUME NEW w \in Seq(Told), NEW e \in Told
  PROVE  /\ Append(w, e) \in Seq(Told) /\ Len(w) \in Nat /\ Len(Append(w, e)) = Len(w) + 1
         /\ Append(w, e)[Len(w) + 1] = e
         /\ \A i \in 1..Len(w) : Append(w, e)[i] = w[i]
         /\ \A i \in 1..Len(Append(w, e)) : i \in 1..Len(w) \/ i = Len(w) + 1
OBVIOUS

LEMMA Taken ==
  ASSUME NEW c, Good(c), NEW r \in c.net
  PROVE  LET d == Without(c, r) IN
         /\ Leads(c, d) /\ d.m = c.m /\ d.net = c.net \ {r} /\ d.sock = c.sock /\ d.wire = c.wire
         /\ d \in Context
<1> DEFINE d == Without(c, r)
<1>1. c \in Context /\ c.net \ {r} \in SUBSET Request
  BY DEF Good, Context
<1>2. d \in Context
  BY <1>1, NetSet DEF Without
<1>3. d.m = c.m /\ d.net = c.net \ {r} /\ d.sock = c.sock /\ d.wire = c.wire
  BY <1>1 DEF Without, Context
<1> HIDE DEF d
<1>4. Staged(d.m) /\ Sockets(d) /\ Live(d) /\ Asked(d)
  BY <1>3, SocketsKept, AskedKept DEF Good, Live, Current
<1>5. Booked(d)
  BY <1>3, BookedKept DEF Good
<1> QED
  BY <1>2, <1>3, <1>4, <1>5, Ranks DEF Leads, Good, Moves, d

\* The awaited socket opens or does not.
LEMMA SocketAnswered ==
  ASSUME NEW c, Good(c), NEW r \in c.net, r.k = "connect",
         NEW st \in {"open", "orphan", "gone"},
         st = "open" => c.sock[<<r.id, r.att>>] = "connecting"
  PROVE  LET d == [Without(c, r) EXCEPT !.sock[<<r.id, r.att>>] = st] IN Leads(c, d) /\ d.m = c.m
<1> DEFINE x == <<r.id, r.att>>
<1> DEFINE a == Without(c, r)
<1> DEFINE d == [a EXCEPT !.sock[x] = st]
<1>1. /\ Leads(c, a) /\ a.m = c.m /\ a.net = c.net \ {r} /\ a.sock = c.sock /\ a.wire = c.wire
      /\ a \in Context
  BY Taken
<1>2. /\ r.id \in Ids /\ r.att \in Attempts /\ r = Req("connect", r.id, r.att)
      /\ c.sock[x] \notin {"open", "started", "ready"} /\ x \in Ids \X Attempts
      /\ st = "open" => c.sock[x] = "connecting"
  BY DEF Good, Asked, Context, Request
<1> HIDE DEF a
<1>3. d \in Context /\ d.m = a.m /\ d.net = a.net /\ d.wire = a.wire /\ d.sock = [a.sock EXCEPT ![x] = st]
  <2> HIDE DEF x
  <2>1. d \in Context
    BY <1>1, <1>2, SockSet DEF SocketStates
  <2> QED
    BY <1>1, <2>1 DEF Context
<1> HIDE DEF d
<1>4. c.sock \in [Ids \X Attempts -> SocketStates] /\ c.net \in SUBSET Request
  BY DEF Good, Context
<1>5. Sockets(d)
  <2> HIDE DEF x
  <2>1. \A y \in Ids \X Attempts : d.sock[y] \in InUse => c.sock[y] \in InUse
    BY <1>1, <1>2, <1>3, <1>4 DEF InUse
  <2> QED
    BY <1>1, <1>3, <2>1 DEF Good, Sockets, Current
<1>6. Live(d)
  <2>1. ASSUME ~d.m.disposed, d.m.phase \in {"active", "paying"} PROVE d.sock[Current(d)] = "ready"
    <3>1. c.sock[Current(c)] = "ready" /\ Current(d) = Current(c)
      BY <1>1, <1>3, <2>1 DEF Good, Live, Current
    <3>2. Current(c) # x
      BY <1>2, <3>1
    <3>3. Current(c) \in Ids \X Attempts
      BY <1>1, <1>3, <2>1, HasPass, PassIds DEF Good, Staged
    <3> HIDE DEF x
    <3> QED
      BY <1>1, <1>3, <1>4, <3>1, <3>2, <3>3
  <2> QED
    BY <2>1 DEF Live
<1>7. Asked(d)
  <2>1. ASSUME NEW q \in d.net, q.k = "connect" PROVE d.sock[<<q.id, q.att>>] \notin {"open", "started", "ready"}
    <3>1. q \in c.net /\ q # r /\ q.id \in Ids /\ q = Req("connect", q.id, q.att)
          /\ c.sock[<<q.id, q.att>>] \notin {"open", "started", "ready"}
      BY <1>1, <1>3, <2>1 DEF Good, Asked
    <3>2. q.att \in Attempts
      BY <1>4, <3>1 DEF Request
    <3>3. <<q.id, q.att>> # x /\ <<q.id, q.att>> \in Ids \X Attempts
      BY <1>2, <3>1, <3>2
    <3> HIDE DEF x
    <3> QED
      BY <1>1, <1>3, <1>4, <3>1, <3>3
  <2> QED
    BY <1>1, <1>3, <2>1 DEF Good, Asked
<1>8. Staged(d.m) /\ Booked(d) /\ Moves(c.m, d.m)
  BY <1>1, <1>3, BookedKept DEF Leads, Good
<1> QED
  BY <1>1, <1>3, <1>5, <1>6, <1>7, <1>8 DEF Leads, Good, a, d

\* The page's own steps.
LEMMA VisitorSteps ==
  ASSUME MachInv, Visitor
  PROVE  StepOK
<1>1. Good(Now) /\ Now \in Context /\ Now.m = m /\ unmounted \in BOOLEAN /\ Leads(Now, Now)
  BY NowIs, Stutters DEF MachInv, TypeOK
<1>2. ASSUME NEW quiet \in BOOLEAN, NEW open \in BOOLEAN, Click(quiet, open) \/ AutoBaton(quiet, open)
      PROVE  StepOK
  <2>1. /\ Alive /\ CanArm /\ m.arms < MaxArms /\ cfg' = cfg /\ unmounted' = unmounted
        /\ m.passes < MaxPasses /\ m.phase \in {"idle", "done"}
        /\ \E auto, now \in BOOLEAN :
             Become(IF now THEN Seal(NewPass(Now, auto), open) ELSE NewPass(Now, auto))
    BY <1>2 DEF Click, AutoBaton, CanArm
  <2>2. PICK auto, now \in BOOLEAN :
          Become(IF now THEN Seal(NewPass(Now, auto), open) ELSE NewPass(Now, auto))
    BY <2>1
  <2> DEFINE d == NewPass(Now, auto)
  <2>3. /\ Leads(Now, d) /\ InPass(d) /\ d.m.phase = "armed" /\ ~d.m.disposed
        /\ Now.m.pass # None => Now.m.pass.id < d.m.pass.id
    BY <1>1, <2>1, NewPassLeads DEF Alive
  <2> HIDE DEF d
  <2>4. /\ Leads(d, Seal(d, open)) /\ Seal(d, open).m.pass # None
        /\ Seal(d, open).m.pass.id = d.m.pass.id
    BY <2>3, SealLeads DEF Leads
  <2>5. Leads(Now, Seal(d, open))
    BY <2>3, <2>4 DEF Leads, Moves
  <2> QED
    BY <1>1, <2>1, <2>2, <2>3, <2>5, Becoming DEF d
<1>3. CASE \E open \in BOOLEAN : SampleSeals(open)
  <2>1. PICK open \in BOOLEAN : SampleSeals(open)
    BY <1>3
  <2>2. ~Now.m.disposed /\ Now.m.phase = "armed" /\ InPass(Now)
    BY <1>1, <2>1, HasPass DEF SampleSeals, Alive, Good, Staged
  <2> QED
    BY <1>1, <2>1, <2>2, SealLeads, Becoming DEF SampleSeals
<1>4. CASE FinalsDone
  <2>2. ~Now.m.disposed /\ Now.m.phase = "sealing" /\ InPass(Now)
    BY <1>1, <1>4, HasPass DEF FinalsDone, Alive, Good, Staged
  <2> QED
    BY <1>1, <1>4, <2>2, EnterDrainingLeads, Becoming DEF FinalsDone
<1>5. CASE EndCall
  BY <1>1, <1>5, OnEndCallLeads, Becoming DEF EndCall, Alive
<1>6. CASE Unmount
  BY <1>1, <1>6, OnEndCallLeads, Becoming DEF Unmount, Alive
<1>7. CASE StartRecorded \/ RecordingEnded
  <2> DEFINE n == net \cup {Req("recorded", 0, 0)}
  <2>1. /\ Alive /\ cfg' = cfg /\ unmounted' = unmounted /\ m.phase = "idle"
        /\ sock' = sock /\ wire' = wire /\ net' \in {net, n}
        /\ m'.phase \in {"idle", "done", "fallback"} /\ m'.pass = m.pass
        /\ m'.arms = m.arms /\ m'.disposed = m.disposed /\ m'.passes = m.passes
    BY <1>1, <1>7 DEF StartRecorded, RecordingEnded, Become, Now, Enter, Context, Machine
  <2>2. m' \in Machine
    <3>1. m \in Machine /\ {"done", "fallback"} \subseteq Phases
      BY <1>1 DEF Context, Phases, Over
    <3>2. CASE RecordingEnded
      BY <3>1, <3>2 DEF RecordingEnded, Become, Now, Machine
    <3>3. CASE StartRecorded
      <4> DEFINE s == [m EXCEPT !.recordedStarted = TRUE]
      <4>1. s \in Machine
        BY <3>1 DEF Machine
      <4>2. m' = [s EXCEPT !.phase = "done"] \/ m' = [s EXCEPT !.phase = "fallback"]
        BY <3>3 DEF StartRecorded, Become, Now, Enter
      <4> HIDE DEF s
      <4> QED
        BY <3>1, <4>1, <4>2 DEF Machine
    <3> QED
      BY <1>7, <3>2, <3>3
  <2>3. m.pass = None
    BY <1>1, <2>1 DEF Good, Staged
  <2>4. Req("recorded", 0, 0) \in Request /\ Req("recorded", 0, 0).k = "recorded"
        /\ Req("recorded", 0, 0).id = 0 /\ Req("recorded", 0, 0).att = 0
    BY MachineAssumption, Requests DEF Kinds, Attempts
  <2> DEFINE d == [m |-> m', net |-> net', sock |-> sock', wire |-> wire']
  <2>5. d \in Context /\ d.m = m' /\ d.net = net' /\ d.sock = sock /\ d.wire = wire
    BY <1>1, <2>1, <2>2, <2>4 DEF Context, Now
  <2>6. Become(d)
    BY DEF Become
  <2> HIDE DEF d
  <2>7. Asked(d)
    BY <1>1, <2>1, <2>4, <2>5, NowIs DEF Good, Asked
  <2>8. \A r \in d.net : r.k \in {"end", "closed"} => r \in Now.net
    BY <2>1, <2>4, <2>5, NowIs
  <2>9. Booked(d)
    BY <1>1, <2>1, <2>3, <2>5, <2>8, NowIs, BookedKept DEF Good
  <2>10. Leads(Now, d)
    BY <1>1, <2>1, <2>3, <2>5, <2>7, <2>9, NowIs, SocketsKept DEF Leads, Good, Staged, Live, Moves
  <2> QED
    BY <1>1, <2>1, <2>6, <2>10, Becoming
<1>8. CASE PageHide
  <2> DEFINE p == m.pass
  <2> DEFINE c == IF p = None THEN Now ELSE Abort(Now)
  <2> DEFINE s == [c.m EXCEPT !.runReleased = TRUE, !.disposed = TRUE]
  <2> DEFINE n == {r \in c.net : r.k = "arm"}
  <2> DEFINE d == [c EXCEPT !.m = s, !.net = n]
  <2> DEFINE live == m.phase \notin {"idle", "done", "failed"}
  <2> DEFINE ends == IF p = None THEN FALSE ELSE live /\ ~p.endPosted /\ p.arm = "ok"
  <2> DEFINE told == [k |-> "end", id |-> p.id, outcome |-> "abandoned"]
  <2>1. /\ Alive /\ cfg' = cfg /\ unmounted' = unmounted
        /\ Become(IF ends THEN [d EXCEPT !.m.pass.endPosted = TRUE, !.wire = Append(d.wire, told)] ELSE d)
    BY <1>8 DEF PageHide
  <2>2. c \in Context /\ c.m = m /\ c.net = net /\ c.wire = wire
    BY <1>1, <2>1, NowIs, HasPass, Aborts DEF Good, InPass, Alive
  <2> HIDE DEF c
  <2>3. s \in Machine /\ n \in SUBSET Request /\ s.pass = p /\ s.disposed
        /\ s.phase = m.phase /\ s.passes = m.passes /\ s.arms = m.arms /\ s.lastOutcome = m.lastOutcome
    BY <2>2 DEF Context, Machine
  <2> HIDE DEF s
  <2>4. d \in Context /\ d.m = s /\ d.net = n /\ d.wire = wire
    BY <2>2, <2>3 DEF Context
  <2>5. n \subseteq net /\ \A r \in n : r.k = "arm"
    BY <2>2
  <2> HIDE DEF d, n
  <2>6. Staged(d.m)
    BY <1>1, <2>3, <2>4 DEF Good, Staged
  <2>7. Sockets(d) /\ Live(d)
    BY <2>3, <2>4 DEF Sockets, Live
  <2>8. Asked(d)
    BY <1>1, <2>4, <2>5, NowIs DEF Good, Asked
  <2>9. Booked(d)
    BY <1>1, <2>3, <2>4, <2>5, NowIs, BookedKept DEF Good
  <2>10. Leads(Now, d)
    BY <1>1, <2>3, <2>4, <2>6, <2>7, <2>8, <2>9, NowIs, Ranks DEF Leads, Good, Moves
  <2>11. CASE ~ends
    BY <1>1, <2>1, <2>10, <2>11, Becoming
  <2>12. CASE ends
    <3> DEFINE e == [d EXCEPT !.m.pass.endPosted = TRUE]
    <3> DEFINE w == Append(d.wire, told)
    <3> DEFINE f == [e EXCEPT !.wire = w]
    <3>1. InPass(d) /\ ~p.endPosted /\ p.arm = "ok" /\ p.id \in Ids /\ p.id <= m.arms
      BY <1>1, <2>3, <2>4, <2>12, HasPass, PassIds DEF InPass, Good, Staged
    <3>2. InPass(e)
      BY <3>1, PostedSet
    <3>3. /\ e.m.phase = d.m.phase /\ e.m.passes = d.m.passes /\ e.m.arms = d.m.arms
          /\ e.m.disposed = d.m.disposed /\ e.net = d.net /\ e.sock = d.sock /\ e.wire = d.wire
          /\ e.m.pass.id = p.id /\ e.m.pass.arm = p.arm /\ e.m.pass.va = p.va
          /\ e.m.pass.closing = p.closing /\ e.m.pass.endPosted
      BY <2>3, <2>4, <3>1 DEF InPass, Context, Machine, Pass
    <3>4. Become(f)
      BY <2>1, <2>12, <3>1 DEF Become, InPass, Context
    <3>5. told \in Told /\ told.k = "end" /\ told.id = p.id
      BY <3>1 DEF Told, Outcomes
    <3>6. d.wire \in Seq(Told)
      BY <2>4 DEF Context
    <3> HIDE DEF e, told
    <3>7. /\ w \in Seq(Told) /\ Len(wire) \in Nat /\ Len(w) = Len(wire) + 1 /\ w[Len(wire) + 1] = told
          /\ \A i \in 1..Len(wire) : w[i] = wire[i]
          /\ \A i \in 1..Len(w) : i \in 1..Len(wire) \/ i = Len(wire) + 1
      BY <2>4, <3>5, <3>6, Appends
    <3> HIDE DEF w
    <3>8. f \in Context /\ f.m = e.m /\ f.net = e.net /\ f.sock = e.sock /\ f.wire = w
      BY <3>2, <3>7 DEF InPass, Context
    <3> HIDE DEF f
    <3>9. InPass(f) /\ f.m.pass # None
      BY <3>2, <3>8, PassIds DEF InPass
    <3>10. Staged(f.m)
      BY <1>1, <2>3, <2>4, <2>6, <3>1, <3>3, <3>8, <3>9, PassIds DEF Staged
    <3>11. Sockets(f) /\ Live(f) /\ Asked(f)
      BY <2>3, <2>4, <2>8, <3>3, <3>8, AskedKept DEF Sockets, Live
    <3>12. \A i \in 1..Len(wire) : wire[i].k = "end" => EndHeard(Now, i) /\ wire[i].id # p.id
      BY <1>1, <3>1, HasPass, NowIs, NoEndYet, <2>12 DEF Good, Booked
    <3>13. ASSUME NEW i \in 1..Len(f.wire), f.wire[i].k = "end" PROVE EndHeard(f, i)
      <4>1. CASE i = Len(wire) + 1
        <5>1. Posted(f.m, f.wire[i].id)
          BY <2>3, <2>4, <3>1, <3>3, <3>5, <3>7, <3>8, <4>1 DEF Posted
        <5>2. \A r \in f.net : r.k # "closed"
          BY <2>4, <2>5, <3>3, <3>8
        <5>3. ASSUME NEW j \in 1..Len(f.wire), f.wire[j].id = f.wire[i].id
              PROVE  (f.wire[j].k = "end" => j = i) /\ (f.wire[j].k = "closed" => j < i)
          BY <3>5, <3>7, <3>8, <3>12, <4>1, <5>3
        <5> QED
          BY <5>1, <5>2, <5>3 DEF EndHeard
      <4>2. CASE i \in 1..Len(wire)
        <5>1. EndHeard(Now, i) /\ wire[i].id # p.id /\ f.wire[i] = wire[i]
          BY <3>7, <3>8, <3>12, <3>13, <4>2
        <5>2. Posted(f.m, f.wire[i].id)
          BY <2>3, <2>4, <3>3, <3>8, <5>1, NowIs DEF EndHeard, Posted
        <5>3. \A r \in f.net : r.k # "closed"
          BY <2>4, <2>5, <3>3, <3>8
        <5>4. ASSUME NEW j \in 1..Len(f.wire), f.wire[j].id = f.wire[i].id
              PROVE  (f.wire[j].k = "end" => j = i) /\ (f.wire[j].k = "closed" => j < i)
          BY <3>5, <3>7, <3>8, <4>2, <5>1, <5>4, NowIs DEF EndHeard
        <5> QED
          BY <5>2, <5>3, <5>4 DEF EndHeard
      <4> QED
        BY <3>7, <3>8, <4>1, <4>2
    <3>14. Booked(f)
      <4>1. \A r \in f.net : r.k # "end"
        BY <2>4, <2>5, <3>3, <3>8
      <4> QED
        BY <3>13, <4>1 DEF Booked
    <3>15. Moves(m, f.m)
      BY <1>1, <2>3, <2>4, <3>3, <3>8, Ranks DEF Moves
    <3>16. Leads(Now, f)
      BY <1>1, <3>8, <3>10, <3>11, <3>14, <3>15 DEF Leads, Good
    <3> QED
      BY <1>1, <2>1, <3>4, <3>16, Becoming
  <2> QED
    BY <2>11, <2>12
<1> QED
  BY <1>2, <1>3, <1>4, <1>5, <1>6, <1>7, <1>8 DEF Visitor

\* A deadline of the phase, of the session, or both in one tick.
LEMMA TimerSteps ==
  ASSUME MachInv, Timer
  PROVE  StepOK
<1>1. Good(Now) /\ Now.m = m /\ unmounted \in BOOLEAN /\ Leads(Now, Now)
  BY NowIs, Stutters DEF MachInv, TypeOK
<1>2. PICK duePhase, dueVa, open \in BOOLEAN : Tick(duePhase, dueVa, open)
  BY DEF Timer
<1> DEFINE c == IF duePhase THEN TickPhase(Now, open) ELSE Now
<1>3. /\ ~Now.m.disposed /\ Now.m.pass # None /\ cfg' = cfg /\ unmounted' = unmounted
      /\ duePhase => PhaseDeadline
      /\ Become(IF dueVa /\ VaDeadline(c) /\ c.m.pass.va = m.pass.va THEN VaTimeout(c) ELSE c)
  BY <1>1, <1>2 DEF Tick, Alive
<1>4. Leads(Now, c) /\ ~c.m.disposed
  BY <1>1, <1>3, TickPhaseLeads DEF PhaseDeadline
<1> HIDE DEF c
<1>5. VaDeadline(c) => Leads(Now, VaTimeout(c))
  BY <1>1, <1>3, <1>4, BothLead
<1> QED
  BY <1>1, <1>3, <1>4, <1>5, Becoming

\* What the server gets: the report of a session, or the end of a pass.
LEMMA WireSteps ==
  ASSUME MachInv, NEW r \in net, ReportAnswered(r) \/ EndSent(r)
  PROVE  StepOK
<1> DEFINE e == [k |-> r.k, id |-> r.id, outcome |-> IF r.k = "closed" THEN None ELSE r.outcome]
<1> DEFINE w == Append(wire, e)
<1> DEFINE d == [m |-> m, net |-> net \ {r}, sock |-> sock, wire |-> w]
<1>1. Good(Now) /\ Now \in Context /\ unmounted \in BOOLEAN
  BY NowIs DEF MachInv, TypeOK
<1>2. /\ r.k \in {"closed", "end"}
      /\ r.k = "end" => Req("closed", r.id, 0) \notin net
      /\ cfg' = cfg /\ unmounted' = unmounted /\ Become(d)
  BY DEF ReportAnswered, EndSent, Become
<1>3. r \in Request /\ r.id \in Ids
  <2>1. net \in SUBSET Request
    BY <1>1, NowIs DEF Context
  <2>2. Asked(Now) /\ Now.net = net
    BY <1>1, NowIs DEF Good
  <2> QED
    BY <1>2, <2>1, <2>2 DEF Asked
<1>4. e \in Told /\ e.k = r.k /\ e.id = r.id
  <2>1. r.outcome \in Outcomes \cup {None}
    BY <1>3 DEF Request
  <2> QED
    BY <1>2, <1>3, <2>1 DEF Told
<1>5. wire \in Seq(Told)
  BY <1>1, NowIs DEF Context
<1> HIDE DEF e
<1>6. /\ w \in Seq(Told) /\ Len(wire) \in Nat /\ Len(w) = Len(wire) + 1 /\ w[Len(wire) + 1] = e
      /\ \A i \in 1..Len(wire) : w[i] = wire[i]
      /\ \A i \in 1..Len(w) : i \in 1..Len(wire) \/ i = Len(wire) + 1
  BY <1>4, <1>5, Appends
<1> HIDE DEF w
<1>7. d \in Context /\ d.m = m /\ d.net = net \ {r} /\ d.sock = sock /\ d.wire = w
  BY <1>1, <1>6, NowIs DEF Context
<1> HIDE DEF d
<1>8. Staged(d.m) /\ Sockets(d) /\ Live(d) /\ Asked(d) /\ Moves(m, d.m)
  BY <1>1, <1>7, NowIs, SocketsKept, AskedKept, Ranks DEF Good, Live, Current, Moves
<1>9. \A id : Posted(Now.m, id) => Posted(d.m, id)
  BY <1>7, NowIs
<1>10. r.k = "end" => EndAsked(Now, r)
  BY <1>1, NowIs DEF Good, Booked
<1>11. ASSUME NEW q \in d.net, q.k = "end" PROVE EndAsked(d, q)
  <2>1. q \in net /\ q # r /\ EndAsked(Now, q)
    BY <1>1, <1>7, <1>11, NowIs DEF Good, Booked
  <2>2. r.k = "end" => q.id # r.id
    BY <1>10, <1>11, <2>1, NowIs DEF EndAsked
  <2>3. \A i \in 1..Len(d.wire) : d.wire[i].k = "end" => d.wire[i].id # q.id
    BY <1>4, <1>6, <1>7, <2>1, <2>2, NowIs DEF EndAsked
  <2> QED
    BY <1>7, <2>1, <2>3, NowIs DEF EndAsked, Posted
<1>12. ASSUME NEW i \in 1..Len(d.wire), d.wire[i].k = "end" PROVE EndHeard(d, i)
  <2>1. CASE i \in 1..Len(wire)
    <3>1. EndHeard(Now, i) /\ d.wire[i] = wire[i]
      BY <1>1, <1>6, <1>7, <1>12, <2>1, NowIs DEF Good, Booked
    <3>2. e.id # wire[i].id
      <4>1. wire[i].k = "end"
        BY <1>12, <3>1
      <4>2. CASE r.k = "end"
        BY <1>4, <1>10, <2>1, <4>1, <4>2, NowIs DEF EndAsked
      <4>3. CASE r.k = "closed"
        BY <1>4, <3>1, <4>3, NowIs DEF EndHeard
      <4> QED
        BY <1>2, <4>2, <4>3
    <3>3. ASSUME NEW j \in 1..Len(d.wire), d.wire[j].id = d.wire[i].id
          PROVE  (d.wire[j].k = "end" => j = i) /\ (d.wire[j].k = "closed" => j < i)
      BY <1>6, <1>7, <3>1, <3>2, <3>3, NowIs DEF EndHeard
    <3>4. \A q \in d.net : q.k = "closed" => q.id # d.wire[i].id
      BY <1>7, <3>1, NowIs DEF EndHeard
    <3>5. Posted(d.m, d.wire[i].id)
      BY <1>9, <3>1, NowIs DEF EndHeard
    <3> QED
      BY <3>3, <3>4, <3>5 DEF EndHeard
  <2>2. CASE i = Len(wire) + 1
    <3>1. r.k = "end" /\ d.wire[i].id = r.id /\ EndAsked(Now, r)
      BY <1>4, <1>6, <1>7, <1>10, <1>12, <2>2
    <3>2. \A q \in d.net : q.k = "closed" => q.id # d.wire[i].id
      <4>1. \A q \in net : q.k = "closed" => q = Req("closed", q.id, 0)
        BY <1>1, NowIs DEF Good, Asked
      <4> QED
        BY <1>2, <1>7, <3>1, <4>1
    <3>3. \A j \in 1..Len(wire) : wire[j].k = "end" => wire[j].id # r.id
      BY <3>1, NowIs DEF EndAsked
    <3>4. ASSUME NEW j \in 1..Len(d.wire), d.wire[j].id = d.wire[i].id
          PROVE  (d.wire[j].k = "end" => j = i) /\ (d.wire[j].k = "closed" => j < i)
      BY <1>6, <1>7, <1>12, <2>2, <3>1, <3>3, <3>4
    <3>5. Posted(d.m, d.wire[i].id)
      BY <1>9, <3>1, NowIs DEF EndAsked
    <3> QED
      BY <3>2, <3>4, <3>5 DEF EndHeard
  <2> QED
    BY <1>6, <1>7, <2>1, <2>2
<1>13. Leads(Now, d)
  BY <1>7, <1>8, <1>11, <1>12, NowIs DEF Leads, Good, Booked
<1> QED
  BY <1>1, <1>2, <1>13, Becoming

\* The clip of the line tells how far the rep is: it may be time to start.
LEMMA ClipLeads ==
  ASSUME NEW c, Good(c), ~c.m.disposed, c.m.pass # None, NEW early \in BOOLEAN
  PROVE  Leads(c, MaybeStart([c EXCEPT !.m.pass.lineKnown = TRUE], early))
<1> DEFINE d == [c EXCEPT !.m.pass.lineKnown = TRUE]
<1>1. InPass(c)
  BY HasPass DEF Good
<1>2. Leads(c, d) /\ InPass(d) /\ SameView(c, d)
  BY <1>1, LineLeads
<1> HIDE DEF d
<1>3. Good(d) /\ d.m.pass # None /\ ~d.m.disposed
  BY <1>2, PassIds DEF Leads, SameView
<1>4. Leads(d, MaybeStart(d, early))
  BY <1>3, MaybeStartLeads
<1>5. CASE c.m.pass.va.status = "audible"
  <2>1. d.m.phase \notin {"connecting", "retrying"}
    BY <1>2, <1>5 DEF Good, Staged, SameView
  <2> QED
    BY <1>2, <2>1 DEF MaybeStart, d
<1>6. CASE c.m.pass.va.status # "audible"
  BY <1>2, <1>3, <1>4, <1>6, Chains DEF SameView, d
<1> QED
  BY <1>5, <1>6

\* The answers, taken out of the requests under way in any order.
LEMMA AnswerSteps ==
  ASSUME MachInv, Answer
  PROVE  StepOK
<1>1. Good(Now) /\ Now.m = m /\ Now.net = net /\ Now.sock = sock /\ unmounted \in BOOLEAN
  BY NowIs DEF MachInv, TypeOK
<1>2. ASSUME NEW r \in net
      PROVE  LET a == Without(Now, r) IN Good(a) /\ Leads(Now, a) /\ a.m = m /\ a.sock = sock
  BY <1>1, Taken DEF Leads
<1>3. ASSUME NEW d, NEW e, d.m = m, Leads(d, e) PROVE Leads(Now, e)
  BY <1>1, <1>3 DEF Leads
<1>4. ASSUME NEW r \in net PROVE r.att \in Attempts
  BY <1>1, <1>4 DEF Good, Context, Request
<1>5. CASE ArmAnswer
  <2>1. PICK r \in net, ok \in BOOLEAN : ArmAnswered(r, ok)
    BY <1>5 DEF ArmAnswer
  <2> DEFINE a == Without(Now, r)
  <2>2. /\ cfg' = cfg /\ unmounted' = unmounted
        /\ Become(IF ~Alive THEN a ELSE IF ok THEN OnArmOk(a) ELSE OnArmFailed(a))
    BY <2>1 DEF ArmAnswered
  <2>3. Good(a) /\ Leads(Now, a) /\ a.m = m
    BY <1>2
  <2> HIDE DEF a
  <2>4. Alive => Leads(Now, OnArmOk(a)) /\ Leads(Now, OnArmFailed(a))
    BY <1>3, <2>3, OnArmOkLeads, OnArmFailedLeads DEF Alive
  <2> QED
    BY <1>1, <2>2, <2>3, <2>4, Becoming
<1>6. ASSUME NEW r \in net, NEW ok \in BOOLEAN, NEW b \in BOOLEAN, MintAnswered(r, ok, b)
      PROVE  StepOK
  <2> DEFINE a == Without(Now, r)
  <2>1. /\ Alive /\ cfg' = cfg /\ unmounted' = unmounted
        /\ Become(IF ok THEN VaToken(a, r.att) ELSE VaFailure(a, r.att, b))
    BY <1>6 DEF MintAnswered
  <2>2. Good(a) /\ a.m = m /\ r.att \in Attempts
    BY <1>2, <1>4
  <2> HIDE DEF a
  <2>3. Leads(Now, VaToken(a, r.att)) /\ Leads(Now, VaFailure(a, r.att, b))
    BY <1>3, <2>1, <2>2, VaTokenLeads, VaFailureLeads DEF Alive
  <2> QED
    BY <1>1, <2>1, <2>3, Becoming
<1>7. ASSUME NEW r \in net, NEW early \in BOOLEAN, Connects(r, early)
      PROVE  StepOK
  <2> DEFINE x == <<r.id, r.att>>
  <2> DEFINE st == IF sock[x] = "connecting" THEN "open" ELSE "orphan"
  <2> DEFINE a == [Without(Now, r) EXCEPT !.sock[x] = st]
  <2>1. Without(Now, r).sock = sock
    BY <1>2
  <2>2. /\ r.k = "connect" /\ cfg' = cfg /\ unmounted' = unmounted /\ ~m.disposed
        /\ Become(IF Alive THEN VaOpen(a, r.att, early) ELSE a)
    BY <1>7, <2>1 DEF Connects
  <2>3. st \in {"open", "orphan"} /\ (st = "open" => Now.sock[x] = "connecting") /\ r \in Now.net
    BY <1>1
  <2> HIDE DEF st
  <2>4. Leads(Now, a) /\ a.m = m /\ r.att \in Attempts
    BY <1>1, <1>4, <2>2, <2>3, SocketAnswered
  <2> HIDE DEF a
  <2>5. Leads(Now, VaOpen(a, r.att, early))
    BY <1>3, <2>2, <2>4, VaOpenLeads DEF Leads
  <2> QED
    BY <1>1, <2>2, <2>4, <2>5, Becoming
<1>8. ASSUME NEW r \in net, ConnectFails(r)
      PROVE  StepOK
  <2> DEFINE x == <<r.id, r.att>>
  <2> DEFINE a == [Without(Now, r) EXCEPT !.sock[x] = "gone"]
  <2>1. /\ r.k = "connect" /\ cfg' = cfg /\ unmounted' = unmounted /\ ~m.disposed
        /\ Become(IF Alive THEN VaFailure(a, r.att, TRUE) ELSE a)
    BY <1>8 DEF ConnectFails
  <2>2. Leads(Now, a) /\ a.m = m /\ r.att \in Attempts
    BY <1>1, <1>4, <2>1, SocketAnswered
  <2> HIDE DEF a
  <2>3. Leads(Now, VaFailure(a, r.att, TRUE))
    BY <1>3, <2>1, <2>2, VaFailureLeads DEF Leads
  <2> QED
    BY <1>1, <2>1, <2>2, <2>3, Becoming
<1>9. ASSUME NEW r \in net, FailureAnswered(r)
      PROVE  StepOK
  <2> DEFINE a == Without(Now, r)
  <2>1. Leads(Now, a)
    BY <1>2
  <2>2. Become(a) /\ cfg' = cfg /\ unmounted' = unmounted
    BY <1>1, <1>9, Taken, NowIs DEF FailureAnswered, Become
  <2> QED
    BY <1>1, <2>1, <2>2, Becoming
<1>10. ASSUME NEW r \in net, NEW ok \in BOOLEAN, NEW early \in BOOLEAN, Answered(r, ok, early),
              r.k \in {"start", "clip", "drain", "compile", "local", "repback", "recorded"}
       PROVE  StepOK
  <2> DEFINE a == Without(Now, r)
  <2> DEFINE b == [a EXCEPT !.m.pass.lineKnown = TRUE]
  <2>1. /\ Alive /\ cfg' = cfg /\ unmounted' = unmounted
        /\ Become(CASE r.k = "start" -> VaFailure(a, r.att, TRUE)
                    [] r.k = "clip" -> IF m.pass = None THEN a
                                       ELSE IF m.pass.lineKnown THEN a ELSE MaybeStart(b, early)
                    [] r.k = "drain" -> Drained(a)
                    [] r.k = "compile" -> IF ok THEN Compiled(a, early) ELSE ServerCompileFailed(a)
                    [] r.k = "local" -> IF ok THEN Compiled(a, early) ELSE LocalCompileFailed(a)
                    [] r.k = "repback" -> RepBackDone(a)
                    [] r.k = "recorded" -> IF m.phase = "fallback" THEN Enter(a, "done") ELSE a)
    BY <1>10 DEF Answered
  <2>2. Good(a) /\ Leads(Now, a) /\ a.m = m /\ r.att \in Attempts /\ ~a.m.disposed
    BY <1>2, <1>4, <2>1 DEF Alive
  <2> HIDE DEF a
  <2>3. m.pass # None => Leads(Now, MaybeStart(b, early))
    BY <1>3, <2>2, ClipLeads
  <2> HIDE DEF b
  <2>4. /\ Leads(Now, VaFailure(a, r.att, TRUE)) /\ Leads(Now, Drained(a)) /\ Leads(Now, Compiled(a, early))
        /\ Leads(Now, ServerCompileFailed(a)) /\ Leads(Now, LocalCompileFailed(a))
        /\ Leads(Now, RepBackDone(a))
    BY <1>3, <2>2, VaFailureLeads, DrainedLeads, CompiledLeads, CompileFailedLeads, RepBackDoneLeads
  <2>5. m.phase = "fallback" => Leads(Now, Enter(a, "done"))
    BY <1>3, <2>2, RecordedOver
  <2> QED
    BY <1>1, <1>10, <2>1, <2>2, <2>3, <2>4, <2>5, Becoming
<1> QED
  BY <1>5, <1>6, <1>7, <1>8, <1>9, <1>10, WireSteps DEF Answer

\* The tools of the AI half go on in a session that is up.
LEMMA TalkLeads ==
  ASSUME NEW c, Good(c), ~c.m.disposed, c.m.phase \in {"active", "paying"}, NEW ph \in {"active", "paying"}
  PROVE  Leads(c, Enter(c, ph))
<1> DEFINE d == Enter(c, ph)
<1>1. InPass(c) /\ c \in Context /\ ph \in Phases
  BY HasPass DEF Good, Staged, Phases
<1>2. InPass(d)
  BY <1>1, PhaseSet
<1>3. /\ d.m.phase = ph /\ d.m.passes = c.m.passes /\ d.m.arms = c.m.arms
      /\ d.m.disposed = c.m.disposed /\ d.net = c.net /\ d.sock = c.sock /\ d.wire = c.wire
      /\ d.m.pass = c.m.pass /\ d.m.lastOutcome = c.m.lastOutcome
  BY <1>1 DEF Enter, Context, Machine
<1> HIDE DEF d
<1>4. Staged(d.m) /\ Asked(d)
  BY <1>1, <1>3, AskedKept DEF Good, Staged, Over
<1>5. Rank(c.m.phase) <= Rank(d.m.phase) /\ c.sock[Current(c)] = "ready"
  BY <1>3 DEF Rank, Good, Live
<1>6. Leads(c, d)
  BY <1>1, <1>2, <1>3, <1>4, <1>5, Keeps DEF Over
<1> QED
  BY <1>6 DEF d

\* A socket that is not started yet drops, and nobody sees it.
LEMMA DropLeads ==
  ASSUME NEW c, Good(c), NEW x \in Ids \X Attempts, c.sock[x] = "open"
  PROVE  LET d == [c EXCEPT !.sock[x] = "gone"] IN Leads(c, d) /\ d.m = c.m
<1> DEFINE d == [c EXCEPT !.sock[x] = "gone"]
<1>1. c \in Context /\ c.sock \in [Ids \X Attempts -> SocketStates]
  BY DEF Good, Context
<1>2. d \in Context /\ d.m = c.m /\ d.net = c.net /\ d.wire = c.wire /\ d.sock = [c.sock EXCEPT ![x] = "gone"]
  <2>1. d \in Context
    BY <1>1, SockSet DEF SocketStates
  <2> QED
    BY <1>1, <2>1 DEF Context
<1> HIDE DEF d
<1>3. Sockets(d)
  <2>1. \A y \in Ids \X Attempts : d.sock[y] \in InUse => c.sock[y] \in InUse
    BY <1>1, <1>2 DEF InUse
  <2> QED
    BY <1>2, <2>1 DEF Good, Sockets, Current
<1>4. Live(d)
  <2>1. ASSUME ~d.m.disposed, d.m.phase \in {"active", "paying"} PROVE d.sock[Current(d)] = "ready"
    <3>1. c.sock[Current(c)] = "ready" /\ Current(d) = Current(c) /\ Current(c) # x
      BY <1>2, <2>1 DEF Good, Live, Current
    <3>2. Current(c) \in Ids \X Attempts
      BY <1>2, <2>1, HasPass, PassIds DEF Good, Staged
    <3> QED
      BY <1>1, <1>2, <3>1, <3>2
  <2> QED
    BY <2>1 DEF Live
<1>5. Asked(d)
  <2>1. \A y : c.sock[y] \notin {"open", "started", "ready"} => d.sock[y] \notin {"open", "started", "ready"}
    BY <1>1, <1>2
  <2> QED
    BY <1>2, <2>1 DEF Good, Asked
<1>6. Staged(d.m) /\ Booked(d) /\ Moves(c.m, d.m)
  BY <1>2, BookedKept, Ranks DEF Good, Moves
<1> QED
  BY <1>2, <1>3, <1>4, <1>5, <1>6 DEF Leads, Good, d

\* The session of the current attempt is accepted.
LEMMA AcceptLeads ==
  ASSUME NEW c, Good(c), ~c.m.disposed, NEW x \in Ids \X Attempts, c.sock[x] = "started"
  PROVE  Leads(c, VaReady([c EXCEPT !.sock[x] = "ready"], x[2]))
<1> DEFINE d == [c EXCEPT !.sock[x] = "ready"]
<1>1. c.m.pass # None /\ x = Current(c) /\ c.m.pass.va.status \in Connected
  BY DEF Good, Sockets, InUse
<1>2. InPass(c) /\ x[2] \in Attempts
  BY <1>1, HasPass DEF Good
<1>3. c.m.phase \notin {"active", "paying"}
  BY <1>1 DEF Good, Live
<1>4. Good(d) /\ d.m = c.m
  BY <1>1, <1>2, <1>3, SockMoves
<1> HIDE DEF d
<1>5. Leads(d, VaReady(d, x[2]))
  BY <1>2, <1>4, VaReadyLeads
<1> QED
  BY <1>4, <1>5 DEF Leads, d

\* What the sessions do by themselves.
LEMMA SessionSteps ==
  ASSUME MachInv, Session
  PROVE  StepOK
<1>1. Good(Now) /\ Now.m = m /\ Now.sock = sock /\ unmounted \in BOOLEAN
  BY NowIs DEF MachInv, TypeOK
<1>2. PICK x \in Ids \X Attempts :
        \/ SessionReady(x) \/ GreetingPlays(x) \/ SessionTalks(x) \/ SocketDrops(x)
        \/ \E retryable \in BOOLEAN : SessionFails(x, retryable)
        \/ \E why \in {"cap", "left", "closed"} : SessionEnds(x, why)
  BY DEF Session
<1>3. x[2] \in Attempts
  OBVIOUS
<1>4. CASE SessionReady(x)
  BY <1>1, <1>4, AcceptLeads, Becoming DEF SessionReady, Alive
<1>5. CASE GreetingPlays(x)
  BY <1>1, <1>5, VaAudibleLeads, Becoming DEF GreetingPlays, Alive
<1>6. CASE SessionTalks(x)
  <2>1. ~Now.m.disposed /\ Now.m.phase \in {"active", "paying"} /\ cfg' = cfg /\ unmounted' = unmounted
    BY <1>1, <1>6 DEF SessionTalks, Alive
  <2>2. Leads(Now, Enter(Now, "active")) /\ Leads(Now, Enter(Now, "paying"))
    BY <1>1, <2>1, TalkLeads
  <2>3. Leads(Now, StartClosing(Now, "completed", FALSE)) /\ Leads(Now, StartClosing(Now, "handed_back", TRUE))
    BY <1>1, <2>1, StartClosingLeads DEF Outcomes
  <2> QED
    BY <1>1, <1>6, <2>1, <2>2, <2>3, Becoming DEF SessionTalks
<1>7. CASE SocketDrops(x)
  <2> DEFINE d == [Now EXCEPT !.sock[x] = "gone"]
  <2>1. sock[x] = "open" /\ cfg' = cfg /\ unmounted' = unmounted
    BY <1>7 DEF SocketDrops
  <2>2. Leads(Now, d)
    BY <1>1, <2>1, DropLeads
  <2>3. Become(d)
    BY <1>7 DEF SocketDrops, Become, Now
  <2> QED
    BY <1>1, <2>1, <2>2, <2>3, Becoming
<1>8. CASE \E retryable \in BOOLEAN : SessionFails(x, retryable)
  BY <1>1, <1>3, <1>8, VaFailureLeads, Becoming DEF SessionFails, Alive
<1>9. CASE \E why \in {"cap", "left", "closed"} : SessionEnds(x, why)
  <2>1. PICK why \in {"cap", "left", "closed"} : SessionEnds(x, why)
    BY <1>9
  <2>2. /\ ~Now.m.disposed /\ Now.sock[x] \in {"started", "ready"} /\ cfg' = cfg /\ unmounted' = unmounted
        /\ Become(VaEnded([Now EXCEPT !.sock[x] = "gone"], x[2], why))
    BY <1>1, <2>1 DEF SessionEnds, Alive
  <2>3. Leads(Now, VaEnded([Now EXCEPT !.sock[x] = "gone"], x[2], why))
    BY <1>1, <2>2, VaEndedLeads
  <2> QED
    BY <1>1, <2>2, <2>3, Becoming
<1> QED
  BY <1>2, <1>4, <1>5, <1>6, <1>7, <1>8, <1>9

-----------------------------------------------------------------------------
(* The theorems *)

LEMMA MachStart ==
  ASSUME Init
  PROVE  MachInv
<1>1. TypeOK
  <2>1. m \in Machine
    BY MachineAssumption DEF Init, Machine, Phases
  <2>2. sock \in [Ids \X Attempts -> SocketStates]
    BY DEF Init, SocketStates
  <2>3. wire \in Seq(Told)
    BY DEF Init
  <2> QED
    BY <2>1, <2>2, <2>3 DEF Init, TypeOK
<1>2. Now \in Context /\ Now.m = m /\ Now.net = net /\ Now.sock = sock /\ Now.wire = wire
  BY <1>1, NowIs
<1>3. m.pass = None /\ m.phase = "idle" /\ net = {} /\ wire = <<>> /\ \A x \in Ids \X Attempts : sock[x] = "none"
  BY DEF Init
<1> QED
  BY <1>1, <1>2, <1>3 DEF MachInv, Good, Staged, Sockets, Live, Asked, Booked, InUse

LEMMA MachStep ==
  ASSUME MachInv, [Next]_vars
  PROVE  MachInv' /\ Moves(m, m')
<1>1. CASE Next
  <2>1. StepOK
    BY <1>1, VisitorSteps, TimerSteps, AnswerSteps, SessionSteps DEF Next
  <2>2. TypeOK'
    <3>1. Now' \in Context
      BY <2>1 DEF StepOK, Good
    <3>2. cfg' \in Configs /\ unmounted' \in BOOLEAN
      BY <2>1 DEF StepOK, MachInv, TypeOK
    <3> QED
      BY <3>1, <3>2 DEF Now, Context, TypeOK
  <2> QED
    BY <2>1, <2>2 DEF StepOK, MachInv
<1>2. CASE UNCHANGED vars
  <2>1. MachInv'
    BY <1>2 DEF vars, MachInv, TypeOK, Now, Good, Staged, Sockets, Live, Asked, Booked, EndAsked, EndHeard, Posted,
       Current, Context
  <2>2. Moves(m, m')
    BY <1>2, Ranks DEF vars, Moves
  <2> QED
    BY <2>1, <2>2
<1> QED
  BY <1>1, <1>2

LEMMA MachAlways == Spec => [](MachInv)
<1>1. Init => MachInv
  BY MachStart
<1>2. MachInv /\ [Next]_vars => MachInv'
  BY MachStep
<1> QED
  BY <1>1, <1>2, PTL DEF Spec

\* However the answers of the server, the sockets and the sessions interleave with
\* the visitor and the timer: no socket is in use but the one of the attempt the
\* machine talks to, the page shows the AI half as live only while its session is
\* up, and the server hears of the end of a pass at most once.
THEOREM Sound == Spec => []MachineSound
<1>1. MachInv => MachineSound
  <2> SUFFICES ASSUME MachInv PROVE MachineSound
    OBVIOUS
  <2>1. Good(Now) /\ TypeOK
    BY DEF MachInv
  <2>2. OneSocket
    BY <2>1, NowIs DEF Good, Sockets, InUse, OneSocket
  <2>3. ActiveHasSession
    BY <2>1, NowIs DEF Good, Live, ActiveHasSession, Alive
  <2>4. EndsOnce
    BY <2>1, NowIs DEF Good, Booked, EndHeard, EndsOnce
  <2> QED
    BY <2>1, <2>2, <2>3, <2>4 DEF MachineSound
<1> QED
  BY <1>1, MachAlways, PTL

\* The end on its way to the server tells the outcome the page shows, whichever of
\* the failures, the hand-back and the visitor ended the pass.
THEOREM Tells == Spec => []OutcomeTold
<1>1. MachInv => OutcomeTold
  BY NowIs DEF MachInv, Good, Booked, EndAsked, OutcomeTold
<1> QED
  BY <1>1, MachAlways, PTL

\* No session reports its seconds after the end of its pass has reached the server.
THEOREM Settled == Spec => []SettledBeforeEnd
<1>1. MachInv => SettledBeforeEnd
  <2> SUFFICES ASSUME MachInv,
                      NEW i \in 1..Len(wire), NEW j \in 1..Len(wire),
                      i < j, wire[i].k = "end", wire[j].k = "closed"
               PROVE  wire[i].id # wire[j].id
    BY DEF SettledBeforeEnd
  <2>1. EndHeard(Now, i)
    BY NowIs DEF MachInv, Good, Booked
  <2> QED
    BY <2>1, NowIs DEF EndHeard
<1> QED
  BY <1>1, MachAlways, PTL

\* No step of a pass moves it back, follows a greeting that was heard with a second
\* session, or finishes it without asking for its end.
THEOREM Onwards == Spec => PassSteps
<1>1. MachInv /\ [Next]_vars =>
        /\ [SamePass => Rank(m.phase) <= Rank(m'.phase)]_vars
        /\ [SamePass /\ m.pass.va.status = "audible" => m'.pass.va.attempt = m.pass.va.attempt]_vars
        /\ [SamePass /\ m.phase \notin Over /\ m'.phase \in Over /\ m.pass.arm = "ok"
               => m'.pass.endPosted]_vars
  <2> SUFFICES ASSUME MachInv, [Next]_vars, SamePass
               PROVE  /\ Rank(m.phase) <= Rank(m'.phase)
                      /\ m.pass.va.status = "audible" => m'.pass.va.attempt = m.pass.va.attempt
                      /\ m.phase \notin Over /\ m'.phase \in Over /\ m.pass.arm = "ok" => m'.pass.endPosted
    OBVIOUS
  <2>1. Moves(m, m')
    BY MachStep
  <2>2. m.pass.id \in Nat
    BY HasPass, PassIds, NowIs DEF MachInv, Good, SamePass, Ids
  <2> QED
    BY <2>1, <2>2 DEF Moves, SamePass
<1> QED
  BY <1>1, MachAlways, PTL DEF Spec, PassSteps, PhasesAdvance, NoSecondGreeting, FinishPosts
=============================================================================
