--------------------------- MODULE PayFlowProofs ---------------------------
(***************************************************************************)
(* Proofs about PayFlow, for any number of pay-link calls: the types, that *)
(* nothing is paid or confirmed before the money, that results never move  *)
(* back, and that what the page was told stays true.                       *)
(***************************************************************************)
EXTENDS PayFlow, SequenceTheorems, TLAPS

\* A call makes its checkout once, before which Polar knows nothing of it.
CallsAlong ==
  \A c \in Calls :
    /\ calls[c].pc \in {"idle", "create"} => polar[c].status = "none"
    /\ calls[c].pc \in {"create", "patch", "open", "check", "recheck", "fallback"} => calls[c].pay = c
    /\ calls[c].pc \in {"patch", "open", "check", "recheck"} => polar[c].status # "none"
    /\ calls[c].pc = "answer" => calls[c].pay \in Calls

\* A row that was not inserted is not moved, and a stored checkout exists.
RowsReal ==
  \A p \in Calls :
    /\ ~Exists(p) => pay[p].status = "none"
    /\ pay[p].checkout => polar[p].status # "none"

\* A poll asks about a checkout that exists, and a result it carries has happened.
PollRight ==
  /\ poll.pc # "idle" => poll.pay \in Calls
  /\ poll.pc # "idle" /\ ~poll.old => poll.pay = watch.pay
  /\ poll.pc = "ask" => pay[poll.pay].checkout
  /\ poll.pc = "apply" => /\ poll.said # None
                          /\ poll.said \in Final => polar[poll.pay].status = poll.said

WatchRight == watch.state \in {"watching", "timed_out"} \/ watch.told # None => watch.pay \in Calls

PayInv ==
  /\ TypeOK /\ CallsAlong /\ RowsReal /\ PollRight /\ WatchRight
  /\ PaidIsReal /\ ConfirmedIsPaid /\ ToldHolds

-----------------------------------------------------------------------------
(* What may become of the rows. *)

\* One payment changes, along the state machine: a success is final and real, and
\* a failure only becomes a simulated success.
Forward(p, new) ==
  /\ new \in Payment
  /\ pay[p].checkout => new.checkout
  /\ new.checkout => pay[p].checkout \/ polar[p].status # "none"
  /\ pay[p].simulated => new.simulated
  /\ pay[p].status = "succeeded" => new.status = "succeeded" /\ new.source = pay[p].source
  /\ pay[p].status \in {"failed", "expired"} => new.status = pay[p].status \/ new.simulated
  /\ pay[p].status = "confirmed" => new.status \notin {"created", "open"}
  /\ new.status = "succeeded" /\ ~new.simulated => polar[p].status = "succeeded" /\ polar[p].match

Touched(p, new) == new.status # pay[p].status => Exists(p)

\* The rows go forward and none is lost, whatever else a step does.
RowsForward ==
  /\ pay' \in [Calls -> Payment]
  /\ \A p \in Calls :
       /\ Forward(p, pay'[p])
       /\ Exists(p) => Exists(p)'
       /\ pay'[p].status # pay[p].status => Exists(p)'

\* At the provider a result is final, and a checkout is made once.
PolarOn ==
  \A p \in Calls :
    /\ polar[p].status \in Final => polar'[p] = polar[p]
    /\ polar[p].status # "none" => polar'[p].status # "none" /\ polar'[p].match = polar[p].match

\* An UPDATE that is no mistake about Polar's money keeps the rows going forward.
LEMMA MovedForward ==
  ASSUME PayInv, NEW p \in Calls, NEW to \in {"open"} \cup Told \cup {"timeout"},
         NEW via \in {"create", "timeout", "mismatch", "webhook", "server_poll"},
         NEW source \in {None, "webhook", "server_poll", "mock"},
         via = "create" <=> to = "open", via = "timeout" <=> to = "timeout",
         to = "succeeded" => polar[p].status = "succeeded" /\ polar[p].match
  PROVE  /\ Moved(p, to, via, source) \in [Calls -> Payment]
         /\ \A q \in Calls : Forward(q, Moved(p, to, via, source)[q]) /\ Touched(q, Moved(p, to, via, source)[q])
<1>1. pay \in [Calls -> Payment] /\ PaidIsReal
  BY DEF PayInv, TypeOK
<1>2. \A q \in Calls : Forward(q, pay[q]) /\ Touched(q, pay[q])
  BY <1>1 DEF Forward, Touched, Payment, PaidIsReal
<1>3. CASE ~CanMove(p, to, via)
  BY <1>1, <1>2, <1>3 DEF Moved
<1>4. CASE CanMove(p, to, via)
  <2> DEFINE new == [pay[p] EXCEPT !.status = to, !.source = source]
  <2>1. Moved(p, to, via, source) = [pay EXCEPT ![p] = new]
    BY <1>1, <1>4 DEF Moved, Payment
  <2>2. new \in Payment /\ new.checkout = pay[p].checkout /\ new.simulated = pay[p].simulated
        /\ new.status = to
    BY <1>1 DEF Payment, Statuses, Told, Final
  <2>3. Exists(p) /\ pay[p].status \in AllowedFrom(to, via)
    BY <1>4 DEF CanMove
  <2>4. /\ pay[p].status \notin {"succeeded", "failed", "expired"}
        /\ pay[p].status = "confirmed" => to # "open"
    BY <2>3 DEF AllowedFrom
  <2>5. Forward(p, new) /\ Touched(p, new)
    BY <2>2, <2>3, <2>4 DEF Forward, Touched, Told, Final
  <2> HIDE DEF new
  <2> QED
    BY <1>1, <1>2, <2>1, <2>2, <2>5
<1> QED
  BY <1>3, <1>4

\* So does what Polar said of a payment, when it has happened.
LEMMA PolarForward ==
  ASSUME PayInv, NEW p \in Calls, NEW to \in {"open"} \cup Told, NEW via \in {"webhook", "server_poll"},
         to = "open" => ~polar[p].match,
         to = "succeeded" => polar[p].status = "succeeded"
  PROVE  /\ MovedByPolar(p, to, via) \in [Calls -> Payment]
         /\ \A q \in Calls : Forward(q, MovedByPolar(p, to, via)[q]) /\ Touched(q, MovedByPolar(p, to, via)[q])
<1>1. pay \in [Calls -> Payment] /\ PaidIsReal /\ polar[p].match \in BOOLEAN
  BY DEF PayInv, TypeOK, Checkout
<1>2. \A q \in Calls : Forward(q, pay[q]) /\ Touched(q, pay[q])
  BY <1>1 DEF Forward, Touched, Payment, PaidIsReal
<1>3. pay[p].source \in {None, "webhook", "server_poll", "mock"} /\ pay[p].simulated \in BOOLEAN
  BY <1>1 DEF Payment
<1>4. CASE pay[p].simulated
  BY <1>1, <1>2, <1>4 DEF MovedByPolar
<1>5. CASE ~pay[p].simulated /\ ~polar[p].match
  <2>1. MovedByPolar(p, to, via) = Moved(p, "failed", "mismatch", pay[p].source)
    BY <1>5 DEF MovedByPolar
  <2> QED
    BY <1>3, <2>1, MovedForward DEF Told, Final
<1>6. CASE ~pay[p].simulated /\ polar[p].match
  <2>1. MovedByPolar(p, to, via) = Moved(p, to, via, via)
    BY <1>6 DEF MovedByPolar
  <2> QED
    BY <1>6, <2>1, MovedForward DEF Told, Final
<1> QED
  BY <1>1, <1>3, <1>4, <1>5, <1>6

LEMMA PollForward ==
  ASSUME PayInv, NEW p \in Calls, NEW said \in {"open"} \cup Told,
         said = "succeeded" => polar[p].status = "succeeded"
  PROVE  /\ PollEffect(p, said) \in [Calls -> Payment]
         /\ \A q \in Calls : Forward(q, PollEffect(p, said)[q]) /\ Touched(q, PollEffect(p, said)[q])
<1>1. pay \in [Calls -> Payment] /\ \A q \in Calls : Forward(q, pay[q]) /\ Touched(q, pay[q])
  BY DEF PayInv, TypeOK, Forward, Touched, Payment, PaidIsReal
<1>2. CASE said = "open" /\ polar[p].match
  BY <1>1, <1>2 DEF PollEffect
<1>3. CASE ~(said = "open" /\ polar[p].match)
  BY <1>3, PolarForward DEF PollEffect
<1> QED
  BY <1>2, <1>3

-----------------------------------------------------------------------------
(* What follows for the invariant. *)

LEMMA RowsKept ==
  ASSUME PayInv, pay' = pay, order' = order
  PROVE  RowsForward
BY DEF PayInv, TypeOK, RowsForward, Forward, Exists, Payment, PaidIsReal

LEMMA PolarKept ==
  ASSUME polar' = polar
  PROVE  PolarOn
BY DEF PolarOn

LEMMA Keeps ==
  ASSUME PayInv, TypeOK', RowsForward, PolarOn
  PROVE  /\ RowsReal' /\ PaidIsReal'
         /\ number' = number => ConfirmedIsPaid'
         /\ watch' = watch => WatchRight' /\ ToldHolds'
         /\ watch' = watch /\ poll' = poll => PollRight'
<1>1. /\ \A p \in Calls : pay[p] \in Payment /\ pay'[p] \in Payment
      /\ \A p \in Calls : polar[p] \in Checkout /\ polar'[p] \in Checkout
  BY DEF PayInv, TypeOK
<1>2. \A p \in Calls :
        /\ Forward(p, pay'[p]) /\ (Exists(p) => Exists(p)')
        /\ pay'[p].status # pay[p].status => Exists(p)'
  BY DEF RowsForward
<1>3. \A p \in Calls :
        /\ polar[p].status = "succeeded" => polar'[p] = polar[p]
        /\ polar[p].status # "none" => polar'[p].status # "none"
  BY DEF PolarOn, Final
<1>4. RowsReal'
  <2> SUFFICES ASSUME NEW p \in Calls
               PROVE  /\ ~Exists(p)' => pay'[p].status = "none"
                      /\ pay'[p].checkout => polar'[p].status # "none"
    BY DEF RowsReal
  <2>1. ~Exists(p) => pay[p].status = "none"
    BY DEF PayInv, RowsReal
  <2>2. pay[p].checkout => polar[p].status # "none"
    BY DEF PayInv, RowsReal
  <2>3. pay'[p].checkout => pay[p].checkout \/ polar[p].status # "none"
    BY <1>2 DEF Forward
  <2> QED
    BY <1>2, <1>3, <2>1, <2>2, <2>3
<1>5. PaidIsReal'
  <2> SUFFICES ASSUME NEW p \in Calls, pay'[p].status = "succeeded", ~pay'[p].simulated
               PROVE  polar'[p].status = "succeeded" /\ polar'[p].match
    BY DEF PaidIsReal
  <2>1. polar[p].status = "succeeded" /\ polar[p].match
    BY <1>2 DEF Forward
  <2> QED
    BY <1>3, <2>1
<1>6. number' = number => ConfirmedIsPaid'
  <2> SUFFICES ASSUME number
               PROVE  \E p \in Calls :
                        pay'[p].simulated \/ (polar'[p].status = "succeeded" /\ polar'[p].match)
    BY DEF ConfirmedIsPaid
  <2>1. PICK p \in Calls : pay[p].simulated \/ (polar[p].status = "succeeded" /\ polar[p].match)
    BY DEF PayInv, ConfirmedIsPaid
  <2>2. pay[p].simulated => pay'[p].simulated
    BY <1>2 DEF Forward
  <2>3. polar[p].status = "succeeded" => polar'[p] = polar[p]
    BY <1>3
  <2> QED
    BY <2>1, <2>2, <2>3
<1>7. watch' = watch => WatchRight'
  BY DEF PayInv, WatchRight
<1>8. watch' = watch => ToldHolds'
  <2> SUFFICES ASSUME watch' = watch, watch.told # None
               PROVE  /\ watch.told = "succeeded" => pay'[watch.pay].status = "succeeded"
                      /\ watch.told \in {"failed", "expired"} =>
                           pay'[watch.pay].status = watch.told \/ pay'[watch.pay].simulated
    <3>1. watch.told = None \/ watch.told # None
      OBVIOUS
    <3>2. CASE watch' = watch /\ watch.told = None
      BY <3>2, PayAssumption DEF ToldHolds, Statuses
    <3> QED
      BY <3>1, <3>2 DEF ToldHolds
  <2>1. watch.pay \in Calls
    BY DEF PayInv, WatchRight
  <2>2. Forward(watch.pay, pay'[watch.pay])
    BY <1>2, <2>1
  <2>3. ToldHolds
    BY DEF PayInv
  <2> QED
    BY <2>2, <2>3 DEF ToldHolds, Forward
<1>9. watch' = watch /\ poll' = poll => PollRight'
  <2> SUFFICES ASSUME watch' = watch, poll' = poll, poll.pc # "idle"
               PROVE  PollRight'
    BY DEF PollRight
  <2>1. PollRight /\ poll.pay \in Calls
    BY DEF PayInv, PollRight
  <2>2. pay[poll.pay].checkout => pay'[poll.pay].checkout
    BY <1>2, <2>1 DEF Forward
  <2>3. polar[poll.pay].status \in Final => polar'[poll.pay] = polar[poll.pay]
    BY <2>1 DEF PolarOn
  <2> QED
    BY <2>1, <2>2, <2>3 DEF PollRight
<1> QED
  BY <1>4, <1>5, <1>6, <1>7, <1>8, <1>9

-----------------------------------------------------------------------------
(* One step per action of a tool call. *)

\* The rows after a step that only moves them.
LEMMA RowsMoved ==
  ASSUME pay' \in [Calls -> Payment], order' = order,
         \A q \in Calls : Forward(q, pay'[q]) /\ Touched(q, pay'[q])
  PROVE  RowsForward
BY DEF RowsForward, Touched, Exists

\* A call goes on to a statement that asks nothing new of the provider.
LEMMA CallGoesOn ==
  ASSUME PayInv, NEW c \in Calls, NEW pc, NEW p \in Calls \cup {None},
         pc \in {"create", "patch", "open", "check", "recheck", "fallback", "answer", "linked", "threw"},
         calls' = [calls EXCEPT ![c] = [pc |-> pc, pay |-> p]],
         pc = "create" => polar'[c].status = "none",
         pc \in {"create", "patch", "open", "check", "recheck", "fallback"} => p = c,
         pc \in {"patch", "open", "check", "recheck"} => polar'[c].status # "none",
         pc = "answer" => p \in Calls,
         \A q \in Calls \ {c} : polar'[q].status = polar[q].status
  PROVE  /\ CallsAlong'
         /\ calls' \in [Calls -> [pc: {"idle", "create", "patch", "open", "check", "recheck", "fallback",
                                       "answer", "linked", "threw"}, pay: Calls \cup {None}]]
<1>1. /\ calls \in [Calls -> [pc: {"idle", "create", "patch", "open", "check", "recheck", "fallback",
                                   "answer", "linked", "threw"}, pay: Calls \cup {None}]]
      /\ CallsAlong
  BY DEF PayInv, TypeOK
<1>2. calls'[c] = [pc |-> pc, pay |-> p] /\ \A q \in Calls \ {c} : calls'[q] = calls[q]
  BY <1>1
<1>3. CallsAlong'
  BY <1>1, <1>2 DEF CallsAlong
<1> QED
  BY <1>1, <1>3

LEMMA LatestExists ==
  ASSUME PayInv, Latest # None
  PROVE  Latest \in Calls
<1>1. order \in Seq(Calls) /\ order # <<>>
  BY DEF PayInv, TypeOK, Latest
<1>2. Len(order) \in 1..Len(order)
  BY <1>1
<1> QED
  BY <1>1, <1>2 DEF Latest, Last

LEMMA StatementDone ==
  ASSUME TypeOK, NEW c \in Calls, NEW pc
  PROVE  [calls EXCEPT ![c].pc = pc] = [calls EXCEPT ![c] = [pc |-> pc, pay |-> calls[c].pay]]
<1> DEFINE pcs == {"idle", "create", "patch", "open", "check", "recheck", "fallback",
                   "answer", "linked", "threw"}
<1>1. calls \in [Calls -> [pc: pcs, pay: Calls \cup {None}]]
  BY DEF TypeOK
<1>2. calls[c] \in [pc: pcs, pay: Calls \cup {None}]
  BY <1>1
<1>3. [calls[c] EXCEPT !.pc = pc] = [pc |-> pc, pay |-> calls[c].pay]
  BY <1>2
<1> QED
  BY <1>1, <1>3

LEMMA InsertedExists ==
  ASSUME NEW q \in Calls, NEW c \in Calls, order \in Seq(Calls), order' = Append(order, c)
  PROVE  Exists(q)' <=> (Exists(q) \/ q = c)
BY DEF Exists, Contains

LEMMA ToolStep ==
  ASSUME PayInv, NEW c \in Calls,
         \/ LinkReuses(c) \/ LinkCreates(c) \/ CheckoutFails(c) \/ FallbackOpens(c)
         \/ Patched(c) \/ Opened(c) \/ Checked(c) \/ LinkDies(c)
         \/ \E b \in BOOLEAN : Inserted(c, b) \/ CheckoutMade(c, b)
  PROVE  PayInv' /\ RowsForward
<1>1. /\ pay \in [Calls -> Payment] /\ order \in Seq(Calls) /\ polar \in [Calls -> Checkout]
      /\ CallsAlong /\ RowsReal /\ TypeOK
      /\ calls[c].pay \in Calls \cup {None}
  BY DEF PayInv, TypeOK
<1>2. watch' = watch /\ poll' = poll /\ number' = number
  BY DEF LinkReuses, LinkCreates, CheckoutFails, FallbackOpens, Patched, Opened, Checked, LinkDies,
         Inserted, CheckoutMade
<1>3. SUFFICES TypeOK' /\ CallsAlong' /\ RowsForward /\ PolarOn
  BY <1>2, Keeps DEF PayInv
<1>4. CASE LinkReuses(c)
  <2>1. Latest \in Calls
    BY <1>4, LatestExists DEF LinkReuses, Reusable
  <2>2. UNCHANGED <<pay, order, polar>>
    BY <1>4 DEF LinkReuses
  <2>3. calls' = [calls EXCEPT ![c] = [pc |-> "answer", pay |-> Latest]]
    BY <1>4 DEF LinkReuses
  <2>4. CallsAlong' /\ TypeOK'
    BY <1>1, <1>2, <2>1, <2>2, <2>3, CallGoesOn DEF TypeOK
  <2> QED
    BY <2>2, <2>4, RowsKept, PolarKept
<1>5. CASE LinkCreates(c)
  <2>1. polar'[c].status = "none" /\ UNCHANGED <<pay, order, polar>>
    BY <1>1, <1>5 DEF LinkCreates, CallsAlong
  <2>2. calls' = [calls EXCEPT ![c] = [pc |-> "create", pay |-> c]]
    BY <1>5 DEF LinkCreates
  <2>3. CallsAlong' /\ TypeOK'
    BY <1>1, <1>2, <2>1, <2>2, CallGoesOn DEF TypeOK
  <2> QED
    BY <2>1, <2>3, RowsKept, PolarKept
<1>6. CASE \E b \in BOOLEAN : Inserted(c, b)
  <2>1. PICK b \in BOOLEAN : Inserted(c, b)
    BY <1>6
  <2>2. ~Exists(c) /\ order' = Append(order, c) /\ UNCHANGED polar
        /\ calls[c].pc = "create" /\ calls[c].pay = c /\ polar[c].status = "none"
    BY <1>1, <2>1 DEF Inserted, CallsAlong
  <2>3. \A q \in Calls : Exists(q)' <=> (Exists(q) \/ q = c)
    BY <1>1, <2>2, InsertedExists
  <2>4. order' \in Seq(Calls)
    BY <1>1, <2>2
  <2> DEFINE new == [pay[c] EXCEPT !.provider = IF b THEN "mock" ELSE "polar",
                                   !.status = IF b THEN "open" ELSE "created"]
  <2>5. pay' = [pay EXCEPT ![c] = new]
    BY <1>1, <2>1 DEF Inserted, Payment
  <2>6. pay[c].status = "none"
    BY <1>1, <2>2 DEF RowsReal
  <2>7. new \in Payment /\ Forward(c, new)
    BY <1>1, <2>6 DEF Forward, Payment, Statuses
  <2>8. \A q \in Calls : Forward(q, pay[q])
    BY <1>1 DEF PayInv, PaidIsReal, Forward, Payment
  <2> HIDE DEF new
  <2>9. RowsForward
    BY <1>1, <2>3, <2>5, <2>7, <2>8 DEF RowsForward
  <2>10. calls' = [calls EXCEPT ![c] = [pc |-> IF b THEN "answer" ELSE "create", pay |-> c]]
    <3>1. calls' = [calls EXCEPT ![c].pc = IF b THEN "answer" ELSE "create"]
      BY <2>1 DEF Inserted
    <3> QED
      BY <1>1, <2>2, <3>1, StatementDone
  <2>11. CallsAlong' /\ TypeOK'
    BY <1>1, <1>2, <2>2, <2>4, <2>9, <2>10, CallGoesOn DEF TypeOK, RowsForward
  <2> QED
    BY <2>2, <2>9, <2>11, PolarKept
<1>7. CASE \E b \in BOOLEAN : CheckoutMade(c, b)
  <2>1. PICK b \in BOOLEAN : CheckoutMade(c, b)
    BY <1>7
  <2>2. calls[c].pc = "create" /\ calls[c].pay = c /\ polar[c].status = "none"
    BY <1>1, <2>1 DEF CheckoutMade, CallsAlong
  <2>3. polar' = [polar EXCEPT ![c] = [status |-> "open", match |-> b]] /\ UNCHANGED <<pay, order>>
    BY <2>1 DEF CheckoutMade
  <2>4. PolarOn /\ polar' \in [Calls -> Checkout]
    BY <1>1, <2>2, <2>3 DEF PolarOn, Checkout, Final
  <2>5. calls' = [calls EXCEPT ![c] = [pc |-> "patch", pay |-> c]]
    <3>1. calls' = [calls EXCEPT ![c].pc = "patch"]
      BY <2>1 DEF CheckoutMade
    <3> QED
      BY <1>1, <2>2, <3>1, StatementDone
  <2>6. CallsAlong' /\ TypeOK'
    BY <1>1, <1>2, <2>3, <2>4, <2>5, CallGoesOn DEF TypeOK
  <2> QED
    BY <2>3, <2>4, <2>6, RowsKept
<1>8. CASE CheckoutFails(c)
  <2>1. UNCHANGED <<order, polar>> /\ pay' = [pay EXCEPT ![c].provider = "mock"]
    BY <1>8 DEF CheckoutFails
  <2>2. RowsForward
    BY <1>1, <2>1 DEF PayInv, PaidIsReal, RowsForward, Forward, Exists, Payment
  <2>3. calls' = [calls EXCEPT ![c] = [pc |-> "fallback", pay |-> c]]
    BY <1>1, <1>8, StatementDone DEF CheckoutFails, CallsAlong
  <2>4. CallsAlong' /\ TypeOK'
    BY <1>1, <1>2, <2>1, <2>2, <2>3, CallGoesOn DEF TypeOK, RowsForward
  <2> QED
    BY <2>1, <2>2, <2>4, PolarKept
<1>9. CASE FallbackOpens(c) \/ Opened(c)
  <2>1. UNCHANGED <<order, polar>> /\ pay' = Moved(c, "open", "create", pay[c].source)
    BY <1>9 DEF FallbackOpens, Opened
  <2>2. pay[c].source \in {None, "webhook", "server_poll", "mock"}
    BY <1>1 DEF Payment
  <2>3. RowsForward
    BY <2>1, <2>2, MovedForward, RowsMoved
  <2>4. calls[c].pay = c
    BY <1>1, <1>9 DEF FallbackOpens, Opened, CallsAlong
  <2>5. PICK pc \in {"answer", "check", "recheck", "threw"} :
          calls' = [calls EXCEPT ![c] = [pc |-> pc, pay |-> c]]
    <3>1. PICK pc \in {"answer", "check", "recheck", "threw"} : calls' = [calls EXCEPT ![c].pc = pc]
      BY <1>9 DEF FallbackOpens, Opened
    <3> QED
      BY <1>1, <2>4, <3>1, StatementDone
  <2>6. pc \in {"check", "recheck"} => polar[c].status # "none"
    <3>1. calls'[c].pc = pc
      BY <1>1, <2>5 DEF TypeOK
    <3>2. FallbackOpens(c) => pc = "answer"
      BY <1>1, <3>1 DEF FallbackOpens, TypeOK
    <3>3. Opened(c) => polar[c].status # "none"
      BY <1>1 DEF Opened, CallsAlong
    <3> QED
      BY <1>9, <3>2, <3>3
  <2>7. CallsAlong' /\ TypeOK'
    <3>1. polar'[c] = polar[c] /\ \A q \in Calls \ {c} : polar'[q].status = polar[q].status
      BY <2>1
    <3>2. CASE pc \in {"answer", "threw"}
      BY <1>1, <1>2, <2>1, <2>3, <2>5, <3>1, <3>2, CallGoesOn DEF TypeOK, RowsForward
    <3>3. CASE pc \in {"check", "recheck"}
      <4>1. polar'[c].status # "none" /\ c \in Calls \cup {None}
        BY <2>6, <3>1, <3>3
      <4>2. CallsAlong' /\ calls' \in [Calls -> [pc: {"idle", "create", "patch", "open", "check", "recheck",
                                       "fallback", "answer", "linked", "threw"}, pay: Calls \cup {None}]]
        BY <2>5, <3>1, <3>3, <4>1, CallGoesOn
      <4> QED
        BY <1>1, <1>2, <2>1, <2>3, <4>2 DEF TypeOK, RowsForward
    <3> QED
      BY <3>2, <3>3
  <2> QED
    BY <2>1, <2>3, <2>7, PolarKept
<1>10. CASE Patched(c)
  <2>1. UNCHANGED <<order, polar>> /\ pay' = [pay EXCEPT ![c].checkout = TRUE]
    BY <1>10 DEF Patched
  <2>2. calls[c].pay = c /\ polar[c].status # "none"
    BY <1>1, <1>10 DEF Patched, CallsAlong
  <2>3. RowsForward
    <3> DEFINE new == [pay[c] EXCEPT !.checkout = TRUE]
    <3>1. pay' = [pay EXCEPT ![c] = new]
      BY <1>1, <2>1 DEF Payment
    <3>2. new \in Payment /\ Forward(c, new) /\ Touched(c, new)
      BY <1>1, <2>2 DEF PayInv, PaidIsReal, Forward, Touched, Payment
    <3>3. \A q \in Calls : Forward(q, pay[q]) /\ Touched(q, pay[q])
      BY <1>1 DEF PayInv, PaidIsReal, Forward, Touched, Payment
    <3> HIDE DEF new
    <3> QED
      BY <1>1, <2>1, <3>1, <3>2, <3>3, RowsMoved
  <2>4. calls' = [calls EXCEPT ![c] = [pc |-> "open", pay |-> c]]
    BY <1>1, <1>10, <2>2, StatementDone DEF Patched
  <2>5. CallsAlong' /\ TypeOK'
    BY <1>1, <1>2, <2>1, <2>2, <2>3, <2>4, CallGoesOn DEF TypeOK, RowsForward
  <2> QED
    BY <2>1, <2>3, <2>5, PolarKept
<1>11. CASE Checked(c)
  <2>1. UNCHANGED <<order, polar>> /\ pay' = Moved(c, "failed", "mismatch", pay[c].source)
    BY <1>11 DEF Checked
  <2>2. pay[c].source \in {None, "webhook", "server_poll", "mock"} /\ calls[c].pay = c
    BY <1>1, <1>11 DEF Payment, Checked, CallsAlong
  <2>3. RowsForward
    BY <2>1, <2>2, MovedForward, RowsMoved DEF Told, Final
  <2>4. PICK pc \in {"answer", "threw"} : calls' = [calls EXCEPT ![c] = [pc |-> pc, pay |-> c]]
    <3>1. PICK pc \in {"answer", "threw"} : calls' = [calls EXCEPT ![c].pc = pc]
      BY <1>11 DEF Checked
    <3> QED
      BY <1>1, <2>2, <3>1, StatementDone
  <2>5. CallsAlong' /\ TypeOK'
    BY <1>1, <1>2, <2>1, <2>3, <2>4, CallGoesOn DEF TypeOK, RowsForward
  <2> QED
    BY <2>1, <2>3, <2>5, PolarKept
<1>12. CASE LinkDies(c)
  <2>1. UNCHANGED <<pay, order, polar>>
    BY <1>12 DEF LinkDies
  <2>2. calls' = [calls EXCEPT ![c] = [pc |-> "threw", pay |-> calls[c].pay]]
    BY <1>1, <1>12, StatementDone DEF LinkDies
  <2> DEFINE p == calls[c].pay
  <2>3. p \in Calls \cup {None} /\ calls' = [calls EXCEPT ![c] = [pc |-> "threw", pay |-> p]]
    BY <1>1, <2>2
  <2> HIDE DEF p
  <2>4. CallsAlong' /\ TypeOK'
    BY <1>1, <1>2, <2>1, <2>3, CallGoesOn DEF TypeOK
  <2> QED
    BY <2>1, <2>4, RowsKept, PolarKept
<1> QED
  BY <1>4, <1>5, <1>6, <1>7, <1>8, <1>9, <1>10, <1>11, <1>12

-----------------------------------------------------------------------------
(* One step per action of the provider, the visitor and the webhooks. *)

LEMMA MovesKeep ==
  ASSUME PayInv, RowsForward, PolarOn, polar' \in [Calls -> Checkout],
         UNCHANGED <<order, calls, poll, watch, number>>,
         \A p \in Calls : polar'[p].status = "none" <=> polar[p].status = "none"
  PROVE  PayInv' /\ RowsForward
<1>1. TypeOK'
  BY DEF PayInv, TypeOK, RowsForward
<1>2. CallsAlong'
  BY DEF PayInv, CallsAlong
<1> QED
  BY <1>1, <1>2, Keeps DEF PayInv

LEMMA RowsMovedKeep ==
  ASSUME PayInv, pay' \in [Calls -> Payment],
         \A q \in Calls : Forward(q, pay'[q]) /\ Touched(q, pay'[q]),
         UNCHANGED <<order, polar, calls, poll, watch, number>>
  PROVE  PayInv' /\ RowsForward
<1>1. RowsForward /\ PolarOn
  BY RowsMoved, PolarKept
<1> QED
  BY <1>1, MovesKeep DEF PayInv, TypeOK

LEMMA OutsideStep ==
  ASSUME PayInv, Provider \/ Webhook \/ \E p \in Calls : Simulate(p) \/ MarkTimeout(p)
  PROVE  PayInv' /\ RowsForward
<1>1. /\ pay \in [Calls -> Payment] /\ polar \in [Calls -> Checkout] /\ PaidIsReal
  BY DEF PayInv, TypeOK
<1>2. \A q \in Calls : Forward(q, pay[q]) /\ Touched(q, pay[q])
  BY <1>1 DEF PaidIsReal, Forward, Touched, Payment
<1>3. CASE Provider
  <2>1. PICK p \in Calls, from \in {"open", "confirmed"}, to \in Told : PolarGoes(p, from, to)
    BY <1>3 DEF Provider, Told, Final
  <2>2. polar' = [polar EXCEPT ![p].status = to] /\ polar[p].status = from
        /\ UNCHANGED <<pay, order, calls, poll, watch, number>>
    BY <2>1 DEF PolarGoes
  <2>3. polar' \in [Calls -> Checkout] /\ PolarOn
        /\ \A q \in Calls : polar'[q].status = "none" <=> polar[q].status = "none"
    BY <1>1, <2>2 DEF PolarOn, Checkout, Told, Final
  <2> QED
    BY <2>2, <2>3, RowsKept, MovesKeep
<1>4. CASE Webhook
  <2>1. PICK p \in Calls, s \in Told : ApplyWebhook(p, s)
    BY <1>4 DEF Webhook
  <2>2. s = "succeeded" => polar[p].status = "succeeded"
    BY <2>1 DEF ApplyWebhook, EventsOf
  <2>3. pay' = MovedByPolar(p, s, "webhook") /\ UNCHANGED <<order, polar, calls, poll, watch, number>>
    BY <2>1 DEF ApplyWebhook
  <2> QED
    BY <2>2, <2>3, PolarForward, RowsMovedKeep DEF Told, Final
<1>5. ASSUME NEW p \in Calls, Simulate(p)
      PROVE  PayInv' /\ RowsForward
  <2> DEFINE new == [pay[p] EXCEPT !.status = "succeeded", !.source = "mock",
                                   !.provider = "mock", !.simulated = TRUE]
  <2>1. pay' = [pay EXCEPT ![p] = new] /\ UNCHANGED <<order, polar, calls, poll, watch, number>>
    BY <1>5 DEF Simulate
  <2>2. Exists(p) /\ pay[p].status # "succeeded"
    BY <1>5 DEF Simulate, CanMove, AllowedFrom
  <2>3. new \in Payment /\ Forward(p, new) /\ Touched(p, new)
    BY <1>1, <2>2 DEF Forward, Touched, Payment, Statuses
  <2> HIDE DEF new
  <2> QED
    BY <1>1, <1>2, <2>1, <2>3, RowsMovedKeep
<1>6. ASSUME NEW p \in Calls, MarkTimeout(p)
      PROVE  PayInv' /\ RowsForward
  <2>1. pay' = Moved(p, "timeout", "timeout", pay[p].source)
        /\ UNCHANGED <<order, polar, calls, poll, watch, number>>
    BY <1>6 DEF MarkTimeout
  <2>2. pay[p].source \in {None, "webhook", "server_poll", "mock"}
    BY <1>1 DEF Payment
  <2> QED
    BY <2>1, <2>2, MovedForward, RowsMovedKeep
<1> QED
  BY <1>3, <1>4, <1>5, <1>6

-----------------------------------------------------------------------------
(* One step per action of the page, the polls and the confirmation. *)

PollType  == [pc: {"idle", "ask", "apply", "answer"}, pay: Calls \cup {None},
              said: {None, "open"} \cup Told, old: BOOLEAN]
WatchType == [pay: Calls \cup {None}, state: {"off", "watching", "timed_out", "done", "stopped"},
              told: {None} \cup Final]

\* A step that leaves the rows alone has to answer for the poll and the watch only.
LEMMA ViewKeeps ==
  ASSUME PayInv, UNCHANGED <<pay, order, polar, calls, number>>,
         poll' \in PollType, watch' \in WatchType, PollRight', WatchRight', ToldHolds'
  PROVE  PayInv' /\ RowsForward
<1>1. TypeOK' /\ CallsAlong'
  BY DEF PayInv, TypeOK, CallsAlong, PollType, WatchType
<1>2. RowsForward /\ PolarOn
  BY RowsKept, PolarKept
<1> QED
  BY <1>1, <1>2, Keeps DEF PayInv

LEMMA ViewStep ==
  ASSUME PayInv, View
  PROVE  PayInv' /\ RowsForward
<1>1. /\ poll \in PollType /\ watch \in WatchType
      /\ PollRight /\ WatchRight /\ ToldHolds
      /\ polar \in [Calls -> Checkout]
      /\ None \notin Calls /\ None \notin Final
  BY PayAssumption DEF PayInv, TypeOK, PollType, WatchType, Statuses, Final
<1>2. ASSUME NEW due \in BOOLEAN, GetView(due)
      PROVE  PayInv' /\ RowsForward
  <2>1. watch.pay \in Calls
    BY <1>1, <1>2 DEF GetView, WatchRight
  <2>2. UNCHANGED <<pay, order, polar, calls, watch, number>>
    BY <1>2 DEF GetView
  <2>3. poll' = [pc |-> IF due /\ ShouldPoll(watch.pay) THEN "ask" ELSE "answer", pay |-> watch.pay,
                 said |-> None, old |-> FALSE]
    BY <1>2 DEF GetView, NoPoll
  <2>4. poll' \in PollType
    BY <2>1, <2>3 DEF PollType
  <2>5. PollRight'
    BY <2>1, <2>2, <2>3 DEF PollRight, ShouldPoll
  <2>6. WatchRight' /\ ToldHolds'
    BY <1>1, <2>2 DEF WatchRight, ToldHolds
  <2> QED
    BY <1>1, <2>2, <2>4, <2>5, <2>6, ViewKeeps
<1>3. ASSUME NEW ok \in BOOLEAN, PolarAnswers(ok)
      PROVE  PayInv' /\ RowsForward
  <2>1. poll.pc = "ask" /\ poll.pay \in Calls /\ pay[poll.pay].checkout
    BY <1>1, <1>3 DEF PolarAnswers, PollRight
  <2>2. UNCHANGED <<pay, order, polar, calls, watch, number>>
    BY <1>3 DEF PolarAnswers
  <2>3. polar[poll.pay].status \in {"open"} \cup Told
    BY <1>1, <2>1 DEF PayInv, RowsReal, Checkout
  <2>4. polar[poll.pay].status # None
    BY <2>3, PayAssumption DEF Told, Final, Statuses
  <2>5. poll' = [poll EXCEPT !.pc = IF ok THEN "apply" ELSE "answer",
                             !.said = IF ok THEN polar[poll.pay].status ELSE None]
    BY <1>3 DEF PolarAnswers
  <2>6. poll' \in PollType
    BY <1>1, <2>3, <2>5 DEF PollType
  <2>7. PollRight'
    BY <1>1, <2>1, <2>2, <2>4, <2>5 DEF PollRight, PollType
  <2>8. WatchRight' /\ ToldHolds'
    BY <1>1, <2>2 DEF WatchRight, ToldHolds
  <2> QED
    BY <1>1, <2>2, <2>6, <2>7, <2>8, ViewKeeps
<1>4. CASE PollApplies
  <2>1. poll.pc = "apply" /\ poll.pay \in Calls /\ poll.said # None
        /\ (poll.said \in Final => polar[poll.pay].status = poll.said)
    BY <1>1, <1>4 DEF PollApplies, PollRight
  <2>2. poll.said \in {"open"} \cup Told
    BY <1>1, <2>1 DEF PollType
  <2>3. pay' = PollEffect(poll.pay, poll.said) /\ UNCHANGED <<order, polar, calls, watch, number>>
    BY <1>4 DEF PollApplies
  <2>4. poll.said = "succeeded" => polar[poll.pay].status = "succeeded"
    BY <2>1 DEF Final
  <2>5. pay' \in [Calls -> Payment] /\ \A q \in Calls : Forward(q, pay'[q]) /\ Touched(q, pay'[q])
    BY <2>1, <2>2, <2>3, <2>4, PollForward
  <2>6. RowsForward /\ PolarOn
    BY <2>3, <2>5, RowsMoved, PolarKept
  <2>7. poll' = [poll EXCEPT !.pc = "answer"] /\ poll' \in PollType
    BY <1>1, <1>4 DEF PollApplies, PollType
  <2>8. TypeOK' /\ CallsAlong'
    BY <1>1, <2>3, <2>5, <2>7 DEF PayInv, TypeOK, CallsAlong, PollType
  <2>9. PollRight'
    BY <1>1, <2>1, <2>3, <2>7 DEF PollRight, PollType
  <2> QED
    BY <2>3, <2>6, <2>8, <2>9, Keeps DEF PayInv
<1>5. ASSUME NEW p \in Calls, NEW said \in Told \cup {"open"}, Reconcile(p, said)
      PROVE  PayInv' /\ RowsForward
  <2>1. said = "succeeded" => polar[p].status = "succeeded"
    BY <1>5 DEF Reconcile, EventsOf
  <2>2. pay' = PollEffect(p, said) /\ UNCHANGED <<order, polar, calls, poll, watch, number>>
    BY <1>5 DEF Reconcile
  <2> QED
    BY <2>1, <2>2, PollForward, RowsMovedKeep
<1>6. CASE ViewIgnored
  <2>1. poll' = NoPoll /\ UNCHANGED <<pay, order, polar, calls, watch, number>>
    BY <1>6 DEF ViewIgnored
  <2>2. poll' \in PollType /\ PollRight' /\ WatchRight' /\ ToldHolds'
    BY <1>1, <2>1 DEF NoPoll, PollType, PollRight, WatchRight, ToldHolds
  <2> QED
    BY <1>1, <2>1, <2>2, ViewKeeps
<1>7. CASE WatchHears
  <2>1. poll' = NoPoll /\ UNCHANGED <<pay, order, polar, calls, number>>
    BY <1>7 DEF WatchHears
  <2>2. poll.pay \in Calls /\ watch.pay = poll.pay
    BY <1>1, <1>7 DEF WatchHears, PollRight
  <2>3. \/ watch' = watch
        \/ /\ pay[watch.pay].status \in Final
           /\ watch' = [watch EXCEPT !.state = "done", !.told = pay[watch.pay].status]
    BY <1>7, <2>2 DEF WatchHears, Final
  <2>4. poll' \in PollType /\ watch' \in WatchType
    BY <1>1, <2>1, <2>3 DEF NoPoll, PollType, WatchType
  <2>5. PollRight' /\ WatchRight'
    BY <1>1, <2>1, <2>2, <2>3 DEF NoPoll, PollRight, WatchRight, WatchType
  <2>6. ToldHolds'
    BY <1>1, <2>1, <2>3 DEF ToldHolds, WatchType
  <2> QED
    BY <2>1, <2>4, <2>5, <2>6, ViewKeeps
<1>8. CASE WatchTimesOut \/ WatchStops
  <2>1. UNCHANGED <<pay, order, polar, calls, poll, number>>
    BY <1>8 DEF WatchTimesOut, WatchStops
  <2>2. \/ watch.state = "watching" /\ watch' = [watch EXCEPT !.state = "timed_out"]
        \/ watch' = [watch EXCEPT !.state = "stopped"]
    BY <1>8 DEF WatchTimesOut, WatchStops
  <2>3. watch' \in WatchType /\ watch'.pay = watch.pay /\ watch'.told = watch.told
    BY <1>1, <2>2 DEF WatchType
  <2>4. PollRight' /\ WatchRight' /\ ToldHolds'
    BY <1>1, <2>1, <2>2, <2>3 DEF PollRight, WatchRight, ToldHolds, WatchType
  <2> QED
    BY <1>1, <2>1, <2>3, <2>4, ViewKeeps
<1> QED
  BY <1>2, <1>3, <1>4, <1>5, <1>6, <1>7, <1>8 DEF View

LEMMA LinkedStep ==
  ASSUME PayInv, NEW c \in Calls, Linked(c)
  PROVE  PayInv' /\ RowsForward
<1>1. /\ calls[c].pc = "answer" /\ calls[c].pay \in Calls /\ UNCHANGED <<pay, order, polar, number>>
      /\ calls' = [calls EXCEPT ![c].pc = "linked"]
      /\ watch' = [pay |-> calls[c].pay, state |-> "watching", told |-> None]
      /\ poll' = [poll EXCEPT !.old = poll.pc # "idle"]
  BY DEF Linked, PayInv, CallsAlong
<1>2. calls' = [calls EXCEPT ![c] = [pc |-> "linked", pay |-> calls[c].pay]]
  BY <1>1, StatementDone DEF PayInv
<1>3. PICK p \in Calls : calls' = [calls EXCEPT ![c] = [pc |-> "linked", pay |-> p]]
  BY <1>1, <1>2
<1>4. TypeOK' /\ CallsAlong'
  <2>1. CallsAlong' /\ calls' \in [Calls -> [pc: {"idle", "create", "patch", "open", "check", "recheck",
                                   "fallback", "answer", "linked", "threw"}, pay: Calls \cup {None}]]
    <3>1. \A q \in Calls \ {c} : polar'[q].status = polar[q].status
      BY <1>1
    <3> QED
      BY <1>3, <3>1, CallGoesOn
  <2>2. poll' \in PollType /\ watch' \in WatchType
    BY <1>1 DEF PayInv, TypeOK, PollType, WatchType
  <2> QED
    BY <1>1, <2>1, <2>2 DEF PayInv, TypeOK, PollType, WatchType
<1>5. RowsForward /\ PolarOn
  BY <1>1, RowsKept, PolarKept
<1>6. PollRight' /\ WatchRight'
  BY <1>1 DEF PayInv, TypeOK, PollRight, WatchRight
<1>7. ToldHolds'
  BY <1>1, PayAssumption DEF ToldHolds, Statuses
<1> QED
  BY <1>1, <1>4, <1>5, <1>6, <1>7, Keeps DEF PayInv

LEMMA ConfirmationStep ==
  ASSUME PayInv, SendConfirmation
  PROVE  PayInv' /\ RowsForward
<1>1. /\ Latest # None /\ pay[Latest].status = "succeeded"
      /\ number' = TRUE /\ UNCHANGED <<pay, order, polar, calls, poll, watch>>
  BY DEF SendConfirmation
<1>2. Latest \in Calls
  BY <1>1, LatestExists
<1>3. ConfirmedIsPaid'
  BY <1>1, <1>2 DEF PayInv, PaidIsReal, ConfirmedIsPaid
<1>4. TypeOK' /\ CallsAlong'
  BY <1>1 DEF PayInv, TypeOK, CallsAlong
<1>5. RowsForward /\ PolarOn
  BY <1>1, RowsKept, PolarKept
<1> QED
  BY <1>1, <1>3, <1>4, <1>5, Keeps DEF PayInv

-----------------------------------------------------------------------------
(* The theorems. *)

LEMMA PayInit ==
  ASSUME Init
  PROVE  PayInv
<1>1. TypeOK
  <2>1. pay \in [Calls -> Payment] /\ polar \in [Calls -> Checkout]
    BY DEF Init, Payment, Checkout, Statuses
  <2>2. order \in Seq(Calls) /\ number \in BOOLEAN
    BY EmptySeq DEF Init
  <2>3. calls \in [Calls -> [pc: {"idle"}, pay: {None}]]
    BY DEF Init
  <2> QED
    BY <2>1, <2>2, <2>3 DEF Init, TypeOK, NoPoll
<1>2. \A p \in Calls : ~pay[p].checkout /\ pay[p].status = "none" /\ polar[p].status = "none"
  BY DEF Init
<1>3. PaidIsReal /\ ConfirmedIsPaid /\ RowsReal
  BY <1>2 DEF Init, PaidIsReal, ConfirmedIsPaid, RowsReal
<1>4. CallsAlong /\ PollRight /\ WatchRight
  BY <1>2 DEF Init, CallsAlong, PollRight, WatchRight, NoPoll
<1>5. ToldHolds
  BY PayAssumption DEF Init, ToldHolds, Statuses
<1> QED
  BY <1>1, <1>3, <1>4, <1>5 DEF PayInv

LEMMA PayNext ==
  ASSUME PayInv, [Next]_vars
  PROVE  PayInv' /\ RowsForward
<1>1. CASE Tool
  <2>1. CASE SendConfirmation
    BY <2>1, ConfirmationStep
  <2>2. ASSUME NEW c \in Calls, Linked(c)
        PROVE  PayInv' /\ RowsForward
    BY <2>2, LinkedStep
  <2>3. ASSUME NEW c \in Calls,
               \/ LinkReuses(c) \/ LinkCreates(c) \/ CheckoutFails(c) \/ FallbackOpens(c)
               \/ Patched(c) \/ Opened(c) \/ Checked(c) \/ LinkDies(c)
               \/ \E b \in BOOLEAN : Inserted(c, b) \/ CheckoutMade(c, b)
        PROVE  PayInv' /\ RowsForward
    BY <2>3, ToolStep
  <2> QED
    BY <1>1, <2>1, <2>2, <2>3 DEF Tool
<1>2. CASE Provider \/ Webhook \/ \E p \in Calls : Simulate(p) \/ MarkTimeout(p)
  BY <1>2, OutsideStep
<1>3. CASE View
  BY <1>3, ViewStep
<1>4. CASE UNCHANGED vars
  <2>1. UNCHANGED <<pay, order, polar, calls, poll, watch, number>>
    BY <1>4 DEF vars
  <2>2. RowsForward
    BY <2>1, RowsKept
  <2>3. PayInv'
    BY <2>1 DEF PayInv, TypeOK, CallsAlong, RowsReal, PollRight, WatchRight, PaidIsReal, ConfirmedIsPaid,
                ToldHolds, Exists
  <2> QED
    BY <2>2, <2>3
<1> QED
  BY <1>1, <1>2, <1>3, <1>4 DEF Next

\* The invariant of every payment holds always.
THEOREM PayInvAlways == Spec => []PayInv
BY PayInit, PayNext, PTL DEF Spec

\* Whatever webhooks, polls, retries, restarts, simulations and tools do, and however
\* many links are sent: no row is paid, and no confirmation is issued, without Polar's
\* money of the disclosed amount or a simulation.
THEOREM MoneySoundAlways == Spec => []MoneySound
<1>1. PayInv => MoneySound
  BY DEF PayInv, MoneySound
<1> QED
  BY <1>1, PayInvAlways, PTL

\* A result never moves back: paid is final with its source, and only a simulation
\* leaves a failure.
THEOREM OneWayAlways == Spec => OneWay
<1>1. ASSUME PayInv, [Next]_vars
      PROVE  [\A p \in Calls :
                /\ pay[p].status = "succeeded" => pay'[p].status = "succeeded" /\ pay'[p].source = pay[p].source
                /\ pay[p].status \in {"failed", "expired"} /\ pay'[p].status # pay[p].status => pay'[p].simulated
                /\ pay[p].status = "confirmed" => pay'[p].status \notin {"created", "open"}]_vars
  <2>1. RowsForward
    BY <1>1, PayNext
  <2> QED
    BY <2>1 DEF RowsForward, Forward
<1> QED
  BY <1>1, PayInvAlways, PTL DEF Spec, OneWay

\* What the session was told of a payment stays true of it.
THEOREM ToldHoldsAlways == Spec => []ToldHolds
<1>1. PayInv => ToldHolds
  BY DEF PayInv
<1> QED
  BY <1>1, PayInvAlways, PTL

=============================================================================
