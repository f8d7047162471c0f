----------------------------- MODULE CallProofs -----------------------------
(***************************************************************************)
(* Proofs about what a call is heard as and what is made of it.            *)
(*                                                                         *)
(* FieldStatus, for conversations of any length, any fields and any        *)
(* values: when a field may be VERIFIED, by induction over the facts       *)
(* heard.  CaseFields, for any number of turns, requests and troubles:     *)
(* every turn is with exactly one place, and the snapshot of a pass holds  *)
(* what its drain reported as complete.                                    *)
(*                                                                         *)
(* SttBroker and SttChannels, for any window, other pages, pauses and      *)
(* faults of the network: the window and the queue stay in order, every    *)
(* session is held, and a channel that waits is woken.                     *)
(***************************************************************************)
EXTENDS CaseFields, SttChannels, FiniteSetTheorems, SequenceTheorems, WellFoundedInduction, TLAPS

-----------------------------------------------------------------------------
(* FieldStatus: induction over a conversation *)

LEMMA Smallest ==
  ASSUME NEW T, T \subseteq Nat, T # {}
  PROVE  \E x \in T : \A y \in T : x <= y
<1> DEFINE R == {ss \in Nat \X Nat : ss[1] < ss[2]}
<1>1. IsWellFoundedOn(R, Nat)
  BY NatLessThanWellFounded DEF OpToRel
<1>2. \A x, y \in Nat : y < x => <<y, x>> \in R
  OBVIOUS
<1> HIDE DEF R
<1>3. PICK x \in T : \A y \in T : ~(<<y, x>> \in R)
  BY <1>1, WFMin
<1>4. \A y \in T : ~(y < x)
  BY <1>2, <1>3
<1> QED
  BY <1>4

\* A set that holds 0, and with every number the next one, up to L.
LEMMA Upward ==
  ASSUME NEW L \in Nat, NEW S, 0 \in S, \A n \in 1..L : n-1 \in S => n \in S
  PROVE  \A n \in 0..L : n \in S
<1> DEFINE T == (0..L) \ S
<1>1. SUFFICES ASSUME T # {} PROVE FALSE
  OBVIOUS
<1>2. T \subseteq Nat
  OBVIOUS
<1>3. PICK m \in T : \A k \in T : m <= k
  BY <1>1, <1>2, Smallest
<1>4. m \in 1..L /\ m-1 \in 0..L /\ ~(m <= m-1)
  BY <1>3
<1>5. m-1 \in S
  BY <1>3, <1>4
<1> QED
  BY <1>3, <1>4, <1>5

\* The states after each fact exist, and each comes from the one before.
LEMMA AfterUnfolds ==
  ASSUME NEW S, NEW facts \in Seq(S)
  PROVE  /\ After(facts)[0] = Nothing
         /\ \A n \in 1..Len(facts) : After(facts)[n] = AfterFact(After(facts)[n-1], facts[n])
<1> DEFINE Steps(f, m) == f = [n \in 0..m |-> IF n = 0 THEN Nothing ELSE AfterFact(f[n-1], facts[n])]
<1>0. Len(facts) \in Nat
  OBVIOUS
<1>1. \E f : Steps(f, Len(facts))
  <2> DEFINE T == {m \in 0..Len(facts) : \E f : Steps(f, m)}
  <2>1. 0 \in T
    <3> DEFINE g == [n \in 0..0 |-> Nothing]
    <3>1. Steps(g, 0)
      OBVIOUS
    <3>2. \E f : Steps(f, 0)
      BY <3>1
    <3> QED
      BY <1>0, <3>2
  <2>2. ASSUME NEW m \in 1..Len(facts), m-1 \in T PROVE m \in T
    <3>1. PICK f : Steps(f, m-1)
      BY <2>2
    <3> DEFINE g == [n \in 0..m |-> IF n = m THEN AfterFact(f[m-1], facts[m]) ELSE f[n]]
    <3>2. \A n \in 0..(m-1) : f[n] = IF n = 0 THEN Nothing ELSE AfterFact(f[n-1], facts[n])
      BY <3>1
    <3>3. m \in Nat /\ m >= 1
      BY <1>0
    <3>4. \A n \in 0..m : g[n] = IF n = 0 THEN Nothing ELSE AfterFact(g[n-1], facts[n])
      <4> TAKE n \in 0..m
      <4>1. CASE n = m
        <5>1. m-1 \in 0..m /\ m-1 # m /\ g[m-1] = f[m-1]
          BY <3>3
        <5> QED
          BY <3>3, <4>1, <5>1
      <4>2. CASE n = 0
        BY <3>3, <3>2, <4>2
      <4>3. CASE n # m /\ n # 0
        <5>1. n \in 0..(m-1) /\ n-1 \in 0..m /\ n-1 # m /\ g[n-1] = f[n-1]
          BY <3>3, <4>3
        <5> QED
          BY <3>2, <4>3, <5>1
      <4> QED
        BY <4>1, <4>2, <4>3
    <3>5. g = [n \in 0..m |-> g[n]]
      OBVIOUS
    <3> HIDE DEF g
    <3>6. Steps(g, m)
      BY <3>4, <3>5
    <3> QED
      BY <1>0, <3>6
  <2> HIDE DEF T
  <2>3. Len(facts) \in T
    BY <1>0, <2>1, <2>2, Upward
  <2> QED
    BY <2>3 DEF T
<1>2. After(facts) = CHOOSE f : Steps(f, Len(facts))
  BY DEF After
<1>3. Steps(After(facts), Len(facts))
  BY <1>1, <1>2
<1> DEFINE a == After(facts)
<1> HIDE DEF a
<1>4. a = [n \in 0..Len(facts) |-> IF n = 0 THEN Nothing ELSE AfterFact(a[n-1], facts[n])]
  BY <1>3 DEF a
<1>5. \A n \in 0..Len(facts) : a[n] = IF n = 0 THEN Nothing ELSE AfterFact(a[n-1], facts[n])
  BY <1>4
<1> QED
  BY <1>0, <1>5 DEF a

-----------------------------------------------------------------------------
(* Conversations *)

Kinds == {"stated", "corrected", "ack", "denied"}

\* What is known of a fact that somebody told.
Proper(field, f) ==
  /\ f.field = field /\ f.kind \in Kinds /\ f.party \in Sides
  /\ Gives(f) => f.value \in Says[field]

Record(field) ==
  [field : {field}, turn : Nat, kind : Kinds, party : Sides, value : Says[field] \cup {None},
   of : Nat \cup {None}, late : BOOLEAN]

LEMMA FactsProper ==
  ASSUME NEW field \in Fields, NEW t \in Nat, NEW f \in Facts(field, t)
  PROVE  Proper(field, f) /\ f \in Record(field) /\ f.late = FALSE
<1>0. \/ \E k \in {"stated", "corrected"}, p \in Sides, v \in Says[field] : f = Fact(field, t, k, p, v, None)
      \/ \E p \in Sides : f = Fact(field, t, "denied", p, None, None)
      \/ \E p \in Sides, v \in {None} \cup Says[field] : f = Fact(field, t, "ack", p, v, None)
      \/ \E p \in Sides, of \in 1..(t-1) : f = Fact(field, t, "ack", p, None, of)
  BY DEF Facts
<1>1. CASE \E k \in {"stated", "corrected"}, p \in Sides, v \in Says[field] : f = Fact(field, t, k, p, v, None)
  BY <1>1 DEF Fact, Proper, Record, Kinds
<1>2. CASE \E p \in Sides : f = Fact(field, t, "denied", p, None, None)
  BY <1>2 DEF Fact, Proper, Record, Kinds, Gives
<1>3. CASE \E p \in Sides, v \in {None} \cup Says[field] : f = Fact(field, t, "ack", p, v, None)
  BY <1>3 DEF Fact, Proper, Record, Kinds, Gives
<1>4. CASE \E p \in Sides, of \in 1..(t-1) : f = Fact(field, t, "ack", p, None, of)
  BY <1>4 DEF Fact, Proper, Record, Kinds, Gives
<1> QED
  BY <1>0, <1>1, <1>2, <1>3, <1>4

AllFacts(field) == UNION {Facts(field, t) : t \in Nat}

\* Every conversation TLC looks at is a sequence of proper facts.
LEMMA TalksProper ==
  ASSUME NEW field \in Fields, NEW fs \in Talks(field)
  PROVE  fs \in Seq(AllFacts(field))
<1> DEFINE L == MaxFacts[field]
<1> DEFINE Grows(t, m) == t = [n \in 0..m |-> IF n = 0 THEN {<<>>} ELSE OneMore(field, t[n-1], n)]
<1>0. L \in Nat
  BY FieldAssumption
<1>1. \E t : Grows(t, L)
  <2> HIDE DEF L
  <2> DEFINE S == {m \in 0..L : \E t : Grows(t, m)}
  <2>1. 0 \in S
    <3> DEFINE g == [n \in 0..0 |-> {<<>>}]
    <3>1. Grows(g, 0)
      OBVIOUS
    <3>2. \E t : Grows(t, 0)
      BY <3>1
    <3> QED
      BY <1>0, <3>2
  <2>2. ASSUME NEW m \in 1..L, m-1 \in S PROVE m \in S
    <3>1. PICK t : Grows(t, m-1)
      BY <2>2
    <3> DEFINE g == [n \in 0..m |-> IF n = m THEN OneMore(field, t[m-1], m) ELSE t[n]]
    <3>2. \A n \in 0..(m-1) : t[n] = IF n = 0 THEN {<<>>} ELSE OneMore(field, t[n-1], n)
      BY <3>1
    <3>3. m \in Nat /\ m >= 1
      BY <1>0
    <3>4. \A n \in 0..m : g[n] = IF n = 0 THEN {<<>>} ELSE OneMore(field, g[n-1], n)
      <4> TAKE n \in 0..m
      <4>1. CASE n = m
        <5>1. m-1 \in 0..m /\ m-1 # m /\ g[m-1] = t[m-1]
          BY <3>3
        <5> QED
          BY <3>3, <4>1, <5>1
      <4>2. CASE n = 0
        BY <3>3, <3>2, <4>2
      <4>3. CASE n # m /\ n # 0
        <5>1. n \in 0..(m-1) /\ n-1 \in 0..m /\ n-1 # m /\ g[n-1] = t[n-1]
          BY <3>3, <4>3
        <5> QED
          BY <3>2, <4>3, <5>1
      <4> QED
        BY <4>1, <4>2, <4>3
    <3>5. g = [n \in 0..m |-> g[n]]
      OBVIOUS
    <3> HIDE DEF g
    <3>6. Grows(g, m)
      BY <3>4, <3>5
    <3> QED
      BY <1>0, <3>6
  <2> HIDE DEF S
  <2>3. L \in S
    BY <1>0, <2>1, <2>2, Upward
  <2> QED
    BY <2>3 DEF S
<1> DEFINE talks == CHOOSE t : Grows(t, L)
<1>2. Talks(field) = talks[L]
  BY DEF Talks
<1>3. Grows(talks, L)
  BY <1>1
<1> HIDE DEF talks, L
<1>4. \A n \in 0..L : talks[n] = IF n = 0 THEN {<<>>} ELSE OneMore(field, talks[n-1], n)
  <2>1. talks = [n \in 0..L |-> IF n = 0 THEN {<<>>} ELSE OneMore(field, talks[n-1], n)]
    BY <1>3
  <2> QED
    BY <2>1
<1> DEFINE S == {n \in 0..L : talks[n] \subseteq Seq(AllFacts(field))}
<1>5. 0 \in S
  <2>1. talks[0] = {<<>>}
    BY <1>0, <1>4
  <2>2. <<>> \in Seq(AllFacts(field))
    BY EmptySeq
  <2>3. 0 \in 0..L
    BY <1>0
  <2>4. talks[0] \subseteq Seq(AllFacts(field))
    BY <2>1, <2>2
  <2> QED
    BY <2>3, <2>4
<1>6. ASSUME NEW n \in 1..L, n-1 \in S PROVE n \in S
  <2>1. n \in Nat /\ n # 0 /\ n \in 0..L /\ n-1 \in 0..L
    BY <1>0
  <2>5. talks[n] = OneMore(field, talks[n-1], n)
    BY <1>4, <2>1
  <2>2. \A gs \in talks[n-1] : gs \in Seq(AllFacts(field))
    BY <1>6
  <2>3. \A f \in Facts(field, n) : f \in AllFacts(field)
    BY <2>1 DEF AllFacts
  <2>4. \A gs \in talks[n-1], f \in Facts(field, n) : Append(gs, f) \in Seq(AllFacts(field))
    BY <2>2, <2>3, AppendProperties
  <2>6. ASSUME NEW x \in OneMore(field, talks[n-1], n) PROVE x \in Seq(AllFacts(field))
    <3>1. x \in talks[n-1] \/ \E gs \in talks[n-1], f \in Facts(field, n) : x = Append(gs, f)
      BY DEF OneMore
    <3> QED
      BY <2>2, <2>4, <3>1
  <2> HIDE DEF talks
  <2> QED
    BY <2>1, <2>5, <2>6
<1> HIDE DEF S
<1>7. L \in S
  BY <1>0, <1>5, <1>6, Upward
<1> QED
  BY <1>2, <1>7 DEF S

-----------------------------------------------------------------------------
(* One fact *)

\* The type of what is held of a field after facts of F.
State(field, F) ==
  [value : Says[field] \cup {None}, party : Sides \cup {None}, supports : SUBSET F,
   confirmed : SUBSET F, contested : BOOLEAN, denied : BOOLEAN, byAi : BOOLEAN]

\* What a fact f makes of what was held: it supports the value, ...
Supported(field, s, f, t) ==
  /\ Gives(f) /\ Known(s) /\ Compatible(field, s.value, f.value)
  /\ t.value = Longer(s.value, f.value) /\ t.supports = s.supports \cup {f}
  /\ \/ t.confirmed = s.confirmed
     \/ s.confirmed = {} /\ OtherParty(s, f) /\ t.confirmed = {f}
  /\ t.contested = s.contested /\ t.denied = s.denied /\ t.party = s.party

\* ... contradicts a value that stays, ...
Opposed(field, s, f, t) ==
  /\ f.kind = "stated" /\ Known(s) /\ OtherParty(s, f)
  /\ t.value = s.value /\ t.supports = s.supports /\ t.confirmed = s.confirmed
  /\ t.contested /\ t.denied = s.denied /\ t.party = s.party

\* ... replaces the value, ...
Replaced(field, s, f, t) ==
  /\ Gives(f) /\ ~Agrees(s, f)
  /\ t.value = f.value /\ t.supports = {f} /\ t.confirmed = {} /\ ~t.denied /\ t.party = f.party
  /\ t.contested = Contested(s, f)

\* ... or is about the value: it confirms it, denies it or does nothing.
Commented(field, s, f, t) ==
  /\ ~Gives(f)
  /\ t.value = s.value /\ t.supports = s.supports /\ t.contested = s.contested /\ t.party = s.party
  /\ \/ /\ t.confirmed = s.confirmed /\ t.denied = s.denied
        /\ f.kind = "denied" => ~Known(s) \/ ~OtherParty(s, f)
     \/ /\ f.kind = "ack" /\ Known(s) /\ OtherParty(s, f) /\ s.confirmed = {}
        /\ t.confirmed = {f} /\ t.denied = s.denied
     \/ f.kind = "denied" /\ Known(s) /\ t.confirmed = {} /\ t.denied

LEMMA FactStep ==
  ASSUME NEW field \in Fields, NEW F, NEW s \in State(field, F), NEW f \in F, Proper(field, f)
  PROVE  LET t == AfterFact(s, f)
         IN  /\ t \in State(field, F) /\ t.byAi = s.byAi
             /\ \/ Supported(field, s, f, t) \/ Opposed(field, s, f, t)
                \/ Replaced(field, s, f, t) \/ Commented(field, s, f, t)
<1> DEFINE t == AfterFact(s, f)
<1>0. f.field = field /\ f.party \in Sides /\ f.kind \in Kinds /\ (Gives(f) => f.value \in Says[field])
  BY DEF Proper
<1>1. CASE Gives(f) /\ Agrees(s, f)
  <2>1. t = AfterSame(s, f)
    BY <1>1 DEF AfterFact, Gives
  <2> HIDE DEF t
  <2>2. Longer(s.value, f.value) \in {s.value, f.value}
    BY DEF Longer
  <2>3. t \in State(field, F) /\ t.byAi = s.byAi /\ Supported(field, s, f, t)
    <3> DEFINE longer == Longer(s.value, f.value)
               by == IF s.confirmed = {} /\ OtherParty(s, f) THEN {f} ELSE s.confirmed
    <3>1. t = [s EXCEPT !.supports = s.supports \cup {f}, !.value = longer, !.confirmed = by]
      BY <2>1 DEF AfterSame
    <3>2. /\ longer \in Says[field] \cup {None} /\ by \subseteq F
          /\ by = s.confirmed \/ (s.confirmed = {} /\ OtherParty(s, f) /\ by = {f})
      BY <1>0, <1>1, <2>2 DEF State
    <3>3. longer = Longer(s.value, f.value)
      OBVIOUS
    <3>4. Known(s) /\ Compatible(field, s.value, f.value)
      BY <1>0, <1>1 DEF Agrees
    <3> HIDE DEF longer, by
    <3>5. t \in State(field, F) /\ t.byAi = s.byAi
      BY <3>1, <3>2 DEF State
    <3>6. /\ t.value = longer /\ t.supports = s.supports \cup {f} /\ t.confirmed = by
          /\ t.contested = s.contested /\ t.denied = s.denied /\ t.party = s.party
      BY <3>1 DEF State
    <3> QED
      BY <1>1, <3>2, <3>3, <3>4, <3>5, <3>6 DEF Supported
  <2> QED
    BY <2>3 DEF t
<1>2. CASE Gives(f) /\ ~Agrees(s, f)
  <2>1. t = AfterOther(s, f)
    BY <1>2 DEF AfterFact, Gives
  <2> HIDE DEF t
  <2> DEFINE c == Contested(s, f)
  <2>2. c \in BOOLEAN
    BY DEF Contested
  <2>3. CASE Replaces(s, f)
    <3>1. t = [Held(s, f) EXCEPT !.contested = c]
      BY <2>1, <2>3 DEF AfterOther
    <3> HIDE DEF c
    <3>2. /\ t \in State(field, F) /\ t.byAi = s.byAi /\ t.value = f.value /\ t.supports = {f} /\ t.confirmed = {}
          /\ ~t.denied /\ t.party = f.party /\ t.contested = c
      BY <1>0, <1>2, <2>2, <3>1 DEF State, Held
    <3> QED
      BY <1>2, <3>2 DEF Replaced, c, t
  <2>4. CASE ~Replaces(s, f)
    <3>1. t = [s EXCEPT !.contested = c]
      BY <2>1, <2>4 DEF AfterOther
    <3>2. f.kind = "stated" /\ Known(s) /\ OtherParty(s, f) /\ c
      BY <1>0, <1>2, <2>4 DEF Replaces, Contested, Gives
    <3> HIDE DEF c
    <3>3. t \in State(field, F) /\ t.byAi = s.byAi /\ Opposed(field, s, f, t)
      BY <2>2, <3>1, <3>2 DEF State, Opposed
    <3> QED
      BY <3>3 DEF t
  <2> QED
    BY <2>3, <2>4
<1>3. CASE f.kind = "ack"
  <2>1. t = AfterAck(s, f)
    BY <1>3 DEF AfterFact, Gives
  <2> HIDE DEF t
  <2> DEFINE by == IF s.confirmed = {} /\ Acknowledges(s, f) THEN {f} ELSE s.confirmed
  <2>2. t = [s EXCEPT !.confirmed = by]
    BY <2>1 DEF AfterAck
  <2>3. /\ by \subseteq F
        /\ by = s.confirmed \/ (s.confirmed = {} /\ Known(s) /\ OtherParty(s, f) /\ by = {f})
    BY DEF State, Acknowledges
  <2> HIDE DEF by
  <2>4. t \in State(field, F) /\ t.byAi = s.byAi
    BY <2>2, <2>3 DEF State
  <2>5. Commented(field, s, f, t)
    BY <1>3, <2>2, <2>3 DEF State, Commented, Gives
  <2> QED
    BY <2>4, <2>5 DEF t
<1>4. CASE f.kind = "denied"
  <2>1. t = AfterDenial(s, f)
    BY <1>4 DEF AfterFact, Gives
  <2> HIDE DEF t
  <2>2. t \in State(field, F) /\ t.byAi = s.byAi
    BY <2>1 DEF AfterDenial, State
  <2>3. Commented(field, s, f, t)
    BY <1>4, <2>1 DEF AfterDenial, State, Commented, Gives
  <2> QED
    BY <2>2, <2>3 DEF t
<1> QED
  BY <1>0, <1>1, <1>2, <1>3, <1>4 DEF Kinds, Gives

-----------------------------------------------------------------------------
(* What a conversation tells of the value held *)

\* The value a is the value b, or a part of it.
Within(field, a, b) == a = b \/ (field \in NameFields /\ a \subseteq b)

\* Since turn i, when its party gave it, the value held after n turns has grown only by
\* values that it contains, and who contradicted, denied or confirmed it is known.
Since(field, fs, n, s, i) ==
  /\ Gives(fs[i]) /\ fs[i].party = s.party
  /\ \E m \in i..n : Gives(fs[m]) /\ fs[m].value = s.value
  /\ s.contested \/ \A k \in i..n : Gives(fs[k]) => Within(field, fs[k].value, s.value)
  /\ s.denied \/ \A k \in i..n : fs[k].kind = "denied" => fs[k].party = s.party
  /\ s.confirmed = {} \/ \E j \in (i+1)..n : /\ Gives(fs[j]) \/ fs[j].kind = "ack"
                                            /\ fs[j].party # s.party /\ s.confirmed = {fs[j]}
  /\ \A f \in s.supports : \E k \in i..n : Gives(fs[k]) /\ f = fs[k]

Story(field, fs, n, s) ==
  /\ ~Known(s) => \A k \in 1..n : ~Gives(fs[k])
  /\ Known(s) => \E i \in 1..n : Since(field, fs, n, s, i)

LEMMA LongerContains ==
  ASSUME NEW field \in Fields, NEW a \in Says[field], NEW b \in Says[field], Compatible(field, a, b)
  PROVE  Within(field, a, Longer(a, b)) /\ Within(field, b, Longer(a, b))
<1>1. CASE a = b
  BY <1>1 DEF Longer, Within
<1>2. CASE field \in NameFields /\ a \subseteq b
  <2>1. IsFiniteSet(a) /\ IsFiniteSet(b)
    BY FieldAssumption
  <2>2. Cardinality(a) <= Cardinality(b) /\ (Cardinality(a) = Cardinality(b) => a = b)
    BY <1>2, <2>1, FS_Subset
  <2>3. Cardinality(a) \in Nat /\ Cardinality(b) \in Nat
    BY <2>1, FS_CardinalityType
  <2>4. Longer(a, b) = b
    BY <2>2, <2>3 DEF Longer
  <2> QED
    BY <1>2, <2>4 DEF Within
<1>3. CASE field \in NameFields /\ b \subseteq a
  <2>1. IsFiniteSet(a) /\ IsFiniteSet(b)
    BY FieldAssumption
  <2>2. Cardinality(b) <= Cardinality(a)
    BY <1>3, <2>1, FS_Subset
  <2>3. Cardinality(a) \in Nat /\ Cardinality(b) \in Nat
    BY <2>1, FS_CardinalityType
  <2>4. Longer(a, b) = a
    BY <2>2, <2>3 DEF Longer
  <2> QED
    BY <1>3, <2>4 DEF Within
<1> QED
  BY <1>1, <1>2, <1>3 DEF Compatible

LEMMA WithinTransitive ==
  ASSUME NEW field, NEW a, NEW b, NEW c, Within(field, a, b), Within(field, b, c)
  PROVE  Within(field, a, c)
BY DEF Within

LEMMA StoryStep ==
  ASSUME NEW field \in Fields, NEW F, NEW fs \in Seq(F), NEW n \in 1..Len(fs),
         \A k \in 1..Len(fs) : Proper(field, fs[k]),
         NEW s \in State(field, F), NEW t \in State(field, F), Story(field, fs, n-1, s),
         \/ Supported(field, s, fs[n], t) \/ Opposed(field, s, fs[n], t)
         \/ Replaced(field, s, fs[n], t) \/ Commented(field, s, fs[n], t)
  PROVE  Story(field, fs, n, t)
<1> DEFINE f == fs[n]
<1>0. /\ n \in Nat /\ n-1 \in Nat /\ n >= 1 /\ Proper(field, f) /\ None \notin Says[field]
      /\ Known(s) => s.value \in Says[field]
  BY FieldAssumption DEF State, Known
<1>1. \A i \in 1..(n-1) : /\ i \in 1..n /\ i+1 \in Int /\ n \in (i+1)..n
                          /\ \A k \in i..n : k \in i..(n-1) \/ k = n
                          /\ \A k \in i..(n-1) : k \in i..n
                          /\ \A k \in (i+1)..(n-1) : k \in (i+1)..n
  BY <1>0
<1>2. CASE Supported(field, s, f, t)
  <2>1. PICK i \in 1..(n-1) : Since(field, fs, n-1, s, i)
    BY <1>2 DEF Story, Supported
  <2>2. s.value \in Says[field] /\ f.value \in Says[field]
    BY <1>0, <1>2 DEF Supported, Proper
  <2>3. Within(field, s.value, t.value) /\ Within(field, f.value, t.value) /\ t.value \in {s.value, f.value}
    BY <1>2, <2>2, LongerContains DEF Supported, Longer
  <2>4. Gives(fs[i]) /\ fs[i].party = t.party
    BY <1>2, <2>1 DEF Since, Supported
  <2>5. \E m \in i..n : Gives(fs[m]) /\ fs[m].value = t.value
    BY <1>1, <1>2, <2>1, <2>3 DEF Since, Supported
  <2>6. t.contested \/ \A k \in i..n : Gives(fs[k]) => Within(field, fs[k].value, t.value)
    BY <1>1, <1>2, <2>1, <2>3, WithinTransitive DEF Since, Supported
  <2>7. t.denied \/ \A k \in i..n : fs[k].kind = "denied" => fs[k].party = t.party
    BY <1>1, <1>2, <2>1 DEF Since, Supported, Gives
  <2>8. t.confirmed = {} \/ \E j \in (i+1)..n : /\ Gives(fs[j]) \/ fs[j].kind = "ack"
                                              /\ fs[j].party # t.party /\ t.confirmed = {fs[j]}
    BY <1>1, <1>2, <2>1 DEF Since, Supported, OtherParty
  <2>9. \A g \in t.supports : \E k \in i..n : Gives(fs[k]) /\ g = fs[k]
    BY <1>1, <1>2, <2>1 DEF Since, Supported
  <2>10. Since(field, fs, n, t, i)
    BY <2>4, <2>5, <2>6, <2>7, <2>8, <2>9 DEF Since
  <2>11. Known(t)
    BY <1>0, <2>2, <2>3 DEF Known
  <2> QED
    BY <1>1, <2>10, <2>11 DEF Story
<1>3. CASE Opposed(field, s, f, t)
  <2>1. PICK i \in 1..(n-1) : Since(field, fs, n-1, s, i)
    BY <1>3 DEF Story, Opposed
  <2>2. Since(field, fs, n, t, i)
    <3>1. /\ Gives(fs[i]) /\ fs[i].party = t.party /\ t.contested
          /\ \E m \in i..n : Gives(fs[m]) /\ fs[m].value = t.value
      BY <1>1, <1>3, <2>1 DEF Since, Opposed
    <3>2. t.denied \/ \A k \in i..n : fs[k].kind = "denied" => fs[k].party = t.party
      BY <1>1, <1>3, <2>1 DEF Since, Opposed
    <3>3. t.confirmed = {} \/ \E j \in (i+1)..n : /\ Gives(fs[j]) \/ fs[j].kind = "ack"
                                                /\ fs[j].party # t.party /\ t.confirmed = {fs[j]}
      BY <1>1, <1>3, <2>1 DEF Since, Opposed
    <3>4. \A g \in t.supports : \E k \in i..n : Gives(fs[k]) /\ g = fs[k]
      BY <1>1, <1>3, <2>1 DEF Since, Opposed
    <3> QED
      BY <3>1, <3>2, <3>3, <3>4 DEF Since
  <2>3. Known(t)
    BY <1>3 DEF Known, Opposed
  <2> QED
    BY <1>1, <2>2, <2>3 DEF Story
<1>4. CASE Replaced(field, s, f, t)
  <2>1. n \in 1..n /\ n \in n..n /\ \A k \in n..n : k = n
    BY <1>0
  <2>2. Gives(f) /\ t.value = f.value /\ t.supports = {f} /\ t.confirmed = {} /\ t.party = f.party
    BY <1>4 DEF Replaced
  <2>3. Since(field, fs, n, t, n)
    BY <2>1, <2>2 DEF Since, Within, Gives
  <2>4. Known(t)
    BY <1>0, <2>2 DEF Known, Proper
  <2> QED
    BY <2>1, <2>3, <2>4 DEF Story
<1>5. CASE Commented(field, s, f, t)
  <2>1. CASE ~Known(s)
    BY <1>0, <1>5, <2>1 DEF Story, Commented, Known
  <2>2. CASE Known(s)
    <3>1. PICK i \in 1..(n-1) : Since(field, fs, n-1, s, i)
      BY <2>2 DEF Story
    <3>2. Gives(fs[i]) /\ fs[i].party = t.party
      BY <1>5, <3>1 DEF Since, Commented
    <3>3. \E m \in i..n : Gives(fs[m]) /\ fs[m].value = t.value
      BY <1>1, <1>5, <3>1 DEF Since, Commented
    <3>4. t.contested \/ \A k \in i..n : Gives(fs[k]) => Within(field, fs[k].value, t.value)
      BY <1>1, <1>5, <3>1 DEF Since, Commented
    <3>5. t.denied \/ \A k \in i..n : fs[k].kind = "denied" => fs[k].party = t.party
      <4>1. t.party = s.party
        BY <1>5 DEF Commented
      <4>2. t.denied \/ (t.denied = s.denied /\ (f.kind = "denied" => f.party = s.party))
        BY <1>5, <2>2 DEF Commented, OtherParty
      <4> HIDE DEF f
      <4>3. s.denied \/ \A k \in i..(n-1) : fs[k].kind = "denied" => fs[k].party = s.party
        BY <3>1 DEF Since
      <4>4. \A k \in i..n : k \in i..(n-1) \/ fs[k] = f
        BY <1>1 DEF f
      <4> QED
        BY <4>1, <4>2, <4>3, <4>4
    <3>6. t.confirmed = {} \/ \E j \in (i+1)..n : /\ Gives(fs[j]) \/ fs[j].kind = "ack"
                                                /\ fs[j].party # t.party /\ t.confirmed = {fs[j]}
      <4>1. t.party = s.party /\ i+1 \in Int
        BY <1>1, <1>5 DEF Commented
      <4>2. \/ t.confirmed = s.confirmed \/ t.confirmed = {}
            \/ f.kind = "ack" /\ f.party # s.party /\ t.confirmed = {f}
        BY <1>5 DEF Commented, OtherParty
      <4>3. s.confirmed = {} \/ \E j \in (i+1)..(n-1) : /\ Gives(fs[j]) \/ fs[j].kind = "ack"
                                                      /\ fs[j].party # s.party /\ s.confirmed = {fs[j]}
        BY <3>1 DEF Since
      <4>4. n \in (i+1)..n /\ \A k \in (i+1)..(n-1) : k \in (i+1)..n
        BY <1>1
      <4> QED
        BY <4>1, <4>2, <4>3, <4>4
    <3>7. \A g \in t.supports : \E k \in i..n : Gives(fs[k]) /\ g = fs[k]
      BY <1>1, <1>5, <3>1 DEF Since, Commented
    <3>8. Since(field, fs, n, t, i)
      BY <3>2, <3>3, <3>4, <3>5, <3>6, <3>7 DEF Since
    <3>9. Known(t)
      BY <1>5, <2>2 DEF Known, Commented
    <3> QED
      BY <1>1, <3>8, <3>9 DEF Story
  <2> QED
    BY <2>1, <2>2
<1> QED
  BY <1>2, <1>3, <1>4, <1>5

\* Every state of the loop over a conversation.
LEMMA StoryHolds ==
  ASSUME NEW field \in Fields, NEW F, NEW fs \in Seq(F), \A k \in 1..Len(fs) : Proper(field, fs[k])
  PROVE  /\ Len(fs) \in Nat
         /\ \A n \in 0..Len(fs) :
              After(fs)[n] \in State(field, F) /\ After(fs)[n].byAi = FALSE /\ Story(field, fs, n, After(fs)[n])
         /\ \A n \in 1..Len(fs) :
              \/ Supported(field, After(fs)[n-1], fs[n], After(fs)[n])
              \/ Opposed(field, After(fs)[n-1], fs[n], After(fs)[n])
              \/ Replaced(field, After(fs)[n-1], fs[n], After(fs)[n])
              \/ Commented(field, After(fs)[n-1], fs[n], After(fs)[n])
<1> DEFINE a == After(fs)
           L == Len(fs)
           Good(n) == a[n] \in State(field, F) /\ a[n].byAi = FALSE /\ Story(field, fs, n, a[n])
           S == {n \in 0..L : Good(n)}
<1>0. L \in Nat
  OBVIOUS
<1>1. a[0] = Nothing /\ \A n \in 1..L : a[n] = AfterFact(a[n-1], fs[n])
  BY AfterUnfolds
<1> HIDE DEF a, L
<1>2. 0 \in S
  <2>1. Nothing \in State(field, F) /\ Nothing.byAi = FALSE /\ ~Known(Nothing)
    BY DEF Nothing, State, Known
  <2>2. \A k \in 1..0 : ~Gives(fs[k])
    OBVIOUS
  <2>3. Story(field, fs, 0, Nothing)
    BY <2>1, <2>2 DEF Story
  <2> QED
    BY <1>0, <1>1, <2>1, <2>3
<1>3. ASSUME NEW n \in 1..L, Good(n-1)
      PROVE  /\ Good(n)
             /\ \/ Supported(field, a[n-1], fs[n], a[n]) \/ Opposed(field, a[n-1], fs[n], a[n])
                \/ Replaced(field, a[n-1], fs[n], a[n]) \/ Commented(field, a[n-1], fs[n], a[n])
  <2> DEFINE s == a[n-1]
             t == a[n]
  <2>1. fs[n] \in F /\ Proper(field, fs[n]) /\ n \in 1..Len(fs)
    BY DEF L
  <2>2. t = AfterFact(s, fs[n]) /\ s \in State(field, F) /\ s.byAi = FALSE /\ Story(field, fs, n-1, s)
    BY <1>1, <1>3
  <2> HIDE DEF s, t
  <2>3. /\ t \in State(field, F) /\ t.byAi = s.byAi
        /\ \/ Supported(field, s, fs[n], t) \/ Opposed(field, s, fs[n], t)
           \/ Replaced(field, s, fs[n], t) \/ Commented(field, s, fs[n], t)
    BY <2>1, <2>2, FactStep
  <2>4. Story(field, fs, n, t)
    BY <2>1, <2>2, <2>3, StoryStep
  <2> QED
    BY <2>2, <2>3, <2>4 DEF s, t
<1>4. \A n \in 1..L : n-1 \in S => n \in S
  <2> HIDE DEF Good
  <2> QED
    BY <1>0, <1>3
<1>5. \A n \in 0..L : n \in S
  <2> HIDE DEF S
  <2> QED
    BY <1>0, <1>2, <1>4, Upward
<1>6. \A n \in 0..L : Good(n)
  BY <1>5
<1>7. \A n \in 1..L : Good(n-1)
  <2> HIDE DEF Good
  <2> QED
    BY <1>0, <1>6
<1>8. \A n \in 1..L :
        \/ Supported(field, a[n-1], fs[n], a[n]) \/ Opposed(field, a[n-1], fs[n], a[n])
        \/ Replaced(field, a[n-1], fs[n], a[n]) \/ Commented(field, a[n-1], fs[n], a[n])
  BY <1>3, <1>7
<1> QED
  BY <1>0, <1>6, <1>8 DEF a, L

\* What TLC looks at: conversations of proper facts, heard in time.
LEMMA TalkFacts ==
  ASSUME NEW field \in Fields, NEW fs \in Talks(field)
  PROVE  /\ fs \in Seq(AllFacts(field)) /\ Len(fs) \in Nat /\ DOMAIN fs = 1..Len(fs)
         /\ \A k \in 1..Len(fs) : Proper(field, fs[k]) /\ fs[k] \in Record(field) /\ fs[k].late = FALSE
<1>1. fs \in Seq(AllFacts(field))
  BY TalksProper
<1>2. \A k \in 1..Len(fs) : fs[k] \in AllFacts(field)
  BY <1>1
<1>3. ASSUME NEW k \in 1..Len(fs)
      PROVE  Proper(field, fs[k]) /\ fs[k] \in Record(field) /\ fs[k].late = FALSE
  <2>1. PICK t \in Nat : fs[k] \in Facts(field, t)
    BY <1>2 DEF AllFacts
  <2> HIDE DEF AllFacts
  <2> QED
    BY <2>1, FactsProper
<1>4. Len(fs) \in Nat /\ DOMAIN fs = 1..Len(fs)
  BY <1>1
<1> QED
  BY <1>1, <1>3, <1>4

\* The rules that make a field VERIFIED, in one formula.
Trusted(field, s, opinion) ==
  /\ field \in RepOnlyFields => GivenByRep(s)
  /\ ~s.denied /\ s.confirmed # {}
  /\ s.byAi \/ (~s.contested /\ ~Untrusted(s) /\ ~Disagrees(field, s, opinion))

LEMMA ReasonVerified ==
  ASSUME NEW field, NEW s, NEW opinion
  PROVE  Reason(field, s, opinion) = "verified" <=> Trusted(field, s, opinion)
<1> DEFINE repOnly == field \in RepOnlyFields /\ ~GivenByRep(s)
           conflict == s.contested /\ ~s.byAi
           once == s.confirmed = {}
           lateTurn == ~s.byAi /\ Untrusted(s)
           disagrees == ~s.byAi /\ Disagrees(field, s, opinion)
<1>1. Reason(field, s, opinion) =
        CASE repOnly -> "rep_only_violation" [] conflict -> "conflict" [] s.denied -> "denied"
          [] once -> "stated_once" [] lateTurn -> "late_turn" [] disagrees -> "verifier_disagrees"
          [] OTHER -> "verified"
  BY DEF Reason
<1>2. Trusted(field, s, opinion) <=> ~repOnly /\ ~conflict /\ ~s.denied /\ ~once /\ ~lateTurn /\ ~disagrees
  BY DEF Trusted
<1> HIDE DEF repOnly, conflict, once, lateTurn, disagrees
<1> QED
  BY <1>1, <1>2

LEMMA DerivedFrom ==
  ASSUME NEW field, NEW facts, NEW opinion
  PROVE  LET s == Heard(facts)
             d == Derived(field, facts, opinion)
         IN  /\ Known(s) => /\ d.value = s.value /\ d.source = s.party
                            /\ d.status = IF Trusted(field, s, opinion) THEN "VERIFIED" ELSE "PENDING"
             /\ ~Known(s) /\ opinion # None => d.status = "PENDING"
             /\ ~Known(s) /\ opinion = None => d.status = "MISSING"
BY ReasonVerified DEF Derived

-----------------------------------------------------------------------------
(* The rules *)

\* A conflict stands until a correction takes it away.
LEMMA ContestStays ==
  ASSUME NEW field \in Fields, NEW F, NEW fs \in Seq(F), \A k \in 1..Len(fs) : Proper(field, fs[k]),
         NEW l \in 1..Len(fs), After(fs)[l].contested, \A r \in (l+1)..Len(fs) : fs[r].kind # "corrected"
  PROVE  Heard(fs).contested
<1> DEFINE a == After(fs)
           L == Len(fs)
           S == {n \in 0..L : n < l \/ a[n].contested}
<1>1. L \in Nat
  BY StoryHolds
<1>2. 0 \in S
  BY <1>1
<1>3. ASSUME NEW n \in 1..L, n-1 \in S PROVE n \in S
  <2>1. CASE n < l
    BY <1>1, <2>1
  <2>2. CASE n = l
    BY <1>1, <2>2
  <2>3. CASE n > l
    <3>1. a[n-1].contested /\ fs[n].kind # "corrected"
      BY <1>1, <1>3, <2>3
    <3>2. \/ Supported(field, a[n-1], fs[n], a[n]) \/ Opposed(field, a[n-1], fs[n], a[n])
          \/ Replaced(field, a[n-1], fs[n], a[n]) \/ Commented(field, a[n-1], fs[n], a[n])
      BY StoryHolds
    <3> HIDE DEF a
    <3>3. a[n].contested
      BY <3>1, <3>2 DEF Supported, Opposed, Replaced, Commented, Contested
    <3> QED
      BY <1>1, <3>3
  <2> QED
    BY <1>1, <2>1, <2>2, <2>3
<1> HIDE DEF S, L
<1>4. L \in S
  <2>1. L \in 0..L
    BY <1>1
  <2> QED
    BY <1>1, <1>2, <1>3, <2>1, Upward
<1> QED
  BY <1>1, <1>4 DEF S, L, Heard

\* A statement against the value held, by the party that did not give it, is a conflict.
LEMMA ContestRises ==
  ASSUME NEW field \in Fields, NEW F, NEW fs \in Seq(F), \A k \in 1..Len(fs) : Proper(field, fs[k]),
         NEW l \in 1..Len(fs), NEW k \in 1..(l-1),
         fs[l].kind = "stated", Gives(fs[k]), \A h \in (k+1)..(l-1) : ~Gives(fs[h]),
         \A h \in 1..(l-1) : Gives(fs[h]) /\ Linked(field, fs, l, h, k)
                             => fs[h].party # fs[l].party /\ ~Compatible(field, fs[h].value, fs[l].value)
  PROVE  After(fs)[l].contested
<1> DEFINE s == After(fs)[l-1]
           t == After(fs)[l]
           f == fs[l]
<1>1. l \in Nat /\ k \in Nat /\ l-1 \in 0..Len(fs) /\ l-1 \in Nat /\ Len(fs) \in Nat
  BY StoryHolds
<1>2. /\ s \in State(field, F) /\ Story(field, fs, l-1, s)
      /\ Supported(field, s, f, t) \/ Opposed(field, s, f, t) \/ Replaced(field, s, f, t) \/ Commented(field, s, f, t)
  BY <1>1, StoryHolds
<1>3. Known(s)
  BY <1>2 DEF Story
<1>4. PICK i \in 1..(l-1) : Since(field, fs, l-1, s, i)
  BY <1>2, <1>3 DEF Story
<1>5. Gives(f) /\ f.field = field
  BY DEF Gives, Proper
<1> HIDE DEF s, t
<1>6. ASSUME s.contested PROVE t.contested
  BY <1>2, <1>5, <1>6 DEF Supported, Opposed, Replaced, Commented, Contested
<1>7. ASSUME ~s.contested PROVE t.contested
  <2>1. k \in i..(l-1) /\ i \in i..(l-1)
    <3>1. ~(i > k)
      BY <1>1, <1>4 DEF Since
    <3> QED
      BY <1>1, <3>1
  <2>2. \A h \in i..(l-1) : Gives(fs[h]) => Within(field, fs[h].value, s.value)
    BY <1>4, <1>7 DEF Since
  <2>3. PICK m \in i..(l-1) : Gives(fs[m]) /\ fs[m].value = s.value
    BY <1>4 DEF Since
  <2>4. m \in 1..(l-1)
    BY <1>1
  <2>5. Linked(field, fs, l, i, k) /\ Linked(field, fs, l, m, k)
    <3>1. /\ Compatible(field, fs[i].value, fs[m].value) /\ Compatible(field, fs[m].value, fs[k].value)
          /\ Compatible(field, fs[m].value, fs[m].value)
      BY <1>4, <2>1, <2>2, <2>3 DEF Since, Within, Compatible
    <3> QED
      BY <2>3, <2>4, <3>1 DEF Linked
  <2>6. fs[i].party # f.party /\ ~Compatible(field, s.value, f.value)
    BY <1>4, <2>3, <2>4, <2>5 DEF Since
  <2>7. OtherParty(s, f) /\ ~Agrees(s, f)
    BY <1>4, <1>5, <2>6 DEF Since, OtherParty, Agrees
  <2>8. Contested(s, f)
    BY <1>3, <2>7 DEF Contested
  <2> QED
    BY <1>2, <1>5, <2>6, <2>8 DEF Supported, Opposed, Replaced, Commented
<1> QED
  BY <1>6, <1>7 DEF t

\* In every conversation about any field a value is VERIFIED without the AI only when both
\* parties agreed on it and no contradiction between them stands (deriveField).
THEOREM AgreedRuleHolds == AgreedRule
<1> SUFFICES ASSUME NEW field \in Fields, NEW fs \in Talks(field), ByHumans(Derived(field, fs, None))
             PROVE  LET d == Derived(field, fs, None)
                    IN  /\ BothAgree(field, fs, d) /\ ContestSettled(field, fs)
                        /\ field \in RepOnlyFields => \E k \in DOMAIN fs : Gives(fs[k]) /\ fs[k].party = "rep"
  BY DEF AgreedRule
<1> DEFINE d == Derived(field, fs, None)
           F == AllFacts(field)
           s == Heard(fs)
           L == Len(fs)
<1>1. fs \in Seq(F) /\ L \in Nat /\ DOMAIN fs = 1..L /\ \A k \in 1..L : Proper(field, fs[k])
  BY TalkFacts
<1>2. s \in State(field, F) /\ s.byAi = FALSE /\ Story(field, fs, L, s)
  <2>1. s = After(fs)[L] /\ L \in 0..L
    BY <1>1 DEF Heard
  <2> HIDE DEF s, F
  <2> QED
    BY <1>1, <2>1, StoryHolds
<1>3. Known(s) /\ d.value = s.value /\ d.source = s.party /\ Trusted(field, s, None)
  BY DerivedFrom DEF ByHumans
<1> HIDE DEF d, s, F
<1>4. ~s.contested /\ ~s.denied /\ s.confirmed # {} /\ (field \in RepOnlyFields => GivenByRep(s))
  BY <1>2, <1>3 DEF Trusted
<1>5. PICK i \in 1..L : Since(field, fs, L, s, i)
  BY <1>2, <1>3 DEF Story
<1>6. BothAgree(field, fs, d)
  <2>1. PICK j \in (i+1)..L : (Gives(fs[j]) \/ fs[j].kind = "ack") /\ fs[j].party # s.party
    BY <1>4, <1>5 DEF Since
  <2>2. i \in DOMAIN fs /\ j \in DOMAIN fs /\ i < j
    BY <1>1
  <2>3. \A k \in Against(field, fs, s.value) : k < i
    <3> SUFFICES ASSUME NEW k \in 1..L, Gives(fs[k]), ~(k < i)
                 PROVE  Compatible(field, fs[k].value, s.value)
      BY <1>1 DEF Against
    <3>1. k \in i..L
      BY <1>1
    <3> QED
      BY <1>4, <1>5, <3>1 DEF Since, Within, Compatible
  <2>4. Gives(fs[i]) /\ fs[i].party = s.party /\ \A k \in i..L : fs[k].kind = "denied" => fs[k].party = s.party
    BY <1>4, <1>5 DEF Since
  <2> QED
    BY <1>3, <2>1, <2>2, <2>3, <2>4 DEF BothAgree
<1>7. ContestSettled(field, fs)
  <2> SUFFICES ASSUME NEW l \in 1..L, NEW k \in 1..(l-1),
                      fs[l].kind = "stated", Gives(fs[k]), \A h \in (k+1)..(l-1) : ~Gives(fs[h]),
                      \A h \in 1..(l-1) : Gives(fs[h]) /\ Linked(field, fs, l, h, k)
                                          => fs[h].party # fs[l].party /\ ~Compatible(field, fs[h].value, fs[l].value)
               PROVE  \E r \in (l+1)..L : fs[r].kind = "corrected"
    BY <1>1 DEF ContestSettled
  <2>1. After(fs)[l].contested
    BY <1>1, ContestRises
  <2> QED
    BY <1>1, <1>4, <2>1, ContestStays DEF s
<1>8. ASSUME field \in RepOnlyFields PROVE \E k \in DOMAIN fs : Gives(fs[k]) /\ fs[k].party = "rep"
  <2>1. PICK f \in s.supports : f.party \in {"rep", "ai"}
    BY <1>4, <1>8 DEF GivenByRep
  <2>2. PICK k \in i..L : Gives(fs[k]) /\ f = fs[k]
    BY <1>5 DEF Since
  <2>3. k \in 1..L /\ fs[k].party \in Sides
    BY <1>1 DEF Proper
  <2> QED
    BY <1>1, <2>1, <2>2, <2>3 DEF Sides
<1> QED
  BY <1>6, <1>7, <1>8 DEF d

\* The states of two conversations that begin alike are the same.
LEMMA PrefixSame ==
  ASSUME NEW F, NEW G, NEW g \in Seq(F), NEW h \in Seq(G), NEW m \in Nat, m <= Len(g), m <= Len(h),
         \A k \in 1..m : g[k] = h[k]
  PROVE  After(g)[m] = After(h)[m]
<1> DEFINE S == {n \in 0..m : After(g)[n] = After(h)[n]}
<1>1. Len(g) \in Nat /\ Len(h) \in Nat
  OBVIOUS
<1>2. After(g)[0] = Nothing /\ After(h)[0] = Nothing
  BY AfterUnfolds
<1>3. ASSUME NEW n \in 1..m, n-1 \in S PROVE n \in S
  <2>1. n \in 1..Len(g) /\ n \in 1..Len(h) /\ n \in 0..m
    BY <1>1
  <2>2. After(g)[n] = AfterFact(After(g)[n-1], g[n])
    BY <2>1, AfterUnfolds
  <2>3. After(h)[n] = AfterFact(After(h)[n-1], h[n])
    BY <2>1, AfterUnfolds
  <2> QED
    BY <1>3, <2>1, <2>2, <2>3
<1>4. 0 \in S /\ m \in 0..m
  BY <1>2
<1> HIDE DEF S
<1>5. m \in S
  BY <1>3, <1>4, Upward
<1> QED
  BY <1>5 DEF S

\* A fact heard too late supports the value.
Tainted(s) == \E f \in s.supports : f.late

\* What was held when the call was passed on, e, is held in s, and nothing that stands
\* against it went away.
Preserved(e, s) ==
  /\ s.value = e.value /\ s.party = e.party /\ s.supports = e.supports
  /\ ~s.contested => ~e.contested
  /\ ~s.denied => ~e.denied /\ (s.confirmed = e.confirmed \/ \E f \in s.confirmed : f.late)

LEMMA LateStep ==
  ASSUME NEW field, NEW e, NEW s, NEW t, NEW f, f.late, Tainted(s) \/ Preserved(e, s),
         \/ Supported(field, s, f, t) \/ Opposed(field, s, f, t)
         \/ Replaced(field, s, f, t) \/ Commented(field, s, f, t)
  PROVE  Tainted(t) \/ Preserved(e, t)
<1>1. CASE Supported(field, s, f, t) \/ Replaced(field, s, f, t)
  BY <1>1 DEF Supported, Replaced, Tainted
<1>2. CASE Opposed(field, s, f, t)
  BY <1>2 DEF Opposed, Tainted, Preserved
<1>3. CASE Commented(field, s, f, t)
  <2>1. CASE Tainted(s)
    BY <1>3, <2>1 DEF Commented, Tainted
  <2>2. CASE Preserved(e, s)
    <3>1. t.value = e.value /\ t.party = e.party /\ t.supports = e.supports /\ (~t.contested => ~e.contested)
      BY <1>3, <2>2 DEF Commented, Preserved
    <3>2. ~t.denied => ~e.denied /\ (t.confirmed = e.confirmed \/ \E g \in t.confirmed : g.late)
      BY <1>3, <2>2 DEF Commented, Preserved
    <3> QED
      BY <3>1, <3>2 DEF Preserved
  <2> QED
    BY <2>1, <2>2
<1> QED
  BY <1>1, <1>2, <1>3

\* What is said after the call was passed on, whatever it is, makes no field VERIFIED and moves
\* none that was (deriveField's late_turn).
THEOREM LateRuleHolds == LateRule
<1> SUFFICES ASSUME NEW field \in Fields, NEW fs \in Talks(field), NEW arm \in 0..(Len(fs)-1),
                    ByHumans(Derived(field, PassedOn(fs, arm), None))
             PROVE  LET d     == Derived(field, PassedOn(fs, arm), None)
                        early == Derived(field, SubSeq(fs, 1, arm), None)
                    IN  early.status = "VERIFIED" /\ early.value = d.value
  BY DEF LateRule
<1> DEFINE p == PassedOn(fs, arm)
           b == SubSeq(fs, 1, arm)
           L == Len(fs)
           R == Record(field)
<1>1. /\ fs \in Seq(AllFacts(field)) /\ L \in Nat /\ DOMAIN fs = 1..L /\ arm \in Nat /\ arm <= L
      /\ \A k \in 1..L : Proper(field, fs[k]) /\ fs[k] \in R /\ fs[k].late = FALSE
  <2>1. /\ fs \in Seq(AllFacts(field)) /\ L \in Nat /\ DOMAIN fs = 1..L
        /\ \A k \in 1..L : Proper(field, fs[k]) /\ fs[k] \in R /\ fs[k].late = FALSE
    BY TalkFacts
  <2> HIDE DEF R
  <2> QED
    BY <2>1
<1>2. \A k \in 1..L : p[k] = [fs[k] EXCEPT !.late = k > arm]
  BY <1>1 DEF PassedOn
<1>3. \A k \in 1..L : /\ p[k] \in R /\ Proper(field, p[k]) /\ p[k].late = (k > arm)
                      /\ k <= arm => p[k] = fs[k]
  <2> TAKE k \in 1..L
  <2>1. fs[k] \in R /\ fs[k].late = FALSE /\ Proper(field, fs[k]) /\ p[k] = [fs[k] EXCEPT !.late = k > arm]
    BY <1>1, <1>2
  <2>2. (k > arm) \in BOOLEAN
    OBVIOUS
  <2> DEFINE late == k > arm
  <2> HIDE DEF late
  <2>3. /\ p[k] \in R /\ p[k].late = late /\ p[k].kind = fs[k].kind /\ p[k].party = fs[k].party
        /\ p[k].value = fs[k].value /\ p[k].field = fs[k].field
    BY <2>1, <2>2 DEF late, Record
  <2>4. Proper(field, p[k])
    BY <2>1, <2>3 DEF Proper, Gives
  <2>5. ~late => p[k] = fs[k]
    BY <2>1, <2>2, <2>3 DEF Record, late
  <2> QED
    BY <1>1, <2>3, <2>4, <2>5 DEF late
<1>4. p \in Seq(R) /\ Len(p) = L
  <2>1. p \in [1..L -> R]
    BY <1>1, <1>3 DEF PassedOn
  <2> HIDE DEF p
  <2> QED
    BY <1>1, <2>1
<1>5. b \in Seq(R) /\ Len(b) = arm /\ \A k \in 1..arm : b[k] = fs[k]
  <2>1. fs \in Seq(R)
    BY <1>1
  <2>2. 1 \in 1..(L+1) /\ arm \in 0..L
    BY <1>1
  <2> QED
    BY <1>1, <2>1, <2>2, SubSeqProperties
<1>6. \A k \in 1..arm : /\ k \in 1..L /\ b[k] = p[k] /\ Proper(field, b[k])
  BY <1>1, <1>3, <1>5
<1> HIDE DEF p, b, R
<1> DEFINE e == After(b)[arm]
           a == After(p)
<1>7. /\ \A n \in 0..L : a[n] \in State(field, R) /\ a[n].byAi = FALSE
      /\ \A n \in 1..L : \/ Supported(field, a[n-1], p[n], a[n]) \/ Opposed(field, a[n-1], p[n], a[n])
                          \/ Replaced(field, a[n-1], p[n], a[n]) \/ Commented(field, a[n-1], p[n], a[n])
  BY <1>3, <1>4, StoryHolds
<1>8. e = a[arm] /\ Heard(b) = e /\ Heard(p) = a[L]
  <2>1. Heard(b) = e /\ Heard(p) = a[L]
    BY <1>4, <1>5 DEF Heard
  <2> HIDE DEF a, e, L
  <2>2. arm <= Len(b) /\ arm <= Len(p) /\ arm \in Nat
    BY <1>1, <1>4, <1>5
  <2>3. After(b)[arm] = After(p)[arm]
    BY <1>4, <1>5, <1>6, <2>2, PrefixSame
  <2> QED
    BY <2>1, <2>3 DEF a, e
<1> HIDE DEF a, e, L
<1> DEFINE S == {n \in 0..L : n < arm \/ Tainted(a[n]) \/ Preserved(e, a[n])}
<1>9. \A n \in 0..L : n <= arm => n \in S
  BY <1>1, <1>8 DEF Preserved
<1>10. ASSUME NEW n \in 1..L, n-1 \in S PROVE n \in S
  <2>1. CASE n <= arm
    BY <1>1, <1>9, <2>1
  <2>2. CASE n > arm
    <3>1. p[n].late
      BY <1>3, <2>2
    <3>2. Tainted(a[n-1]) \/ Preserved(e, a[n-1])
      <4>1. CASE n-1 = arm
        BY <1>8, <4>1 DEF Preserved
      <4>2. CASE ~(n-1 < arm)
        BY <1>10, <4>2
      <4> QED
        BY <1>1, <2>2, <4>1, <4>2
    <3>3. Tainted(a[n]) \/ Preserved(e, a[n])
      BY <1>7, <3>1, <3>2, LateStep
    <3> QED
      BY <1>1, <3>3
  <2> QED
    BY <1>1, <2>1, <2>2
<1>11. 0 \in S /\ L \in 0..L
  BY <1>1, <1>9
<1>12. L \in S
  <2> HIDE DEF S
  <2> QED
    BY <1>1, <1>10, <1>11, Upward
<1> DEFINE s == Heard(p)
           d == Derived(field, p, None)
<1>13. Known(s) /\ d.value = s.value /\ Trusted(field, s, None)
  BY DerivedFrom DEF ByHumans, p
<1>14. s.byAi = FALSE /\ (Tainted(s) \/ Preserved(e, s))
  <2>1. L < arm => FALSE
    BY <1>1
  <2> QED
    BY <1>1, <1>7, <1>8, <1>12, <2>1
<1> HIDE DEF s, d
<1>15. ~Untrusted(s) /\ ~s.contested /\ ~s.denied /\ s.confirmed # {} /\ (field \in RepOnlyFields => GivenByRep(s))
  BY <1>13, <1>14 DEF Trusted
<1>16. Preserved(e, s) /\ s.confirmed = e.confirmed
  BY <1>14, <1>15 DEF Untrusted, Tainted, Preserved
<1>17. Known(e) /\ Trusted(field, e, None)
  BY <1>13, <1>15, <1>16 DEF Preserved, Known, Trusted, GivenByRep, Untrusted, Disagrees
<1>18. Derived(field, b, None).status = "VERIFIED" /\ Derived(field, b, None).value = d.value
  BY <1>8, <1>13, <1>16, <1>17, DerivedFrom DEF Preserved
<1> QED
  BY <1>18 DEF b, d, p

\* The verifier only takes trust away and fills gaps, and never stands against the AI
\* (deriveField, verifierDisagrees).
THEOREM OverlayRuleHolds == OverlayRule
<1> SUFFICES ASSUME NEW field \in Fields, NEW fs \in Talks(field), NEW v \in Says[field]
             PROVE  LET alone == Derived(field, fs, None)
                        d == Derived(field, fs, v)
                    IN  /\ alone.status = "MISSING" => d.status = "PENDING"
                        /\ alone.status # "MISSING" => d.value = alone.value
                        /\ d.status = "VERIFIED" => alone.status = "VERIFIED" /\ Compatible(field, d.value, v)
                        /\ \A w \in Says[field] \ {v} :
                             LET set == Derived(field, SetByAi(field, fs, w), v)
                             IN  set.status = "VERIFIED" /\ set.value = w /\ set.source = "ai"
  BY DEF OverlayRule
<1> DEFINE alone == Derived(field, fs, None)
           d == Derived(field, fs, v)
           F == AllFacts(field)
           s == Heard(fs)
           L == Len(fs)
<1>1. fs \in Seq(F) /\ L \in Nat /\ \A k \in 1..L : Proper(field, fs[k])
  BY TalkFacts
<1>2. s = After(fs)[L] /\ s \in State(field, F) /\ s.byAi = FALSE
  <2>1. s = After(fs)[L] /\ L \in 0..L
    BY <1>1 DEF Heard
  <2> HIDE DEF s, F
  <2> QED
    BY <1>1, <2>1, StoryHolds
<1>3. v # None /\ None \notin Says[field]
  BY FieldAssumption
<1>4. /\ Known(s) => /\ alone.value = s.value /\ d.value = s.value
                     /\ alone.status = IF Trusted(field, s, None) THEN "VERIFIED" ELSE "PENDING"
                     /\ d.status = IF Trusted(field, s, v) THEN "VERIFIED" ELSE "PENDING"
      /\ ~Known(s) => alone.status = "MISSING" /\ d.status = "PENDING"
  BY <1>3, DerivedFrom
<1>5. Trusted(field, s, v) => Trusted(field, s, None) /\ Compatible(field, s.value, v)
  BY <1>2, <1>3 DEF Trusted, Disagrees
<1>6. ASSUME NEW w \in Says[field] \ {v}
      PROVE  LET set == Derived(field, SetByAi(field, fs, w), v)
             IN  set.status = "VERIFIED" /\ set.value = w /\ set.source = "ai"
  <2> DEFINE f == Fact(field, None, "tool_update", "ai", w, None)
             g == Append(fs, f)
             t == Heard(g)
  <2>1. /\ g \in Seq(F \cup {f}) /\ Len(g) = L+1 /\ g[L+1] = f /\ \A k \in 1..L : g[k] = fs[k]
    <3>1. fs \in Seq(F \cup {f})
      BY <1>1
    <3> HIDE DEF f
    <3> QED
      BY <1>1, <3>1, AppendProperties
  <2>2. f.kind = "tool_update" /\ f.value = w /\ f.party = "ai" /\ ~Gives(f)
    BY DEF Fact, Gives
  <2> HIDE DEF f, g
  <2>3. After(g)[L] = s
    BY <1>1, <1>2, <2>1, PrefixSame
  <2>4. t = AfterFact(s, f)
    <3>1. L+1 \in 1..Len(g) /\ (L+1)-1 = L
      BY <1>1, <2>1
    <3>2. After(g)[L+1] = AfterFact(After(g)[(L+1)-1], g[L+1])
      BY <2>1, <3>1, AfterUnfolds
    <3> QED
      BY <2>1, <2>3, <3>1, <3>2 DEF Heard
  <2>5. t = AfterTool(s, f)
    BY <2>2, <2>4 DEF AfterFact
  <2> HIDE DEF t, s
  <2>6. /\ t.value = w /\ t.party = "ai" /\ t.supports = {f} /\ t.confirmed = {f}
        /\ t.byAi = TRUE /\ t.denied = FALSE
    BY <1>2, <2>2, <2>5 DEF AfterTool, Held, State
  <2>7. Known(t) /\ Trusted(field, t, v)
    BY <1>3, <2>2, <2>6 DEF Known, Trusted, GivenByRep
  <2> QED
    BY <2>6, <2>7, DerivedFrom DEF g, t, f, SetByAi
<1> HIDE DEF alone, d, s
<1> QED
  BY <1>4, <1>5, <1>6 DEF alone, d

-----------------------------------------------------------------------------
(* CaseFields: the invariant *)

Page == [heard : SUBSET Turns, queue : Seq(Turns), flight : Turns \cup {None}, tries : 0..MaxTries,
         done : SUBSET Turns, failed : SUBSET Turns]

Typed ==
  /\ TypeOK
  /\ case = [frozen |-> case.frozen, open |-> case.open, opinion |-> case.opinion]
  /\ trouble \in [count : Nat, cut : SUBSET Turns]
  /\ sol.reads => sol.runs < MaxRuns

\* The page has one request under way at most, for the turn in flight.
Alive(p, rs) ==
  /\ \A r, q \in rs : r.live /\ q.live => r = q
  /\ \A r \in rs : r.live => r.turn = p.flight
  /\ p.flight # None => \E r \in rs : r.live

Joined == \A r \in reqs : r.at = "joined" => r.live /\ r.turn \in Inflight

\* A turn under way is pending, and one that was cut off comes never under way again.
Pending ==
  /\ service.jobs \cap service.batch = {}
  /\ \A t \in Inflight : rows[t] = "pending" /\ t \notin trouble.cut
  /\ \A t \in Turns : rows[t] = "pending" => t \in Inflight \cup trouble.cut
  /\ \A t \in trouble.cut : rows[t] # "none"

Extracted(t) == rows[t] \in {"done", "failed"} \/ t \in trouble.cut

\* Until the freeze, an answer and a turn the page has settled mean an extracted turn.
Early ==
  ~Frozen => /\ \A t \in Turns : rows[t] # "skipped"
             /\ \A r \in reqs : r.at = "answered" => Extracted(r.turn)
             /\ \A t \in page.done : Extracted(t)

Passed ==
  /\ \A t \in report.done : report.pass = "drained" /\ Extracted(t)
  /\ Frozen => /\ report.pass = "drained" /\ case.opinion = case.frozen.opinion
               /\ \A t \in report.done : t \in Told <=> t \in case.frozen.told

CaseInv == Typed /\ Alive(page, reqs) /\ Joined /\ Pending /\ Early /\ Passed

LEMMA CaseInit ==
  ASSUME Init
  PROVE  CaseInv
<1>1. Typed
  <2>1. page \in Page
    BY CaseAssumption, EmptySeq DEF Init, Page
  <2>2. MaxTries \in Nat /\ MaxRuns \in Nat
    BY CaseAssumption
  <2> QED
    BY <2>1, <2>2 DEF Init, Typed, TypeOK, Page
<1>2. Alive(page, reqs) /\ Joined /\ Pending /\ Early /\ Passed
  BY DEF Init, Alive, Joined, Pending, Inflight, Early, Passed, Frozen, Shadowing
<1> QED
  BY <1>1, <1>2 DEF CaseInv

-----------------------------------------------------------------------------
(* The page *)

\* What a step of the page may do: its own record, and its requests.
PageOnly ==
  /\ UNCHANGED <<report, service, rows, case, sol>>
  /\ trouble' \in [count : Nat, cut : SUBSET Turns] /\ trouble'.cut = trouble.cut

\* The requests there were, those of them the page has left, and new ones.
Fewer == \A r \in reqs' : r \in reqs \/ r.at \in {"sent", "checked"}

LEMMA GoesFits ==
  ASSUME NEW p \in Page, NEW rest \in SUBSET Requests, Alive(p, rest), Goes(p, rest)
  PROVE  /\ page' \in Page /\ reqs' \subseteq Requests /\ Alive(page', reqs') /\ page'.done = p.done
         /\ \A r \in reqs' : r \in rest \/ r.at = "sent"
<1>1. CASE p.flight = None /\ p.queue # <<>>
  <2> DEFINE t == Head(p.queue)
             others == Tail(p.queue)
  <2>1. t \in Turns /\ others \in Seq(Turns)
    BY <1>1, HeadTailProperties DEF Page
  <2>2. /\ page' = [p EXCEPT !.flight = t, !.queue = others, !.tries = 1]
        /\ reqs' = rest \cup {Sent(t)}
    BY <1>1 DEF Goes
  <2> HIDE DEF t, others
  <2>3. page' \in Page /\ page'.flight = t /\ page'.done = p.done
    <3>1. 1 \in 0..MaxTries
      BY CaseAssumption
    <3> QED
      BY <2>1, <2>2, <3>1 DEF Page
  <2>4. Sent(t) \in Requests /\ Sent(t).live /\ Sent(t).turn = t /\ Sent(t).at = "sent"
    BY <2>1 DEF Sent, Requests
  <2>5. \A r \in rest : ~r.live
    BY <1>1, CaseAssumption DEF Alive, Requests
  <2>6. Alive(page', reqs')
    <3>1. Sent(t) \in reqs' /\ \A r \in reqs' : r.live => r = Sent(t)
      BY <2>2, <2>4, <2>5
    <3> QED
      BY <2>3, <2>4, <3>1 DEF Alive
  <2>7. reqs' \subseteq Requests /\ \A r \in reqs' : r \in rest \/ r.at = "sent"
    BY <2>2, <2>4
  <2> QED
    BY <2>3, <2>6, <2>7
<1>2. CASE ~(p.flight = None /\ p.queue # <<>>)
  BY <1>2 DEF Goes
<1> QED
  BY <1>1, <1>2

LEMMA AgainFits ==
  ASSUME page \in Page, NEW rest \in SUBSET Requests, NEW t \in Turns, page.flight = t,
         \A r \in rest : ~r.live, Again(rest, t)
  PROVE  /\ page' \in Page /\ reqs' \subseteq Requests /\ Alive(page', reqs') /\ page'.done = page.done
         /\ \A r \in reqs' : r \in rest \/ r.at = "sent"
<1>1. CASE page.tries < MaxTries
  <2>1. page' = [page EXCEPT !.tries = @ + 1] /\ reqs' = rest \cup {Sent(t)}
    BY <1>1 DEF Again
  <2>2. page' \in Page /\ page'.flight = t /\ page'.done = page.done
    BY <1>1, <2>1, CaseAssumption DEF Page
  <2>3. Sent(t) \in Requests /\ Sent(t).live /\ Sent(t).turn = t /\ Sent(t).at = "sent"
    BY DEF Sent, Requests
  <2> QED
    BY <2>1, <2>2, <2>3 DEF Alive
<1>2. CASE ~(page.tries < MaxTries)
  <2> DEFINE p == [page EXCEPT !.flight = None, !.failed = @ \cup {t}]
  <2>1. Goes(p, rest)
    BY <1>2 DEF Again, GivesUp
  <2>2. p \in Page /\ p.flight = None /\ p.done = page.done
    BY DEF Page
  <2>3. Alive(p, rest)
    BY <2>2 DEF Alive
  <2> HIDE DEF p
  <2> QED
    BY <2>1, <2>2, <2>3, GoesFits
<1> QED
  BY <1>1, <1>2

LEMMA PageKeeps ==
  ASSUME CaseInv, PageOnly, page' \in Page, reqs' \subseteq Requests, Alive(page', reqs'), Fewer,
         \A t \in page'.done : t \in page.done \/ \E r \in reqs : r.at = "answered" /\ r.turn = t
  PROVE  CaseInv'
<1>1. Typed'
  BY DEF CaseInv, Typed, TypeOK, PageOnly, Page
<1>2. Alive(page, reqs)'
  BY DEF Alive
<1>3. Joined'
  BY DEF CaseInv, Joined, Inflight, PageOnly, Fewer
<1>4. Pending'
  BY DEF CaseInv, Pending, Inflight, PageOnly
<1>5. Early'
  BY DEF CaseInv, Early, Extracted, Frozen, PageOnly, Fewer
<1>6. Passed'
  BY DEF CaseInv, Passed, Extracted, Frozen, Told, PageOnly
<1> QED
  BY <1>1, <1>2, <1>3, <1>4, <1>5, <1>6 DEF CaseInv

\* A live request is the only one, and the page waits for its turn.
LEMMA OneAlive ==
  ASSUME CaseInv, NEW r \in reqs, r.live
  PROVE  /\ page \in Page /\ reqs \subseteq Requests /\ r.turn \in Turns /\ page.flight = r.turn
         /\ reqs \ {r} \in SUBSET Requests /\ \A q \in reqs \ {r} : ~q.live
BY DEF CaseInv, Typed, TypeOK, Alive, Requests, Page

LEMMA FinalStep ==
  ASSUME CaseInv, NEW t \in Turns, Final(t)
  PROVE  CaseInv'
<1> DEFINE p == [page EXCEPT !.heard = @ \cup {t}, !.queue = Append(@, t)]
<1>1. page \in Page /\ reqs \subseteq Requests /\ Alive(page, reqs)
  BY DEF CaseInv, Typed, TypeOK, Page
<1>2. Append(page.queue, t) \in Seq(Turns)
  BY <1>1 DEF Page
<1>3. p \in Page /\ p.flight = page.flight /\ p.done = page.done
  BY <1>1, <1>2 DEF Page
<1>4. Alive(p, reqs)
  BY <1>1, <1>3 DEF Alive
<1>5. Goes(p, reqs)
  BY DEF Final
<1> HIDE DEF p
<1>6. /\ page' \in Page /\ reqs' \subseteq Requests /\ Alive(page', reqs') /\ page'.done = page.done
      /\ \A r \in reqs' : r \in reqs \/ r.at = "sent"
  BY <1>1, <1>3, <1>4, <1>5, GoesFits
<1>7. PageOnly
  BY DEF Final, PageOnly, CaseInv, Typed
<1> QED
  BY <1>6, <1>7, PageKeeps DEF Fewer

LEMMA AnsweredStep ==
  ASSUME CaseInv, NEW r \in reqs, Answered(r)
  PROVE  CaseInv'
<1> DEFINE p == [page EXCEPT !.flight = None, !.done = @ \cup {r.turn}]
<1>1. r.live /\ r.at = "answered" /\ Goes(p, reqs \ {r})
  BY DEF Answered
<1>2. page \in Page /\ r.turn \in Turns /\ reqs \ {r} \in SUBSET Requests /\ \A q \in reqs \ {r} : ~q.live
  BY <1>1, OneAlive
<1>3. p \in Page /\ p.flight = None /\ p.done = page.done \cup {r.turn}
  BY <1>2 DEF Page
<1>4. Alive(p, reqs \ {r})
  BY <1>2, <1>3 DEF Alive
<1> HIDE DEF p
<1>5. /\ page' \in Page /\ reqs' \subseteq Requests /\ Alive(page', reqs') /\ page'.done = page.done \cup {r.turn}
      /\ \A q \in reqs' : q \in reqs \ {r} \/ q.at = "sent"
  BY <1>1, <1>2, <1>3, <1>4, GoesFits
<1>6. PageOnly
  BY DEF Answered, PageOnly, CaseInv, Typed
<1> QED
  BY <1>1, <1>5, <1>6, PageKeeps DEF Fewer

LEMMA RefusedStep ==
  ASSUME CaseInv, NEW r \in reqs, Refused(r)
  PROVE  CaseInv'
<1>1. r.live /\ Again(reqs \ {r}, r.turn)
  BY DEF Refused
<1>2. /\ page \in Page /\ r.turn \in Turns /\ page.flight = r.turn
      /\ reqs \ {r} \in SUBSET Requests /\ \A q \in reqs \ {r} : ~q.live
  BY <1>1, OneAlive
<1>3. /\ page' \in Page /\ reqs' \subseteq Requests /\ Alive(page', reqs') /\ page'.done = page.done
      /\ \A q \in reqs' : q \in reqs \ {r} \/ q.at = "sent"
  BY <1>1, <1>2, AgainFits
<1>4. PageOnly
  BY DEF Refused, PageOnly, CaseInv, Typed
<1> QED
  BY <1>3, <1>4, PageKeeps DEF Fewer

\* The request the page has left, if it may still arrive, is live no more.
LEMMA LostStep ==
  ASSUME CaseInv, NEW r \in reqs, Lost(r)
  PROVE  CaseInv'
<1>1. r.live
  BY DEF Lost
<1>2. /\ page \in Page /\ r.turn \in Turns /\ page.flight = r.turn
      /\ reqs \ {r} \in SUBSET Requests /\ \A q \in reqs \ {r} : ~q.live
  BY <1>1, OneAlive
<1> DEFINE gone == [r EXCEPT !.live = FALSE]
<1>3. r \in Requests
  BY OneAlive, <1>1
<1>4. gone \in Requests /\ ~gone.live /\ gone.at = r.at
  BY <1>3 DEF Requests
<1>5. PICK stays \in {{}} \cup (IF r.at \in {"sent", "checked"} THEN {{gone}} ELSE {}) :
        Again((reqs \ {r}) \cup stays, r.turn)
  BY DEF Lost
<1> HIDE DEF gone
<1>6. /\ (reqs \ {r}) \cup stays \in SUBSET Requests /\ \A q \in (reqs \ {r}) \cup stays : ~q.live
      /\ \A q \in stays : q.at \in {"sent", "checked"}
  BY <1>2, <1>4, <1>5
<1>7. /\ page' \in Page /\ reqs' \subseteq Requests /\ Alive(page', reqs') /\ page'.done = page.done
      /\ \A q \in reqs' : q \in (reqs \ {r}) \cup stays \/ q.at = "sent"
  BY <1>2, <1>5, <1>6, AgainFits
<1>8. PageOnly
  BY DEF Lost, PageOnly, CaseInv, Typed
<1>9. Fewer
  BY <1>6, <1>7 DEF Fewer
<1> QED
  BY <1>7, <1>8, <1>9, PageKeeps

LEMMA RejectedStep ==
  ASSUME CaseInv, NEW r \in reqs, Rejected(r)
  PROVE  CaseInv'
<1> DEFINE p == [page EXCEPT !.flight = None, !.failed = @ \cup {r.turn}]
<1>1. r.live /\ Goes(p, reqs \ {r})
  BY DEF Rejected, GivesUp
<1>2. page \in Page /\ r.turn \in Turns /\ reqs \ {r} \in SUBSET Requests /\ \A q \in reqs \ {r} : ~q.live
  BY <1>1, OneAlive
<1>3. p \in Page /\ p.flight = None /\ p.done = page.done
  BY <1>2 DEF Page
<1>4. Alive(p, reqs \ {r})
  BY <1>2, <1>3 DEF Alive
<1> HIDE DEF p
<1>5. /\ page' \in Page /\ reqs' \subseteq Requests /\ Alive(page', reqs') /\ page'.done = page.done
      /\ \A q \in reqs' : q \in reqs \ {r} \/ q.at = "sent"
  BY <1>1, <1>2, <1>3, <1>4, GoesFits
<1>6. PageOnly
  BY DEF Rejected, PageOnly, CaseInv, Typed
<1> QED
  BY <1>5, <1>6, PageKeeps DEF Fewer

-----------------------------------------------------------------------------
(* The service *)

\* What a step of the service leaves alone.
ServiceOnly == UNCHANGED <<page, report, case>> /\ sol' \in [reads : {FALSE, sol.reads}, runs : {sol.runs}]

\* A request goes on, and stays live or not as it was.
LEMMA MovedFits ==
  ASSUME CaseInv, NEW r \in reqs, NEW at \in {"checked", "joined", "answered"}, reqs' = Moved(r, at)
  PROVE  /\ reqs' \subseteq Requests /\ Alive(page, reqs')
         /\ \A q \in reqs' : \/ q \in reqs
                             \/ q.at = at /\ q.turn = r.turn /\ (q.live \/ at = "checked")
<1> DEFINE new == [r EXCEPT !.at = at]
<1>1. reqs \subseteq Requests /\ Alive(page, reqs) /\ r \in Requests
  BY DEF CaseInv, Typed, TypeOK
<1>2. new \in Requests /\ new.at = at /\ new.turn = r.turn /\ new.live = r.live
  BY <1>1 DEF Requests
<1>3. reqs' = (reqs \ {r}) \cup (IF r.live \/ at = "checked" THEN {new} ELSE {})
  BY DEF Moved
<1> HIDE DEF new
<1>4. Alive(page, reqs')
  <2>1. \A q, s \in reqs' : q.live /\ s.live => q = s
    BY <1>1, <1>2, <1>3 DEF Alive
  <2>2. \A q \in reqs' : q.live => q.turn = page.flight
    BY <1>1, <1>2, <1>3 DEF Alive
  <2>3. page.flight # None => \E q \in reqs' : q.live
    BY <1>1, <1>2, <1>3 DEF Alive
  <2> QED
    BY <2>1, <2>2, <2>3 DEF Alive
<1> QED
  BY <1>1, <1>2, <1>3, <1>4

\* The requests that wait for the batch are told.
LEMMA ToldFits ==
  ASSUME CaseInv, NEW at \in {"answered", "refused"}, NEW batch, reqs' = ToldOf(batch, at)
  PROVE  /\ reqs' \subseteq Requests /\ Alive(page, reqs')
         /\ \A q \in reqs' : \/ q \in reqs /\ ~(q.at = "joined" /\ q.turn \in batch)
                             \/ q.at = at /\ q.turn \in batch
<1> DEFINE to(r) == IF r.at = "joined" /\ r.turn \in batch THEN [r EXCEPT !.at = at] ELSE r
<1>1. reqs \subseteq Requests /\ Alive(page, reqs)
  BY DEF CaseInv, Typed, TypeOK
<1>2. \A r \in reqs : /\ to(r) \in Requests /\ to(r).turn = r.turn /\ to(r).live = r.live
                      /\ \/ to(r) = r /\ ~(r.at = "joined" /\ r.turn \in batch)
                         \/ to(r).at = at /\ r.turn \in batch
  BY <1>1 DEF Requests
<1>3. reqs' = {to(r) : r \in reqs}
  BY DEF ToldOf
<1> HIDE DEF to
<1>4. Alive(page, reqs')
  BY <1>1, <1>2, <1>3 DEF Alive
<1> QED
  BY <1>2, <1>3, <1>4

\* The extractor takes jobs of the queue: none is lost, and none is in both places.
LEMMA PumpedFits ==
  ASSUME NEW jobs \in SUBSET Turns, NEW batch \in SUBSET Turns, jobs \cap batch = {},
         service' = Pumped(jobs, batch)
  PROVE  /\ service' \in [jobs : SUBSET Turns, batch : SUBSET Turns]
         /\ service'.jobs \cap service'.batch = {}
         /\ Inflight' = jobs \cup batch
<1>1. CASE batch # {}
  BY <1>1 DEF Pumped, Inflight
<1>2. CASE batch = {}
  <2> DEFINE next == Earliest(jobs, BatchSize(Cardinality(jobs)))
  <2>1. next \subseteq jobs
    BY DEF Earliest
  <2>2. service' = [jobs |-> jobs \ next, batch |-> next]
    BY <1>2 DEF Pumped
  <2> HIDE DEF next
  <2> QED
    BY <1>2, <2>1, <2>2 DEF Inflight
<1> QED
  BY <1>1, <1>2

\* What the steps of the service keep, from what becomes of the turns.
LEMMA ServiceKeeps ==
  ASSUME CaseInv, ServiceOnly,
         reqs' \subseteq Requests, Alive(page, reqs'),
         service' \in [jobs : SUBSET Turns, batch : SUBSET Turns],
         rows' \in [Turns -> {"none", "pending", "done", "failed", "skipped"}],
         trouble' \in [count : Nat, cut : SUBSET Turns],
         Joined', Pending',
         \A t \in Turns : Extracted(t) => Extracted(t)' /\ (rows[t] = "done" <=> rows'[t] = "done"),
         ~Frozen => /\ \A t \in Turns : rows'[t] # "skipped"
                    /\ \A r \in reqs' : r.at = "answered" => Extracted(r.turn)'
  PROVE  CaseInv'
<1>1. Typed'
  BY DEF CaseInv, Typed, TypeOK, ServiceOnly
<1>2. Alive(page, reqs)'
  BY DEF ServiceOnly, Alive
<1>3. Early'
  BY DEF CaseInv, Typed, TypeOK, Early, Frozen, ServiceOnly
<1>4. Passed'
  BY DEF CaseInv, Typed, TypeOK, Passed, Frozen, Told, ServiceOnly
<1> QED
  BY <1>1, <1>2, <1>3, <1>4 DEF CaseInv

LEMMA ServiceTyped ==
  ASSUME CaseInv
  PROVE  /\ reqs \subseteq Requests /\ service \in [jobs : SUBSET Turns, batch : SUBSET Turns]
         /\ rows \in [Turns -> {"none", "pending", "done", "failed", "skipped"}]
         /\ trouble \in [count : Nat, cut : SUBSET Turns]
         /\ sol \in [reads : {FALSE, sol.reads}, runs : {sol.runs}]
         /\ \A r \in reqs : r.turn \in Turns
BY DEF CaseInv, Typed, TypeOK, Requests

\* Only after the freeze a turn is stored without being extracted.
LEMMA CheckStep ==
  ASSUME CaseInv, NEW r \in reqs, Check(r)
  PROVE  CaseInv'
<1>1. ServiceOnly /\ service' = service /\ trouble' = trouble
  BY ServiceTyped DEF Check, ServiceOnly
<1>2. CASE InTime(r.turn)
  <2>1. reqs' = Moved(r, "checked") /\ rows' = rows
    BY <1>2 DEF Check
  <2>2. /\ reqs' \subseteq Requests /\ Alive(page, reqs')
        /\ \A q \in reqs' : q \in reqs \/ q.at = "checked"
    BY <2>1, MovedFits
  <2>3. Joined'
    BY <1>1, <2>2 DEF CaseInv, Joined, Inflight
  <2>4. Pending'
    BY <1>1, <2>1 DEF CaseInv, Pending, Inflight
  <2>5. \A t \in Turns : Extracted(t) => Extracted(t)'
    BY <1>1, <2>1 DEF Extracted
  <2>6. ~Frozen => /\ \A t \in Turns : rows'[t] # "skipped"
                   /\ \A q \in reqs' : q.at = "answered" => Extracted(q.turn)'
    BY <1>1, <2>1, <2>2 DEF CaseInv, Early, Extracted
  <2> QED
    BY <1>1, <2>1, <2>2, <2>3, <2>4, <2>5, <2>6, ServiceTyped, ServiceKeeps
<1>3. CASE ~InTime(r.turn)
  <2>1. /\ reqs' = Moved(r, "answered") /\ Frozen
        /\ rows' = [rows EXCEPT ![r.turn] = IF @ = "none" THEN "skipped" ELSE @]
    BY <1>3 DEF Check, InTime
  <2>2. /\ reqs' \subseteq Requests /\ Alive(page, reqs')
        /\ \A q \in reqs' : q \in reqs \/ q.at = "answered"
    BY <2>1, MovedFits
  <2>3. /\ rows' \in [Turns -> {"none", "pending", "done", "failed", "skipped"}]
        /\ \A t \in Turns : rows'[t] = rows[t] \/ (rows[t] = "none" /\ rows'[t] = "skipped")
    BY <2>1, ServiceTyped
  <2>4. Joined'
    BY <1>1, <2>2 DEF CaseInv, Joined, Inflight
  <2>5. Pending'
    <3>1. \A t \in Inflight : t \in Turns
      BY ServiceTyped DEF Inflight
    <3> QED
      BY <1>1, <2>3, <3>1, ServiceTyped DEF CaseInv, Pending, Inflight
  <2>6. \A t \in Turns : Extracted(t) => Extracted(t)' /\ (rows[t] = "done" <=> rows'[t] = "done")
    BY <1>1, <2>3 DEF Extracted
  <2> QED
    BY <1>1, <2>1, <2>2, <2>3, <2>4, <2>5, <2>6, ServiceTyped, ServiceKeeps
<1> QED
  BY <1>2, <1>3

LEMMA JoinStep ==
  ASSUME CaseInv, NEW r \in reqs, Join(r)
  PROVE  CaseInv'
<1>1. ServiceOnly /\ service' = service /\ trouble' = trouble /\ rows' = rows /\ reqs' = Moved(r, "joined")
  BY ServiceTyped DEF Join, ServiceOnly
<1>2. /\ reqs' \subseteq Requests /\ Alive(page, reqs')
      /\ \A q \in reqs' : q \in reqs \/ (q.at = "joined" /\ q.turn = r.turn /\ q.live)
  BY <1>1, MovedFits
<1>3. Joined'
  BY <1>1, <1>2 DEF CaseInv, Joined, Inflight, Join, UnderWay
<1>4. Pending'
  BY <1>1 DEF CaseInv, Pending, Inflight
<1>5. \A t \in Turns : Extracted(t) => Extracted(t)'
  BY <1>1 DEF Extracted
<1>6. ~Frozen => /\ \A t \in Turns : rows'[t] # "skipped"
                 /\ \A q \in reqs' : q.at = "answered" => Extracted(q.turn)'
  BY <1>1, <1>2 DEF CaseInv, Early, Extracted
<1> QED
  BY <1>1, <1>2, <1>3, <1>4, <1>5, <1>6, ServiceTyped, ServiceKeeps

\* A known turn that is not under way is extracted, or was cut off.
LEMMA DuplicateStep ==
  ASSUME CaseInv, NEW r \in reqs, Duplicate(r)
  PROVE  CaseInv'
<1>1. ServiceOnly /\ service' = service /\ trouble' = trouble /\ rows' = rows /\ reqs' = Moved(r, "answered")
  BY ServiceTyped DEF Duplicate, ServiceOnly
<1>2. /\ reqs' \subseteq Requests /\ Alive(page, reqs')
      /\ \A q \in reqs' : q \in reqs \/ (q.at = "answered" /\ q.turn = r.turn)
  BY <1>1, MovedFits
<1>3. Joined'
  BY <1>1, <1>2 DEF CaseInv, Joined, Inflight
<1>4. Pending'
  BY <1>1 DEF CaseInv, Pending, Inflight
<1>5. \A t \in Turns : Extracted(t) => Extracted(t)'
  BY <1>1 DEF Extracted
<1>6. ~Frozen => Extracted(r.turn)
  <2>1. r.turn \in Turns /\ rows[r.turn] \in {"pending", "done", "failed", "skipped"} /\ r.turn \notin Inflight
    BY ServiceTyped DEF Duplicate, UnderWay
  <2> QED
    BY <2>1 DEF CaseInv, Early, Pending, Extracted
<1>7. ~Frozen => /\ \A t \in Turns : rows'[t] # "skipped"
                 /\ \A q \in reqs' : q.at = "answered" => Extracted(q.turn)'
  BY <1>1, <1>2, <1>6 DEF CaseInv, Early, Extracted
<1> QED
  BY <1>1, <1>2, <1>3, <1>4, <1>5, <1>7, ServiceTyped, ServiceKeeps

LEMMA InsertStep ==
  ASSUME CaseInv, NEW r \in reqs, Insert(r)
  PROVE  CaseInv'
<1>1. /\ ServiceOnly /\ trouble' = trouble /\ reqs' = Moved(r, "joined")
      /\ rows[r.turn] = "none" /\ rows' = [rows EXCEPT ![r.turn] = "pending"]
      /\ service' = Pumped(service.jobs \cup {r.turn}, service.batch)
  BY ServiceTyped DEF Insert, ServiceOnly
<1>2. /\ reqs' \subseteq Requests /\ Alive(page, reqs')
      /\ \A q \in reqs' : q \in reqs \/ (q.at = "joined" /\ q.turn = r.turn /\ q.live)
  BY <1>1, MovedFits
<1>3. r.turn \in Turns /\ r.turn \notin Inflight /\ r.turn \notin trouble.cut
  BY <1>1, ServiceTyped DEF CaseInv, Pending
<1>4. /\ service' \in [jobs : SUBSET Turns, batch : SUBSET Turns]
      /\ service'.jobs \cap service'.batch = {} /\ Inflight' = Inflight \cup {r.turn}
  <2> DEFINE jobs == service.jobs \cup {r.turn}
  <2>1. jobs \in SUBSET Turns /\ service.batch \in SUBSET Turns
    BY <1>3, ServiceTyped
  <2>3. service.jobs \cap service.batch = {} /\ r.turn \notin service.batch
    BY <1>3 DEF CaseInv, Pending, Inflight
  <2>4. jobs \cap service.batch = {}
    BY <2>3
  <2>5. jobs \cup service.batch = Inflight \cup {r.turn}
    BY DEF Inflight
  <2>2. service' = Pumped(jobs, service.batch)
    BY <1>1
  <2> HIDE DEF jobs
  <2> QED
    BY <2>1, <2>2, <2>4, <2>5, PumpedFits
<1>5. /\ rows' \in [Turns -> {"none", "pending", "done", "failed", "skipped"}]
      /\ rows'[r.turn] = "pending" /\ \A t \in Turns \ {r.turn} : rows'[t] = rows[t]
  BY <1>1, <1>3, ServiceTyped
<1>6. Joined'
  BY <1>2, <1>4 DEF CaseInv, Joined
<1>7. Pending'
  <2>1. Inflight \subseteq Turns /\ trouble.cut \subseteq Turns
    BY ServiceTyped DEF Inflight
  <2> QED
    BY <1>1, <1>3, <1>4, <1>5, <2>1 DEF CaseInv, Pending
<1>8. \A t \in Turns : Extracted(t) => Extracted(t)' /\ (rows[t] = "done" <=> rows'[t] = "done")
  BY <1>1, <1>3, <1>5 DEF Extracted
<1>9. ~Frozen => /\ \A t \in Turns : rows'[t] # "skipped"
                 /\ \A q \in reqs' : q.at = "answered" => Extracted(q.turn)'
  BY <1>2, <1>5, <1>8, ServiceTyped DEF CaseInv, Early
<1> QED
  BY <1>1, <1>2, <1>4, <1>5, <1>6, <1>7, <1>8, <1>9, ServiceTyped, ServiceKeeps

\* The batch is done with: its turns are extracted, marked failed or cut off, and those
\* who waited for them are told.
LEMMA BatchKeeps ==
  ASSUME CaseInv, ServiceOnly, NEW at \in {"answered", "refused"}, reqs' = ToldOf(service.batch, at),
         service' = Pumped(service.jobs, {}),
         rows' \in [Turns -> {"none", "pending", "done", "failed", "skipped"}],
         trouble' \in [count : Nat, cut : SUBSET Turns],
         NEW cut \in SUBSET service.batch, trouble'.cut = trouble.cut \cup cut,
         \A t \in Turns \ service.batch : rows'[t] = rows[t],
         \A t \in service.batch \ cut : rows'[t] \in {"done", "failed"},
         \A t \in cut : rows'[t] = "pending"
  PROVE  CaseInv'
<1>1. /\ reqs' \subseteq Requests /\ Alive(page, reqs')
      /\ \A q \in reqs' : \/ q \in reqs /\ ~(q.at = "joined" /\ q.turn \in service.batch)
                          \/ q.at = at /\ q.turn \in service.batch
  BY ToldFits
<1>2. /\ service' \in [jobs : SUBSET Turns, batch : SUBSET Turns]
      /\ service'.jobs \cap service'.batch = {} /\ Inflight' = service.jobs
  <2>1. service.jobs \in SUBSET Turns /\ {} \in SUBSET Turns /\ service.jobs \cap {} = {}
    BY ServiceTyped
  <2>2. /\ service' \in [jobs : SUBSET Turns, batch : SUBSET Turns]
        /\ service'.jobs \cap service'.batch = {} /\ Inflight' = service.jobs \cup {}
    BY <2>1, PumpedFits
  <2> QED
    BY <2>2
<1>3. /\ service.jobs \cap service.batch = {} /\ Inflight = service.jobs \cup service.batch
      /\ Inflight \subseteq Turns
      /\ \A t \in Inflight : rows[t] = "pending" /\ t \notin trouble.cut
      /\ \A t \in Turns : rows[t] = "pending" => t \in Inflight \cup trouble.cut
      /\ trouble.cut \subseteq Turns /\ \A t \in trouble.cut : rows[t] # "none"
  BY ServiceTyped DEF CaseInv, Pending, Inflight
<1>4. Joined'
  BY <1>1, <1>2, <1>3 DEF CaseInv, Joined
<1>5. Pending'
  <2>1. \A t \in Inflight' : rows'[t] = "pending" /\ t \notin trouble'.cut
    BY <1>2, <1>3
  <2>2. \A t \in Turns : rows'[t] = "pending" => t \in Inflight' \cup trouble'.cut
    BY <1>2, <1>3
  <2>3. \A t \in trouble'.cut : rows'[t] # "none"
    BY <1>3
  <2> QED
    BY <1>2, <2>1, <2>2, <2>3 DEF Pending
<1>6. \A t \in Turns : Extracted(t) => Extracted(t)' /\ (rows[t] = "done" <=> rows'[t] = "done")
  BY <1>3 DEF Extracted
<1>7. \A t \in service.batch : Extracted(t)'
  BY <1>3 DEF Extracted
<1>8. ~Frozen => /\ \A t \in Turns : rows'[t] # "skipped"
                 /\ \A q \in reqs' : q.at = "answered" => Extracted(q.turn)'
  <2>1. ~Frozen => \A t \in Turns : rows'[t] # "skipped"
    BY <1>3 DEF CaseInv, Early
  <2>2. ~Frozen => \A q \in reqs' : q.at = "answered" => Extracted(q.turn)'
    BY <1>1, <1>6, <1>7, ServiceTyped DEF CaseInv, Early
  <2> QED
    BY <2>1, <2>2
<1> QED
  BY <1>1, <1>2, <1>4, <1>5, <1>6, <1>8, ServiceKeeps

LEMMA CommitStep ==
  ASSUME CaseInv, Commit
  PROVE  CaseInv'
<1>1. PICK covered \in Covers(service.batch) :
        rows' = [t \in Turns |-> IF t \in covered THEN "done"
                                 ELSE IF t \in service.batch THEN "failed" ELSE rows[t]]
  BY DEF Commit
<1>2. covered \subseteq service.batch /\ service.batch \subseteq Turns
  BY <1>1, ServiceTyped DEF Covers
<1>3. /\ rows' \in [Turns -> {"none", "pending", "done", "failed", "skipped"}]
      /\ \A t \in Turns \ service.batch : rows'[t] = rows[t]
      /\ \A t \in service.batch \ {} : rows'[t] \in {"done", "failed"}
  BY <1>1, <1>2, ServiceTyped
<1>4. /\ ServiceOnly /\ reqs' = ToldOf(service.batch, "answered") /\ service' = Pumped(service.jobs, {})
      /\ trouble' = trouble
  BY ServiceTyped DEF Commit, ServiceOnly
<1>5. trouble' \in [count : Nat, cut : SUBSET Turns] /\ trouble'.cut = trouble.cut \cup {}
  BY <1>4, ServiceTyped
<1> QED
  BY <1>3, <1>4, <1>5, BatchKeeps

LEMMA BreakStep ==
  ASSUME CaseInv, Break
  PROVE  CaseInv'
<1>1. PICK n \in 0..Cardinality(service.batch) :
        /\ rows' = [t \in Turns |-> IF t \in Earliest(service.batch, n) THEN "failed" ELSE rows[t]]
        /\ trouble' = [count |-> trouble.count + 1,
                       cut |-> trouble.cut \cup (service.batch \ Earliest(service.batch, n))]
  BY DEF Break
<1> DEFINE marked == Earliest(service.batch, n)
<1> DEFINE cut == service.batch \ marked
<1>2. marked \subseteq service.batch /\ service.batch \subseteq Turns
  BY ServiceTyped DEF Earliest
<1>3. /\ rows' = [t \in Turns |-> IF t \in marked THEN "failed" ELSE rows[t]]
      /\ trouble' = [count |-> trouble.count + 1, cut |-> trouble.cut \cup cut]
      /\ cut \in SUBSET service.batch
  BY <1>1
<1>4. \A t \in service.batch : rows[t] = "pending"
  BY DEF CaseInv, Pending, Inflight
<1> HIDE DEF marked
<1>5. /\ rows' \in [Turns -> {"none", "pending", "done", "failed", "skipped"}]
      /\ \A t \in Turns \ service.batch : rows'[t] = rows[t]
      /\ \A t \in service.batch \ cut : rows'[t] \in {"done", "failed"}
      /\ \A t \in cut : rows'[t] = "pending"
  BY <1>2, <1>3, <1>4, ServiceTyped
<1>6. /\ ServiceOnly /\ reqs' = ToldOf(service.batch, "refused") /\ service' = Pumped(service.jobs, {})
  BY ServiceTyped DEF Break, ServiceOnly
<1>7. trouble' \in [count : Nat, cut : SUBSET Turns] /\ trouble'.cut = trouble.cut \cup cut
  BY <1>2, <1>3, ServiceTyped
<1> HIDE DEF cut
<1> QED
  BY <1>3, <1>5, <1>6, <1>7, BatchKeeps

\* Who waited at the server is refused; what was under way is cut off.
LEMMA RestartStep ==
  ASSUME CaseInv, Restart
  PROVE  CaseInv'
<1> DEFINE keep == {r \in reqs : r.at \notin {"checked", "joined"}}
<1> DEFINE waits == {q \in reqs : q.live /\ q.at \in {"checked", "joined"}}
<1> DEFINE refused(r) == [r EXCEPT !.at = "refused"]
<1>1. /\ ServiceOnly /\ rows' = rows
      /\ trouble' = [count |-> trouble.count + 1, cut |-> trouble.cut \cup Inflight]
      /\ service' = [jobs |-> {}, batch |-> {}]
      /\ reqs' = keep \cup {refused(r) : r \in waits}
  BY ServiceTyped DEF Restart, ServiceOnly, CaseInv, Typed, TypeOK
<1>2. \A r \in reqs : /\ refused(r) \in Requests /\ refused(r).turn = r.turn /\ refused(r).live = r.live
                      /\ refused(r).at = "refused"
  BY ServiceTyped DEF Requests
<1> HIDE DEF refused
<1>3. /\ reqs' \subseteq Requests
      /\ \A q \in reqs' : q \in keep \/ (q.at = "refused" /\ \E r \in waits : q = refused(r))
  BY <1>1, <1>2, ServiceTyped
<1>4. Alive(page, reqs')
  <2>1. Alive(page, reqs)
    BY DEF CaseInv
  <2>2. \A q, s \in reqs' : q.live /\ s.live => q = s
    BY <1>2, <1>3, <2>1 DEF Alive
  <2>3. \A q \in reqs' : q.live => q.turn = page.flight
    BY <1>2, <1>3, <2>1 DEF Alive
  <2>4. \A r \in reqs : r.live => \E q \in reqs' : q.live
    BY <1>1, <1>2
  <2> QED
    BY <2>1, <2>2, <2>3, <2>4 DEF Alive
<1>5. Inflight' = {} /\ Inflight \subseteq Turns /\ trouble'.cut = trouble.cut \cup Inflight
      /\ trouble' \in [count : Nat, cut : SUBSET Turns]
  BY <1>1, ServiceTyped DEF Inflight
<1>6. Joined'
  BY <1>3 DEF Joined
<1>7. Pending'
  BY <1>1, <1>5 DEF CaseInv, Pending
<1>8. \A t \in Turns : Extracted(t) => Extracted(t)'
  BY <1>1, <1>5 DEF Extracted
<1>9. ~Frozen => /\ \A t \in Turns : rows'[t] # "skipped"
                 /\ \A q \in reqs' : q.at = "answered" => Extracted(q.turn)'
  BY <1>1, <1>3, <1>8, ServiceTyped DEF CaseInv, Early
<1>10. service' \in [jobs : SUBSET Turns, batch : SUBSET Turns]
  BY <1>1
<1> QED
  BY <1>1, <1>3, <1>4, <1>5, <1>6, <1>7, <1>8, <1>9, <1>10, ServiceTyped, ServiceKeeps

-----------------------------------------------------------------------------
(* The verifier and the pass *)

\* What the steps of the verifier and of the pass leave alone.
CaseOnly == UNCHANGED <<page, reqs, service, rows, trouble>>

LEMMA CaseKeeps ==
  ASSUME CaseInv, CaseOnly, Typed', Passed', Frozen' \/ ~Frozen
  PROVE  CaseInv'
<1>1. Alive(page, reqs)'
  BY DEF CaseInv, CaseOnly, Alive
<1>2. Joined' /\ Pending'
  BY DEF CaseInv, CaseOnly, Joined, Pending, Inflight
<1>3. Early'
  BY DEF CaseInv, CaseOnly, Early, Extracted
<1> QED
  BY <1>1, <1>2, <1>3 DEF CaseInv

LEMMA SolStep ==
  ASSUME CaseInv, SolStart \/ SolAnswers \/ SolFails
  PROVE  CaseInv'
<1>1. CASE SolStart \/ SolFails
  <2>1. CaseOnly /\ report' = report /\ case' = case
    BY <1>1 DEF SolStart, SolFails, CaseOnly
  <2>2. Typed'
    BY <1>1, <2>1 DEF CaseInv, Typed, TypeOK, SolStart, SolFails, CaseOnly
  <2>3. Passed'
    BY <2>1 DEF CaseInv, Passed, Extracted, Frozen, Told, CaseOnly
  <2> QED
    BY <2>1, <2>2, <2>3, CaseKeeps DEF Frozen
<1>2. CASE SolAnswers
  <2>1. CaseOnly /\ report' = report /\ sol.reads /\ sol' = [reads |-> FALSE, runs |-> sol.runs + 1]
    BY <1>2 DEF SolAnswers, CaseOnly
  <2>2. case' = [case EXCEPT !.opinion = Applied]
    BY <1>2 DEF SolAnswers
  <2>3. sol.runs + 1 \in 0..MaxRuns
    BY <2>1, CaseAssumption DEF CaseInv, Typed, TypeOK
  <2>4. Applied \in 0..MaxRuns
    BY <2>3 DEF Applied, CaseInv, Typed, TypeOK
  <2>5. /\ case' = [frozen |-> case.frozen, open |-> case.open, opinion |-> Applied]
    BY <2>2 DEF CaseInv, Typed
  <2>6. Typed'
    BY <2>1, <2>3, <2>4, <2>5 DEF CaseInv, Typed, TypeOK, CaseOnly
  <2>7. Frozen => Applied = case.opinion
    BY DEF Applied, Shadowing, CaseInv, Passed
  <2>8. Passed'
    BY <2>1, <2>5, <2>7 DEF CaseInv, Passed, Extracted, Frozen, Told, CaseOnly
  <2> QED
    BY <2>1, <2>5, <2>6, <2>8, CaseKeeps DEF Frozen
<1> QED
  BY <1>1, <1>2

LEMMA ArmStep ==
  ASSUME CaseInv, Arm
  PROVE  CaseInv'
<1>1. CaseOnly /\ Shadowing /\ case' = case /\ sol' = sol /\ report' = [report EXCEPT !.pass = "armed"]
  BY DEF Arm, CaseOnly
<1>2. report' = [pass |-> "armed", done |-> report.done, pending |-> report.pending]
  BY <1>1 DEF CaseInv, Typed, TypeOK
<1>3. Typed'
  BY <1>1, <1>2 DEF CaseInv, Typed, TypeOK, CaseOnly
<1>4. report.done = {} /\ ~Frozen
  BY <1>1 DEF CaseInv, Typed, TypeOK, Passed, Shadowing
<1>5. Passed'
  BY <1>1, <1>2, <1>4 DEF Passed, Frozen
<1> QED
  BY <1>1, <1>3, <1>5, CaseKeeps DEF Frozen

\* The drain reports turns the page has settled, which are extracted as nothing is frozen.
LEMMA DrainedStep ==
  ASSUME CaseInv, Drained
  PROVE  CaseInv'
<1>1. /\ CaseOnly /\ report.pass = "armed" /\ case' = case /\ sol' = sol
      /\ report' = [pass |-> "drained", done |-> page.done, pending |-> Waiting]
  BY DEF Drained, CaseOnly
<1>2. page.done \subseteq Turns /\ Waiting \subseteq Turns
  <2>1. page.queue \in Seq(Turns) /\ page.flight \in Turns \cup {None} /\ page.done \subseteq Turns
    BY DEF CaseInv, Typed, TypeOK
  <2>2. \A i \in DOMAIN page.queue : page.queue[i] \in Turns
    BY <2>1
  <2> QED
    BY <2>1, <2>2 DEF Waiting
<1>3. Typed'
  BY <1>1, <1>2 DEF CaseInv, Typed, TypeOK, CaseOnly
<1>4. ~Frozen
  BY <1>1 DEF CaseInv, Passed
<1>5. Passed'
  BY <1>1, <1>4 DEF CaseInv, Early, Passed, Frozen, Extracted, CaseOnly
<1> QED
  BY <1>1, <1>3, <1>5, CaseKeeps DEF Frozen

LEMMA FreezeStep ==
  ASSUME CaseInv, Freeze
  PROVE  CaseInv'
<1>1. /\ CaseOnly /\ report.pass = "drained" /\ report' = report /\ sol' = sol
      /\ case' = [case EXCEPT !.open = TRUE,
                     !.frozen = [told |-> Told, opinion |-> case.opinion, pending |-> report.pending]]
  BY DEF Freeze, CaseOnly
<1> DEFINE snapshot == [told |-> Told, opinion |-> case.opinion, pending |-> report.pending]
<1>2. case' = [frozen |-> snapshot, open |-> TRUE, opinion |-> case.opinion]
  BY <1>1 DEF CaseInv, Typed
<1>3. snapshot.told = Told /\ snapshot.opinion = case.opinion
  OBVIOUS
<1> HIDE DEF snapshot
<1>4. Typed'
  BY <1>1, <1>2 DEF CaseInv, Typed, TypeOK, CaseOnly
<1>5. Told' = Told
  BY <1>1 DEF Told, CaseOnly
<1>6. Passed'
  BY <1>1, <1>2, <1>3, <1>5 DEF CaseInv, Passed, Extracted, CaseOnly
<1>7. ~Frozen
  BY DEF Freeze
<1> QED
  BY <1>1, <1>4, <1>6, <1>7, CaseKeeps

LEMMA WindowEndsStep ==
  ASSUME CaseInv, WindowEnds
  PROVE  CaseInv'
<1>1. CaseOnly /\ report' = report /\ sol' = sol /\ case' = [case EXCEPT !.open = FALSE]
  BY DEF WindowEnds, CaseOnly
<1>2. case' = [frozen |-> case.frozen, open |-> FALSE, opinion |-> case.opinion]
  BY <1>1 DEF CaseInv, Typed
<1>3. Typed'
  BY <1>1, <1>2 DEF CaseInv, Typed, TypeOK, CaseOnly
<1>4. Passed'
  BY <1>1, <1>2 DEF CaseInv, Passed, Extracted, Frozen, Told, CaseOnly
<1> QED
  BY <1>1, <1>2, <1>3, <1>4, CaseKeeps DEF Frozen

LEMMA CaseStill ==
  ASSUME CaseInv, UNCHANGED vars
  PROVE  CaseInv'
<1>1. CaseOnly /\ report' = report /\ case' = case /\ sol' = sol
  BY DEF vars, CaseOnly
<1>2. Typed'
  BY <1>1 DEF CaseInv, Typed, TypeOK, CaseOnly
<1>3. Passed'
  BY <1>1 DEF CaseInv, Passed, Extracted, Frozen, Told, CaseOnly
<1> QED
  BY <1>1, <1>2, <1>3, CaseKeeps DEF Frozen

LEMMA CaseNext ==
  ASSUME CaseInv, [Next]_vars
  PROVE  CaseInv'
<1>1. CASE \E t \in Turns : Final(t)
  BY <1>1, FinalStep
<1>2. CASE \E r \in reqs : Answered(r) \/ Refused(r) \/ Lost(r) \/ Rejected(r)
  BY <1>2, AnsweredStep, RefusedStep, LostStep, RejectedStep
<1>3. CASE \E r \in reqs : Check(r) \/ Join(r) \/ Duplicate(r) \/ Insert(r)
  BY <1>3, CheckStep, JoinStep, DuplicateStep, InsertStep
<1>4. CASE Commit \/ Break \/ Restart
  BY <1>4, CommitStep, BreakStep, RestartStep
<1>5. CASE SolStart \/ SolAnswers \/ SolFails
  BY <1>5, SolStep
<1>6. CASE Arm \/ Drained \/ Freeze \/ WindowEnds
  BY <1>6, ArmStep, DrainedStep, FreezeStep, WindowEndsStep
<1>7. CASE UNCHANGED vars
  BY <1>7, CaseStill
<1> QED
  BY <1>1, <1>2, <1>3, <1>4, <1>5, <1>6, <1>7 DEF Next

LEMMA CaseInvAlways == Spec => []CaseInv
<1>1. Init => CaseInv
  BY CaseInit
<1>2. CaseInv /\ [Next]_vars => CaseInv'
  BY CaseNext
<1> QED
  BY <1>1, <1>2, PTL DEF Spec

-----------------------------------------------------------------------------
(* The theorems *)

\* Every final turn is with exactly one place: a pending row is in the queue of the case or
\* with the extractor, or was cut off, a request waits only for a turn under way, and the
\* page has a request out exactly when a turn is in flight (HttpCaseSync, ExtractService).
THEOREM CaseSoundAlways == Spec => []CaseSound
<1>1. CaseInv => CaseSound
  <2> SUFFICES ASSUME CaseInv PROVE CaseSound
    OBVIOUS
  <2>1. TypeOK
    BY DEF CaseInv, Typed
  <2>2. Inflight \subseteq Turns /\ trouble.cut \subseteq Turns
    BY ServiceTyped DEF Inflight
  <2>3. service.jobs \cap service.batch = {} /\ \A r \in reqs : r.at = "joined" => r.live /\ r.turn \in Inflight
    BY DEF CaseInv, Pending, Joined
  <2>4. \A t \in Turns : rows[t] = "pending" <=> t \in Inflight \cup (trouble.cut \ {u \in Turns : rows[u] # "pending"})
    BY <2>2 DEF CaseInv, Pending
  <2>5. page.flight # None <=> \E r \in reqs : r.live
    BY ServiceTyped, CaseAssumption DEF CaseInv, Alive
  <2> QED
    BY <2>1, <2>3, <2>4, <2>5 DEF CaseSound, TurnsPlaced
<1> QED
  BY <1>1, CaseInvAlways, PTL

\* What the drain reported as complete is in the frozen snapshot, no fact of such a turn comes
\* after it, and the verifier's opinion in it stays the last one (freezeSnapshot, VerifierRunner).
THEOREM SnapshotWholeAlways == Spec => []SnapshotWhole
<1>1. CaseInv => SnapshotWhole
  BY DEF CaseInv, Passed, Extracted, SnapshotWhole
<1> QED
  BY <1>1, CaseInvAlways, PTL

\* The rules of the field status hold whatever the values and however long the conversation.
THEOREM VerifiedAgreedAlways == Spec => []VerifiedAgreed
<1>1. VerifiedAgreed
  BY AgreedRuleHolds DEF VerifiedAgreed
<1> QED
  BY <1>1, PTL

\* Nothing said after the call was passed on is trusted.
THEOREM LateNotTrustedAlways == Spec => []LateNotTrusted
<1>1. LateNotTrusted
  BY LateRuleHolds DEF LateNotTrusted
<1> QED
  BY <1>1, PTL

\* The verifier's second opinion gives no trust.
THEOREM VerifierOnlyDowngradesAlways == Spec => []VerifierOnlyDowngrades
<1>1. VerifierOnlyDowngrades
  BY OverlayRuleHolds DEF VerifierOnlyDowngrades
<1> QED
  BY <1>1, PTL

-----------------------------------------------------------------------------
(* SttBroker: sequences some of whose places are taken out *)

\* v is what is left of w when places are taken out: h says where each of v's stood.
Embeds(v, w, h) ==
  /\ h \in [DOMAIN v -> DOMAIN w]
  /\ \A i, j \in DOMAIN v : i < j => h[i] < h[j]
  /\ \A i \in DOMAIN v : v[i] = w[h[i]]

\* Kept is a sequence that embeds into the one it is taken from, at the places it keeps.
LEMMA KeptEmbeds ==
  ASSUME NEW T, NEW q \in Seq(T), NEW keep
  PROVE  /\ Kept(q, keep) \in Seq(T)
         /\ \E h : Embeds(Kept(q, keep), q, h) /\ \A i \in DOMAIN Kept(q, keep) : h[i] \in keep
<1> DEFINE L == Len(q)
<1> DEFINE Steps(f, m) == f = [i \in 0..m |-> IF i = 0 THEN <<>>
                                           ELSE IF i \in keep THEN Append(f[i-1], q[i]) ELSE f[i-1]]
<1> DEFINE Right(s, m) == /\ s \in Seq(T)
                          /\ \E h : /\ h \in [1..Len(s) -> 1..m]
                                    /\ \A i, j \in 1..Len(s) : i < j => h[i] < h[j]
                                    /\ \A i \in 1..Len(s) : s[i] = q[h[i]] /\ h[i] \in keep
<1>0. L \in Nat /\ \A i \in 1..L : q[i] \in T
  OBVIOUS
<1> HIDE DEF L
<1> DEFINE M == {m \in 0..L : \E f : Steps(f, m) /\ Right(f[m], m)}
<1>1. 0 \in M
  <2> DEFINE g == [i \in 0..0 |-> <<>>]
  <2>1. Steps(g, 0)
    OBVIOUS
  <2>2. Right(g[0], 0)
    <3>1. g[0] = <<>> /\ <<>> \in Seq(T) /\ Len(<<>>) = 0 /\ 1..0 = {}
      OBVIOUS
    <3> DEFINE h == [i \in {} |-> 1]
    <3>2. h \in [1..0 -> 1..0]
      BY <3>1
    <3> HIDE DEF h, g
    <3>3. \A i \in 1..0 : FALSE
      OBVIOUS
    <3> QED
      BY <3>1, <3>2, <3>3
  <2> HIDE DEF Steps, Right, g
  <2> QED
    BY <1>0, <2>1, <2>2
<1>2. ASSUME NEW m \in 1..L, m-1 \in M PROVE m \in M
  <2>1. PICK f : Steps(f, m-1) /\ Right(f[m-1], m-1)
    BY <1>2
  <2>2. m \in Nat /\ m >= 1 /\ q[m] \in T
    BY <1>0
  <2> DEFINE t == f[m-1]
  <2> DEFINE g == [i \in 0..m |-> IF i = m THEN IF m \in keep THEN Append(t, q[m]) ELSE t ELSE f[i]]
  <2>3. Steps(g, m)
    <3>1. \A i \in 0..(m-1) : f[i] = IF i = 0 THEN <<>> ELSE IF i \in keep THEN Append(f[i-1], q[i]) ELSE f[i-1]
      BY <2>1
    <3>2. \A i \in 0..m : g[i] = IF i = 0 THEN <<>> ELSE IF i \in keep THEN Append(g[i-1], q[i]) ELSE g[i-1]
      <4> TAKE i \in 0..m
      <4>1. CASE i = m
        <5>1. m-1 \in 0..m /\ m-1 # m /\ g[m-1] = t
          BY <2>2
        <5> QED
          BY <2>2, <4>1, <5>1
      <4>2. CASE i = 0
        BY <2>2, <3>1, <4>2
      <4>3. CASE i # m /\ i # 0
        <5>1. i \in 0..(m-1) /\ i-1 \in 0..m /\ i-1 # m /\ g[i-1] = f[i-1] /\ g[i] = f[i]
          BY <2>2, <4>3
        <5> QED
          BY <3>1, <4>3, <5>1
      <4> QED
        BY <4>1, <4>2, <4>3
    <3>3. g = [i \in 0..m |-> g[i]]
      OBVIOUS
    <3> HIDE DEF g
    <3> QED
      BY <3>2, <3>3
  <2>4. g[m] = IF m \in keep THEN Append(t, q[m]) ELSE t
    BY <2>2
  <2>5. Right(g[m], m)
    <3>1. PICK h : /\ h \in [1..Len(t) -> 1..(m-1)]
                   /\ \A i, j \in 1..Len(t) : i < j => h[i] < h[j]
                   /\ \A i \in 1..Len(t) : t[i] = q[h[i]] /\ h[i] \in keep
      BY <2>1
    <3>2. t \in Seq(T) /\ Len(t) \in Nat
      BY <2>1
    <3> HIDE DEF t, g
    <3>3. CASE m \notin keep
      <4>1. h \in [1..Len(t) -> 1..m]
        BY <2>2, <3>1
      <4> QED
        BY <2>4, <3>1, <3>2, <3>3, <4>1
    <3>4. CASE m \in keep
      <4> DEFINE s == Append(t, q[m])
      <4> DEFINE k == [i \in 1..(Len(t) + 1) |-> IF i = Len(t) + 1 THEN m ELSE h[i]]
      <4>1. s \in Seq(T) /\ Len(s) = Len(t) + 1 /\ s[Len(t) + 1] = q[m] /\ \A i \in 1..Len(t) : s[i] = t[i]
        BY <2>2, <3>2
      <4>2. \A i \in 1..(Len(t) + 1) : i = Len(t) + 1 \/ i \in 1..Len(t)
        BY <3>2
      <4>3. k \in [1..Len(s) -> 1..m]
        BY <2>2, <3>1, <3>2, <4>1, <4>2
      <4>4. \A i \in 1..Len(t) : k[i] = h[i] /\ k[i] \in 1..(m-1)
        BY <3>1, <3>2
      <4>5. k[Len(t) + 1] = m
        BY <3>2
      <4> HIDE DEF k, s
      <4>6. \A i, j \in 1..Len(s) : i < j => k[i] < k[j]
        <5> SUFFICES ASSUME NEW i \in 1..Len(s), NEW j \in 1..Len(s), i < j PROVE k[i] < k[j]
          OBVIOUS
        <5>1. i \in 1..Len(t)
          BY <3>2, <4>1
        <5>2. CASE j = Len(t) + 1
          <6>1. k[i] \in 1..(m-1)
            BY <4>4, <5>1
          <6> QED
            BY <2>2, <4>5, <5>2, <6>1
        <5>3. CASE j \in 1..Len(t)
          BY <3>1, <4>4, <5>1, <5>3
        <5> QED
          BY <4>1, <4>2, <5>2, <5>3
      <4>7. \A i \in 1..Len(s) : s[i] = q[k[i]] /\ k[i] \in keep
        BY <3>1, <3>4, <4>1, <4>2, <4>4, <4>5
      <4>8. g[m] = s
        BY <2>4, <3>4 DEF s
      <4> QED
        BY <4>1, <4>3, <4>6, <4>7, <4>8
    <3> QED
      BY <3>3, <3>4
  <2> HIDE DEF Steps, Right, g
  <2> QED
    BY <1>0, <2>2, <2>3, <2>5
<1> HIDE DEF M
<1>3. \A n \in 0..L : n \in M
  BY <1>0, <1>1, <1>2, Upward
<1> DEFINE u == CHOOSE f : Steps(f, L)
<1>4. PICK f : Steps(f, L) /\ Right(f[L], L)
  <2>1. L \in M
    BY <1>0, <1>3
  <2> QED
    BY <2>1 DEF M
<1>5. Steps(u, L)
  BY <1>4
<1>6. Kept(q, keep) = u[L]
  BY DEF Kept, L
<1> HIDE DEF u
<1>7. u[L] = f[L]
  <2> DEFINE E == {m \in 0..L : u[m] = f[m]}
  <2>1. \A i \in 0..L : /\ f[i] = IF i = 0 THEN <<>> ELSE IF i \in keep THEN Append(f[i-1], q[i]) ELSE f[i-1]
                        /\ u[i] = IF i = 0 THEN <<>> ELSE IF i \in keep THEN Append(u[i-1], q[i]) ELSE u[i-1]
    BY <1>4, <1>5
  <2>2. 0 \in E
    BY <1>0, <2>1
  <2>3. ASSUME NEW m \in 1..L, m-1 \in E PROVE m \in E
    <3>1. m \in 0..L /\ m # 0 /\ m-1 \in 0..L /\ u[m-1] = f[m-1]
      BY <1>0, <2>3
    <3> QED
      BY <2>1, <3>1
  <2> HIDE DEF E
  <2>4. \A n \in 0..L : n \in E
    BY <1>0, <2>2, <2>3, Upward
  <2>5. L \in E
    BY <1>0, <2>4
  <2> QED
    BY <2>5 DEF E
<1> DEFINE k == Kept(q, keep)
<1>8. k = f[L]
  BY <1>6, <1>7
<1> HIDE DEF k
<1>9. PICK h : /\ h \in [1..Len(k) -> 1..L]
               /\ \A i, j \in 1..Len(k) : i < j => h[i] < h[j]
               /\ \A i \in 1..Len(k) : k[i] = q[h[i]] /\ h[i] \in keep
  BY <1>4, <1>8
<1>10. k \in Seq(T) /\ DOMAIN k = 1..Len(k) /\ DOMAIN q = 1..L
  BY <1>4, <1>8 DEF L
<1> QED
  BY <1>9, <1>10 DEF Embeds, k

Rows(w, r) == {i \in DOMAIN w : w[i] = r}

\* A sequence has no more places of a value than the one it embeds into.
LEMMA FewerPlaces ==
  ASSUME NEW T, NEW v \in Seq(T), NEW w \in Seq(T), NEW h, Embeds(v, w, h), NEW r
  PROVE  Cardinality(Rows(v, r)) <= Cardinality(Rows(w, r))
<1> DEFINE A == {i \in DOMAIN v : v[i] = r}
<1> DEFINE B == {i \in DOMAIN w : w[i] = r}
<1> DEFINE f == [i \in A |-> h[i]]
<1>1. f \in [A -> B]
  BY DEF Embeds
<1>2. \A i, j \in A : f[i] = f[j] => i = j
  <2> SUFFICES ASSUME NEW i \in A, NEW j \in A, h[i] = h[j] PROVE i = j
    OBVIOUS
  <2>1. i \in Nat /\ j \in Nat /\ h[i] \in DOMAIN w /\ DOMAIN w \subseteq Nat
    BY DEF Embeds
  <2>2. ~(i < j) /\ ~(j < i)
    BY <2>1 DEF Embeds
  <2> QED
    BY <2>1, <2>2
<1>3. IsFiniteSet(B)
  <2>1. IsFiniteSet(DOMAIN w)
    BY FS_Interval
  <2> QED
    BY <2>1, FS_Subset
<1> HIDE DEF A, B, f
<1>4. f \in Injection(A, B)
  BY <1>1, <1>2 DEF Injection, IsInjective
<1> QED
  BY <1>3, <1>4, FS_Injection DEF A, B, Rows

-----------------------------------------------------------------------------
(* SttBroker: the window and the queue *)

\* No more rows than the grants in the making have reserved.
Counted(w, rq) ==
  \A r \in Requesters : Cardinality(Rows(w, r)) <= (IF rq[r].pc = "granting" THEN rq[r].n ELSE 0)

Ordered(q) ==
  \A i, j \in DOMAIN q : i < j =>
    /\ q[i].who # q[j].who
    /\ q[j].reconnect => q[i].reconnect

\* Who asks without a ticket, and who has a grant, has no place in the queue.
NeedsNoPlace(f) ==
  \/ f.pc = "sent" /\ ~f.ticket
  \/ f.pc = "granting"
  \/ f.pc = "answered" /\ f.answer = "granted"
Unserved == \A r \in Requesters : NeedsNoPlace(req[r]) => TicketsOf(queue, r) = {}

BrokerInv == BrokerTypeOK /\ BrokerSound /\ Unserved

LEMMA BrokerForms ==
  /\ GrantsCounted <=> Counted(window, req)
  /\ QueueOrdered <=> Ordered(queue)
  /\ (GrantsCounted)' <=> Counted(window', req')
  /\ (QueueOrdered)' <=> Ordered(queue')
BY DEF GrantsCounted, Counted, Rows, RowsOf, QueueOrdered, Ordered

LEMMA RowsFinite ==
  ASSUME NEW T, NEW w \in Seq(T), NEW r
  PROVE  /\ IsFiniteSet(Rows(w, r)) /\ Cardinality(Rows(w, r)) \in Nat
         /\ Cardinality(Rows(w, r)) <= 0 <=> Rows(w, r) = {}
<1>1. IsFiniteSet(DOMAIN w)
  BY FS_Interval
<1>2. IsFiniteSet(Rows(w, r))
  BY <1>1, FS_Subset DEF Rows
<1> QED
  BY <1>2, FS_CardinalityType, FS_EmptySet

\* Taking places out keeps the queue's order, and gives nobody a place.
LEMMA KeptOrdered ==
  ASSUME NEW q \in Seq(Ticket), NEW keep
  PROVE  /\ Kept(q, keep) \in Seq(Ticket)
         /\ Ordered(q) => Ordered(Kept(q, keep))
         /\ \A r : TicketsOf(Kept(q, keep), r) # {} => TicketsOf(q, r) # {}
<1> DEFINE k == Kept(q, keep)
<1>1. k \in Seq(Ticket)
  BY KeptEmbeds
<1>2. PICK h : Embeds(k, q, h)
  BY KeptEmbeds
<1> HIDE DEF k
<1>3. Ordered(q) => Ordered(k)
  BY <1>2 DEF Ordered, Embeds
<1>4. \A r : TicketsOf(k, r) # {} => TicketsOf(q, r) # {}
  BY <1>2 DEF TicketsOf, Embeds
<1> QED
  BY <1>1, <1>3, <1>4 DEF k

LEMMA WithoutOrdered ==
  ASSUME NEW q \in Seq(Ticket), NEW r
  PROVE  /\ Without(q, r) \in Seq(Ticket)
         /\ Ordered(q) => Ordered(Without(q, r))
         /\ \A s : TicketsOf(Without(q, r), s) # {} => TicketsOf(q, s) # {}
         /\ TicketsOf(Without(q, r), r) = {}
<1> DEFINE k == Without(q, r)
<1>1. PICK h : Embeds(k, q, h) /\ \A i \in DOMAIN k : h[i] \in DOMAIN q \ TicketsOf(q, r)
  BY KeptEmbeds DEF Without
<1> HIDE DEF k
<1>2. TicketsOf(k, r) = {}
  BY <1>1 DEF TicketsOf, Embeds
<1> QED
  BY <1>2, KeptOrdered DEF Without, k

LEMMA PlaceOrdered ==
  ASSUME NEW q \in Seq(Ticket), NEW t \in Ticket, Ordered(q), TicketsOf(q, t.who) = {}
  PROVE  /\ Place(q, t) \in Seq(Ticket)
         /\ Ordered(Place(q, t))
         /\ \A r : TicketsOf(Place(q, t), r) # {} => TicketsOf(q, r) # {} \/ r = t.who
<1>0. /\ \A i, j \in DOMAIN q : i # j => q[i].who # q[j].who
      /\ \A i \in DOMAIN q : q[i].who # t.who /\ i \in Nat /\ q[i] \in Ticket
  BY DEF Ordered, TicketsOf
<1>1. ASSUME t.reconnect PROVE
         /\ Place(q, t) \in Seq(Ticket)
         /\ Ordered(Place(q, t))
         /\ \A r : TicketsOf(Place(q, t), r) # {} => TicketsOf(q, r) # {} \/ r = t.who
  <2> DEFINE a == Reconnects(q)
  <2> DEFINE b == Others(q)
  <2> DEFINE p == Append(a, t) \o b
  <2>1. PICK g : Embeds(a, q, g) /\ \A i \in DOMAIN a : g[i] \in {k \in DOMAIN q : q[k].reconnect}
    BY KeptEmbeds DEF Reconnects
  <2>2. PICK h : Embeds(b, q, h) /\ \A i \in DOMAIN b : h[i] \in {k \in DOMAIN q : ~q[k].reconnect}
    BY KeptEmbeds DEF Others
  <2>3. /\ a \in Seq(Ticket) /\ b \in Seq(Ticket)
        /\ Ordered(a) /\ Ordered(b)
    BY KeptOrdered DEF Reconnects, Others
  <2> HIDE DEF a, b
  <2>4. /\ \A i \in DOMAIN a : a[i].reconnect /\ a[i].who # t.who
        /\ \A i \in DOMAIN b : ~b[i].reconnect /\ b[i].who # t.who
    BY <1>0, <2>1, <2>2 DEF Embeds
  <2>5. \A i \in DOMAIN a, j \in DOMAIN b : a[i].who # b[j].who
    <3> TAKE i \in DOMAIN a, j \in DOMAIN b
    <3>1. g[i] \in DOMAIN q /\ h[j] \in DOMAIN q /\ g[i] # h[j] /\ a[i] = q[g[i]] /\ b[j] = q[h[j]]
      BY <2>1, <2>2 DEF Embeds
    <3> QED
      BY <1>0, <3>1
  <2>6. /\ p \in Seq(Ticket) /\ Len(a) \in Nat /\ Len(b) \in Nat
        /\ DOMAIN p = 1..(Len(a) + 1 + Len(b)) /\ DOMAIN a = 1..Len(a) /\ DOMAIN b = 1..Len(b)
        /\ \A i \in DOMAIN a : p[i] = a[i]
        /\ p[Len(a) + 1] = t
        /\ \A i \in DOMAIN b : p[Len(a) + 1 + i] = b[i]
    <3>1. Append(a, t) \in Seq(Ticket) /\ Len(Append(a, t)) = Len(a) + 1
      BY <2>3
    <3>2. \A i \in 1..(Len(a) + 1) : p[i] = Append(a, t)[i]
      BY <2>3, <3>1
    <3>3. \A i \in 1..Len(b) : p[Len(a) + 1 + i] = b[i]
      BY <2>3, <3>1
    <3>4. p \in Seq(Ticket) /\ Len(p) = Len(a) + 1 + Len(b)
      BY <2>3, <3>1
    <3>5. \A i \in 1..Len(a) : Append(a, t)[i] = a[i] /\ i \in 1..(Len(a) + 1)
      BY <2>3
    <3>6. Append(a, t)[Len(a) + 1] = t /\ Len(a) + 1 \in 1..(Len(a) + 1)
      BY <2>3
    <3> HIDE DEF p
    <3>7. Len(a) \in Nat /\ Len(b) \in Nat /\ DOMAIN a = 1..Len(a) /\ DOMAIN b = 1..Len(b)
      BY <2>3
    <3>8. DOMAIN p = 1..(Len(a) + 1 + Len(b))
      BY <3>4
    <3>9. \A i \in DOMAIN a : p[i] = a[i]
      BY <3>2, <3>5, <3>7
    <3>10. p[Len(a) + 1] = t
      BY <3>2, <3>6
    <3> QED
      BY <3>3, <3>4, <3>7, <3>8, <3>9, <3>10
  <2> DEFINE x == Len(a)
  <2>7. \A i \in DOMAIN p : \/ i \in DOMAIN a
                            \/ i = x + 1
                            \/ i - x - 1 \in DOMAIN b /\ i = x + 1 + (i - x - 1) /\ i > x + 1
    <3>1. /\ x \in Nat /\ Len(b) \in Nat /\ DOMAIN a = 1..x /\ DOMAIN b = 1..Len(b)
          /\ DOMAIN p = 1..(x + 1 + Len(b))
      BY <2>6
    <3> HIDE DEF p, x
    <3> QED
      BY <3>1
  <2> HIDE DEF p, x
  <2>8. Ordered(p)
    <3> SUFFICES ASSUME NEW i \in DOMAIN p, NEW j \in DOMAIN p, i < j
                 PROVE  p[i].who # p[j].who /\ (p[j].reconnect => p[i].reconnect)
      BY DEF Ordered
    <3>1. CASE i \in DOMAIN a /\ j \in DOMAIN a
      BY <2>3, <2>6, <3>1 DEF Ordered
    <3>2. CASE i \in DOMAIN a /\ j = x + 1
      BY <2>4, <2>6, <3>2 DEF x
    <3>3. CASE i \in DOMAIN a /\ j - x - 1 \in DOMAIN b /\ j = x + 1 + (j - x - 1)
      <4>1. p[i] = a[i] /\ p[j] = b[j - x - 1]
        BY <2>6, <3>3 DEF x
      <4> QED
        BY <2>4, <2>5, <3>3, <4>1
    <3>4. CASE i = x + 1 /\ j - x - 1 \in DOMAIN b /\ j = x + 1 + (j - x - 1)
      <4>1. p[i] = t /\ p[j] = b[j - x - 1]
        BY <2>6, <3>4 DEF x
      <4> QED
        BY <2>4, <3>4, <4>1
    <3>5. CASE /\ i - x - 1 \in DOMAIN b /\ i = x + 1 + (i - x - 1) 
               /\ j - x - 1 \in DOMAIN b /\ j = x + 1 + (j - x - 1)
      <4>1. p[i] = b[i - x - 1] /\ p[j] = b[j - x - 1]
        BY <2>6, <3>5 DEF x
      <4>2. i - x - 1 < j - x - 1
        BY <2>6 DEF x
      <4> QED
        BY <2>3, <3>5, <4>1, <4>2 DEF Ordered
    <3>6. i \in Nat /\ j \in Nat /\ x \in Nat /\ \A k \in DOMAIN a : k \in Nat /\ k <= x
      BY <2>6 DEF x
    <3>7. i = x + 1 => j # x + 1 /\ j \notin DOMAIN a
      BY <3>6
    <3>8. i > x + 1 => j > x + 1 /\ j \notin DOMAIN a
      BY <3>6
    <3> QED
      BY <2>7, <3>1, <3>2, <3>3, <3>4, <3>5, <3>7, <3>8, <3>6
  <2>9. \A r : TicketsOf(p, r) # {} => TicketsOf(q, r) # {} \/ r = t.who
    <3> SUFFICES ASSUME NEW r, NEW i \in DOMAIN p, p[i].who = r PROVE TicketsOf(q, r) # {} \/ r = t.who
      BY DEF TicketsOf
    <3>1. CASE i \in DOMAIN a
      <4>1. g[i] \in DOMAIN q /\ q[g[i]].who = r
        BY <2>1, <2>6, <3>1 DEF Embeds
      <4> QED
        BY <4>1 DEF TicketsOf
    <3>2. CASE i = x + 1
      BY <2>6, <3>2 DEF x
    <3>3. CASE i - x - 1 \in DOMAIN b /\ i = x + 1 + (i - x - 1)
      <4>1. p[i] = b[i - x - 1]
        BY <2>6, <3>3 DEF x
      <4>2. h[i - x - 1] \in DOMAIN q /\ q[h[i - x - 1]].who = r
        BY <2>2, <3>3, <4>1 DEF Embeds
      <4> QED
        BY <4>2 DEF TicketsOf
    <3> QED
      BY <2>7, <3>1, <3>2, <3>3
  <2>10. Place(q, t) = p
    BY <1>1 DEF Place, p, a, b
  <2> QED
    BY <2>6, <2>8, <2>9, <2>10
<1>2. ASSUME ~t.reconnect PROVE
         /\ Place(q, t) \in Seq(Ticket)
         /\ Ordered(Place(q, t))
         /\ \A r : TicketsOf(Place(q, t), r) # {} => TicketsOf(q, r) # {} \/ r = t.who
  <2> DEFINE p == Append(q, t)
  <2>1. /\ p \in Seq(Ticket) /\ Len(q) \in Nat /\ DOMAIN q = 1..Len(q) /\ DOMAIN p = 1..(Len(q) + 1)
        /\ \A i \in DOMAIN q : p[i] = q[i]
        /\ p[Len(q) + 1] = t
    OBVIOUS
  <2>2. \A i \in DOMAIN p : i \in DOMAIN q \/ i = Len(q) + 1
    BY <2>1
  <2> HIDE DEF p
  <2>3. Ordered(p)
    <3> SUFFICES ASSUME NEW i \in DOMAIN p, NEW j \in DOMAIN p, i < j
                 PROVE  p[i].who # p[j].who /\ (p[j].reconnect => p[i].reconnect)
      BY DEF Ordered
    <3>1. i \in DOMAIN q
      BY <2>1
    <3>2. CASE j \in DOMAIN q
      BY <2>1, <3>1, <3>2 DEF Ordered
    <3>3. CASE j = Len(q) + 1
      BY <1>0, <1>2, <2>1, <3>1, <3>3
    <3> QED
      BY <2>2, <3>2, <3>3
  <2>4. \A r : TicketsOf(p, r) # {} => TicketsOf(q, r) # {} \/ r = t.who
    BY <2>1, <2>2 DEF TicketsOf
  <2>5. Place(q, t) = p
    BY <1>2 DEF Place, p
  <2> QED
    BY <2>1, <2>3, <2>4, <2>5
<1> QED
  BY <1>1, <1>2

\* What serving a request may do: it stays out until its answer is heard, and only it takes a place.
Served ==
  /\ BrokerInv'
  /\ \A p \in Requesters : (req[p].pc = "idle") <=> (req'[p].pc = "idle")
  /\ \A p \in Requesters : TicketsOf(queue', p) # {} => TicketsOf(queue, p) # {} \/ req[p].pc # "idle"

LEMMA AnswerGives ==
  ASSUME BrokerTypeOK, NEW r \in Requesters, NEW answer \in Answers, Answer(r, answer)
  PROVE  /\ req' \in [Requesters -> Request]
         /\ req'[r].pc = "answered" /\ req'[r].answer = answer
         /\ \A s \in Requesters \ {r} : req'[s] = req[s]
<1>1. req[r] \in Request
  BY DEF BrokerTypeOK
<1>2. [req[r] EXCEPT !.pc = "answered", !.answer = answer] \in Request
  BY <1>1 DEF Request
<1>3. req' = [req EXCEPT ![r] = [req[r] EXCEPT !.pc = "answered", !.answer = answer]]
  BY DEF Answer, BrokerTypeOK
<1>4. req' \in [Requesters -> Request]
  BY <1>2, <1>3 DEF BrokerTypeOK
<1>5. req'[r] = [req[r] EXCEPT !.pc = "answered", !.answer = answer]
  BY <1>3 DEF BrokerTypeOK
<1> QED
  BY <1>1, <1>3, <1>4, <1>5 DEF BrokerTypeOK, Request

\* A request that has no rows is answered; the queue loses places or gives it one.
LEMMA AnsweredServed ==
  ASSUME BrokerInv, NEW r \in Requesters, NEW answer \in Answers \ {"granted"}, Answer(r, answer), req[r].pc = "sent",
         UNCHANGED window, queue' \in Seq(Ticket), Ordered(queue'),
         \A s : TicketsOf(queue', s) # {} => TicketsOf(queue, s) # {} \/ s = r
  PROVE  Served
<1> USE DEF BrokerInv, BrokerTypeOK, BrokerSound
<1>1. /\ req' \in [Requesters -> Request]
      /\ req'[r].pc = "answered" /\ req'[r].answer = answer
      /\ \A s \in Requesters \ {r} : req'[s] = req[s]
  BY AnswerGives
<1>2. Counted(window', req')
  <2>1. Counted(window, req)
    BY BrokerForms
  <2> SUFFICES ASSUME NEW s \in Requesters
               PROVE  Cardinality(Rows(window, s)) <= (IF req'[s].pc = "granting" THEN req'[s].n ELSE 0)
    BY DEF Counted
  <2>2. CASE s = r
    BY <1>1, <2>1, <2>2 DEF Counted
  <2>3. CASE s # r
    BY <1>1, <2>1, <2>3 DEF Counted
  <2> QED
    BY <2>2, <2>3
<1>3. Unserved'
  BY <1>1 DEF Unserved, NeedsNoPlace
<1>4. BrokerTypeOK'
  BY <1>1
<1>5. BrokerSound'
  BY <1>2, BrokerForms
<1> QED
  BY <1>1, <1>3, <1>4, <1>5 DEF Served

LEMMA RefusedServed ==
  ASSUME BrokerInv, NEW r \in Requesters, IsRefused(r) PROVE Served
<1>1. /\ Answer(r, "denied") /\ "denied" \in Answers \ {"granted"} /\ req[r].pc = "sent" /\ UNCHANGED window
      /\ queue' \in {queue, Without(queue, r)}
  BY DEF IsRefused, Answers
<1>2. queue \in Seq(Ticket) /\ Ordered(queue)
  BY BrokerForms DEF BrokerInv, BrokerTypeOK, BrokerSound
<1>3. queue' \in Seq(Ticket) /\ Ordered(queue') /\ \A s : TicketsOf(queue', s) # {} => TicketsOf(queue, s) # {}
  BY <1>1, <1>2, WithoutOrdered
<1> QED
  BY <1>1, <1>3, AnsweredServed

LEMMA FreshOrdered ==
  ASSUME BrokerInv
  PROVE  /\ Fresh \in Seq(Ticket) /\ Ordered(Fresh)
         /\ \A s : TicketsOf(Fresh, s) # {} => TicketsOf(queue, s) # {}
<1>1. queue \in Seq(Ticket) /\ Ordered(queue)
  BY BrokerForms DEF BrokerInv, BrokerTypeOK, BrokerSound
<1> QED
  BY <1>1, KeptOrdered DEF Fresh

LEMMA TurnAwayServed ==
  ASSUME BrokerInv, NEW r \in Requesters, TurnAway(r) PROVE Served
<1>1. /\ Answer(r, "denied") /\ "denied" \in Answers \ {"granted"} /\ req[r].pc = "sent" /\ UNCHANGED window
      /\ queue' \in {Fresh, Without(Fresh, r)}
  BY DEF TurnAway, Answers
<1>2. queue' \in Seq(Ticket) /\ Ordered(queue') /\ \A s : TicketsOf(queue', s) # {} => TicketsOf(queue, s) # {}
  BY <1>1, FreshOrdered, WithoutOrdered
<1> QED
  BY <1>1, <1>2, AnsweredServed

LEMMA EnqueueServed ==
  ASSUME BrokerInv, NEW r \in Requesters, Enqueue(r) PROVE Served
<1>1. /\ Answer(r, "queued") /\ "queued" \in Answers \ {"granted"} /\ req[r].pc = "sent" /\ UNCHANGED window
      /\ queue' = IF Mine(r) # {} THEN Fresh ELSE Place(Fresh, NewTicket(r))
  BY DEF Enqueue, Answers
<1>2. CASE Mine(r) # {}
  BY <1>1, <1>2, FreshOrdered, AnsweredServed
<1>3. CASE Mine(r) = {}
  <2>1. TicketsOf(Fresh, r) = {}
    <3>1. CASE req[r].ticket
      BY <1>3, <3>1 DEF Mine
    <3>2. CASE ~req[r].ticket
      <4>1. NeedsNoPlace(req[r])
        BY <1>1, <3>2 DEF NeedsNoPlace
      <4>2. TicketsOf(queue, r) = {}
        BY <4>1 DEF BrokerInv, Unserved
      <4> QED
        BY <4>2, FreshOrdered
    <3> QED
      BY <3>1, <3>2
  <2>2. NewTicket(r) \in Ticket /\ NewTicket(r).who = r
    <3>1. req[r] \in Request
      BY DEF BrokerInv, BrokerTypeOK
    <3>2. Reconnect(r) \in BOOLEAN
      BY <3>1 DEF Reconnect, Request
    <3> QED
      BY <3>1, <3>2 DEF NewTicket, Ticket, Request
  <2>3. /\ queue' \in Seq(Ticket) /\ Ordered(queue')
        /\ \A s : TicketsOf(queue', s) # {} => TicketsOf(Fresh, s) # {} \/ s = r
    BY <1>1, <1>3, <2>1, <2>2, FreshOrdered, PlaceOrdered
  <2> QED
    BY <1>1, <2>3, FreshOrdered, AnsweredServed
<1> QED
  BY <1>2, <1>3

LEMMA GrantServed ==
  ASSUME BrokerInv, NEW r \in Requesters, Null \notin Requesters, Grant(r) PROVE Served
<1>0. /\ queue' \in Seq(Ticket) /\ Ordered(queue')
      /\ \A s : TicketsOf(queue', s) # {} => TicketsOf(queue, s) # {}
      /\ TicketsOf(queue', r) = {}
  <2>1. queue' = IF Mine(r) # {} THEN Without(Fresh, r) ELSE Fresh
    BY DEF Grant
  <2>2. Mine(r) = {} => TicketsOf(Fresh, r) = {}
    <3>1. CASE req[r].ticket
      BY <3>1 DEF Mine
    <3>2. CASE ~req[r].ticket
      <4>1. NeedsNoPlace(req[r])
        BY <3>2 DEF NeedsNoPlace, Grant
      <4>2. TicketsOf(queue, r) = {}
        BY <4>1 DEF BrokerInv, Unserved
      <4> QED
        BY <4>2, FreshOrdered
    <3> QED
      BY <3>1, <3>2
  <2> QED
    BY <2>1, <2>2, FreshOrdered, WithoutOrdered
<1> USE DEF BrokerInv, BrokerTypeOK, BrokerSound
<1> DEFINE n == req[r].n
<1> DEFINE W == Requesters \cup {Null}
<1>1. /\ req[r] \in Request /\ req[r].pc = "sent" /\ n \in {1, 2}
      /\ window \in Seq(W) /\ Len(window) \in Nat
  BY DEF Grant, Request, Sizes
<1>2. /\ req' \in [Requesters -> Request]
      /\ req'[r].pc = "granting" /\ req'[r].n = n
      /\ \A s \in Requesters \ {r} : req'[s] = req[s]
  <2>1. [req[r] EXCEPT !.pc = "granting"] \in Request
    BY <1>1 DEF Request
  <2>2. req' = [req EXCEPT ![r] = [req[r] EXCEPT !.pc = "granting"]]
    BY DEF Grant
  <2> QED
    BY <1>1, <2>1, <2>2 DEF Request
<1> DEFINE more == [i \in 1..n |-> r]
<1>3. more \in Seq(W) /\ Len(more) = n /\ \A i \in 1..n : more[i] = r
  BY <1>1
<1>4. window' = window \o more
  BY DEF Grant
<1> HIDE DEF n, more, W
<1>5. /\ window' \in Seq(W) /\ DOMAIN window' = 1..(Len(window) + n) /\ DOMAIN window = 1..Len(window)
      /\ \A i \in 1..Len(window) : window'[i] = window[i]
      /\ \A i \in 1..n : window'[Len(window) + i] = r
  BY <1>1, <1>3, <1>4
<1>6. \A i \in 1..(Len(window) + n) : \/ i \in 1..Len(window)
                                      \/ i - Len(window) \in 1..n /\ i = Len(window) + (i - Len(window))
  BY <1>1
<1>7. Counted(window, req)
  BY BrokerForms
<1>8. Counted(window', req')
  <2> SUFFICES ASSUME NEW s \in Requesters
               PROVE  Cardinality(Rows(window', s)) <= (IF req'[s].pc = "granting" THEN req'[s].n ELSE 0)
    BY DEF Counted
  <2>1. CASE s = r
    <3>1. Rows(window, r) = {}
      <4>1. Cardinality(Rows(window, r)) <= 0
        BY <1>1, <1>7 DEF Counted
      <4> QED
        BY <1>1, <4>1, RowsFinite
    <3>2. \A i \in Rows(window', r) : i \in (Len(window) + 1)..(Len(window) + n)
      <4> TAKE i \in Rows(window', r)
      <4>1. i \in 1..(Len(window) + n) /\ window'[i] = r
        BY <1>5 DEF Rows
      <4>2. i \notin 1..Len(window)
        BY <1>5, <3>1, <4>1 DEF Rows
      <4> QED
        BY <1>1, <4>1, <4>2
    <3> DEFINE I == (Len(window) + 1)..(Len(window) + n)
    <3>3. IsFiniteSet(I) /\ Cardinality(I) = n
      <4> DEFINE x == Len(window) + 1
      <4> DEFINE y == Len(window) + n
      <4>1. x \in Int /\ y \in Int /\ ~(x > y) /\ y - x + 1 = n
        BY <1>1
      <4> HIDE DEF x, y
      <4>2. IsFiniteSet(x..y) /\ Cardinality(x..y) = n
        BY <4>1, FS_Interval
      <4> QED
        BY <4>2 DEF x, y
    <3> HIDE DEF I
    <3>4. Cardinality(Rows(window', r)) <= n
      BY <3>2, <3>3, FS_Subset DEF I
    <3> QED
      BY <1>2, <2>1, <3>4
  <2>2. CASE s # r
    <3>1. Rows(window', s) = Rows(window, s)
      <4>1. \A i \in 1..(Len(window) + n) : window'[i] = s => i \in 1..Len(window)
        BY <1>5, <1>6, <2>2
      <4>2. 1..Len(window) \subseteq 1..(Len(window) + n)
        BY <1>1
      <4> QED
        BY <1>5, <4>1, <4>2 DEF Rows
    <3> QED
      BY <1>2, <1>7, <2>2, <3>1 DEF Counted
  <2> QED
    BY <2>1, <2>2
<1>10. Unserved'
  BY <1>2, <1>0 DEF Unserved, NeedsNoPlace
<1>11. BrokerTypeOK'
  BY <1>2, <1>5, <1>0 DEF W
<1>12. BrokerSound'
  BY <1>8, <1>0, BrokerForms
<1> QED
  BY <1>1, <1>2, <1>0, <1>10, <1>11, <1>12 DEF Served

\* Rows are taken out of the window: those of every other request that were there may stay.
LEMMA FewerCounted ==
  ASSUME NEW T, NEW v \in Seq(T), NEW w \in Seq(T), NEW h, Embeds(v, w, h), Counted(w, req), BrokerTypeOK
  PROVE  Counted(v, req)
<1> SUFFICES ASSUME NEW s \in Requesters
             PROVE  Cardinality(Rows(v, s)) <= (IF req[s].pc = "granting" THEN req[s].n ELSE 0)
  BY DEF Counted
<1>1. Cardinality(Rows(v, s)) <= Cardinality(Rows(w, s))
  BY FewerPlaces
<1>2. Cardinality(Rows(v, s)) \in Nat /\ Cardinality(Rows(w, s)) \in Nat
  BY RowsFinite
<1>3. req[s].n \in Nat
  BY DEF BrokerTypeOK, Request, Sizes
<1> QED
  BY <1>1, <1>2, <1>3 DEF Counted

\* The rows of a request that was answered are gone: the others are counted as before.
LEMMA AnsweredCounted ==
  ASSUME NEW w, Counted(w, req), BrokerTypeOK, NEW r \in Requesters, Rows(w, r) = {},
         req'[r].pc = "answered", \A s \in Requesters \ {r} : req'[s] = req[s]
  PROVE  Counted(w, req')
<1> SUFFICES ASSUME NEW s \in Requesters
             PROVE  Cardinality(Rows(w, s)) <= (IF req'[s].pc = "granting" THEN req'[s].n ELSE 0)
  BY DEF Counted
<1>1. CASE s = r
  BY <1>1, FS_EmptySet
<1>2. CASE s # r
  BY <1>2 DEF Counted
<1> QED
  BY <1>1, <1>2

LEMMA GiveBackServed ==
  ASSUME BrokerInv, NEW r \in Requesters, GiveBack(r) PROVE Served
<1> USE DEF BrokerInv, BrokerTypeOK, BrokerSound
<1> DEFINE W == Requesters \cup {Null}
<1>1. /\ Answer(r, "denied") /\ "denied" \in Answers \ {"granted"} /\ req[r].pc = "granting" /\ UNCHANGED queue
      /\ window' = ReleaseAll(r) /\ window \in Seq(W)
  BY DEF GiveBack, Answers
<1>2. /\ req' \in [Requesters -> Request]
      /\ req'[r].pc = "answered" /\ req'[r].answer \in {"denied", "granted"}
      /\ \A s \in Requesters \ {r} : req'[s] = req[s]
  BY <1>1, AnswerGives
<1> HIDE DEF W
<1>3. window' \in Seq(W)
  BY <1>1, KeptEmbeds DEF ReleaseAll
<1>4. PICK h : Embeds(window', window, h) /\ \A i \in DOMAIN window' : h[i] \in DOMAIN window \ RowsOf(r)
  BY <1>1, KeptEmbeds DEF ReleaseAll
<1>5. Counted(window', req)
  BY <1>1, <1>3, <1>4, FewerCounted, BrokerForms
<1>6. Rows(window', r) = {}
  BY <1>4 DEF Rows, RowsOf, Embeds
<1>7. Counted(window', req')
  BY <1>2, <1>5, <1>6, AnsweredCounted
<1>8. BrokerSound'
  <2>1. Ordered(queue')
    BY <1>1, BrokerForms
  <2> QED
    BY <1>7, <2>1, BrokerForms
<1>9. Unserved'
  BY <1>1, <1>2 DEF Unserved, NeedsNoPlace
<1>10. BrokerTypeOK'
  BY <1>1, <1>2, <1>3 DEF W
<1> QED
  BY <1>1, <1>2, <1>8, <1>9, <1>10 DEF Served

LEMMA IssueServed ==
  ASSUME BrokerInv, NEW r \in Requesters, Null \notin Requesters, Issue(r) PROVE Served
<1> USE DEF BrokerInv, BrokerTypeOK, BrokerSound
<1> DEFINE W == Requesters \cup {Null}
<1>1. /\ Answer(r, "granted") /\ "granted" \in Answers /\ req[r].pc = "granting" /\ UNCHANGED queue
      /\ window' = [i \in DOMAIN window |-> IF window[i] = r THEN Null ELSE window[i]] /\ window \in Seq(W)
  BY DEF Issue, Answers
<1>2. /\ req' \in [Requesters -> Request]
      /\ req'[r].pc = "answered" /\ req'[r].answer \in {"denied", "granted"}
      /\ \A s \in Requesters \ {r} : req'[s] = req[s]
  BY <1>1, AnswerGives
<1>3. window' \in Seq(W)
  BY <1>1
<1> HIDE DEF W
<1>4. Rows(window', r) = {} /\ \A s \in Requesters \ {r} : Rows(window', s) = Rows(window, s)
  BY <1>1 DEF Rows
<1>5. Counted(window', req)
  <2>1. Counted(window, req)
    BY BrokerForms
  <2> SUFFICES ASSUME NEW s \in Requesters
               PROVE  Cardinality(Rows(window', s)) <= (IF req[s].pc = "granting" THEN req[s].n ELSE 0)
    BY DEF Counted
  <2>2. CASE s = r
    <3>1. req[r].n \in {1, 2}
      BY DEF Request, Sizes
    <3>2. Cardinality(Rows(window', r)) = 0
      BY <1>4, FS_EmptySet
    <3> QED
      BY <2>2, <3>1, <3>2
  <2>3. CASE s # r
    BY <1>4, <2>1, <2>3 DEF Counted
  <2> QED
    BY <2>2, <2>3
<1>7. Counted(window', req')
  BY <1>2, <1>4, <1>5, AnsweredCounted
<1>8. BrokerSound'
  <2>1. Ordered(queue')
    BY <1>1, BrokerForms
  <2> QED
    BY <1>7, <2>1, BrokerForms
<1>9. Unserved'
  BY <1>1, <1>2 DEF Unserved, NeedsNoPlace
<1>10. BrokerTypeOK'
  BY <1>1, <1>2, <1>3 DEF W
<1> QED
  BY <1>1, <1>2, <1>8, <1>9, <1>10 DEF Served

\* Whatever the broker does with a request keeps its window and its queue in order.
LEMMA HandleServed ==
  ASSUME BrokerInv, NEW r \in Requesters, Null \notin Requesters, Handle(r) PROVE Served
BY RefusedServed, GrantServed, TurnAwayServed, EnqueueServed, GiveBackServed, IssueServed DEF Handle

\* A request is put in the place of one that was answered, or is forgotten: nothing else moves.
LEMMA ReqServed ==
  ASSUME BrokerInv, NEW r \in Requesters, NEW f \in Request, req' = [req EXCEPT ![r] = f],
         req[r].pc # "granting", f.pc = "sent" \/ f.pc = "idle", UNCHANGED <<window, queue>>,
         f.pc = "sent" /\ ~f.ticket => TicketsOf(queue, r) = {}
  PROVE  /\ BrokerInv'
         /\ req'[r] = f
         /\ \A s \in Requesters \ {r} : req'[s] = req[s]
<1> USE DEF BrokerInv, BrokerTypeOK, BrokerSound
<1>1. /\ req' \in [Requesters -> Request] /\ req'[r] = f
      /\ \A s \in Requesters \ {r} : req'[s] = req[s]
  OBVIOUS
<1>2. Counted(window', req')
  <2>1. Counted(window, req)
    BY BrokerForms
  <2> SUFFICES ASSUME NEW s \in Requesters
               PROVE  Cardinality(Rows(window, s)) <= (IF req'[s].pc = "granting" THEN req'[s].n ELSE 0)
    BY DEF Counted
  <2>2. CASE s = r
    BY <1>1, <2>1, <2>2 DEF Counted
  <2>3. CASE s # r
    BY <1>1, <2>1, <2>3 DEF Counted
  <2> QED
    BY <2>2, <2>3
<1>3. BrokerSound'
  <2>1. Ordered(queue')
    BY BrokerForms
  <2> QED
    BY <1>2, <2>1, BrokerForms
<1>4. Unserved'
  BY <1>1 DEF Unserved, NeedsNoPlace
<1> QED
  BY <1>1, <1>3, <1>4

LEMMA AskServed ==
  ASSUME BrokerInv, NEW r \in Requesters, NEW n \in Sizes, NEW reconnect \in BOOLEAN, NEW with \in BOOLEAN,
         Ask(r, n, reconnect, with), with \/ TicketsOf(queue, r) = {}
  PROVE  /\ BrokerInv' /\ UNCHANGED queue
         /\ req'[r].pc = "sent"
         /\ \A s \in Requesters \ {r} : req'[s] = req[s]
<1> DEFINE f == [pc |-> "sent", n |-> n, reconnect |-> reconnect, ticket |-> with, answer |-> "none"]
<1>1. f \in Request /\ f.pc = "sent" /\ f.ticket = with
  BY DEF Request, Answers
<1>2. req' = [req EXCEPT ![r] = f] /\ req[r].pc # "granting" /\ UNCHANGED <<window, queue>>
  BY DEF Ask
<1> HIDE DEF f
<1> QED
  BY <1>1, <1>2, ReqServed

LEMMA ForgetServed ==
  ASSUME BrokerInv, NEW r \in Requesters, req[r].pc # "granting",
         req' = [req EXCEPT ![r] = NoRequest], UNCHANGED <<window, queue>>
  PROVE  /\ BrokerInv'
         /\ req'[r].pc = "idle"
         /\ \A s \in Requesters \ {r} : req'[s] = req[s]
<1> DEFINE f == NoRequest
<1>1. f \in Request /\ f.pc = "idle"
  BY DEF NoRequest, Request, Sizes, Answers
<1>2. req' = [req EXCEPT ![r] = f]
  OBVIOUS
<1> HIDE DEF f
<1>3. /\ f.pc = "sent" \/ f.pc = "idle"
      /\ f.pc = "sent" /\ ~f.ticket => TicketsOf(queue, r) = {}
  BY <1>1
<1>4. /\ BrokerInv'
      /\ req'[r] = f
      /\ \A s \in Requesters \ {r} : req'[s] = req[s]
  BY <1>1, <1>2, <1>3, ReqServed
<1> QED
  BY <1>1, <1>4

\* The queue changes alone.
LEMMA QueueServed ==
  ASSUME BrokerInv, UNCHANGED <<window, req>>, queue' \in Seq(Ticket), Ordered(queue'),
         \A s \in Requesters : TicketsOf(queue', s) # {} => TicketsOf(queue, s) # {} \/ req[s].pc = "idle"
  PROVE  BrokerInv'
<1> USE DEF BrokerInv, BrokerTypeOK, BrokerSound
<1>1. Counted(window', req') /\ Ordered(queue')
  BY BrokerForms
<1>2. BrokerSound'
  BY <1>1, BrokerForms
<1>3. Unserved'
  BY DEF Unserved, NeedsNoPlace
<1> QED
  BY <1>2, <1>3

LEMMA CancelServed ==
  ASSUME BrokerInv, NEW r, Cancel(r), UNCHANGED <<window, req>>
  PROVE  BrokerInv' /\ \A s : TicketsOf(queue', s) # {} => TicketsOf(queue, s) # {}
<1>1. queue \in Seq(Ticket) /\ Ordered(queue)
  BY BrokerForms DEF BrokerInv, BrokerTypeOK, BrokerSound
<1>2. queue' \in Seq(Ticket) /\ Ordered(queue') /\ \A s : TicketsOf(queue', s) # {} => TicketsOf(queue, s) # {}
  BY <1>1, WithoutOrdered DEF Cancel
<1> QED
  BY <1>2, QueueServed

LEMMA MissesServed ==
  ASSUME BrokerInv, NEW r, MissesPolls(r)
  PROVE  BrokerInv' /\ UNCHANGED <<window, req>> /\ \A s : TicketsOf(queue', s) # {} => TicketsOf(queue, s) # {}
<1>1. queue \in Seq(Ticket) /\ Ordered(queue)
  BY BrokerForms DEF BrokerInv, BrokerTypeOK, BrokerSound
<1>2. /\ queue' = [i \in DOMAIN queue |-> [queue[i] EXCEPT !.late = @ \/ queue[i].who = r]]
      /\ UNCHANGED <<window, req>>
  BY DEF MissesPolls
<1>3. \A i \in DOMAIN queue : queue[i] \in Ticket
  BY <1>1
<1>4. /\ DOMAIN queue' = DOMAIN queue
      /\ \A i \in DOMAIN queue : /\ queue'[i] \in Ticket
                                 /\ queue'[i].who = queue[i].who /\ queue'[i].reconnect = queue[i].reconnect
  <2> SUFFICES ASSUME NEW i \in DOMAIN queue
               PROVE  /\ queue'[i] \in Ticket
                      /\ queue'[i].who = queue[i].who /\ queue'[i].reconnect = queue[i].reconnect
    BY <1>2
  <2> DEFINE b == queue[i].late \/ queue[i].who = r
  <2>1. queue[i] \in Ticket /\ b \in BOOLEAN
    BY <1>3 DEF Ticket
  <2>2. queue'[i] = [queue[i] EXCEPT !.late = b]
    BY <1>2
  <2> HIDE DEF b
  <2> QED
    BY <2>1, <2>2 DEF Ticket
<1>5. queue' \in Seq(Ticket)
  <2>1. Len(queue) \in Nat /\ DOMAIN queue = 1..Len(queue)
    BY <1>1
  <2>2. queue' = [i \in 1..Len(queue) |-> queue'[i]]
    BY <1>2, <2>1
  <2>3. \A i \in 1..Len(queue) : queue'[i] \in Ticket
    BY <1>4, <2>1
  <2> QED
    BY <2>1, <2>2, <2>3
<1>6. Ordered(queue')
  BY <1>1, <1>4 DEF Ordered
<1>7. \A s : TicketsOf(queue', s) # {} => TicketsOf(queue, s) # {}
  BY <1>4 DEF TicketsOf
<1> QED
  BY <1>2, <1>5, <1>6, <1>7, QueueServed

LEMMA SlidesServed ==
  ASSUME BrokerInv, Slides
  PROVE  BrokerInv' /\ UNCHANGED <<queue, req>>
<1> USE DEF BrokerInv, BrokerTypeOK, BrokerSound
<1> DEFINE W == Requesters \cup {Null}
<1>1. window \in Seq(W) /\ window # <<>> /\ window' = Tail(window) /\ UNCHANGED <<queue, req>>
  BY DEF Slides
<1> HIDE DEF W
<1>2. /\ window' \in Seq(W) /\ Len(window) \in Nat /\ DOMAIN window = 1..Len(window)
      /\ DOMAIN window' = 1..(Len(window) - 1)
      /\ \A i \in 1..(Len(window) - 1) : window'[i] = window[i+1]
  BY <1>1
<1> DEFINE h == [i \in 1..(Len(window) - 1) |-> i + 1]
<1>3. Embeds(window', window, h)
  BY <1>2 DEF Embeds
<1> HIDE DEF h
<1>4. Counted(window, req) /\ Ordered(queue)
  BY BrokerForms
<1>5. Counted(window', req)
  BY <1>1, <1>2, <1>3, <1>4, FewerCounted
<1>6. BrokerSound'
  BY <1>1, <1>4, <1>5, BrokerForms
<1>7. Unserved'
  BY <1>1 DEF Unserved, NeedsNoPlace
<1> QED
  BY <1>1, <1>2, <1>6, <1>7 DEF W

LEMMA OpenedServed ==
  ASSUME BrokerInv, Null \notin Requesters, window' = Append(window, Null), UNCHANGED <<queue, req>>
  PROVE  BrokerInv'
<1> USE DEF BrokerInv, BrokerTypeOK, BrokerSound
<1> DEFINE W == Requesters \cup {Null}
<1>1. window \in Seq(W) /\ Null \in W
  OBVIOUS
<1> HIDE DEF W
<1>2. /\ window' \in Seq(W) /\ Len(window) \in Nat /\ DOMAIN window = 1..Len(window)
      /\ DOMAIN window' = 1..(Len(window) + 1) /\ window'[Len(window) + 1] = Null
      /\ \A i \in 1..Len(window) : window'[i] = window[i]
  BY <1>1
<1>3. \A s \in Requesters : Rows(window', s) = Rows(window, s)
  <2>1. \A i \in 1..(Len(window) + 1) : i \in 1..Len(window) \/ i = Len(window) + 1
    BY <1>2
  <2>2. 1..Len(window) \subseteq 1..(Len(window) + 1)
    BY <1>2
  <2> QED
    BY <1>2, <2>1, <2>2 DEF Rows
<1>4. Counted(window, req) /\ Ordered(queue)
  BY BrokerForms
<1>5. Counted(window', req)
  BY <1>3, <1>4 DEF Counted
<1>6. BrokerSound'
  BY <1>4, <1>5, BrokerForms
<1>7. Unserved'
  BY DEF Unserved, NeedsNoPlace
<1> QED
  BY <1>2, <1>6, <1>7 DEF W

-----------------------------------------------------------------------------
(* SttChannels: where each channel of the page stands *)

\* A request of the page is on its way or a poll of it is set; Due adds a ticket it left behind.
Out(p) == req[p].pc # "idle" \/ (timer # Null /\ timer.who = p)
Due(p) == Out(p) \/ TicketsOf(queue, p) # {}

\* A session of the channel may still be opened without another pause or drop.
ToCome(ch) ==
  \/ phase = "new" \/ ch \in connecting \/ st[ch] = "paused" \/ Awaits(waiting, ch, "pause")
  \/ \E p \in Pages : ch \in ChannelsOf(p) /\ Out(p)

\* Neither a session nor one about to open or to be asked for again.
Vacant(ch) == Current(ch) \notin live /\ ch \notin connecting /\ st[ch] # "paused"

\* The channel's sessions are numbered as they open, the latest is its own and older ones are
\* being ended; each costs the opening, the one reconnect or a pause.
Own(ch) ==
  /\ sess[ch] <= count[ch]
  /\ \A n \in Nat : <<ch, n>> \in live =>
       /\ n >= 1 /\ n <= count[ch]
       /\ n = sess[ch] \/ <<ch, n>> \in dying
       /\ phase = "disposed" => <<ch, n>> \in dying
  /\ waiting[ch] # <<>> => Current(ch) \in dying
  /\ count[ch] + (IF ToCome(ch) THEN 1 ELSE 0) <= 2 - left[ch] + pauses

\* A channel is in one place: asked for, connecting, with a session, or paused.
Placed(ch) ==
  /\ \A p \in Pages : ch \in ChannelsOf(p) /\ Due(p) => Vacant(ch)
  /\ ch \in connecting => Current(ch) \notin live /\ st[ch] # "paused"
  /\ st[ch] \in {"paused", "queued"} => Current(ch) \notin live
  /\ ender["judge"] = "idle" /\ ch \in replaying => Current(ch) \notin live /\ ~ToCome(ch)

\* Requests that are out do not share a channel, and a poll is set for one that is answered.
Asking ==
  /\ \A p, q \in Pages : Due(p) /\ Due(q) /\ ChannelsOf(p) \cap ChannelsOf(q) # {} => p = q
  /\ timer # Null => req[timer.who].pc = "idle"
  /\ \A v \in Visitors : req[v].pc = "idle"
  /\ ~crossed => \A p, q \in Pages : Out(p) /\ Out(q) => p = q

\* A page that was not opened has done nothing.
Unopened ==
  phase = "new" =>
    /\ live = {} /\ ticket = Null /\ connecting = {} /\ replaying = {}
    /\ ender["judge"] = "idle" /\ ender["pass"] = "idle"
    /\ \A p \in Pages : ~Due(p)
    /\ \A ch \in Channels : st[ch] = "idle"

PageInv ==
  /\ BrokerInv
  /\ SttTypeOK
  /\ \A ch \in Channels : Own(ch) /\ Placed(ch)
  /\ Asking /\ Unopened
  /\ WaitsForSomething

LEMMA PageFacts ==
  /\ Channels = {"rep", "customer"} /\ Pages = {"both", "rep", "customer"}
  /\ ChannelsOf("both") = Channels /\ ChannelsOf("rep") = {"rep"} /\ ChannelsOf("customer") = {"customer"}
  /\ \A p \in Pages : ChannelsOf(p) # {} /\ ChannelsOf(p) \subseteq Channels /\ Cardinality(ChannelsOf(p)) \in Sizes
  /\ \A p, q \in Pages : ChannelsOf(p) = ChannelsOf(q) => p = q
  /\ \A chs : chs \subseteq Channels /\ chs # {} => PageFor(chs) \in Pages /\ ChannelsOf(PageFor(chs)) = chs
<1>1. /\ Channels = {"rep", "customer"} /\ Pages = {"both", "rep", "customer"}
      /\ ChannelsOf("both") = Channels /\ ChannelsOf("rep") = {"rep"} /\ ChannelsOf("customer") = {"customer"}
  BY DEF Channels, Pages, ChannelsOf
<1>2. \A p \in Pages : ChannelsOf(p) # {} /\ ChannelsOf(p) \subseteq Channels
  BY <1>1
<1>3. \A p, q \in Pages : ChannelsOf(p) = ChannelsOf(q) => p = q
  BY <1>1
<1>4. \A p \in Pages : Cardinality(ChannelsOf(p)) \in Sizes
  <2>1. Cardinality({"rep"}) = 1 /\ Cardinality({"customer"}) = 1
    BY FS_Singleton
  <2>2. Cardinality({"rep", "customer"}) = 2
    <3>1. "customer" \notin {"rep"} /\ {"rep", "customer"} = {"rep"} \cup {"customer"} /\ IsFiniteSet({"rep"})
      BY FS_Singleton
    <3>2. Cardinality({"rep"} \cup {"customer"}) = Cardinality({"rep"}) + 1
      BY <3>1, FS_AddElement
    <3> QED
      BY <2>1, <3>1, <3>2
  <2> QED
    BY <1>1, <2>1, <2>2 DEF Sizes
<1>5. \A chs : chs \subseteq Channels /\ chs # {} => PageFor(chs) \in Pages /\ ChannelsOf(PageFor(chs)) = chs
  <2> SUFFICES ASSUME NEW chs, chs \subseteq Channels, chs # {}
               PROVE  \E p \in Pages : ChannelsOf(p) = chs
    BY DEF PageFor
  <2>1. chs = {"rep"} \/ chs = {"customer"} \/ chs = {"rep", "customer"}
    BY <1>1
  <2> QED
    BY <1>1, <2>1
<1> QED
  BY <1>1, <1>2, <1>3, <1>4, <1>5

\* Nothing of the channel changes, and no more of its requests is out than was.
Steady(ch) ==
  /\ sess'[ch] = sess[ch] /\ st'[ch] = st[ch] /\ count'[ch] = count[ch] /\ left'[ch] = left[ch]
  /\ waiting'[ch] = waiting[ch]
  /\ ch \in connecting' <=> ch \in connecting
  /\ ender'["judge"] = "idle" /\ ch \in replaying' => ender["judge"] = "idle" /\ ch \in replaying
  /\ \A n \in Nat : <<ch, n>> \in live' => <<ch, n>> \in live
  /\ \A n \in Nat : <<ch, n>> \in dying /\ <<ch, n>> \in live' => <<ch, n>> \in dying'
  /\ waiting[ch] # <<>> => Current(ch) \in live'
  /\ \A p \in Pages : ch \in ChannelsOf(p) => (Out(p)' => Out(p)) /\ (Due(p)' => Due(p))

\* The channel's sessions stay, and no more of them are to come.
LEMMA OwnStays ==
  ASSUME SttTypeOK, NEW ch \in Channels, Own(ch), pauses' \in Nat, pauses' >= pauses,
         sess'[ch] = sess[ch], count'[ch] = count[ch], left'[ch] = left[ch],
         \A n \in Nat : <<ch, n>> \in live' => <<ch, n>> \in live,
         \A n \in Nat : <<ch, n>> \in dying /\ <<ch, n>> \in live' => <<ch, n>> \in dying',
         waiting'[ch] # <<>> => Current(ch) \in dying',
         phase' = "disposed" => phase = "disposed",
         ToCome(ch)' => ToCome(ch)
  PROVE  Own(ch)'
<1>0. /\ sess[ch] \in Nat /\ count[ch] \in Nat /\ left[ch] \in 0..1 /\ pauses \in Nat
  BY DEF SttTypeOK
<1>1. Current(ch)' = Current(ch) /\ Current(ch) = <<ch, sess[ch]>>
  BY DEF Current
<1>2. sess'[ch] <= count'[ch]
  BY DEF Own
<1>3. ASSUME NEW n \in Nat, <<ch, n>> \in live'
      PROVE  /\ n >= 1 /\ n <= count'[ch]
             /\ n = sess'[ch] \/ <<ch, n>> \in dying'
             /\ phase' = "disposed" => <<ch, n>> \in dying'
  BY <1>3 DEF Own
<1>4. waiting'[ch] # <<>> => Current(ch)' \in dying'
  BY <1>0, <1>1 DEF Own
<1>5. count'[ch] + (IF ToCome(ch)' THEN 1 ELSE 0) <= 2 - left'[ch] + pauses'
  <2>1. count[ch] + (IF ToCome(ch) THEN 1 ELSE 0) <= 2 - left[ch] + pauses
    BY DEF Own
  <2> QED
    BY <1>0, <2>1
<1> QED
  BY <1>2, <1>3, <1>4, <1>5 DEF Own

\* The channel is where it was, or is closed.
LEMMA PlacedStays ==
  ASSUME NEW ch \in Channels, Placed(ch), sess'[ch] = sess[ch],
         Current(ch) \in live' => Current(ch) \in live,
         ch \in connecting' => ch \in connecting,
         st'[ch] \in {"paused", "queued"} => st'[ch] = st[ch],
         ender'["judge"] = "idle" /\ ch \in replaying' => ender["judge"] = "idle" /\ ch \in replaying,
         ToCome(ch)' => ToCome(ch),
         \A p \in Pages : ch \in ChannelsOf(p) => (Due(p)' => Due(p))
  PROVE  Placed(ch)'
<1>1. Current(ch)' = Current(ch)
  BY DEF Current
<1>2. Vacant(ch) => Vacant(ch)'
  BY <1>1 DEF Vacant
<1>3. \A p \in Pages : ch \in ChannelsOf(p) /\ Due(p)' => Vacant(ch)'
  BY <1>2 DEF Placed
<1>4. ch \in connecting' => Current(ch)' \notin live' /\ st'[ch] # "paused"
  BY <1>1 DEF Placed
<1>5. st'[ch] \in {"paused", "queued"} => Current(ch)' \notin live'
  BY <1>1 DEF Placed
<1>6. ender'["judge"] = "idle" /\ ch \in replaying' => Current(ch)' \notin live' /\ ~ToCome(ch)'
  BY <1>1 DEF Placed
<1> QED
  BY <1>3, <1>4, <1>5, <1>6 DEF Placed

LEMMA SteadyStays ==
  ASSUME PageInv, NEW ch \in Channels, Steady(ch), pauses' \in Nat, pauses' >= pauses,
         phase' # phase => phase' \notin {"new", "disposed"}
  PROVE  Own(ch)' /\ Placed(ch)'
<1>0. /\ SttTypeOK /\ Own(ch) /\ Placed(ch) /\ sess[ch] \in Nat /\ dying \subseteq live
  BY DEF PageInv, SttTypeOK
<1>1. Current(ch) = <<ch, sess[ch]>>
  BY DEF Current
<1>2. ToCome(ch)' => ToCome(ch)
  BY DEF ToCome, Steady, Awaits
<1>3. Own(ch)'
  <2>1. phase' = "disposed" => phase = "disposed"
    OBVIOUS
  <2>2. waiting'[ch] # <<>> => Current(ch) \in dying'
    BY <1>0, <1>1 DEF Steady, Own
  <2> QED
    BY <1>0, <1>2, <2>1, <2>2, OwnStays DEF Steady
<1>4. Placed(ch)'
  BY <1>0, <1>1, <1>2, PlacedStays DEF Steady
<1> QED
  BY <1>3, <1>4

\* A channel that waits is still woken when what wakes it has not changed.
LEMMA StillWoken ==
  ASSUME WaitsForSomething, lost' = 0 => lost = 0, ~crossed' => ~crossed,
         phase = "disposed" => phase' = "disposed",
         UNCHANGED <<connecting, timer, ticket>>,
         \A e \in Enders : ender[e] \in Pages => ender'[e] \in Pages,
         \A p \in Pages : req[p].pc # "idle" => req'[p].pc # "idle",
         \A ch \in Channels : st'[ch] = "queued" => st[ch] = "queued"
  PROVE  WaitsForSomething'
BY DEF WaitsForSomething, WillWake

-----------------------------------------------------------------------------
(* The steps of the broker, of the other pages and of the clock *)

LEMMA BrokerOnly ==
  ASSUME PageInv, BrokerInv', Requesters = Pages \cup Visitors,
         UNCHANGED <<st, sessions, left, asking, ending, replaying, phase, pauses, crossed, lost>>,
         missed' \in Nat, lost + missed' <= MaxTroubles,
         \A p \in Requesters : (req[p].pc = "idle") <=> (req'[p].pc = "idle"),
         \A p \in Pages : TicketsOf(queue', p) # {} => TicketsOf(queue, p) # {} \/ req[p].pc # "idle"
  PROVE  PageInv'
<1>0. UNCHANGED <<st, sess, count, live, dying, left, ticket, timer, connecting, waiting, ender,
                  replaying, phase, pauses, crossed, lost>>
  BY DEF sessions, asking, ending
<1>1. \A p \in Pages : (Out(p)' <=> Out(p)) /\ (Due(p)' => Due(p))
  BY <1>0 DEF Out, Due
<1>2. SttTypeOK'
  BY <1>0 DEF PageInv, SttTypeOK, BrokerInv
<1>3. ASSUME NEW ch \in Channels PROVE Own(ch)' /\ Placed(ch)'
  <2>0. Own(ch) /\ pauses \in Nat
    BY DEF PageInv, SttTypeOK
  <2>1. sess[ch] \in Nat /\ (waiting[ch] # <<>> => Current(ch) \in live)
    BY <2>0 DEF PageInv, SttTypeOK, Own
  <2>2. Steady(ch)
    BY <1>0, <1>1, <2>1 DEF Steady
  <2> QED
    BY <1>0, <2>0, <2>2, SteadyStays
<1>4. Asking'
  <2>1. Asking
    BY DEF PageInv
  <2>2. \A p, q \in Pages : Due(p)' /\ Due(q)' /\ ChannelsOf(p) \cap ChannelsOf(q) # {} => p = q
    BY <1>1, <2>1 DEF Asking
  <2>3. timer' # Null => req'[timer'.who].pc = "idle"
    <3>1. timer # Null => timer.who \in Pages
      BY DEF PageInv, SttTypeOK
    <3> QED
      BY <1>0, <2>1, <3>1 DEF Asking
  <2>4. \A v \in Visitors : req'[v].pc = "idle"
    BY <2>1 DEF Asking
  <2>5. ~crossed' => \A p, q \in Pages : Out(p)' /\ Out(q)' => p = q
    BY <1>0, <1>1, <2>1 DEF Asking
  <2> QED
    BY <2>2, <2>3, <2>4, <2>5 DEF Asking
<1>5. Unopened'
  BY <1>0, <1>1 DEF PageInv, Unopened
<1>6. WaitsForSomething'
  <2>1. WaitsForSomething
    BY DEF PageInv
  <2>2. \A p \in Pages : req[p].pc # "idle" => req'[p].pc # "idle"
    OBVIOUS
  <2> QED
    BY <1>0, <2>1, <2>2, StillWoken
<1> QED
  BY <1>2, <1>3, <1>4, <1>5, <1>6 DEF PageInv

LEMMA Names ==
  /\ Requesters = Pages \cup Visitors /\ Null \notin Requesters
  /\ Pages \subseteq Requesters /\ Visitors \subseteq Requesters /\ Pages \cap Visitors = {}
BY BrokerAssumption, ChannelsAssumption

LEMMA ServesKeeps ==
  ASSUME PageInv, NEW r \in Requesters, Serves(r) PROVE PageInv'
<1>1. Handle(r) /\ UNCHANGED pageVars
  BY DEF Serves
<1>2. Served
  BY <1>1, Names, HandleServed DEF PageInv
<1>3. missed \in Nat /\ lost + missed <= MaxTroubles
  BY DEF PageInv, SttTypeOK
<1>4. \A p \in Pages : TicketsOf(queue', p) # {} => TicketsOf(queue, p) # {} \/ req[p].pc # "idle"
  BY <1>2, Names DEF Served
<1> QED
  BY <1>1, <1>2, <1>3, <1>4, Names, BrokerOnly DEF Served, pageVars, faults

\* Nobody's request moves, and no page of this call gets a place.
LEMMA OthersKeep ==
  ASSUME PageInv, BrokerInv',
         UNCHANGED <<req, st, sessions, left, asking, ending, replaying, phase, pauses, crossed, lost>>,
         missed' \in Nat, lost + missed' <= MaxTroubles,
         \A p \in Pages : TicketsOf(queue', p) # {} => TicketsOf(queue, p) # {}
  PROVE  PageInv'
<1>1. \A p \in Requesters : (req[p].pc = "idle") <=> (req'[p].pc = "idle")
  OBVIOUS
<1> QED
  BY <1>1, Names, BrokerOnly

LEMMA OthersOpenKeeps ==
  ASSUME PageInv, OthersOpen PROVE PageInv'
<1>1. BrokerInv'
  BY Names, OpenedServed DEF PageInv, OthersOpen
<1>2. missed \in Nat /\ lost + missed <= MaxTroubles
  BY DEF PageInv, SttTypeOK
<1> QED
  BY <1>1, <1>2, OthersKeep DEF OthersOpen, pageVars, faults

LEMMA OthersWaitKeeps ==
  ASSUME PageInv, NEW v \in Visitors, OthersWait(v) PROVE PageInv'
<1> DEFINE t == [who |-> v, n |-> 2, reconnect |-> FALSE, late |-> FALSE]
<1>1. t \in Ticket /\ t.who = v
  BY Names DEF Ticket, Sizes
<1>2. queue' = Place(queue, t) /\ TicketsOf(queue, t.who) = {} /\ UNCHANGED <<window, req, pageVars>>
  BY DEF OthersWait
<1> HIDE DEF t
<1>3. queue \in Seq(Ticket) /\ Ordered(queue) /\ BrokerInv
  BY BrokerForms DEF PageInv, BrokerInv, BrokerTypeOK, BrokerSound
<1>4. /\ queue' \in Seq(Ticket) /\ Ordered(queue')
      /\ \A s : TicketsOf(queue', s) # {} => TicketsOf(queue, s) # {} \/ s = v
  BY <1>1, <1>2, <1>3, PlaceOrdered
<1>5. req[v].pc = "idle"
  BY DEF PageInv, Asking
<1>6. \A s \in Requesters : TicketsOf(queue', s) # {} => TicketsOf(queue, s) # {} \/ req[s].pc = "idle"
  BY <1>4, <1>5
<1>7. BrokerInv'
  BY <1>2, <1>3, <1>4, <1>6, QueueServed
<1>8. \A p \in Pages : TicketsOf(queue', p) # {} => TicketsOf(queue, p) # {}
  BY <1>4, Names
<1>9. missed \in Nat /\ lost + missed <= MaxTroubles
  BY DEF PageInv, SttTypeOK
<1> QED
  BY <1>2, <1>7, <1>8, <1>9, OthersKeep DEF pageVars, faults

LEMMA ClockKeeps ==
  ASSUME PageInv, Clock PROVE PageInv'
<1>1. missed \in Nat /\ lost + missed <= MaxTroubles /\ BrokerInv
  BY DEF PageInv, SttTypeOK
<1>2. UNCHANGED pageVars
  BY DEF Clock
<1>3. ASSUME Slides PROVE PageInv'
  <2>1. BrokerInv' /\ UNCHANGED <<queue, req>>
    BY <1>1, <1>3, SlidesServed
  <2> QED
    BY <1>1, <1>2, <2>1, OthersKeep DEF pageVars, faults
<1>4. ASSUME NEW v, MissesPolls(v) PROVE PageInv'
  <2>1. BrokerInv' /\ UNCHANGED <<window, req>> /\ \A s : TicketsOf(queue', s) # {} => TicketsOf(queue, s) # {}
    BY <1>1, <1>4, MissesServed
  <2> QED
    BY <1>1, <1>2, <2>1, OthersKeep DEF pageVars, faults
<1> QED
  BY <1>3, <1>4 DEF Clock

LEMMA PageIsLateKeeps ==
  ASSUME PageInv, PageIsLate PROVE PageInv'
<1>1. /\ missed \in Nat /\ lost \in Nat /\ pauses \in Nat /\ MaxTroubles \in Nat /\ BrokerInv
  BY ChannelsAssumption DEF PageInv, SttTypeOK
<1>2. missed' \in Nat /\ lost + missed' <= MaxTroubles
  BY <1>1 DEF PageIsLate
<1>3. PICK p \in Pages : MissesPolls(p)
  BY DEF PageIsLate
<1>4. BrokerInv' /\ UNCHANGED <<window, req>> /\ \A s : TicketsOf(queue', s) # {} => TicketsOf(queue, s) # {}
  BY <1>1, <1>3, MissesServed
<1> QED
  BY <1>2, <1>4, OthersKeep DEF PageIsLate

-----------------------------------------------------------------------------
(* The page's requests *)

\* Fewer requests are out than were.
LEMMA AskingShrinks ==
  ASSUME Asking, \A p \in Pages : (Out(p)' => Out(p)) /\ (Due(p)' => Due(p)), ~crossed' => ~crossed,
         timer' # Null => req'[timer'.who].pc = "idle", \A v \in Visitors : req'[v].pc = "idle"
  PROVE  Asking'
BY DEF Asking

\* An answer of the page's is no one else's: it holds its channels, and no poll is set for it.
LEMMA AnswerHolds ==
  ASSUME PageInv, NEW p \in Pages, req[p].pc # "idle"
  PROVE  /\ phase # "new"
         /\ timer # Null => timer.who # p
         /\ \A ch \in ChannelsOf(p) : /\ ch \in Channels /\ Vacant(ch) /\ ToCome(ch) /\ waiting[ch] = <<>>
                                      /\ ender["judge"] = "idle" => ch \notin replaying
         /\ \A q \in Pages : Due(q) /\ ChannelsOf(q) \cap ChannelsOf(p) # {} => p = q
         /\ ~crossed => \A q \in Pages : Out(q) => q = p
<1>1. Out(p) /\ Due(p)
  BY DEF Out, Due
<1>2. phase # "new"
  BY <1>1 DEF PageInv, Unopened
<1>3. timer # Null => timer.who # p
  BY DEF PageInv, Asking
<1>4. ASSUME NEW ch \in ChannelsOf(p)
      PROVE  /\ ch \in Channels /\ Vacant(ch) /\ ToCome(ch) /\ waiting[ch] = <<>>
             /\ ender["judge"] = "idle" => ch \notin replaying
  <2>1. ch \in Channels
    BY PageFacts
  <2>2. Vacant(ch)
    BY <1>1, <2>1 DEF PageInv, Placed
  <2>3. ToCome(ch)
    BY <1>1 DEF ToCome
  <2>4. waiting[ch] = <<>>
    BY <2>1, <2>2 DEF PageInv, Own, Vacant, SttTypeOK
  <2> QED
    BY <2>1, <2>2, <2>3, <2>4 DEF PageInv, Placed
<1>5. \A q \in Pages : Due(q) /\ ChannelsOf(q) \cap ChannelsOf(p) # {} => p = q
  BY <1>1 DEF PageInv, Asking
<1>6. ~crossed => \A q \in Pages : Out(q) => q = p
  BY <1>1 DEF PageInv, Asking
<1> QED
  BY <1>2, <1>3, <1>4, <1>5, <1>6

\* The answer is taken: only its request changes.
LEMMA AnswerTaken ==
  ASSUME PageInv, NEW p \in Pages, req[p].pc # "granting", req' = [req EXCEPT ![p] = NoRequest],
         UNCHANGED <<window, queue>>
  PROVE  /\ BrokerInv'
         /\ req'[p].pc = "idle"
         /\ \A q \in Pages \ {p} : req'[q] = req[q]
         /\ \A v \in Visitors : req'[v].pc = "idle"
<1>1. BrokerInv /\ p \in Requesters
  BY Names DEF PageInv
<1>2. /\ BrokerInv'
      /\ req'[p].pc = "idle"
      /\ \A s \in Requesters \ {p} : req'[s] = req[s]
  BY <1>1, ForgetServed
<1>3. \A v \in Visitors : req'[v].pc = "idle"
  BY <1>2, Names DEF PageInv, Asking
<1> QED
  BY <1>2, <1>3, Names

\* Nothing but the request goes: an answer nobody hears, or a request the network lost.
LEMMA Forgotten ==
  ASSUME PageInv, NEW p \in Pages, req[p].pc \in {"sent", "answered"}, req' = [req EXCEPT ![p] = NoRequest],
         UNCHANGED <<window, queue, st, sessions, left, asking, ending, replaying, phase, pauses, crossed, missed>>,
         lost' \in Nat, lost' + missed <= MaxTroubles, lost' > 0 \/ phase = "disposed"
  PROVE  PageInv'
<1>0. UNCHANGED <<queue, st, sess, count, live, dying, left, ticket, timer, connecting, waiting, ender,
                  replaying, phase, pauses, crossed, missed>>
  BY DEF sessions, asking, ending
<1>1. /\ BrokerInv'
      /\ req'[p].pc = "idle"
      /\ \A q \in Pages \ {p} : req'[q] = req[q]
      /\ \A v \in Visitors : req'[v].pc = "idle"
  BY AnswerTaken
<1>2. \A q \in Pages : (Out(q)' => Out(q)) /\ (Due(q)' => Due(q))
  BY <1>0, <1>1 DEF Out, Due
<1>3. SttTypeOK'
  BY <1>0, <1>1 DEF PageInv, SttTypeOK, BrokerInv
<1>4. ASSUME NEW ch \in Channels PROVE Own(ch)' /\ Placed(ch)'
  <2>0. Own(ch) /\ pauses \in Nat
    BY DEF PageInv, SttTypeOK
  <2>1. sess[ch] \in Nat /\ (waiting[ch] # <<>> => Current(ch) \in live)
    BY <2>0 DEF PageInv, SttTypeOK, Own
  <2>2. Steady(ch)
    BY <1>0, <1>2, <2>1 DEF Steady
  <2> QED
    BY <1>0, <2>0, <2>2, SteadyStays
<1>5. Asking'
  <2>1. timer' # Null => req'[timer'.who].pc = "idle"
    <3>1. timer # Null => timer.who \in Pages /\ req[timer.who].pc = "idle"
      BY DEF PageInv, SttTypeOK, Asking
    <3> QED
      BY <1>0, <1>1, <3>1
  <2>2. Asking
    BY DEF PageInv
  <2> QED
    BY <1>0, <1>1, <1>2, <2>1, <2>2, AskingShrinks
<1>6. Unopened'
  BY <1>0, AnswerHolds DEF Unopened
<1>7. WaitsForSomething'
  BY <1>0 DEF WaitsForSomething
<1> QED
  BY <1>1, <1>3, <1>4, <1>5, <1>6, <1>7 DEF PageInv

LEMMA HearsNothingKeeps ==
  ASSUME PageInv, NEW p \in Pages, HearsNothing(p) PROVE PageInv'
<1>1. lost \in Nat /\ lost + missed <= MaxTroubles
  BY DEF PageInv, SttTypeOK
<1> QED
  BY <1>1, Forgotten DEF HearsNothing, TakesAnswer, pageVars, faults

LEMMA RequestLostKeeps ==
  ASSUME PageInv, NEW p \in Pages, RequestLost(p) PROVE PageInv'
<1>1. lost \in Nat /\ missed \in Nat /\ pauses \in Nat /\ MaxTroubles \in Nat
  BY ChannelsAssumption DEF PageInv, SttTypeOK
<1>2. lost' \in Nat /\ lost' + missed <= MaxTroubles /\ lost' > 0
  BY <1>1 DEF RequestLost
<1> QED
  BY <1>2, Forgotten DEF RequestLost

LEMMA HearsGrantedKeeps ==
  ASSUME PageInv, NEW p \in Pages, HearsGranted(p) PROVE PageInv'
<1>0. /\ UNCHANGED <<queue, st, sess, count, live, dying, left, timer, waiting, ender, replaying, pauses,
                     crossed, lost, missed>>
      /\ ticket' = Null /\ connecting' = connecting \cup ChannelsOf(p)
      /\ phase' = IF phase = "opening" THEN "connecting" ELSE phase
      /\ phase # "disposed" /\ req[p].pc = "answered" /\ req[p].answer = "granted"
      /\ req' = [req EXCEPT ![p] = NoRequest] /\ UNCHANGED <<window, queue>>
  BY DEF HearsGranted, TakesAnswer, sessions, asking, ending, faults
<1>1. /\ BrokerInv'
      /\ req'[p].pc = "idle"
      /\ \A q \in Pages \ {p} : req'[q] = req[q]
      /\ \A v \in Visitors : req'[v].pc = "idle"
  BY <1>0, AnswerTaken
<1>2. /\ phase # "new" /\ phase' # "new"
      /\ timer # Null => timer.who # p
      /\ \A ch \in ChannelsOf(p) : /\ ch \in Channels /\ Vacant(ch) /\ ToCome(ch) /\ waiting[ch] = <<>>
                                   /\ ender["judge"] = "idle" => ch \notin replaying
      /\ \A q \in Pages : Due(q) /\ ChannelsOf(q) \cap ChannelsOf(p) # {} => p = q
      /\ ~crossed => \A q \in Pages : Out(q) => q = p
  BY <1>0, AnswerHolds
<1>3. ~Due(p)'
  <2>1. NeedsNoPlace(req[p])
    BY <1>0 DEF NeedsNoPlace
  <2>2. TicketsOf(queue, p) = {}
    BY <2>1, Names DEF PageInv, BrokerInv, Unserved
  <2> QED
    BY <1>0, <1>1, <1>2, <2>2 DEF Due, Out
<1>4. \A q \in Pages : (Out(q)' => Out(q)) /\ (Due(q)' => Due(q))
  BY <1>0, <1>1 DEF Out, Due
<1>5. SttTypeOK'
  <2>1. phase' \in {"new", "disposed"} \cup Running /\ ChannelsOf(p) \subseteq Channels
    BY <1>0, PageFacts DEF PageInv, SttTypeOK, Running, Loading
  <2> QED
    BY <1>0, <1>1, <2>1 DEF PageInv, SttTypeOK, BrokerInv
<1>6. ASSUME NEW ch \in Channels PROVE Own(ch)' /\ Placed(ch)'
  <2>0. Own(ch) /\ Placed(ch) /\ pauses \in Nat /\ sess[ch] \in Nat /\ dying \subseteq live
    BY DEF PageInv, SttTypeOK
  <2>1. CASE ch \notin ChannelsOf(p)
    <3>1. sess[ch] \in Nat /\ (waiting[ch] # <<>> => Current(ch) \in live)
      BY <2>0 DEF Own
    <3>2. Steady(ch)
      BY <1>0, <1>4, <2>1, <3>1 DEF Steady
    <3> QED
      BY <1>0, <1>2, <2>0, <3>2, SteadyStays
  <2>2. CASE ch \in ChannelsOf(p)
    <3>1. Current(ch)' = Current(ch) /\ Current(ch) \notin live' /\ st'[ch] # "paused"
      BY <1>0, <1>2, <2>2 DEF Vacant, Current
    <3>2. Own(ch)'
      <4>1. SttTypeOK /\ waiting[ch] = <<>> /\ ToCome(ch)
        BY <1>2, <2>2 DEF PageInv
      <4>2. phase' = "disposed" => phase = "disposed"
        BY <1>0
      <4> QED
        BY <1>0, <2>0, <4>1, <4>2, OwnStays
    <3>3. \A q \in Pages : ch \in ChannelsOf(q) => ~Due(q)'
      BY <1>2, <1>3, <1>4, <2>2
    <3>4. Placed(ch)'
      BY <1>0, <1>2, <2>2, <3>1, <3>3 DEF Placed
    <3> QED
      BY <3>2, <3>4
  <2> QED
    BY <2>1, <2>2
<1>7. Asking'
  <2>1. timer' # Null => req'[timer'.who].pc = "idle"
    <3>1. timer # Null => timer.who \in Pages /\ req[timer.who].pc = "idle"
      BY DEF PageInv, SttTypeOK, Asking
    <3> QED
      BY <1>0, <1>1, <3>1
  <2>2. Asking
    BY DEF PageInv
  <2> QED
    BY <1>0, <1>1, <1>4, <2>1, <2>2, AskingShrinks
<1>8. Unopened'
  BY <1>2 DEF Unopened
<1>9. WaitsForSomething'
  <2> SUFFICES ASSUME lost = 0, ~crossed, NEW ch \in Channels, st[ch] = "queued"
               PROVE  WillWake(ch)'
    BY <1>0 DEF WaitsForSomething
  <2>1. WillWake(ch)
    BY <1>0 DEF PageInv, WaitsForSomething
  <2>2. ASSUME NEW q \in Pages, ch \in ChannelsOf(q), Out(q) PROVE ch \in connecting'
    BY <1>0, <1>2, <2>2
  <2> QED
    BY <1>0, <2>1, <2>2 DEF WillWake, Out
<1> QED
  BY <1>1, <1>5, <1>6, <1>7, <1>8, <1>9 DEF PageInv

LEMMA HearsQueuedKeeps ==
  ASSUME PageInv, NEW p \in Pages, HearsQueued(p) PROVE PageInv'
<1>0. /\ UNCHANGED <<queue, sess, count, live, dying, left, connecting, waiting, ender, replaying, pauses,
                     crossed, lost, missed>>
      /\ ticket' = p /\ timer' = NextPoll(p)
      /\ st' = Become(ChannelsOf(p), "queued")
      /\ phase' = IF phase = "opening" THEN "queued" ELSE phase
      /\ phase # "disposed" /\ req[p].pc = "answered"
      /\ req' = [req EXCEPT ![p] = NoRequest] /\ UNCHANGED <<window, queue>>
  BY DEF HearsQueued, TakesAnswer, sessions, ending, faults
<1>1. /\ BrokerInv'
      /\ req'[p].pc = "idle"
      /\ \A q \in Pages \ {p} : req'[q] = req[q]
      /\ \A v \in Visitors : req'[v].pc = "idle"
  BY <1>0, AnswerTaken
<1>2. /\ phase # "new" /\ phase' # "new"
      /\ timer # Null => timer.who # p
      /\ \A ch \in ChannelsOf(p) : /\ ch \in Channels /\ Vacant(ch) /\ ToCome(ch) /\ waiting[ch] = <<>>
                                   /\ ender["judge"] = "idle" => ch \notin replaying
      /\ \A q \in Pages : Due(q) /\ ChannelsOf(q) \cap ChannelsOf(p) # {} => p = q
      /\ ~crossed => \A q \in Pages : Out(q) => q = p
  BY <1>0, AnswerHolds
<1>3. /\ timer'.who = p /\ timer' # Null /\ ticket' # Null /\ timer' \in [who: Pages, reconnect: BOOLEAN]
  <2>1. req[p] \in Request
    BY Names DEF PageInv, BrokerInv, BrokerTypeOK
  <2>2. timer' = [who |-> p, reconnect |-> req[p].reconnect] /\ req[p].reconnect \in BOOLEAN
    BY <1>0, <2>1 DEF NextPoll, Request
  <2>3. timer' # Null
    BY <2>2, ChannelsAssumption
  <2> QED
    BY <1>0, <2>2, <2>3, Names
<1>4. \A q \in Pages : (Out(q)' => Out(q)) /\ (Due(q)' => Due(q))
  BY <1>0, <1>1, <1>3 DEF Out, Due
<1>a. \A ch \in Channels : st'[ch] = IF ch \in ChannelsOf(p) THEN "queued" ELSE st[ch]
  BY <1>0 DEF Become
<1>5. SttTypeOK'
  <2>1. phase' \in {"new", "disposed"} \cup Running
    BY <1>0 DEF PageInv, SttTypeOK, Running, Loading
  <2>2. st' \in [Channels -> Status]
    BY <1>0 DEF PageInv, SttTypeOK, Become, Status
  <2> QED
    BY <1>0, <1>1, <1>3, <2>1, <2>2 DEF PageInv, SttTypeOK, BrokerInv
<1>6. ASSUME NEW ch \in Channels PROVE Own(ch)' /\ Placed(ch)'
  <2>0. Own(ch) /\ Placed(ch) /\ pauses \in Nat /\ sess[ch] \in Nat /\ dying \subseteq live
    BY DEF PageInv, SttTypeOK
  <2>1. CASE ch \notin ChannelsOf(p)
    <3>1. sess[ch] \in Nat /\ (waiting[ch] # <<>> => Current(ch) \in live)
      BY <2>0 DEF Own
    <3>2. Steady(ch)
      BY <1>0, <1>a, <1>4, <2>1, <3>1 DEF Steady
    <3> QED
      BY <1>0, <1>2, <2>0, <3>2, SteadyStays
  <2>2. CASE ch \in ChannelsOf(p)
    <3>1. Current(ch)' = Current(ch) /\ Current(ch) \notin live' /\ st'[ch] # "paused" /\ Vacant(ch)'
      BY <1>0, <1>a, <1>2, <2>2 DEF Vacant, Current
    <3>2. Own(ch)'
      <4>1. SttTypeOK /\ waiting[ch] = <<>> /\ ToCome(ch)
        BY <1>2, <2>2 DEF PageInv
      <4>2. phase' = "disposed" => phase = "disposed"
        BY <1>0
      <4> QED
        BY <1>0, <2>0, <4>1, <4>2, OwnStays
    <3>3. Placed(ch)'
      BY <1>0, <1>2, <2>2, <3>1 DEF Placed, Vacant
    <3> QED
      BY <3>2, <3>3
  <2> QED
    BY <2>1, <2>2
<1>7. Asking'
  <2>1. Asking
    BY DEF PageInv
  <2> QED
    BY <1>0, <1>1, <1>3, <1>4, <2>1, AskingShrinks
<1>8. Unopened'
  BY <1>2 DEF Unopened
<1>9. WaitsForSomething'
  <2> SUFFICES ASSUME lost = 0, ~crossed, NEW ch \in Channels, st'[ch] = "queued"
               PROVE  WillWake(ch)'
    BY <1>0 DEF WaitsForSomething
  <2>1. CASE ch \in ChannelsOf(p)
    BY <1>3, <2>1 DEF WillWake
  <2>2. CASE ch \notin ChannelsOf(p)
    <3>1. WillWake(ch)
      BY <1>0, <1>a, <2>2 DEF PageInv, WaitsForSomething
    <3>2. ASSUME NEW q \in Pages, ch \in ChannelsOf(q), Out(q) PROVE FALSE
      BY <1>2, <2>2, <3>2
    <3> QED
      BY <1>0, <3>1, <3>2 DEF WillWake, Out
  <2> QED
    BY <2>1, <2>2
<1> QED
  BY <1>1, <1>5, <1>6, <1>7, <1>8, <1>9 DEF PageInv

LEMMA HearsDeniedKeeps ==
  ASSUME PageInv, NEW p \in Pages, HearsDenied(p) PROVE PageInv'
<1>0. /\ UNCHANGED <<queue, sess, count, live, dying, left, ticket, timer, connecting, waiting, ender, pauses,
                     crossed, lost, missed>>
      /\ st' = Become(ChannelsOf(p), "cached") /\ replaying' = replaying \cup ChannelsOf(p)
      /\ phase' = IF phase = "opening" THEN "started" ELSE phase
      /\ phase # "disposed" /\ req[p].pc = "answered"
      /\ req' = [req EXCEPT ![p] = NoRequest] /\ UNCHANGED <<window, queue>>
  BY DEF HearsDenied, TakesAnswer, ToCached, sessions, asking, ending, faults
<1>1. /\ BrokerInv'
      /\ req'[p].pc = "idle"
      /\ \A q \in Pages \ {p} : req'[q] = req[q]
      /\ \A v \in Visitors : req'[v].pc = "idle"
  BY <1>0, AnswerTaken
<1>2. /\ phase # "new" /\ phase' # "new"
      /\ timer # Null => timer.who # p
      /\ \A ch \in ChannelsOf(p) : /\ ch \in Channels /\ Vacant(ch) /\ ToCome(ch) /\ waiting[ch] = <<>>
                                   /\ ender["judge"] = "idle" => ch \notin replaying
      /\ \A q \in Pages : Due(q) /\ ChannelsOf(q) \cap ChannelsOf(p) # {} => p = q
      /\ ~crossed => \A q \in Pages : Out(q) => q = p
  BY <1>0, AnswerHolds
<1>3. ~Out(p)'
  BY <1>0, <1>1, <1>2 DEF Out
<1>4. \A q \in Pages : (Out(q)' => Out(q)) /\ (Due(q)' => Due(q))
  BY <1>0, <1>1 DEF Out, Due
<1>a. \A ch \in Channels : st'[ch] = IF ch \in ChannelsOf(p) THEN "cached" ELSE st[ch]
  BY <1>0 DEF Become
<1>5. SttTypeOK'
  <2>1. phase' \in {"new", "disposed"} \cup Running /\ ChannelsOf(p) \subseteq Channels
    BY <1>0, PageFacts DEF PageInv, SttTypeOK, Running, Loading
  <2>2. st' \in [Channels -> Status]
    BY <1>0 DEF PageInv, SttTypeOK, Become, Status
  <2> QED
    BY <1>0, <1>1, <2>1, <2>2 DEF PageInv, SttTypeOK, BrokerInv
<1>6. ASSUME NEW ch \in Channels PROVE Own(ch)' /\ Placed(ch)'
  <2>0. Own(ch) /\ Placed(ch) /\ pauses \in Nat /\ sess[ch] \in Nat /\ dying \subseteq live
    BY DEF PageInv, SttTypeOK
  <2>1. CASE ch \notin ChannelsOf(p)
    <3>1. sess[ch] \in Nat /\ (waiting[ch] # <<>> => Current(ch) \in live)
      BY <2>0 DEF Own
    <3>2. Steady(ch)
      BY <1>0, <1>a, <1>4, <2>1, <3>1 DEF Steady
    <3> QED
      BY <1>0, <1>2, <2>0, <3>2, SteadyStays
  <2>2. CASE ch \in ChannelsOf(p)
    <3>1. Current(ch)' = Current(ch) /\ Current(ch) \notin live' /\ st'[ch] # "paused" /\ Vacant(ch)'
      BY <1>0, <1>a, <1>2, <2>2 DEF Vacant, Current
    <3>2. Own(ch)'
      <4>1. SttTypeOK /\ waiting[ch] = <<>> /\ ToCome(ch)
        BY <1>2, <2>2 DEF PageInv
      <4>2. phase' = "disposed" => phase = "disposed"
        BY <1>0
      <4> QED
        BY <1>0, <2>0, <4>1, <4>2, OwnStays
    <3>3. ~ToCome(ch)'
      <4>1. \A q \in Pages : ch \in ChannelsOf(q) => ~Out(q)'
        BY <1>2, <1>3, <1>4, <2>2 DEF Due
      <4>2. ~Awaits(waiting', ch, "pause")
        BY <1>0, <1>2, <2>2 DEF Awaits
      <4>3. ch \notin connecting'
        BY <1>0, <1>2, <2>2 DEF Vacant
      <4> QED
        BY <1>2, <3>1, <4>1, <4>2, <4>3 DEF ToCome
    <3>4. Placed(ch)'
      BY <1>0, <1>2, <2>2, <3>1, <3>3 DEF Placed, Vacant
    <3> QED
      BY <3>2, <3>4
  <2> QED
    BY <2>1, <2>2
<1>7. Asking'
  <2>1. timer' # Null => req'[timer'.who].pc = "idle"
    <3>1. timer # Null => timer.who \in Pages /\ req[timer.who].pc = "idle"
      BY DEF PageInv, SttTypeOK, Asking
    <3> QED
      BY <1>0, <1>1, <3>1
  <2>2. Asking
    BY DEF PageInv
  <2> QED
    BY <1>0, <1>1, <1>4, <2>1, <2>2, AskingShrinks
<1>8. Unopened'
  BY <1>2 DEF Unopened
<1>9. WaitsForSomething'
  <2> SUFFICES ASSUME lost = 0, ~crossed, NEW ch \in Channels, st'[ch] = "queued"
               PROVE  WillWake(ch)'
    BY <1>0 DEF WaitsForSomething
  <2>1. ch \notin ChannelsOf(p) /\ st[ch] = "queued"
    BY <1>a
  <2>2. WillWake(ch)
    BY <1>0, <2>1 DEF PageInv, WaitsForSomething
  <2>3. ASSUME NEW q \in Pages, ch \in ChannelsOf(q), Out(q) PROVE FALSE
    BY <1>2, <2>1, <2>3
  <2> QED
    BY <1>0, <2>2, <2>3 DEF WillWake, Out
<1> QED
  BY <1>1, <1>5, <1>6, <1>7, <1>8, <1>9 DEF PageInv

LEMMA OpenKeeps ==
  ASSUME PageInv, Open PROVE PageInv'
<1>0. /\ UNCHANGED <<sess, count, live, dying, left, ticket, timer, connecting, waiting, ender, replaying, pauses,
                     crossed, lost, missed>>
      /\ phase = "new" /\ phase' = "opening" /\ st' = Become(Channels, "queued")
      /\ Ask("both", 2, FALSE, FALSE)
  BY DEF Open, sessions, asking, ending, faults
<1>1. /\ live = {} /\ ticket = Null /\ connecting = {} /\ replaying = {} /\ ender["judge"] = "idle"
      /\ \A p \in Pages : ~Due(p)
      /\ \A ch \in Channels : st[ch] = "idle"
  BY <1>0 DEF PageInv, Unopened
<1>2. "both" \in Pages /\ "both" \in Requesters /\ ChannelsOf("both") = Channels
  BY PageFacts, Names
<1>3. /\ BrokerInv' /\ UNCHANGED queue
      /\ req'["both"].pc = "sent"
      /\ \A s \in Requesters \ {"both"} : req'[s] = req[s]
  <2>1. BrokerInv /\ TicketsOf(queue, "both") = {}
    BY <1>1, <1>2 DEF PageInv, Due
  <2>2. 2 \in Sizes /\ FALSE \in BOOLEAN
    BY DEF Sizes
  <2> QED
    BY <1>0, <1>2, <2>1, <2>2, AskServed
<1>4. \A p \in Pages : Due(p)' => p = "both"
  BY <1>0, <1>1, <1>2, <1>3, Names DEF Due, Out
<1>a. \A ch \in Channels : st'[ch] = "queued"
  BY <1>0 DEF Become
<1>5. SttTypeOK'
  <2>1. phase' \in {"new", "disposed"} \cup Running
    BY <1>0 DEF PageInv, SttTypeOK, Running, Loading
  <2>2. st' \in [Channels -> Status]
    BY <1>0 DEF PageInv, SttTypeOK, Become, Status
  <2> QED
    BY <1>0, <1>3, <2>1, <2>2 DEF PageInv, SttTypeOK, BrokerInv
<1>6. ASSUME NEW ch \in Channels PROVE Own(ch)' /\ Placed(ch)'
  <2>1. SttTypeOK /\ Own(ch) /\ Placed(ch) /\ pauses \in Nat /\ dying \subseteq live /\ ToCome(ch)
    BY <1>0 DEF PageInv, SttTypeOK, ToCome
  <2>2. waiting[ch] = <<>> /\ \A n : <<ch, n>> \notin live
    BY <1>1, <2>1 DEF Own
  <2>3. Own(ch)'
    <3>1. phase' = "disposed" => phase = "disposed"
      BY <1>0
    <3> QED
      BY <1>0, <2>1, <2>2, <3>1, OwnStays
  <2>4. Placed(ch)'
    BY <1>0, <1>1, <1>a DEF Placed, Vacant, Current
  <2> QED
    BY <2>3, <2>4
<1>7. Asking'
  <2>1. timer = Null
    <3>1. timer # Null => timer.who \in Pages
      BY DEF PageInv, SttTypeOK
    <3> QED
      BY <1>1, <3>1 DEF Due, Out
  <2>2. \A v \in Visitors : req'[v].pc = "idle"
    BY <1>2, <1>3, Names DEF PageInv, Asking
  <2> QED
    BY <1>0, <1>4, <2>1, <2>2 DEF Asking, Due
<1>8. Unopened'
  BY <1>0 DEF Unopened
<1>9. WaitsForSomething'
  <2>1. \A ch \in Channels : WillWake(ch)'
    BY <1>2, <1>3 DEF WillWake
  <2> QED
    BY <2>1 DEF WaitsForSomething
<1> QED
  BY <1>3, <1>5, <1>6, <1>7, <1>8, <1>9 DEF PageInv

LEMMA PollKeeps ==
  ASSUME PageInv, Poll PROVE PageInv'
<1>0. /\ UNCHANGED <<st, sess, count, live, dying, left, ticket, connecting, waiting, ender, replaying, phase,
                     pauses, crossed, lost, missed>>
      /\ timer # Null /\ timer' = Null
  BY DEF Poll, sessions, ending, faults
<1> DEFINE p == timer.who
<1>1. /\ p \in Pages /\ p \in Requesters /\ timer.reconnect \in BOOLEAN
      /\ req[p].pc = "idle" /\ Out(p)
  BY <1>0, Names DEF PageInv, SttTypeOK, Asking, Out
<1> DEFINE asks == ~(phase = "disposed" \/ ticket = Null)
<1>2. asks => Ask(p, Cardinality(ChannelsOf(p)), timer.reconnect, TRUE)
  BY DEF Poll
<1>3. ~asks => UNCHANGED <<window, queue, req>>
  BY DEF Poll, brokerVars
<1> HIDE DEF p
<1>4. /\ BrokerInv' /\ UNCHANGED queue
      /\ asks => req'[p].pc = "sent"
      /\ \A s \in Requesters \ {p} : req'[s] = req[s]
  <2>1. CASE asks
    <3>1. BrokerInv /\ Cardinality(ChannelsOf(p)) \in Sizes /\ TRUE \in BOOLEAN
      BY <1>1, PageFacts DEF PageInv
    <3>2. Ask(p, Cardinality(ChannelsOf(p)), timer.reconnect, TRUE)
      BY <1>2, <2>1
    <3> QED
      BY <1>1, <3>1, <3>2, AskServed
  <2>2. CASE ~asks
    <3>1. UNCHANGED <<window, queue, req>> /\ BrokerInv
      BY <1>3, <2>2 DEF PageInv
    <3> QED
      BY <2>2, <3>1 DEF BrokerInv, BrokerTypeOK, BrokerSound, GrantsCounted, QueueOrdered, RowsOf, Unserved
  <2> QED
    BY <2>1, <2>2
<1>5. \A q \in Pages : (Out(q)' => Out(q)) /\ (Due(q)' => Due(q))
  BY <1>0, <1>1, <1>4, Names DEF Out, Due
<1>6. SttTypeOK'
  BY <1>0, <1>4 DEF PageInv, SttTypeOK, BrokerInv
<1>7. ASSUME NEW ch \in Channels PROVE Own(ch)' /\ Placed(ch)'
  <2>0. Own(ch) /\ pauses \in Nat
    BY DEF PageInv, SttTypeOK
  <2>1. sess[ch] \in Nat /\ (waiting[ch] # <<>> => Current(ch) \in live)
    BY <2>0 DEF PageInv, SttTypeOK, Own
  <2>2. Steady(ch)
    BY <1>0, <1>5, <2>1 DEF Steady
  <2> QED
    BY <1>0, <2>0, <2>2, SteadyStays
<1>8. Asking'
  <2>1. Asking /\ \A v \in Visitors : req'[v].pc = "idle"
    BY <1>1, <1>4, Names DEF PageInv, Asking
  <2> QED
    BY <1>0, <1>5, <2>1, AskingShrinks
<1>9. Unopened'
  BY <1>0, <1>1 DEF PageInv, Unopened, Due
<1>10. WaitsForSomething'
  <2> SUFFICES ASSUME lost = 0, ~crossed, phase # "disposed", NEW ch \in Channels, st[ch] = "queued"
               PROVE  WillWake(ch)'
    BY <1>0 DEF WaitsForSomething
  <2>1. WillWake(ch)
    BY DEF PageInv, WaitsForSomething
  <2>2. ASSUME NEW q \in Pages, ch \in ChannelsOf(q), req[q].pc # "idle" PROVE req'[q].pc # "idle"
    BY <1>1, <1>4, <2>2, Names
  <2>3. ASSUME NEW q \in Pages, ch \in ChannelsOf(q), timer.who = q, ticket # Null PROVE req'[q].pc # "idle"
    BY <1>4, <2>3 DEF p
  <2> QED
    BY <1>0, <2>1, <2>2, <2>3 DEF WillWake
<1> QED
  BY <1>4, <1>6, <1>7, <1>8, <1>9, <1>10 DEF PageInv

LEMMA StartKeeps ==
  ASSUME PageInv, Start PROVE PageInv'
<1>0. /\ UNCHANGED <<window, queue, req, st, sess, count, live, dying, left, ticket, timer, connecting, waiting, ender,
                     replaying, pauses, crossed, lost, missed>>
      /\ phase' = "started" /\ phase \in {"connecting", "queued"}
  BY DEF Start, brokerVars, sessions, asking, ending, faults
<1>1. BrokerInv'
  BY <1>0 DEF PageInv, BrokerInv, BrokerTypeOK, BrokerSound, GrantsCounted, QueueOrdered, RowsOf, Unserved
<1>2. \A q \in Pages : (Out(q)' <=> Out(q)) /\ (Due(q)' <=> Due(q))
  BY <1>0 DEF Out, Due
<1>3. SttTypeOK'
  BY <1>0, <1>1 DEF PageInv, SttTypeOK, BrokerInv, Running, Loading
<1>4. ASSUME NEW ch \in Channels PROVE Own(ch)' /\ Placed(ch)'
  <2>0. Own(ch) /\ pauses \in Nat
    BY DEF PageInv, SttTypeOK
  <2>1. sess[ch] \in Nat /\ (waiting[ch] # <<>> => Current(ch) \in live)
    BY <2>0 DEF PageInv, SttTypeOK, Own
  <2>2. Steady(ch)
    BY <1>0, <1>2, <2>1 DEF Steady
  <2> QED
    BY <1>0, <2>0, <2>2, SteadyStays
<1>5. Asking'
  BY <1>0, <1>2 DEF PageInv, Asking
<1>6. Unopened'
  BY <1>0 DEF Unopened
<1>7. WaitsForSomething'
  BY <1>0, StillWoken DEF PageInv
<1> QED
  BY <1>1, <1>3, <1>4, <1>5, <1>6, <1>7 DEF PageInv

-----------------------------------------------------------------------------
(* Sessions *)

LEMMA BrokerSame ==
  ASSUME BrokerInv, UNCHANGED <<window, queue, req>>
  PROVE  BrokerInv'
BY DEF BrokerInv, BrokerTypeOK, BrokerSound, GrantsCounted, QueueOrdered, RowsOf, Unserved

\* Requests stay as they are; the poll may be given up.
LEMMA AsksSame ==
  ASSUME PageInv, UNCHANGED <<queue, req, crossed>>, timer' \in {timer, Null}
  PROVE  /\ \A q \in Pages : (Out(q)' => Out(q)) /\ (Due(q)' => Due(q))
         /\ Asking'
<1>1. \A q \in Pages : (Out(q)' => Out(q)) /\ (Due(q)' => Due(q))
  BY DEF Out, Due
<1>2. timer' # Null => req'[timer'.who].pc = "idle"
  BY DEF PageInv, Asking
<1> QED
  BY <1>1, <1>2, AskingShrinks DEF PageInv, Asking

\* Other channels keep their place when one is touched.
LEMMA OtherSteady ==
  ASSUME PageInv, NEW ch \in Channels, NEW d \in Channels, d # ch,
         sess'[d] = sess[d], st'[d] = st[d], count'[d] = count[d], left'[d] = left[d], waiting'[d] = waiting[d],
         d \in connecting' <=> d \in connecting,
         ender'["judge"] = "idle" /\ d \in replaying' => ender["judge"] = "idle" /\ d \in replaying,
         \A n \in Nat : <<d, n>> \in live' <=> <<d, n>> \in live,
         \A n \in Nat : <<d, n>> \in dying => <<d, n>> \in dying',
         \A p \in Pages : d \in ChannelsOf(p) => (Out(p)' => Out(p)) /\ (Due(p)' => Due(p)),
         pauses' \in Nat, pauses' >= pauses, phase' # phase => phase' \notin {"new", "disposed"}
  PROVE  Own(d)' /\ Placed(d)'
<1>1. sess[d] \in Nat /\ (waiting[d] # <<>> => Current(d) \in live)
  BY DEF PageInv, SttTypeOK, Own
<1>2. Current(d) = <<d, sess[d]>>
  BY DEF Current
<1>3. Steady(d)
  BY <1>1, <1>2 DEF Steady
<1> QED
  BY <1>3, SteadyStays

\* A channel that connects is asked for by no request, has no session and is not heard.
LEMMA ConnectingAlone ==
  ASSUME PageInv, NEW ch \in connecting
  PROVE  /\ ch \in Channels /\ Current(ch) \notin live /\ st[ch] # "paused" /\ waiting[ch] = <<>>
         /\ phase # "new" /\ ToCome(ch)
         /\ ~Awaits(waiting, ch, "pause")
         /\ \A p \in Pages : ch \in ChannelsOf(p) => ~Due(p)
         /\ ender["judge"] = "idle" => ch \notin replaying
<1>1. ch \in Channels /\ dying \subseteq live
  BY DEF PageInv, SttTypeOK
<1>2. Own(ch) /\ Placed(ch)
  BY <1>1 DEF PageInv
<1>3. Current(ch) \notin live /\ st[ch] # "paused" /\ waiting[ch] = <<>>
  BY <1>1, <1>2 DEF Own, Placed
<1>4. phase # "new" /\ ToCome(ch)
  BY DEF PageInv, Unopened, ToCome
<1>5. ~Awaits(waiting, ch, "pause")
  BY <1>3 DEF Awaits
<1>6. \A p \in Pages : ch \in ChannelsOf(p) => ~Due(p)
  BY <1>2 DEF Placed, Vacant
<1> QED
  BY <1>1, <1>2, <1>3, <1>4, <1>5, <1>6 DEF Placed

LEMMA ConnectOpensKeeps ==
  ASSUME PageInv, NEW ch \in Channels, ConnectOpens(ch) PROVE PageInv'
<1> DEFINE s == <<ch, count[ch] + 1>>
<1>0. /\ UNCHANGED <<window, queue, req, left, ticket, timer, waiting, ender, replaying, phase, pauses,
                     crossed, lost, missed>>
      /\ ch \in connecting /\ connecting' = connecting \ {ch}
      /\ count' = [count EXCEPT ![ch] = @ + 1]
      /\ live' = live \cup {s}
      /\ phase = "disposed" => dying' = dying \cup {s} /\ UNCHANGED <<sess, st>>
      /\ phase # "disposed" => /\ sess' = [sess EXCEPT ![ch] = count[ch] + 1]
                               /\ st' = Become({ch}, "open") /\ UNCHANGED dying
  BY DEF ConnectOpens, TooLate, brokerVars, ending, faults
<1>1. /\ Current(ch) \notin live /\ st[ch] # "paused" /\ waiting[ch] = <<>>
      /\ phase # "new" /\ ToCome(ch)
      /\ ~Awaits(waiting, ch, "pause")
      /\ \A p \in Pages : ch \in ChannelsOf(p) => ~Due(p)
      /\ ender["judge"] = "idle" => ch \notin replaying
  BY <1>0, ConnectingAlone
<1>2. /\ BrokerInv'
      /\ \A q \in Pages : (Out(q)' => Out(q)) /\ (Due(q)' => Due(q))
      /\ Asking'
  BY <1>0, BrokerSame, AsksSame DEF PageInv
<1>3. /\ Own(ch) /\ sess[ch] \in Nat /\ count[ch] \in Nat /\ left[ch] \in 0..1 /\ pauses \in 0..MaxPauses
      /\ dying \subseteq live /\ live \subseteq Sessions /\ MaxPauses \in Nat /\ st[ch] \in Status
  BY ChannelsAssumption DEF PageInv, SttTypeOK
<1>4. /\ count'[ch] = count[ch] + 1
      /\ sess'[ch] = IF phase = "disposed" THEN sess[ch] ELSE count[ch] + 1
      /\ st'[ch] = IF phase = "disposed" THEN st[ch] ELSE "open"
      /\ \A d \in Channels \ {ch} : sess'[d] = sess[d] /\ st'[d] = st[d] /\ count'[d] = count[d]
  BY <1>0 DEF PageInv, SttTypeOK, Become
<1>5. count[ch] + 1 <= 2 - left[ch] + pauses
  BY <1>1, <1>3 DEF Own
<1>6. SttTypeOK'
  <2>1. live' \subseteq Sessions
    <3>1. count[ch] + 1 \in 1..(2 + MaxPauses)
      BY <1>3, <1>5
    <3> QED
      BY <1>0, <1>3, <3>1 DEF Sessions
  <2>2. sess' \in [Channels -> Nat] /\ count' \in [Channels -> Nat] /\ dying' \subseteq live'
    <3>1. sess \in [Channels -> Nat] /\ count \in [Channels -> Nat] /\ count[ch] + 1 \in Nat
      BY <1>3 DEF PageInv, SttTypeOK
    <3>2. count' \in [Channels -> Nat]
      BY <1>0, <3>1
    <3>3. CASE phase = "disposed"
      BY <1>0, <1>3, <3>1, <3>2, <3>3
    <3>4. CASE phase # "disposed"
      BY <1>0, <1>3, <3>1, <3>2, <3>4
    <3> QED
      BY <3>3, <3>4
  <2>3. st' \in [Channels -> Status]
    BY <1>0 DEF PageInv, SttTypeOK, Become, Status
  <2> QED
    BY <1>0, <1>2, <2>1, <2>2, <2>3 DEF PageInv, SttTypeOK, BrokerInv
<1>7. ~ToCome(ch)'
  <2>1. \A p \in Pages : ch \in ChannelsOf(p) => ~Out(p)'
    BY <1>1, <1>2 DEF Due
  <2>2. ~Awaits(waiting', ch, "pause")
    BY <1>0, <1>1
  <2> QED
    BY <1>0, <1>1, <1>4, <2>1, <2>2 DEF ToCome
<1>8. Own(ch)'
  <2>1. sess'[ch] <= count'[ch]
    BY <1>3, <1>4 DEF Own
  <2>2. ASSUME NEW n \in Nat, <<ch, n>> \in live'
        PROVE  /\ n >= 1 /\ n <= count'[ch]
               /\ n = sess'[ch] \/ <<ch, n>> \in dying'
               /\ phase' = "disposed" => <<ch, n>> \in dying'
    <3>1. CASE n = count[ch] + 1
      BY <1>0, <1>3, <1>4, <3>1
    <3>2. CASE <<ch, n>> \in live
      <4>1. n >= 1 /\ n <= count[ch] /\ n # sess[ch]
        BY <1>1, <1>3, <3>2 DEF Own, Current
      <4>2. <<ch, n>> \in dying
        BY <1>3, <3>2, <4>1 DEF Own
      <4> QED
        BY <1>0, <1>3, <1>4, <4>1, <4>2
    <3> QED
      BY <1>0, <2>2, <3>1, <3>2
  <2>3. waiting'[ch] = <<>>
    BY <1>0, <1>1
  <2>4. count'[ch] + (IF ToCome(ch)' THEN 1 ELSE 0) <= 2 - left'[ch] + pauses'
    BY <1>0, <1>3, <1>4, <1>5, <1>7
  <2> QED
    BY <2>1, <2>2, <2>3, <2>4 DEF Own
<1>9. Placed(ch)'
  <2>1. \A p \in Pages : ch \in ChannelsOf(p) => ~Due(p)'
    BY <1>1, <1>2
  <2>2. st'[ch] \in {"paused", "queued"} => Current(ch)' \notin live'
    <3>1. CASE phase = "disposed"
      <4>1. Current(ch)' = Current(ch) /\ Current(ch) # s
        BY <1>3, <1>4, <3>1 DEF Current, Own
      <4> QED
        BY <1>0, <1>1, <4>1
    <3>2. CASE phase # "disposed"
      BY <1>4, <3>2
    <3> QED
      BY <3>1, <3>2
  <2>3. ~(ender'["judge"] = "idle" /\ ch \in replaying') /\ ch \notin connecting'
    BY <1>0, <1>1
  <2> QED
    BY <2>1, <2>2, <2>3 DEF Placed
<1>10. ASSUME NEW d \in Channels PROVE Own(d)' /\ Placed(d)'
  <2>1. CASE d # ch
    <3>1. \A n \in Nat : <<d, n>> \in live' <=> <<d, n>> \in live
      BY <1>0, <2>1
    <3>2. \A n \in Nat : <<d, n>> \in dying => <<d, n>> \in dying'
      BY <1>0
    <3>3. d \in connecting' <=> d \in connecting
      BY <1>0, <2>1
    <3>4. pauses' \in Nat /\ pauses' >= pauses
      BY <1>0, <1>3
    <3> QED
      BY <1>0, <1>2, <1>4, <2>1, <3>1, <3>2, <3>3, <3>4, OtherSteady
  <2> QED
    BY <1>8, <1>9, <2>1
<1>11. Unopened'
  BY <1>0, <1>1 DEF Unopened
<1>12. WaitsForSomething'
  <2> SUFFICES ASSUME lost = 0, ~crossed, phase # "disposed", NEW d \in Channels, st'[d] = "queued"
               PROVE  WillWake(d)'
    BY <1>0 DEF WaitsForSomething
  <2>1. d # ch /\ st[d] = "queued"
    BY <1>4
  <2>2. WillWake(d)
    BY <2>1 DEF PageInv, WaitsForSomething
  <2> QED
    BY <1>0, <2>1, <2>2 DEF WillWake
<1> QED
  BY <1>2, <1>6, <1>10, <1>11, <1>12 DEF PageInv

LEMMA ConnectFailsKeeps ==
  ASSUME PageInv, NEW ch \in Channels, ConnectFails(ch) PROVE PageInv'
<1>0. /\ UNCHANGED <<window, queue, req, sess, count, live, dying, left, ticket, timer, waiting, ender, phase, pauses,
                     crossed, lost, missed>>
      /\ ch \in connecting /\ connecting' = connecting \ {ch}
      /\ st' = Become({ch}, "cached") /\ replaying' = replaying \cup {ch}
  BY DEF ConnectFails, ToCached, brokerVars, sessions, ending, faults
<1>1. /\ Current(ch) \notin live /\ st[ch] # "paused" /\ waiting[ch] = <<>>
      /\ phase # "new" /\ ToCome(ch)
      /\ ~Awaits(waiting, ch, "pause")
      /\ \A p \in Pages : ch \in ChannelsOf(p) => ~Due(p)
      /\ ender["judge"] = "idle" => ch \notin replaying
  BY <1>0, ConnectingAlone
<1>2. /\ BrokerInv'
      /\ \A q \in Pages : (Out(q)' => Out(q)) /\ (Due(q)' => Due(q))
      /\ Asking'
  BY <1>0, BrokerSame, AsksSame DEF PageInv
<1>3. SttTypeOK /\ Own(ch) /\ pauses \in Nat
  BY DEF PageInv, SttTypeOK
<1>4. st'[ch] = "cached" /\ \A d \in Channels \ {ch} : st'[d] = st[d]
  BY <1>0 DEF Become
<1>6. SttTypeOK'
  <2>1. st' \in [Channels -> Status]
    BY <1>0 DEF PageInv, SttTypeOK, Become, Status
  <2> QED
    BY <1>0, <1>2, <2>1 DEF PageInv, SttTypeOK, BrokerInv
<1>7. ~ToCome(ch)'
  <2>1. \A p \in Pages : ch \in ChannelsOf(p) => ~Out(p)'
    BY <1>1, <1>2 DEF Due
  <2>2. ~Awaits(waiting', ch, "pause")
    BY <1>0, <1>1
  <2> QED
    BY <1>0, <1>1, <1>4, <2>1, <2>2 DEF ToCome
<1>8. Own(ch)'
  BY <1>0, <1>1, <1>3, <1>7, OwnStays
<1>9. Placed(ch)'
  <2>1. \A p \in Pages : ch \in ChannelsOf(p) => ~Due(p)'
    BY <1>1, <1>2
  <2>2. Current(ch)' = Current(ch)
    BY <1>0 DEF Current
  <2> QED
    BY <1>0, <1>1, <1>4, <1>7, <2>1, <2>2 DEF Placed
<1>10. ASSUME NEW d \in Channels PROVE Own(d)' /\ Placed(d)'
  <2>1. CASE d # ch
    <3>1. d \in connecting' <=> d \in connecting
      BY <1>0, <2>1
    <3>2. ender'["judge"] = "idle" /\ d \in replaying' => ender["judge"] = "idle" /\ d \in replaying
      BY <1>0, <2>1
    <3>3. pauses' \in Nat /\ pauses' >= pauses
      BY <1>0, <1>3
    <3> QED
      BY <1>0, <1>2, <1>4, <2>1, <3>1, <3>2, <3>3, OtherSteady
  <2> QED
    BY <1>8, <1>9, <2>1
<1>11. Unopened'
  BY <1>0, <1>1 DEF Unopened
<1>12. WaitsForSomething'
  <2> SUFFICES ASSUME lost = 0, ~crossed, phase # "disposed", NEW d \in Channels, st'[d] = "queued"
               PROVE  WillWake(d)'
    BY <1>0 DEF WaitsForSomething
  <2>1. d # ch /\ st[d] = "queued"
    BY <1>4
  <2>2. WillWake(d)
    BY <2>1 DEF PageInv, WaitsForSomething
  <2> QED
    BY <1>0, <2>1, <2>2 DEF WillWake
<1> QED
  BY <1>2, <1>6, <1>10, <1>11, <1>12 DEF PageInv


\* A session the page did not ask to end: nothing else of its channel is on its way.
LEMMA ServingAlone ==
  ASSUME PageInv, NEW ch \in Channels, Current(ch) \in live, Current(ch) \notin dying
  PROVE  /\ waiting[ch] = <<>> /\ ch \notin connecting /\ st[ch] \notin {"paused", "queued"}
         /\ phase \notin {"new", "disposed"} /\ ~ToCome(ch)
         /\ \A p \in Pages : ch \in ChannelsOf(p) => ~Due(p)
         /\ ender["judge"] = "idle" => ch \notin replaying
<1>1. Own(ch) /\ Placed(ch) /\ sess[ch] \in Nat /\ Current(ch) = <<ch, sess[ch]>>
  BY DEF PageInv, SttTypeOK, Current
<1>2. waiting[ch] = <<>> /\ phase # "disposed"
  BY <1>1 DEF Own
<1>3. ch \notin connecting /\ st[ch] \notin {"paused", "queued"} /\ (ender["judge"] = "idle" => ch \notin replaying)
  BY <1>1 DEF Placed
<1>4. \A p \in Pages : ch \in ChannelsOf(p) => ~Due(p)
  BY <1>1 DEF Placed, Vacant
<1>5. phase # "new"
  BY DEF PageInv, Unopened
<1>6. ~Awaits(waiting, ch, "pause")
  BY <1>2 DEF Awaits
<1>7. ~ToCome(ch)
  BY <1>3, <1>4, <1>5, <1>6 DEF ToCome, Due
<1> QED
  BY <1>2, <1>3, <1>4, <1>5, <1>7

\* The session is gone and the channel has none: what may still come must be within its limit.
LEMMA SessionGone ==
  ASSUME PageInv, NEW ch \in Channels, Current(ch) \in live, sess' = [sess EXCEPT ![ch] = 0],
         live' = live \ {Current(ch)}, \A n \in Nat : <<ch, n>> \in dying /\ n # sess[ch] => <<ch, n>> \in dying',
         waiting'[ch] = <<>>, UNCHANGED <<count, phase>>,
         count[ch] + (IF ToCome(ch)' THEN 1 ELSE 0) <= 2 - left'[ch] + pauses'
  PROVE  Own(ch)' /\ Current(ch)' \notin live'
<1>1. /\ Own(ch) /\ sess[ch] \in Nat /\ count[ch] \in Nat /\ sess'[ch] = 0
      /\ Current(ch) = <<ch, sess[ch]>> /\ Current(ch)' = <<ch, 0>>
  BY DEF PageInv, SttTypeOK, Current
<1>2. ASSUME NEW n \in Nat, <<ch, n>> \in live'
      PROVE  /\ n >= 1 /\ n <= count'[ch]
             /\ <<ch, n>> \in dying'
  BY <1>1, <1>2 DEF Own
<1>3. Current(ch)' \notin live'
  BY <1>1, <1>2
<1>4. Own(ch)'
  BY <1>1, <1>2 DEF Own
<1> QED
  BY <1>3, <1>4

LEMMA ClosesAlone ==
  ASSUME PageInv, NEW ch \in Channels, ProviderCloses(ch),
         UNCHANGED <<window, queue, req, count, dying, left, ticket, timer, connecting, waiting, ender, phase,
                     crossed, lost, missed>>,
         NEW to \in {"closed", "cached", "paused"}, st' = Become({ch}, to),
         replaying' \in {replaying, replaying \cup {ch}}, pauses' \in 0..MaxPauses, pauses' >= pauses,
         to = "paused" => replaying' = replaying /\ pauses' = pauses + 1
  PROVE  PageInv'
<1>0. /\ Current(ch) \in live /\ Current(ch) \notin dying
      /\ live' = live \ {Current(ch)} /\ sess' = [sess EXCEPT ![ch] = 0]
  BY DEF ProviderCloses
<1>1. /\ waiting[ch] = <<>> /\ ch \notin connecting /\ st[ch] \notin {"paused", "queued"}
      /\ phase \notin {"new", "disposed"} /\ ~ToCome(ch)
      /\ \A p \in Pages : ch \in ChannelsOf(p) => ~Due(p)
      /\ ender["judge"] = "idle" => ch \notin replaying
  BY <1>0, ServingAlone
<1>2. /\ BrokerInv'
      /\ \A q \in Pages : (Out(q)' => Out(q)) /\ (Due(q)' => Due(q))
      /\ Asking'
  BY BrokerSame, AsksSame DEF PageInv
<1>3. /\ Own(ch) /\ count[ch] \in Nat /\ left[ch] \in 0..1 /\ pauses \in Nat /\ pauses' \in Nat
      /\ dying \subseteq live
  BY ChannelsAssumption DEF PageInv, SttTypeOK
<1>4. /\ st'[ch] = to
      /\ \A d \in Channels \ {ch} : sess'[d] = sess[d] /\ st'[d] = st[d]
  BY <1>0 DEF PageInv, SttTypeOK, Become
<1>5. SttTypeOK'
  <2>1. st' \in [Channels -> Status]
    BY DEF PageInv, SttTypeOK, Become, Status
  <2>2. /\ sess' \in [Channels -> Nat] /\ dying' \subseteq live'
        /\ live' \subseteq Sessions /\ replaying' \subseteq Channels
    BY <1>0, <1>3 DEF PageInv, SttTypeOK
  <2> QED
    BY <1>2, <2>1, <2>2 DEF PageInv, SttTypeOK, BrokerInv
<1>6. to # "paused" => ~ToCome(ch)'
  BY <1>1, <1>2, <1>4 DEF ToCome, Due
<1>7. Own(ch)' /\ Current(ch)' \notin live'
  <2>1. count[ch] <= 2 - left[ch] + pauses
    BY <1>1, <1>3 DEF Own
  <2>2. count[ch] + (IF ToCome(ch)' THEN 1 ELSE 0) <= 2 - left'[ch] + pauses'
    BY <1>3, <1>6, <2>1
  <2>3. \A n \in Nat : <<ch, n>> \in dying /\ n # sess[ch] => <<ch, n>> \in dying'
    OBVIOUS
  <2> QED
    BY <1>0, <1>1, <2>2, <2>3, SessionGone
<1>8. Placed(ch)'
  BY <1>1, <1>2, <1>4, <1>6, <1>7 DEF Placed
<1>9. ASSUME NEW d \in Channels PROVE Own(d)' /\ Placed(d)'
  <2>1. CASE d # ch
    <3>1. \A n \in Nat : <<d, n>> \in live' <=> <<d, n>> \in live
      BY <1>0, <2>1 DEF Current
    <3>2. ender'["judge"] = "idle" /\ d \in replaying' => ender["judge"] = "idle" /\ d \in replaying
      BY <2>1
    <3> QED
      BY <1>2, <1>3, <1>4, <2>1, <3>1, <3>2, OtherSteady
  <2> QED
    BY <1>7, <1>8, <2>1
<1>10. Unopened'
  BY <1>1 DEF Unopened
<1>11. WaitsForSomething'
  <2>1. \A d \in Channels : st'[d] = "queued" => st[d] = "queued"
    BY <1>4
  <2> QED
    BY <2>1, StillWoken DEF PageInv
<1> QED
  BY <1>2, <1>5, <1>9, <1>10, <1>11 DEF PageInv

LEMMA ClosesKeeps ==
  ASSUME PageInv, NEW ch \in Channels, ClosesClean(ch) \/ ClosesInactive(ch) \/ ClosesFatal(ch) PROVE PageInv'
<1>0. pauses \in 0..MaxPauses /\ MaxPauses \in Nat
  BY ChannelsAssumption DEF PageInv, SttTypeOK
<1>1. CASE ClosesClean(ch)
  <2>1. /\ ProviderCloses(ch) /\ st' = Become({ch}, "closed") /\ "closed" \in {"closed", "cached", "paused"}
        /\ UNCHANGED <<window, queue, req, count, dying, left, ticket, timer, connecting, waiting, ender, replaying,
                       phase, pauses, crossed, lost, missed>>
    BY <1>1 DEF ClosesClean, brokerVars, asking, ending, faults
  <2>2. pauses' \in 0..MaxPauses /\ pauses' >= pauses
    BY <1>0, <2>1
  <2> QED
    BY <2>1, <2>2, ClosesAlone
<1>2. CASE ClosesInactive(ch)
  <2>1. /\ ProviderCloses(ch) /\ st' = Become({ch}, "paused") /\ "paused" \in {"closed", "cached", "paused"}
        /\ UNCHANGED <<window, queue, req, count, dying, left, ticket, timer, connecting, waiting, ender, replaying,
                       phase, crossed, lost, missed>>
        /\ pauses < MaxPauses /\ pauses' = pauses + 1
    BY <1>2 DEF ClosesInactive, brokerVars, asking, ending, faults
  <2>2. pauses' \in 0..MaxPauses /\ pauses' >= pauses
    BY <1>0, <2>1
  <2> QED
    BY <2>1, <2>2, ClosesAlone
<1>3. CASE ClosesFatal(ch)
  <2>1. /\ ProviderCloses(ch) /\ st' = Become({ch}, "cached") /\ "cached" \in {"closed", "cached", "paused"}
        /\ replaying' = replaying \cup {ch}
        /\ UNCHANGED <<window, queue, req, count, dying, left, ticket, timer, connecting, waiting, ender,
                       phase, pauses, crossed, lost, missed>>
    BY <1>3 DEF ClosesFatal, ToCached, brokerVars, asking, ending, faults
  <2>2. pauses' \in 0..MaxPauses /\ pauses' >= pauses
    BY <1>0, <2>1
  <2> QED
    BY <2>1, <2>2, ClosesAlone
<1> QED
  BY <1>1, <1>2, <1>3

\* Channels nobody has asked for are asked for once: no other request holds any of them.
LEMMA AskedAgain ==
  ASSUME PageInv, NEW chs, chs \subseteq Channels, chs # {}, AskAgain(chs), UNCHANGED timer,
         \A ch \in chs : \A q \in Pages : ch \in ChannelsOf(q) => ~Due(q)
  PROVE  /\ BrokerInv' /\ UNCHANGED queue /\ crossed' \in BOOLEAN
         /\ PageFor(chs) \in Pages /\ ChannelsOf(PageFor(chs)) = chs
         /\ req'[PageFor(chs)].pc = "sent"
         /\ \A q \in Pages : (Out(q)' => Out(q) \/ q = PageFor(chs)) /\ (Due(q)' => Due(q) \/ q = PageFor(chs))
         /\ Asking'
         /\ ~crossed' => ~crossed /\ timer = Null /\ \A q \in Pages : req[q].pc = "idle"
<1> DEFINE p == PageFor(chs)
<1>1. p \in Pages /\ ChannelsOf(p) = chs /\ p \in Requesters /\ Cardinality(chs) \in Sizes
  <2>1. p \in Pages /\ ChannelsOf(p) = chs
    BY PageFacts
  <2>2. Cardinality(ChannelsOf(p)) \in Sizes
    BY <2>1, PageFacts
  <2> QED
    BY <2>1, <2>2, Names
<1>2. /\ Ask(p, Cardinality(chs), TRUE, FALSE)
      /\ crossed' = (crossed \/ timer # Null \/ \E q \in Pages : req[q].pc # "idle")
  BY DEF AskAgain
<1> HIDE DEF p
<1>3. ~Due(p)
  BY <1>1
<1>4. /\ BrokerInv' /\ UNCHANGED queue
      /\ req'[p].pc = "sent"
      /\ \A s \in Requesters \ {p} : req'[s] = req[s]
  BY <1>1, <1>2, <1>3, AskServed DEF PageInv, Due
<1>5. \A q \in Pages : (Out(q)' => Out(q) \/ q = p) /\ (Due(q)' => Due(q) \/ q = p)
  BY <1>1, <1>4, Names DEF Out, Due
<1>6. ~crossed' => ~crossed /\ timer = Null /\ \A q \in Pages : req[q].pc = "idle"
  BY <1>2
<1>7. Asking'
  <2>1. ASSUME NEW a \in Pages, NEW b \in Pages, Due(a)', Due(b)', ChannelsOf(a) \cap ChannelsOf(b) # {}
        PROVE  a = b
    <3>1. CASE a = p
      <4>1. ~Due(b)
        BY <1>1, <2>1, <3>1
      <4> QED
        BY <1>5, <2>1, <3>1, <4>1
    <3>2. CASE b = p
      <4>1. ~Due(a)
        BY <1>1, <2>1, <3>2
      <4> QED
        BY <1>5, <2>1, <3>2, <4>1
    <3>3. CASE a # p /\ b # p
      BY <1>5, <2>1, <3>3 DEF PageInv, Asking
    <3> QED
      BY <3>1, <3>2, <3>3
  <2>2. timer' # Null => req'[timer'.who].pc = "idle"
    <3>1. timer # Null => timer.who \in Pages /\ req[timer.who].pc = "idle" /\ timer.who # p
      BY <1>3 DEF PageInv, SttTypeOK, Asking, Due, Out
    <3> QED
      BY <1>4, <3>1, Names
  <2>3. \A v \in Visitors : req'[v].pc = "idle"
    BY <1>1, <1>4, Names DEF PageInv, Asking
  <2>4. ~crossed' => \A a, b \in Pages : Out(a)' /\ Out(b)' => a = b
    BY <1>5, <1>6 DEF Out
  <2> QED
    BY <2>1, <2>2, <2>3, <2>4 DEF Asking
<1>8. crossed' \in BOOLEAN
  BY <1>2
<1> QED
  BY <1>1, <1>4, <1>5, <1>6, <1>7, <1>8 DEF p

\* A channel that waits is still woken when others have asked again: else no request was out.
LEMMA WokenAgain ==
  ASSUME PageInv, NEW chs, PageFor(chs) \in Pages, ChannelsOf(PageFor(chs)) = chs,
         req'[PageFor(chs)].pc = "sent", UNCHANGED <<connecting, ender, phase, lost>>,
         ~crossed' => ~crossed /\ timer = Null /\ \A q \in Pages : req[q].pc = "idle",
         \A ch \in Channels \ chs : st'[ch] = "queued" => st[ch] = "queued"
  PROVE  WaitsForSomething'
<1> SUFFICES ASSUME lost = 0, ~crossed', phase # "disposed", NEW ch \in Channels, st'[ch] = "queued"
             PROVE  WillWake(ch)'
  BY DEF WaitsForSomething
<1>1. CASE ch \in chs
  BY <1>1 DEF WillWake
<1>2. CASE ch \notin chs
  <2>1. WillWake(ch)
    BY <1>2 DEF PageInv, WaitsForSomething
  <2> QED
    BY <2>1 DEF WillWake
<1> QED
  BY <1>1, <1>2

LEMMA ClosesTransientKeeps ==
  ASSUME PageInv, NEW ch \in Channels, ClosesTransient(ch) PROVE PageInv'
<1>0. /\ Current(ch) \in live /\ Current(ch) \notin dying
      /\ live' = live \ {Current(ch)} /\ sess' = [sess EXCEPT ![ch] = 0]
      /\ left[ch] > 0 /\ left' = [left EXCEPT ![ch] = @ - 1]
      /\ st' = Become({ch}, "queued") /\ AskAgain({ch})
      /\ UNCHANGED <<replaying, count, dying, ticket, timer, connecting, waiting, ender, phase, pauses, lost, missed>>
  BY DEF ClosesTransient, ProviderCloses, CanReconnect, Reconnecting, asking, ending
<1>1. /\ waiting[ch] = <<>> /\ ch \notin connecting /\ st[ch] \notin {"paused", "queued"}
      /\ phase \notin {"new", "disposed"} /\ ~ToCome(ch)
      /\ \A p \in Pages : ch \in ChannelsOf(p) => ~Due(p)
      /\ ender["judge"] = "idle" => ch \notin replaying
  BY <1>0, ServingAlone
<1> DEFINE chs == {ch}
<1> DEFINE p == PageFor(chs)
<1>2. /\ BrokerInv' /\ UNCHANGED queue /\ crossed' \in BOOLEAN
      /\ p \in Pages /\ ChannelsOf(p) = chs
      /\ req'[p].pc = "sent"
      /\ \A q \in Pages : (Out(q)' => Out(q) \/ q = p) /\ (Due(q)' => Due(q) \/ q = p)
      /\ Asking'
      /\ ~crossed' => ~crossed /\ timer = Null /\ \A q \in Pages : req[q].pc = "idle"
  BY <1>0, <1>1, AskedAgain
<1>3. /\ Own(ch) /\ count[ch] \in Nat /\ left[ch] \in 0..1 /\ pauses \in Nat
      /\ dying \subseteq live
  BY ChannelsAssumption DEF PageInv, SttTypeOK
<1>4. /\ st'[ch] = "queued" /\ left'[ch] = left[ch] - 1
      /\ \A d \in Channels \ {ch} : sess'[d] = sess[d] /\ st'[d] = st[d] /\ left'[d] = left[d]
  BY <1>0 DEF PageInv, SttTypeOK, Become
<1>5. SttTypeOK'
  <2>1. st' \in [Channels -> Status]
    BY <1>0 DEF PageInv, SttTypeOK, Become, Status
  <2>2. sess' \in [Channels -> Nat] /\ dying' \subseteq live' /\ live' \subseteq Sessions
    BY <1>0, <1>3 DEF PageInv, SttTypeOK
  <2>3. left' \in [Channels -> 0..1]
    <3>1. left \in [Channels -> 0..1] /\ left[ch] - 1 \in 0..1
      BY <1>0, <1>3 DEF PageInv, SttTypeOK
    <3> QED
      BY <1>0, <3>1
  <2> QED
    BY <1>0, <1>2, <2>1, <2>2, <2>3 DEF PageInv, SttTypeOK, BrokerInv
<1>7. Own(ch)' /\ Current(ch)' \notin live'
  <2>1. count[ch] <= 2 - left[ch] + pauses
    BY <1>1, <1>3 DEF Own
  <2>2. count[ch] + (IF ToCome(ch)' THEN 1 ELSE 0) <= 2 - left'[ch] + pauses'
    BY <1>0, <1>3, <1>4, <2>1
  <2>3. \A n \in Nat : <<ch, n>> \in dying /\ n # sess[ch] => <<ch, n>> \in dying'
    BY <1>0
  <2>4. waiting'[ch] = <<>> /\ UNCHANGED <<count, phase>>
    BY <1>0, <1>1
  <2> QED
    BY <1>0, <2>2, <2>3, <2>4, SessionGone
<1>8. Placed(ch)'
  BY <1>0, <1>1, <1>4, <1>7 DEF Placed, Vacant
<1>9. ASSUME NEW d \in Channels PROVE Own(d)' /\ Placed(d)'
  <2>1. CASE d # ch
    <3>1. \A n \in Nat : <<d, n>> \in live' <=> <<d, n>> \in live
      BY <1>0, <2>1 DEF Current
    <3>2. \A q \in Pages : d \in ChannelsOf(q) => (Out(q)' => Out(q)) /\ (Due(q)' => Due(q))
      BY <1>2, <2>1
    <3>3. pauses' \in Nat /\ pauses' >= pauses /\ count'[d] = count[d] /\ waiting'[d] = waiting[d]
      BY <1>0, <1>3
    <3>4. /\ d \in connecting' <=> d \in connecting
          /\ ender'["judge"] = "idle" /\ d \in replaying' => ender["judge"] = "idle" /\ d \in replaying
          /\ \A n \in Nat : <<d, n>> \in dying => <<d, n>> \in dying'
          /\ phase' # phase => phase' \notin {"new", "disposed"}
      BY <1>0
    <3> QED
      BY <1>4, <2>1, <3>1, <3>2, <3>3, <3>4, OtherSteady
  <2> QED
    BY <1>7, <1>8, <2>1
<1>10. Unopened'
  BY <1>0, <1>1 DEF Unopened
<1>11. WaitsForSomething'
  <2>1. \A d \in Channels \ chs : st'[d] = "queued" => st[d] = "queued"
    BY <1>4
  <2>2. UNCHANGED <<connecting, ender, phase, lost>>
    BY <1>0
  <2> HIDE DEF chs
  <2> QED
    BY <1>2, <2>1, <2>2, WokenAgain
<1> QED
  BY <1>2, <1>5, <1>9, <1>10, <1>11 DEF PageInv

-----------------------------------------------------------------------------
(* Pause, resume, terminateAll, dispose *)

LEMMA ResumeKeeps ==
  ASSUME PageInv, Resume PROVE PageInv'
<1> DEFINE chs == {ch \in Channels : st[ch] = "paused"}
<1> DEFINE p == PageFor(chs)
<1>0. /\ chs \subseteq Channels /\ chs # {} /\ phase \in Running
      /\ st' = Become(chs, "queued") /\ AskAgain(chs)
      /\ UNCHANGED <<sess, count, live, dying, left, ticket, timer, connecting, waiting, ender, replaying, phase,
                     pauses, lost, missed>>
  BY DEF Resume, Resumed, sessions, asking, ending
<1>1. \A ch \in chs : \A q \in Pages : ch \in ChannelsOf(q) => ~Due(q)
  BY DEF PageInv, Placed, Vacant
<1>a. \A ch \in Channels : ch \in chs <=> st[ch] = "paused"
  OBVIOUS
<1> HIDE DEF chs
<1>2. /\ BrokerInv' /\ UNCHANGED queue /\ crossed' \in BOOLEAN
      /\ p \in Pages /\ ChannelsOf(p) = chs
      /\ req'[p].pc = "sent"
      /\ \A q \in Pages : (Out(q)' => Out(q) \/ q = p) /\ (Due(q)' => Due(q) \/ q = p)
      /\ Asking'
      /\ ~crossed' => ~crossed /\ timer = Null /\ \A q \in Pages : req[q].pc = "idle"
  BY <1>0, <1>1, AskedAgain
<1>3. phase \notin {"new", "disposed"}
  BY <1>0 DEF Running, Loading
<1>4. \A ch \in Channels : st'[ch] = IF ch \in chs THEN "queued" ELSE st[ch]
  BY <1>0 DEF Become
<1>5. SttTypeOK'
  <2>1. st' \in [Channels -> Status]
    BY <1>0 DEF PageInv, SttTypeOK, Become, Status
  <2> QED
    BY <1>0, <1>2, <2>1 DEF PageInv, SttTypeOK, BrokerInv
<1>6. ASSUME NEW ch \in Channels PROVE Own(ch)' /\ Placed(ch)'
  <2>0. /\ SttTypeOK /\ Own(ch) /\ Placed(ch) /\ pauses \in Nat /\ sess[ch] \in Nat /\ dying \subseteq live
    BY DEF PageInv, SttTypeOK
  <2>1. waiting[ch] # <<>> => Current(ch) \in live
    BY <2>0 DEF Own
  <2>2. CASE ch \notin chs
    <3>1. \A q \in Pages : ch \in ChannelsOf(q) => (Out(q)' => Out(q)) /\ (Due(q)' => Due(q))
      BY <1>2, <2>2
    <3>2. Steady(ch)
      BY <1>0, <1>4, <2>1, <2>2, <3>1 DEF Steady
    <3> QED
      BY <1>0, <2>0, <3>2, SteadyStays
  <2>3. CASE ch \in chs
    <3>1. st[ch] = "paused" /\ ToCome(ch)
      BY <1>a, <2>3 DEF ToCome
    <3>2. /\ Current(ch) \notin live /\ ch \notin connecting /\ (ender["judge"] = "idle" => ch \notin replaying)
          /\ waiting[ch] = <<>>
      BY <2>0, <2>1, <3>1 DEF Placed
    <3>3. Own(ch)'
      BY <1>0, <2>0, <3>1, <3>2, OwnStays
    <3>4. Current(ch)' = Current(ch)
      BY <1>0 DEF Current
    <3>5. Placed(ch)'
      BY <1>0, <1>4, <2>3, <3>2, <3>4 DEF Placed, Vacant
    <3> QED
      BY <3>3, <3>5
  <2> QED
    BY <2>2, <2>3
<1>7. Unopened'
  BY <1>0, <1>3 DEF Unopened
<1>8. WaitsForSomething'
  <2>1. \A d \in Channels \ chs : st'[d] = "queued" => st[d] = "queued"
    BY <1>4
  <2>2. UNCHANGED <<connecting, ender, phase, lost>>
    BY <1>0
  <2> QED
    BY <1>2, <2>1, <2>2, WokenAgain
<1> QED
  BY <1>2, <1>5, <1>6, <1>7, <1>8 DEF PageInv

\* Terminate is sent to sessions that are open, and who awaits their end is noted.
LEMMA TerminateSent ==
  ASSUME PageInv, NEW chs, chs \subseteq WithSession, NEW who \in Enders \cup {"pause"}, SendTerminate(chs, who)
  PROVE  /\ dying \subseteq dying' /\ dying' \subseteq live
         /\ \A ch \in chs : Current(ch) \in dying'
         /\ waiting' \in [Channels -> Seq(Enders \cup {"pause"})]
         /\ \A ch \in Channels : waiting'[ch] # <<>> => Current(ch) \in dying'
         /\ \A ch \in Channels \ chs : waiting'[ch] = waiting[ch]
         /\ who # "pause" => \A ch \in Channels : Awaits(waiting', ch, "pause") => Awaits(waiting, ch, "pause")
<1> DEFINE W == Enders \cup {"pause"}
<1>0. /\ waiting \in [Channels -> Seq(W)] /\ dying \subseteq live /\ who \in W
      /\ \A ch \in Channels : waiting[ch] # <<>> => Current(ch) \in dying
  BY DEF PageInv, SttTypeOK, Own
<1>1. /\ dying' = dying \cup {Current(ch) : ch \in chs}
      /\ waiting' = [ch \in Channels |-> IF ch \in chs THEN Append(waiting[ch], who) ELSE waiting[ch]]
      /\ chs \subseteq Channels /\ \A ch \in chs : Current(ch) \in live
  BY DEF SendTerminate, WithSession
<1> HIDE DEF W
<1>2. waiting' \in [Channels -> Seq(W)]
  BY <1>0, <1>1
<1>3. dying' \subseteq live
  BY <1>0, <1>1
<1>4. ASSUME NEW ch \in Channels PROVE waiting'[ch] # <<>> => Current(ch) \in dying'
  BY <1>0, <1>1
<1>5. ASSUME who # "pause", NEW ch \in Channels, Awaits(waiting', ch, "pause") PROVE Awaits(waiting, ch, "pause")
  <2>1. CASE ch \in chs
    <3>1. waiting[ch] \in Seq(W) /\ waiting'[ch] = Append(waiting[ch], who)
      BY <1>0, <1>1, <2>1
    <3>2. PICK i \in DOMAIN waiting'[ch] : waiting'[ch][i] = "pause"
      BY <1>5 DEF Awaits
    <3>3. i \in 1..(Len(waiting[ch]) + 1) /\ Len(waiting[ch]) \in Nat
      BY <1>0, <3>1, <3>2
    <3>4. i # Len(waiting[ch]) + 1
      BY <1>0, <1>5, <3>1, <3>2
    <3>5. i \in DOMAIN waiting[ch] /\ waiting[ch][i] = "pause"
      BY <1>0, <3>1, <3>2, <3>3, <3>4
    <3> QED
      BY <3>5 DEF Awaits
  <2>2. CASE ch \notin chs
    BY <1>1, <1>5, <2>2 DEF Awaits
  <2> QED
    BY <2>1, <2>2
<1> QED
  BY <1>1, <1>2, <1>3, <1>4, <1>5 DEF W

LEMMA PauseKeeps ==
  ASSUME PageInv, Pause PROVE PageInv'
<1> DEFINE chs == {ch \in WithSession : st[ch] = "open"}
<1>0. /\ phase \in Running /\ pauses < MaxPauses /\ pauses' = pauses + 1
      /\ chs \subseteq WithSession /\ SendTerminate(chs, "pause") /\ "pause" \in Enders \cup {"pause"}
      /\ UNCHANGED <<window, queue, req, st, sess, count, live, left, ticket, timer, connecting, ender, replaying, phase,
                     crossed, lost, missed>>
  BY DEF Pause, brokerVars, asking, faults
<1>a. \A ch \in chs : ch \in Channels /\ Current(ch) \in live /\ st[ch] = "open"
  BY DEF WithSession
<1> HIDE DEF chs
<1>1. /\ dying \subseteq dying' /\ dying' \subseteq live
      /\ \A ch \in chs : Current(ch) \in dying'
      /\ waiting' \in [Channels -> Seq(Enders \cup {"pause"})]
      /\ \A ch \in Channels : waiting'[ch] # <<>> => Current(ch) \in dying'
      /\ \A ch \in Channels \ chs : waiting'[ch] = waiting[ch]
  BY <1>0, TerminateSent
<1>2. /\ BrokerInv'
      /\ \A q \in Pages : (Out(q)' => Out(q)) /\ (Due(q)' => Due(q))
      /\ Asking'
  BY <1>0, BrokerSame, AsksSame DEF PageInv
<1>3. pauses \in Nat /\ pauses' \in 0..MaxPauses /\ pauses' \in Nat /\ pauses' >= pauses
  BY <1>0, ChannelsAssumption DEF PageInv, SttTypeOK
<1>4. SttTypeOK'
  BY <1>0, <1>1, <1>2, <1>3 DEF PageInv, SttTypeOK, BrokerInv
<1>5. ASSUME NEW ch \in Channels PROVE Own(ch)' /\ Placed(ch)'
  <2>0. /\ Own(ch) /\ Placed(ch) /\ sess[ch] \in Nat /\ count[ch] \in Nat /\ left[ch] \in 0..1
        /\ Current(ch) = <<ch, sess[ch]>> /\ Current(ch)' = Current(ch)
    BY <1>0 DEF PageInv, SttTypeOK, Current
  <2>1. CASE ch \notin chs
    <3>1. waiting[ch] # <<>> => Current(ch) \in live
      BY <1>1, <2>1
    <3>2. Steady(ch)
      BY <1>0, <1>1, <1>2, <2>1, <3>1 DEF Steady
    <3> QED
      BY <1>0, <1>3, <3>2, SteadyStays
  <2>2. CASE ch \in chs
    <3>1. Own(ch)'
      <4>1. count[ch] <= 2 - left[ch] + pauses
        BY <1>3, <2>0 DEF Own
      <4>2. count'[ch] + (IF ToCome(ch)' THEN 1 ELSE 0) <= 2 - left'[ch] + pauses'
        BY <1>0, <1>3, <2>0, <4>1
      <4>3. ASSUME NEW n \in Nat, <<ch, n>> \in live'
            PROVE  /\ n >= 1 /\ n <= count'[ch]
                   /\ n = sess'[ch] \/ <<ch, n>> \in dying'
                   /\ phase' = "disposed" => <<ch, n>> \in dying'
        BY <1>0, <1>1, <2>0, <4>3 DEF Own
      <4>4. sess'[ch] <= count'[ch]
        BY <1>0, <2>0 DEF Own
      <4> QED
        BY <1>1, <2>0, <4>2, <4>3, <4>4 DEF Own
    <3>2. Placed(ch)'
      <4>1. /\ \A q \in Pages : ch \in ChannelsOf(q) => ~Due(q)
            /\ ch \notin connecting /\ (ender["judge"] = "idle" => ch \notin replaying)
        BY <1>a, <2>0, <2>2 DEF Placed, Vacant
      <4>2. st'[ch] = "open"
        BY <1>0, <1>a, <2>2
      <4> QED
        BY <1>0, <1>2, <4>1, <4>2 DEF Placed
    <3> QED
      BY <3>1, <3>2
  <2> QED
    BY <2>1, <2>2
<1>6. Unopened'
  BY <1>0 DEF Unopened, Running, Loading
<1>7. WaitsForSomething'
  BY <1>0, StillWoken DEF PageInv
<1> QED
  BY <1>2, <1>4, <1>5, <1>6, <1>7 DEF PageInv

\* terminateAll's second part: a ticket less, perhaps, and no poll more than before.
LEMMA CloseAllKeeps ==
  ASSUME PageInv, BrokerInv', NEW e \in Enders, NEW replays, replays \subseteq Channels,
         e # "judge" => replays = replaying, CloseAll(e, replays), phase # "new",
         UNCHANGED <<req, sess, count, live, left, connecting, phase, pauses, crossed, lost, missed>>,
         timer' \in {timer, Null}, ticket' \in {ticket, Null},
         \A p \in Pages : TicketsOf(queue', p) # {} => TicketsOf(queue, p) # {}
  PROVE  PageInv'
<1>0. /\ SendTerminate(WithSession, e) /\ WithSession \subseteq WithSession
      /\ e \in Enders \cup {"pause"} /\ e # "pause"
      /\ st' = [ch \in Channels |-> IF ch \notin WithSession /\ st[ch] \in Ended THEN "closed" ELSE st[ch]]
      /\ ender' = [ender EXCEPT ![e] = IF WithSession = {} THEN "done" ELSE "closing"]
      /\ replaying' = IF WithSession = {} THEN {} ELSE replays
  BY DEF CloseAll, Enders
<1>1. /\ dying \subseteq dying' /\ dying' \subseteq live
      /\ waiting' \in [Channels -> Seq(Enders \cup {"pause"})]
      /\ \A ch \in Channels : waiting'[ch] # <<>> => Current(ch) \in dying'
      /\ \A ch \in Channels : Awaits(waiting', ch, "pause") => Awaits(waiting, ch, "pause")
  BY <1>0, TerminateSent
<1>2. \A q \in Pages : (Out(q)' => Out(q)) /\ (Due(q)' => Due(q))
  BY DEF Out, Due
<1>3. ender'["judge"] = "idle" => ender["judge"] = "idle" /\ replaying' \subseteq replaying
  <2>1. ender \in [Enders -> {"idle", "closing", "done"} \cup Pages] /\ "judge" \in Enders
    BY DEF PageInv, SttTypeOK, Enders
  <2>2. ender'[e] # "idle"
    BY <1>0, <2>1
  <2>3. CASE e = "judge"
    BY <2>2, <2>3
  <2>4. CASE e # "judge"
    BY <1>0, <2>1, <2>4
  <2> QED
    BY <2>3, <2>4
<1>4. SttTypeOK'
  <2>1. st' \in [Channels -> Status]
    BY <1>0 DEF PageInv, SttTypeOK, Status
  <2>2. ender' \in [Enders -> {"idle", "closing", "done"} \cup Pages]
    BY <1>0 DEF PageInv, SttTypeOK
  <2>3. replaying' \subseteq Channels /\ ticket' \in Pages \cup {Null}
        /\ timer' \in [who: Pages, reconnect: BOOLEAN] \cup {Null}
    BY <1>0 DEF PageInv, SttTypeOK
  <2> QED
    BY <1>1, <2>1, <2>2, <2>3 DEF PageInv, SttTypeOK, BrokerInv
<1>5. ASSUME NEW ch \in Channels PROVE Own(ch)' /\ Placed(ch)'
  <2>0. SttTypeOK /\ Own(ch) /\ Placed(ch) /\ pauses \in Nat
    BY DEF PageInv, SttTypeOK
  <2>1. st'[ch] \in {"paused", "queued"} => st'[ch] = st[ch]
    BY <1>0
  <2>2. ToCome(ch)' => ToCome(ch)
    BY <1>1, <1>2, <2>1 DEF ToCome
  <2>3. Own(ch)'
    BY <1>1, <2>0, <2>2, OwnStays
  <2>4. Placed(ch)'
    BY <1>2, <1>3, <2>0, <2>1, <2>2, PlacedStays
  <2> QED
    BY <2>3, <2>4
<1>6. Asking'
  <2>1. timer' # Null => req'[timer'.who].pc = "idle"
    BY DEF PageInv, Asking
  <2>2. Asking /\ \A v \in Visitors : req'[v].pc = "idle"
    BY DEF PageInv, Asking
  <2> QED
    BY <1>2, <2>1, <2>2, AskingShrinks
<1>7. Unopened'
  BY DEF Unopened
<1>8. WaitsForSomething'
  <2>1. ASSUME NEW ch \in Channels, st'[ch] = "queued" PROVE FALSE
    <3>1. st[ch] = "queued" /\ ch \in WithSession
      BY <1>0, <2>1 DEF Ended
    <3> QED
      BY <3>1 DEF WithSession, PageInv, Placed
  <2> QED
    BY <2>1 DEF WaitsForSomething
<1> QED
  BY <1>4, <1>5, <1>6, <1>7, <1>8 DEF PageInv

LEMMA TerminateAllKeeps ==
  ASSUME PageInv, NEW e \in Enders, TerminateAll(e) PROVE PageInv'
<1> DEFINE replays == IF e = "judge" THEN Channels ELSE replaying
<1>0. /\ ender[e] = "idle" /\ phase # "new" /\ phase # "disposed" /\ timer' = Null /\ ticket' = Null
      /\ UNCHANGED <<window, queue, req, sess, count, live, left, connecting, phase, pauses, crossed, lost, missed>>
      /\ replays \subseteq Channels /\ (e # "judge" => replays = replaying)
  BY DEF TerminateAll, brokerVars, faults, PageInv, SttTypeOK
<1>1. /\ ticket # Null => /\ ender' = [ender EXCEPT ![e] = ticket] /\ replaying' = replays
                          /\ UNCHANGED <<st, dying, waiting>>
      /\ ticket = Null => CloseAll(e, replays)
  BY DEF TerminateAll
<1> HIDE DEF replays
<1>2. /\ BrokerInv'
      /\ \A q \in Pages : (Out(q)' => Out(q)) /\ (Due(q)' => Due(q))
      /\ Asking'
  BY <1>0, BrokerSame, AsksSame DEF PageInv
<1>3. CASE ticket = Null
  BY <1>0, <1>1, <1>2, <1>3, CloseAllKeeps
<1>4. CASE ticket # Null
  <2>0. /\ ender \in [Enders -> {"idle", "closing", "done"} \cup Pages] /\ "judge" \in Enders
        /\ ticket \in Pages
    BY <1>4 DEF PageInv, SttTypeOK, Enders
  <2>1. /\ ender'[e] \in Pages /\ \A d \in Enders : d # e => ender'[d] = ender[d]
        /\ ender' \in [Enders -> {"idle", "closing", "done"} \cup Pages]
    BY <1>1, <1>4, <2>0
  <2>2. ender'["judge"] = "idle" => ender["judge"] = "idle" /\ replaying' = replaying
    <3>1. CASE e = "judge"
      BY <2>1, <3>1 DEF Pages
    <3>2. CASE e # "judge"
      BY <1>0, <1>1, <1>4, <2>0, <2>1, <3>2
    <3> QED
      BY <3>1, <3>2
  <2>3. SttTypeOK'
    BY <1>0, <1>1, <1>2, <1>4, <2>1 DEF PageInv, SttTypeOK, BrokerInv
  <2>4. ASSUME NEW ch \in Channels PROVE Own(ch)' /\ Placed(ch)'
    <3>0. Own(ch) /\ pauses \in Nat
      BY DEF PageInv, SttTypeOK
    <3>1. sess[ch] \in Nat /\ (waiting[ch] # <<>> => Current(ch) \in live)
      BY <3>0 DEF PageInv, SttTypeOK, Own
    <3>2. Steady(ch)
      BY <1>0, <1>1, <1>2, <1>4, <2>2, <3>1 DEF Steady
    <3> QED
      BY <1>0, <3>0, <3>2, SteadyStays
  <2>5. Unopened'
    BY <1>0 DEF Unopened
  <2>6. WaitsForSomething'
    BY <2>1 DEF WaitsForSomething, WillWake
  <2> QED
    BY <1>2, <2>3, <2>4, <2>5, <2>6 DEF PageInv
<1> QED
  BY <1>3, <1>4

LEMMA CancelledKeeps ==
  ASSUME PageInv, NEW e \in Enders, Cancelled(e) PROVE PageInv'
<1>0. /\ ender[e] \in Pages /\ Cancel(ender[e]) /\ CloseAll(e, replaying)
      /\ UNCHANGED <<window, req, sess, count, live, left, ticket, timer, connecting, phase, pauses,
                     crossed, lost, missed>>
  BY DEF Cancelled, asking, faults
<1>1. BrokerInv' /\ \A s : TicketsOf(queue', s) # {} => TicketsOf(queue, s) # {}
  BY <1>0, CancelServed DEF PageInv
<1>2. phase # "new"
  BY <1>0 DEF PageInv, Unopened, Enders, Pages
<1>3. replaying \subseteq Channels /\ timer' \in {timer, Null} /\ ticket' \in {ticket, Null}
  BY <1>0 DEF PageInv, SttTypeOK
<1> QED
  BY <1>0, <1>1, <1>2, <1>3, CloseAllKeeps

LEMMA SessionEndsKeeps ==
  ASSUME PageInv, NEW s \in Sessions, SessionEnds(s) PROVE PageInv'
<1> DEFINE ch == s[1]
<1> DEFINE heard == waiting[ch] # <<>> /\ s = Current(ch)
<1>0. /\ s \in dying /\ live' = live \ {s} /\ dying' = dying \ {s}
      /\ UNCHANGED <<window, queue, req, count, left, ticket, timer, connecting, phase, pauses, crossed, lost, missed>>
  BY DEF SessionEnds, brokerVars, asking, faults
<1>1. ~heard => UNCHANGED <<sess, st, waiting, ender, replaying>>
  BY DEF SessionEnds, ending
<1>2. heard => /\ sess' = [sess EXCEPT ![ch] = 0]
               /\ st' = Become({ch}, StatusAfter(ch))
               /\ waiting' = [waiting EXCEPT ![ch] = <<>>]
               /\ \E through : /\ \A x \in through : ender[x] = "closing"
                               /\ ender' = [x \in Enders |-> IF x \in through THEN "done" ELSE ender[x]]
                               /\ replaying' = IF through # {} THEN {} ELSE replaying
  BY DEF SessionEnds
<1>3. /\ BrokerInv'
      /\ \A q \in Pages : (Out(q)' => Out(q)) /\ (Due(q)' => Due(q))
      /\ Asking'
  BY <1>0, BrokerSame, AsksSame DEF PageInv
<1>4. /\ ch \in Channels /\ s = <<ch, s[2]>> /\ s[2] \in Nat /\ pauses \in Nat /\ dying \subseteq live /\ s \in live
  BY <1>0 DEF Sessions, PageInv, SttTypeOK
<1>5. phase # "new"
  BY <1>4 DEF PageInv, Unopened
<1>6. \A d \in Channels : /\ Own(d) /\ Placed(d) /\ sess[d] \in Nat /\ Current(d) = <<d, sess[d]>>
                          /\ waiting[d] # <<>> => Current(d) \in live
  BY <1>4 DEF PageInv, SttTypeOK, Current, Own
<1>7. Unopened'
  BY <1>0, <1>5 DEF Unopened
<1> HIDE DEF ch
<1>8. CASE ~heard
  <2>1. SttTypeOK'
    BY <1>0, <1>1, <1>3, <1>4, <1>8 DEF PageInv, SttTypeOK, BrokerInv
  <2>2. ASSUME NEW d \in Channels PROVE Own(d)' /\ Placed(d)'
    <3>1. waiting[d] # <<>> => Current(d) \in live'
      BY <1>0, <1>4, <1>6, <1>8
    <3>2. Steady(d)
      BY <1>0, <1>1, <1>3, <1>8, <3>1 DEF Steady
    <3>3. pauses' \in Nat /\ pauses' >= pauses
      BY <1>0, <1>4
    <3> QED
      BY <1>0, <3>2, <3>3, SteadyStays
  <2>3. WaitsForSomething'
    BY <1>0, <1>1, <1>8, StillWoken DEF PageInv
  <2> QED
    BY <1>3, <1>7, <2>1, <2>2, <2>3 DEF PageInv
<1>9. CASE heard
  <2>0. PICK through : /\ \A x \in through : ender[x] = "closing"
                       /\ ender' = [x \in Enders |-> IF x \in through THEN "done" ELSE ender[x]]
                       /\ replaying' = IF through # {} THEN {} ELSE replaying
    BY <1>2, <1>9
  <2>1. /\ waiting[ch] \in Seq(Enders \cup {"pause"}) /\ waiting[ch] # <<>> /\ s = Current(ch)
        /\ st[ch] \in Status /\ st \in [Channels -> Status]
    BY <1>4, <1>9 DEF PageInv, SttTypeOK
  <2>2. /\ StatusAfter(ch) \in Status /\ StatusAfter(ch) # "queued"
        /\ StatusAfter(ch) = "paused" => Awaits(waiting, ch, "pause")
    <3>1. Len(waiting[ch]) \in DOMAIN waiting[ch]
      BY <2>1
    <3>2. waiting[ch][Len(waiting[ch])] = "pause" => Awaits(waiting, ch, "pause")
      BY <3>1 DEF Awaits
    <3> QED
      BY <2>1, <3>2 DEF StatusAfter, Status, Ended
  <2>3. /\ sess' = [sess EXCEPT ![ch] = 0] /\ waiting' = [waiting EXCEPT ![ch] = <<>>] /\ waiting'[ch] = <<>>
        /\ st'[ch] = StatusAfter(ch)
        /\ \A d \in Channels \ {ch} : sess'[d] = sess[d] /\ st'[d] = st[d] /\ waiting'[d] = waiting[d]
    BY <1>2, <1>4, <1>9 DEF PageInv, SttTypeOK, Become
  <2>4. /\ ender' \in [Enders -> {"idle", "closing", "done"} \cup Pages]
        /\ \A x \in Enders : (ender[x] \in Pages => ender'[x] \in Pages) /\ (ender'[x] = "idle" => ender[x] = "idle")
        /\ replaying' \subseteq replaying /\ "judge" \in Enders
    BY <2>0 DEF PageInv, SttTypeOK, Enders, Pages
  <2>5. SttTypeOK'
    <3>1. st' \in [Channels -> Status]
      BY <1>2, <1>9, <2>1, <2>2 DEF Become
    <3>2. sess' \in [Channels -> Nat] /\ waiting' \in [Channels -> Seq(Enders \cup {"pause"})]
      <4>1. sess \in [Channels -> Nat]
        BY DEF PageInv, SttTypeOK
      <4>2. sess' \in [Channels -> Nat]
        BY <2>3, <4>1
      <4>3. waiting \in [Channels -> Seq(Enders \cup {"pause"})] /\ <<>> \in Seq(Enders \cup {"pause"})
        BY DEF PageInv, SttTypeOK
      <4>4. waiting' \in [Channels -> Seq(Enders \cup {"pause"})]
        BY <2>3, <4>3
      <4> QED
        BY <4>2, <4>4
    <3>3. dying' \subseteq live' /\ live' \subseteq Sessions /\ replaying' \subseteq Channels
      BY <1>0, <1>4, <2>4 DEF PageInv, SttTypeOK
    <3> QED
      BY <1>0, <1>3, <2>4, <3>1, <3>2, <3>3 DEF PageInv, SttTypeOK, BrokerInv
  <2>6. /\ ch \notin connecting /\ (ender["judge"] = "idle" => ch \notin replaying)
        /\ \A q \in Pages : ch \in ChannelsOf(q) => ~Due(q)
    BY <1>4, <1>6, <2>1 DEF Placed, Vacant
  <2>7. Own(ch)' /\ Current(ch)' \notin live'
    <3>1. ToCome(ch)' => ToCome(ch)
      <4>1. ~Awaits(waiting', ch, "pause")
        BY <2>3 DEF Awaits
      <4> QED
        BY <1>0, <1>3, <2>2, <2>3, <4>1 DEF ToCome
    <3>2. count[ch] + (IF ToCome(ch)' THEN 1 ELSE 0) <= 2 - left'[ch] + pauses'
      <4>1. count[ch] + (IF ToCome(ch) THEN 1 ELSE 0) <= 2 - left[ch] + pauses
        BY <1>4, <1>6 DEF Own
      <4>2. count[ch] \in Nat /\ left[ch] \in 0..1
        BY <1>4 DEF PageInv, SttTypeOK
      <4> QED
        BY <1>0, <1>4, <3>1, <4>1, <4>2
    <3>3. /\ Current(ch) \in live /\ live' = live \ {Current(ch)}
          /\ \A n \in Nat : <<ch, n>> \in dying /\ n # sess[ch] => <<ch, n>> \in dying'
      BY <1>0, <1>4, <1>6, <2>1
    <3> QED
      BY <1>0, <1>4, <2>3, <3>2, <3>3, SessionGone
  <2>8. Placed(ch)'
    BY <1>0, <1>3, <2>2, <2>4, <2>6, <2>7 DEF Placed
  <2>9. ASSUME NEW d \in Channels PROVE Own(d)' /\ Placed(d)'
    <3>1. CASE d # ch
      <4>1. \A n \in Nat : <<d, n>> # s
        BY <1>4, <3>1
      <4>2. waiting[d] # <<>> => Current(d) \in live'
        BY <1>0, <1>6, <4>1
      <4>3. ender'["judge"] = "idle" /\ d \in replaying' => ender["judge"] = "idle" /\ d \in replaying
        BY <2>4
      <4>4. Steady(d)
        BY <1>0, <1>3, <2>3, <3>1, <4>1, <4>2, <4>3 DEF Steady
      <4>5. pauses' \in Nat /\ pauses' >= pauses
        BY <1>0, <1>4
      <4> QED
        BY <1>0, <4>4, <4>5, SteadyStays
    <3> QED
      BY <2>7, <2>8, <3>1
  <2>10. WaitsForSomething'
    <3>1. \A d \in Channels : st'[d] = "queued" => st[d] = "queued"
      BY <2>2, <2>3
    <3> QED
      BY <1>0, <2>4, <3>1, StillWoken DEF PageInv
  <2> QED
    BY <1>3, <1>7, <2>5, <2>9, <2>10 DEF PageInv
<1> QED
  BY <1>8, <1>9

LEMMA DisposeKeeps ==
  ASSUME PageInv, Dispose PROVE PageInv'
<1>0. /\ phase' = "disposed" /\ timer' = Null /\ phase # "new"
      /\ dying' = dying \cup {Current(ch) : ch \in WithSession}
      /\ UNCHANGED <<window, queue, req, st, sess, count, live, left, ticket, connecting, waiting, ender, replaying,
                     pauses, crossed, lost, missed>>
  BY DEF Dispose, brokerVars, ending, faults, Running, Loading
<1>1. /\ BrokerInv'
      /\ \A q \in Pages : (Out(q)' => Out(q)) /\ (Due(q)' => Due(q))
      /\ Asking'
  BY <1>0, BrokerSame, AsksSame DEF PageInv
<1>2. /\ dying \subseteq dying' /\ dying' \subseteq live
      /\ \A ch \in Channels : Current(ch) \in live => Current(ch) \in dying'
  BY <1>0 DEF WithSession, PageInv, SttTypeOK
<1>3. SttTypeOK'
  BY <1>0, <1>1, <1>2 DEF PageInv, SttTypeOK, BrokerInv
<1>4. ASSUME NEW ch \in Channels PROVE Own(ch)' /\ Placed(ch)'
  <2>0. /\ Own(ch) /\ Placed(ch) /\ sess[ch] \in Nat /\ count[ch] \in Nat /\ left[ch] \in 0..1 /\ pauses \in Nat
        /\ Current(ch) = <<ch, sess[ch]>> /\ Current(ch)' = Current(ch)
    BY <1>0 DEF PageInv, SttTypeOK, Current
  <2>1. ToCome(ch)' => ToCome(ch)
    BY <1>0, <1>1 DEF ToCome
  <2>2. Own(ch)'
    <3>1. count'[ch] + (IF ToCome(ch)' THEN 1 ELSE 0) <= 2 - left'[ch] + pauses'
      <4>1. count[ch] + (IF ToCome(ch) THEN 1 ELSE 0) <= 2 - left[ch] + pauses
        BY <2>0 DEF Own
      <4> QED
        BY <1>0, <2>0, <2>1, <4>1
    <3>2. ASSUME NEW n \in Nat, <<ch, n>> \in live'
          PROVE  /\ n >= 1 /\ n <= count'[ch]
                 /\ <<ch, n>> \in dying'
      BY <1>0, <1>2, <2>0, <3>2 DEF Own
    <3>3. sess'[ch] <= count'[ch] /\ (waiting'[ch] # <<>> => Current(ch)' \in dying')
      BY <1>0, <1>2, <2>0 DEF Own
    <3> QED
      BY <3>1, <3>2, <3>3 DEF Own
  <2>3. Placed(ch)'
    BY <1>0, <1>1, <2>0, <2>1, PlacedStays
  <2> QED
    BY <2>2, <2>3
<1>5. Unopened' /\ WaitsForSomething'
  BY <1>0 DEF Unopened, WaitsForSomething
<1> QED
  BY <1>1, <1>3, <1>4, <1>5 DEF PageInv

-----------------------------------------------------------------------------
(* Every state of the specification *)

LEMMA PageStarts ==
  ASSUME SttInit PROVE PageInv
<1> USE DEF SttInit
<1>0. /\ NoRequest \in Request /\ NoRequest.pc = "idle"
  BY DEF NoRequest, Request, Sizes, Answers
<1>1. BrokerInv
  <2>1. BrokerTypeOK
    BY <1>0 DEF BrokerTypeOK
  <2>2. \A r \in Requesters : RowsOf(r) = {} /\ TicketsOf(queue, r) = {}
    BY DEF RowsOf, TicketsOf
  <2>3. GrantsCounted
    <3>1. \A r \in Requesters : req[r].pc = "idle"
      BY <1>0
    <3>2. \A r \in Requesters : Cardinality(RowsOf(r)) = 0
      BY <2>2, FS_EmptySet
    <3> QED
      BY <3>1, <3>2 DEF GrantsCounted
  <2>4. QueueOrdered /\ Unserved
    BY <2>2 DEF QueueOrdered, Unserved
  <2> QED
    BY <2>1, <2>3, <2>4 DEF BrokerInv, BrokerSound
<1>2. SttTypeOK
  <2>1. BrokerTypeOK
    BY <1>1 DEF BrokerInv
  <2>2. st \in [Channels -> Status] /\ sess \in [Channels -> Nat] /\ count \in [Channels -> Nat]
    BY DEF Status
  <2>3. left \in [Channels -> 0..1] /\ ender \in [Enders -> {"idle", "closing", "done"} \cup Pages]
    OBVIOUS
  <2>4. waiting \in [Channels -> Seq(Enders \cup {"pause"})]
    <3>1. <<>> \in Seq(Enders \cup {"pause"})
      OBVIOUS
    <3> QED
      BY <3>1
  <2>5. phase \in {"new", "disposed"} \cup Running /\ crossed \in BOOLEAN
    OBVIOUS
  <2>6. /\ pauses \in 0..MaxPauses
        /\ lost \in Nat /\ missed \in Nat /\ lost + missed <= MaxTroubles
    BY ChannelsAssumption
  <2> QED
    BY <2>1, <2>2, <2>3, <2>4, <2>5, <2>6 DEF SttTypeOK
<1>3. \A p \in Pages : ~Due(p)
  BY <1>0, Names DEF Due, Out, TicketsOf
<1>4. ASSUME NEW ch \in Channels PROVE Own(ch) /\ Placed(ch)
  <2>1. Own(ch)
    BY DEF Own
  <2>2. Placed(ch)
    BY <1>3 DEF Placed
  <2> QED
    BY <2>1, <2>2
<1>5. Asking
  BY <1>0, <1>3, Names DEF Asking, Due
<1>6. Unopened
  BY <1>3 DEF Unopened, Enders
<1>7. WaitsForSomething
  BY DEF WaitsForSomething
<1> QED
  BY <1>1, <1>2, <1>4, <1>5, <1>6, <1>7 DEF PageInv

LEMMA PageStutters ==
  ASSUME PageInv, UNCHANGED sttVars PROVE PageInv'
<1>1. /\ UNCHANGED <<req, st, sessions, left, asking, ending, replaying, phase, pauses, crossed, lost, missed>>
      /\ UNCHANGED <<window, queue>>
  BY DEF sttVars, brokerVars, pageVars, faults
<1>2. BrokerInv'
  BY <1>1, BrokerSame DEF PageInv
<1>3. missed' \in Nat /\ lost + missed' <= MaxTroubles
  BY <1>1 DEF PageInv, SttTypeOK
<1> QED
  BY <1>1, <1>2, <1>3, OthersKeep

LEMMA PageSteps ==
  ASSUME PageInv, SttNext PROVE PageInv'
<1>1. CASE Open \/ Start \/ Poll \/ Pause \/ Resume \/ Dispose
  BY <1>1, OpenKeeps, StartKeeps, PollKeeps, PauseKeeps, ResumeKeeps, DisposeKeeps
<1>2. ASSUME NEW p \in Pages, Hears(p) \/ RequestLost(p) PROVE PageInv'
  BY <1>2, HearsNothingKeeps, HearsGrantedKeeps, HearsQueuedKeeps, HearsDeniedKeeps, RequestLostKeeps DEF Hears
<1>3. ASSUME NEW ch \in Channels,
             Connects(ch) \/ ClosesClean(ch) \/ ClosesTransient(ch) \/ ClosesInactive(ch) \/ ClosesFatal(ch)
      PROVE  PageInv'
  BY <1>3, ConnectOpensKeeps, ConnectFailsKeeps, ClosesKeeps, ClosesTransientKeeps DEF Connects
<1>4. ASSUME NEW e \in Enders, TerminateAll(e) \/ Cancelled(e) PROVE PageInv'
  BY <1>4, TerminateAllKeeps, CancelledKeeps
<1>5. ASSUME NEW s \in Sessions, SessionEnds(s) PROVE PageInv'
  BY <1>5, SessionEndsKeeps
<1>6. ASSUME NEW r \in Requesters, Serves(r) PROVE PageInv'
  BY <1>6, ServesKeeps
<1>7. ASSUME NEW v \in Visitors, OthersWait(v) PROVE PageInv'
  BY <1>7, OthersWaitKeeps
<1>8. CASE OthersOpen \/ Clock \/ PageIsLate
  BY <1>8, OthersOpenKeeps, ClockKeeps, PageIsLateKeeps
<1> QED
  BY <1>1, <1>2, <1>3, <1>4, <1>5, <1>6, <1>7, <1>8 DEF SttNext

LEMMA PageAlways == SttSpec => []PageInv
<1>1. SttInit => PageInv
  BY PageStarts
<1>2. PageInv /\ [SttNext]_sttVars => PageInv'
  BY PageSteps, PageStutters
<1> QED
  BY <1>1, <1>2, PTL DEF SttSpec

\* Whatever the others, the network and the provider do, no row of the window is left behind by
\* a grant that failed half way or taken out twice, and the queue of DbLimitsAuthority keeps its
\* order: one place each, reconnects first.
THEOREM BrokerSoundAlways == SttSpec => []BrokerSound
<1>1. PageInv => BrokerSound
  BY DEF PageInv, BrokerInv
<1> QED
  BY <1>1, PageAlways, PTL

\* In LiveSttChannelManager no session at the provider is ever forgotten, none is left running
\* when the page is disposed, and no channel has both its session and its cached replay, however
\* often it pauses and whatever its requests and closes cross.
THEOREM ChannelsSoundAlways == SttSpec => []ChannelsSound
<1>1. ASSUME PageInv PROVE ChannelsSound
  <2>1. SttTypeOK /\ live \subseteq Sessions /\ \A ch \in Channels : Own(ch) /\ Placed(ch)
    BY <1>1 DEF PageInv, SttTypeOK
  <2>2. \A s \in live : s[1] \in Channels /\ s[2] \in Nat /\ s = <<s[1], s[2]>>
    BY <2>1 DEF Sessions
  <2>3. SessionsHeld
    BY <2>1, <2>2 DEF SessionsHeld, Own, Current
  <2>4. DisposedEnds
    BY <2>1, <2>2 DEF DisposedEnds, Own
  <2>5. HeardOnce
    BY <2>1 DEF HeardOnce, Placed, SttTypeOK
  <2> QED
    BY <2>1, <2>3, <2>4, <2>5 DEF ChannelsSound
<1> QED
  BY <1>1, PageAlways, PTL

\* "ONE reconnect per channel" (channel-manager.ts): a session it opens is its first, the one that
\* reconnectsLeft paid for, or the return from a pause.
OneReconnect == \A ch \in Channels : count[ch] <= 1 + (1 - left[ch]) + pauses

\* Each channel opens a session when it is opened, at most once more after a drop, and once per
\* pause, whatever its requests, polls and closes cross.
THEOREM OneReconnectAlways == SttSpec => []OneReconnect
<1>1. ASSUME PageInv PROVE OneReconnect
  <2> SUFFICES ASSUME NEW ch \in Channels PROVE count[ch] <= 1 + (1 - left[ch]) + pauses
    BY DEF OneReconnect
  <2>1. count[ch] \in Nat /\ left[ch] \in 0..1 /\ pauses \in Nat
    BY <1>1 DEF PageInv, SttTypeOK
  <2>2. count[ch] + (IF ToCome(ch) THEN 1 ELSE 0) <= 2 - left[ch] + pauses
    BY <1>1 DEF PageInv, Own
  <2> QED
    BY <2>1, <2>2
<1> QED
  BY <1>1, PageAlways, PTL

\* Whoever was granted its sessions has no ticket left in the queue that would be served again.
GrantedHasLeft ==
  \A r \in Requesters : req[r].pc = "answered" /\ req[r].answer = "granted" => TicketsOf(queue, r) = {}

\* sttAcquire serves no requester twice for one ticket: with the grant its place is gone, and
\* nothing puts it back before the answer is heard.
THEOREM GrantedHasLeftAlways == SttSpec => []GrantedHasLeft
<1>1. PageInv => GrantedHasLeft
  BY DEF PageInv, BrokerInv, Unserved, NeedsNoPlace, GrantedHasLeft
<1> QED
  BY <1>1, PageAlways, PTL

\* A channel of LiveSttChannelManager that waits for its session is always woken by something
\* under way, for as long as no request was lost and no two of the page's requests were out.
THEOREM WaitsForSomethingAlways == SttSpec => []WaitsForSomething
<1>1. PageInv => WaitsForSomething
  BY DEF PageInv
<1> QED
  BY <1>1, PageAlways, PTL

LEMMA NotLonger ==
  ASSUME NEW T, NEW v \in Seq(T), NEW w \in Seq(T), NEW h, Embeds(v, w, h)
  PROVE  Len(v) <= Len(w)
<1> DEFINE A == 1..Len(v)
<1> DEFINE B == 1..Len(w)
<1>1. Len(v) \in Nat /\ Len(w) \in Nat /\ DOMAIN v = A /\ DOMAIN w = B
  OBVIOUS
<1>2. IsFiniteSet(B) /\ Cardinality(A) = Len(v) /\ Cardinality(B) = Len(w)
  <2>1. \A n \in Nat : IsFiniteSet(1..n) /\ Cardinality(1..n) = n
    <3> SUFFICES ASSUME NEW n \in Nat PROVE IsFiniteSet(1..n) /\ Cardinality(1..n) = n
      OBVIOUS
    <3>1. IsFiniteSet(1..n) /\ Cardinality(1..n) = IF 1 > n THEN 0 ELSE n - 1 + 1
      BY FS_Interval
    <3> QED
      BY <3>1
  <2> QED
    BY <1>1, <2>1
<1>3. h \in Injection(A, B)
  <2>1. h \in [A -> B] /\ \A i, j \in A : i < j => h[i] < h[j]
    BY <1>1 DEF Embeds
  <2>2. ASSUME NEW i \in A, NEW j \in A, h[i] = h[j] PROVE i = j
    <3>1. i < j \/ j < i \/ i = j
      OBVIOUS
    <3>2. h[i] \in Nat
      BY <2>1
    <3>3. ~(h[i] < h[j]) /\ ~(h[j] < h[i])
      BY <2>2, <3>2
    <3> QED
      BY <2>1, <3>1, <3>3
  <2> HIDE DEF A, B
  <2> QED
    BY <2>1, <2>2 DEF Injection, IsInjective
<1> HIDE DEF A, B
<1> QED
  BY <1>2, <1>3, FS_Injection

\* STT_OPENS_PER_MIN opens a minute, and one more that a reconnect may take.
WindowLimited == Len(window) <= Opens + 1

LEMMA HandleLimited ==
  ASSUME BrokerInv, WindowLimited, NEW r \in Requesters, Handle(r) PROVE WindowLimited'
<1> DEFINE W == Requesters \cup {Null}
<1>0. window \in Seq(W) /\ Len(window) \in Nat /\ Opens \in Nat /\ req[r].n \in Nat
  BY BrokerAssumption DEF BrokerInv, BrokerTypeOK, Request, Sizes
<1> HIDE DEF W
<1>1. CASE IsRefused(r) \/ TurnAway(r) \/ Enqueue(r)
  BY <1>1 DEF IsRefused, TurnAway, Enqueue, WindowLimited
<1>2. CASE Grant(r)
  <2> DEFINE g == [i \in 1..req[r].n |-> r]
  <2>1. window' = window \o g /\ Len(window) + req[r].n <= Limit(r)
    BY <1>2 DEF Grant
  <2>2. g \in Seq({r}) /\ Len(g) = req[r].n
    BY <1>0
  <2> HIDE DEF g
  <2>3. Len(window') = Len(window) + req[r].n
    BY <1>0, <2>1, <2>2
  <2>4. Limit(r) <= Opens + 1
    BY <1>0 DEF Limit, LimitFor
  <2>5. Limit(r) \in Nat
    BY <1>0 DEF Limit, LimitFor
  <2> QED
    BY <1>0, <2>1, <2>3, <2>4, <2>5 DEF WindowLimited
<1>3. CASE GiveBack(r)
  <2>1. window' = ReleaseAll(r)
    BY <1>3 DEF GiveBack
  <2>2. window' \in Seq(W) /\ \E h : Embeds(window', window, h)
    BY <1>0, <2>1, KeptEmbeds DEF ReleaseAll
  <2>3. Len(window') <= Len(window) /\ Len(window') \in Nat
    BY <1>0, <2>2, NotLonger
  <2> QED
    BY <1>0, <2>3 DEF WindowLimited
<1>4. CASE Issue(r)
  <2>1. window' = [i \in 1..Len(window) |-> IF window[i] = r THEN Null ELSE window[i]]
    BY <1>0, <1>4 DEF Issue
  <2>2. Len(window') = Len(window)
    BY <1>0, <2>1
  <2> QED
    BY <2>2 DEF WindowLimited
<1> QED
  BY <1>1, <1>2, <1>3, <1>4 DEF Handle

LEMMA WindowSteps ==
  ASSUME PageInv, WindowLimited, SttNext PROVE WindowLimited'
<1>0. BrokerInv /\ Opens \in Nat /\ window \in Seq(Requesters \cup {Null})
  BY BrokerAssumption DEF PageInv, BrokerInv, BrokerTypeOK
<1>1. CASE Open \/ Start \/ Pause \/ Resume \/ Dispose
  BY <1>1 DEF Open, Start, Pause, Resume, Dispose, Ask, AskAgain, brokerVars, WindowLimited
<1>2. CASE Poll
  BY <1>2 DEF Poll, Ask, brokerVars, WindowLimited
<1>3. ASSUME NEW p \in Pages, Hears(p) \/ RequestLost(p) PROVE WindowLimited'
  BY <1>3 DEF Hears, HearsNothing, HearsGranted, HearsQueued, HearsDenied, TakesAnswer, RequestLost, WindowLimited
<1>4. ASSUME NEW ch \in Channels,
             Connects(ch) \/ ClosesClean(ch) \/ ClosesTransient(ch) \/ ClosesInactive(ch) \/ ClosesFatal(ch)
      PROVE  WindowLimited'
  BY <1>4 DEF Connects, ConnectOpens, ConnectFails, ClosesClean, ClosesTransient, ClosesInactive, ClosesFatal,
              AskAgain, Ask, brokerVars, WindowLimited
<1>5. ASSUME NEW e \in Enders, TerminateAll(e) \/ Cancelled(e) PROVE WindowLimited'
  BY <1>5 DEF TerminateAll, Cancelled, brokerVars, WindowLimited
<1>6. ASSUME NEW s \in Sessions, SessionEnds(s) PROVE WindowLimited'
  BY <1>6 DEF SessionEnds, brokerVars, WindowLimited
<1>7. ASSUME NEW r \in Requesters, Serves(r) PROVE WindowLimited'
  BY <1>0, <1>7, HandleLimited DEF Serves
<1>8. ASSUME NEW v \in Visitors, OthersWait(v) PROVE WindowLimited'
  BY <1>8 DEF OthersWait, WindowLimited
<1>9. CASE OthersOpen
  <2>1. window' = Append(window, Null) /\ Len(window) < Opens
    BY <1>9 DEF OthersOpen
  <2>2. Len(window') = Len(window) + 1 /\ Len(window) \in Nat
    BY <1>0, <2>1
  <2> QED
    BY <1>0, <2>1, <2>2 DEF WindowLimited
<1>10. CASE Clock \/ PageIsLate
  <2>1. CASE Slides
    <3>1. window' = Tail(window) /\ window # <<>>
      BY <2>1 DEF Slides
    <3>2. Len(window) \in Nat /\ Len(window') = Len(window) - 1
      BY <1>0, <3>1
    <3> QED
      BY <1>0, <3>2 DEF WindowLimited
  <2>2. ASSUME NEW r, MissesPolls(r) PROVE WindowLimited'
    BY <2>2 DEF MissesPolls, WindowLimited
  <2> QED
    BY <1>10, <2>1, <2>2 DEF Clock, PageIsLate
<1> QED
  BY <1>1, <1>2, <1>3, <1>4, <1>5, <1>6, <1>7, <1>8, <1>9, <1>10 DEF SttNext

\* However many ask, give back and reconnect at once, no more rows than the limit and the one
\* open it leaves for reconnects are in the window: sttAcquire decides under the broker's lock.
THEOREM WindowLimitedAlways == SttSpec => []WindowLimited
<1>1. SttInit => WindowLimited
  BY BrokerAssumption DEF SttInit, WindowLimited
<1>2. PageInv /\ WindowLimited /\ [SttNext]_sttVars => WindowLimited'
  <2>1. UNCHANGED sttVars => UNCHANGED window
    BY DEF sttVars, brokerVars
  <2> QED
    BY <2>1, WindowSteps DEF WindowLimited
<1> QED
  BY <1>1, <1>2, PageAlways, PTL DEF SttSpec
=============================================================================
