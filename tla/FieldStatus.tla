---------------------------- MODULE FieldStatus ----------------------------
(***************************************************************************)
(* The status of one field of a case, computed from the facts heard about  *)
(* it (deriveField, isLate and the verifier's overlay), and what it        *)
(* promises of every conversation of up to MaxFacts facts.                 *)
(*                                                                         *)
(* A value is a non-empty set of words.  Two values are compatible when    *)
(* they are equal; for a name, also when one is part of the other, and the *)
(* longer one is kept.  A statement and a read-back differ only in the     *)
(* wording of the reason and are one kind here.  Facts of the policy       *)
(* record, which nothing in src/ creates, the range of the effective date, *)
(* the age computed from the date of birth and the evidence are left out.  *)
(***************************************************************************)
EXTENDS Naturals, Sequences, FiniteSets

CONSTANTS
  None,           \* null
  Says,           \* Says[field]: the values that are said of a field
  NameFields,     \* fields in which a part of a value is compatible with it
  RepOnlyFields,  \* fields that only the representative may give
  MaxFacts        \* bound: MaxFacts[field], the facts of a conversation about it

Fields == DOMAIN Says

ASSUME FieldAssumption ==
  /\ NameFields \cup RepOnlyFields \subseteq Fields /\ MaxFacts \in [Fields -> Nat]
  /\ \A field \in Fields :
       None \notin Says[field] /\ {} \notin Says[field] /\ \A v \in Says[field] : IsFiniteSet(v)

-----------------------------------------------------------------------------
(* The loop over the facts *)

\* A fact is a record of the field, the kind, the party on whose channel it was heard,
\* the value, the turn it was heard in, the turn an acknowledgement is of, and whether
\* the turn was cut off or ended after the point at which the call was passed on.
Gives(f) == f.kind \in {"stated", "corrected"}

Compatible(field, a, b) == a = b \/ (field \in NameFields /\ (a \subseteq b \/ b \subseteq a))
Longer(a, b) == IF Cardinality(b) > Cardinality(a) THEN b ELSE a

\* The value held, who gave it, the facts that support it, the one (if any) that confirms it,
\* and what stands against it.
Nothing == [value |-> None, party |-> None, supports |-> {}, confirmed |-> {},
            contested |-> FALSE, denied |-> FALSE, byAi |-> FALSE]

Known(s)         == s.value # None
Agrees(s, f)     == Known(s) /\ Compatible(f.field, s.value, f.value)
OtherParty(s, f) == s.party # f.party

\* Mutant: the new value keeps the confirmation of the old one.
HeldConfirmed(s, f) == [s EXCEPT !.value = f.value, !.party = f.party, !.supports = {f}, !.denied = FALSE]
Held(s, f) ==
  [s EXCEPT !.value = f.value, !.party = f.party, !.supports = {f}, !.confirmed = {}, !.denied = FALSE]

\* A value that does not agree replaces the one held when it is a correction, when
\* nothing was held, when that is not confirmed, or when its own party says it.
Replaces(s, f) == f.kind = "corrected" \/ ~Known(s) \/ s.confirmed = {} \/ ~OtherParty(s, f)

\* The other party's contradiction is a conflict even when it replaces the value, and
\* only a correction takes a conflict away.
Contested(s, f) == f.kind # "corrected" /\ (s.contested \/ (Known(s) /\ OtherParty(s, f)))

AfterOther(s, f) == [IF Replaces(s, f) THEN Held(s, f) ELSE s EXCEPT !.contested = Contested(s, f)]

\* A value that agrees supports the one held, and confirms it for the other party.
AfterSame(s, f) ==
  [s EXCEPT !.supports = @ \cup {f}, !.value = Longer(@, f.value),
            !.confirmed = IF @ = {} /\ OtherParty(s, f) THEN {f} ELSE @]

\* An acknowledgement by the other party, of the value held or of a turn that supports it.
Acknowledges(s, f) ==
  /\ Known(s) /\ OtherParty(s, f)
  /\ f.value = None \/ Agrees(s, f)
  /\ f.of = None \/ \E g \in s.supports : g.turn = f.of

AfterAck(s, f) == [s EXCEPT !.confirmed = IF @ = {} /\ Acknowledges(s, f) THEN {f} ELSE @]

AfterDenial(s, f) ==
  IF Known(s) /\ OtherParty(s, f) THEN [s EXCEPT !.denied = TRUE, !.confirmed = {}] ELSE s

\* A value the AI set with a tool.
AfterTool(s, f) == [Held(s, f) EXCEPT !.confirmed = {f}, !.byAi = TRUE, !.contested = FALSE]

AfterFact(s, f) ==
  CASE Gives(f) /\ Agrees(s, f)  -> AfterSame(s, f)
    [] Gives(f) /\ ~Agrees(s, f) -> AfterOther(s, f)
    [] f.kind = "ack"            -> AfterAck(s, f)
    [] f.kind = "denied"         -> AfterDenial(s, f)
    [] f.kind = "tool_update"    -> AfterTool(s, f)

\* After(facts)[n]: the state after n facts.
After(facts) ==
  LET after[n \in 0..Len(facts)] == IF n = 0 THEN Nothing ELSE AfterFact(after[n-1], facts[n])
  IN  after

Heard(facts) == After(facts)[Len(facts)]

-----------------------------------------------------------------------------
(* The status *)

\* Mutant: only the statements are asked for, not the fact that confirms them.
UntrustedValue(s) == \E f \in s.supports : f.late
Untrusted(s) == \E f \in s.supports \cup s.confirmed : f.late

\* Mutant: the opinion is compared with each statement, not with the value they gave together.
DisagreesWithAll(field, s, opinion) ==
  opinion # None /\ \A f \in s.supports : ~Compatible(field, f.value, opinion)
Disagrees(field, s, opinion) == opinion # None /\ ~Compatible(field, s.value, opinion)

GivenByRep(s) == \E f \in s.supports : f.party \in {"rep", "ai"}

\* Why the value held is PENDING, in the order of the code, or that it is VERIFIED.
Reason(field, s, opinion) ==
  CASE field \in RepOnlyFields /\ ~GivenByRep(s)   -> "rep_only_violation"
    [] s.contested /\ ~s.byAi                      -> "conflict"
    [] s.denied                                    -> "denied"
    [] s.confirmed = {}                            -> "stated_once"
    [] ~s.byAi /\ Untrusted(s)                     -> "late_turn"
    [] ~s.byAi /\ Disagrees(field, s, opinion)     -> "verifier_disagrees"
    [] OTHER                                       -> "verified"

\* The state of the field; opinion is the value of the verifier's latest run, or None.
Derived(field, facts, opinion) ==
  LET s == Heard(facts)
  IN  IF Known(s)
      THEN LET r == Reason(field, s, opinion)
           IN  [status |-> IF r = "verified" THEN "VERIFIED" ELSE "PENDING", reason |-> r,
                value |-> s.value, source |-> s.party]
      ELSE IF opinion # None
      THEN [status |-> "PENDING", reason |-> "verifier_only", value |-> opinion, source |-> "verifier"]
      ELSE [status |-> "MISSING", reason |-> "absent", value |-> None, source |-> None]

-----------------------------------------------------------------------------
(* Conversations *)

Sides == {"rep", "customer"}

Fact(field, turn, kind, party, value, of) ==
  [field |-> field, turn |-> turn, kind |-> kind, party |-> party, value |-> value, of |-> of, late |-> FALSE]

\* The fact of turn t, which may acknowledge an earlier turn.
Facts(field, t) ==
       {Fact(field, t, k, p, v, None) : k \in {"stated", "corrected"}, p \in Sides, v \in Says[field]}
  \cup {Fact(field, t, "denied", p, None, None) : p \in Sides}
  \cup {Fact(field, t, "ack", p, v, None) : p \in Sides, v \in {None} \cup Says[field]}
  \cup {Fact(field, t, "ack", p, None, of) : p \in Sides, of \in 1..(t-1)}

\* The conversations there are, and those of n facts.
OneMore(field, talks, n) ==
  talks \cup {Append(fs, f) : fs \in {gs \in talks : Len(gs) = n - 1}, f \in Facts(field, n)}

\* The conversations of up to MaxFacts facts.
Talks(field) ==
  LET talks[n \in 0..MaxFacts[field]] == IF n = 0 THEN {<<>>} ELSE OneMore(field, talks[n-1], n)
  IN  talks[MaxFacts[field]]

\* The conversation when the call is passed on after its turn arm.
PassedOn(fs, arm) == [i \in DOMAIN fs |-> [fs[i] EXCEPT !.late = i > arm]]

\* The AI sets the field after the conversation.
SetByAi(field, fs, v) == Append(fs, Fact(field, None, "tool_update", "ai", v, None))

-----------------------------------------------------------------------------
(* What the rules promise *)

ByHumans(d) == d.status = "VERIFIED" /\ d.source \in Sides

\* The turns in which somebody gave a value that contradicts v.
Against(field, fs, v) == {k \in DOMAIN fs : Gives(fs[k]) /\ ~Compatible(field, fs[k].value, v)}

\* Since anybody gave another value, the source gave this one, the other party then
\* confirmed it, and has not denied it after the source gave it.
BothAgree(field, fs, d) ==
  \E i, j \in DOMAIN fs :
    /\ i < j /\ \A k \in Against(field, fs, d.value) : k < i
    /\ Gives(fs[i]) /\ fs[i].party = d.source
    /\ Gives(fs[j]) \/ fs[j].kind = "ack"
    /\ fs[j].party # d.source
    /\ \A k \in i..Len(fs) : fs[k].kind = "denied" => fs[k].party = d.source

\* Two values given before turn l speak of one value when a value given then agrees with both.
Linked(field, fs, l, h, k) ==
  \E m \in 1..(l-1) : /\ Gives(fs[m]) /\ Compatible(field, fs[h].value, fs[m].value)
                      /\ Compatible(field, fs[m].value, fs[k].value)

\* A plain statement against the last value given, and against all that was said of that
\* value, by the party that had no part in it, is settled by nothing but a later correction.
ContestSettled(field, fs) ==
  \A l \in DOMAIN fs : \A k \in 1..(l-1) :
    /\ fs[l].kind = "stated" /\ Gives(fs[k]) /\ \A h \in (k+1)..(l-1) : ~Gives(fs[h])
    /\ \A h \in 1..(l-1) : Gives(fs[h]) /\ Linked(field, fs, l, h, k)
                           => fs[h].party # fs[l].party /\ ~Compatible(field, fs[h].value, fs[l].value)
    => \E r \in (l+1)..Len(fs) : fs[r].kind = "corrected"

\* VERIFIED without the AI means that both parties agreed on the value and that no
\* contradiction between them stands; a field that only the representative may give was
\* given by the representative (deriveField).
AgreedRule ==
  \A field \in Fields : \A fs \in Talks(field) :
    LET d == Derived(field, fs, None)
    IN  ByHumans(d) =>
          /\ BothAgree(field, fs, d) /\ ContestSettled(field, fs)
          /\ field \in RepOnlyFields => \E k \in DOMAIN fs : Gives(fs[k]) /\ fs[k].party = "rep"

\* After the call is passed on a field is VERIFIED only if it was before, by what was said
\* before, with the same value (the late and cut rule of deriveField).
LateRule ==
  \A field \in Fields : \A fs \in Talks(field) : \A arm \in 0..(Len(fs)-1) :
    LET d     == Derived(field, PassedOn(fs, arm), None)
        early == Derived(field, SubSeq(fs, 1, arm), None)
    IN  ByHumans(d) => early.status = "VERIFIED" /\ early.value = d.value

\* The verifier's opinion changes no value that was heard and makes nothing VERIFIED; a
\* field nobody gave it fills in as PENDING; and what the AI set stands against it and
\* against every conflict and denial before (verifierDisagrees, verifier_only, tool_update).
OverlayRule ==
  \A field \in Fields : \A fs \in Talks(field) :
    LET alone == Derived(field, fs, None)
    IN  \A v \in Says[field] :
          LET d == Derived(field, fs, v)
          IN  /\ alone.status = "MISSING" => d.status = "PENDING"
              /\ alone.status # "MISSING" => d.value = alone.value
              /\ d.status = "VERIFIED" => alone.status = "VERIFIED" /\ Compatible(field, d.value, v)
              /\ \A w \in Says[field] \ {v} :
                   LET set == Derived(field, SetByAi(field, fs, w), v)
                   IN  set.status = "VERIFIED" /\ set.value = w /\ set.source = "ai"
=============================================================================
