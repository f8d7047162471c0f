----------------------------- MODULE PassLedger -----------------------------
(***************************************************************************)
(* What the takeover service promises of the passes of a call, whatever    *)
(* its handlers, the tools of the AI half and the sweeper do: a call opens *)
(* at most MaxPerCase passes; a pass freezes the case at most once, and    *)
(* what it froze never changes; a pass gets one outcome, never another,    *)
(* and is metered with it, together or not at all.                         *)
(***************************************************************************)
EXTENDS Naturals, FiniteSets

CONSTANTS
  Passes,      \* passes of the baton (takeovers)
  Calls,       \* calls (cases)
  CallOf,      \* the call of each pass
  MaxPerCase,  \* MAX_TAKEOVERS_PER_CASE
  Frozen,      \* what a freeze may keep
  Outcomes,    \* the outcomes of a pass
  None         \* not yet

VARIABLES
  opened,      \* the passes that were opened
  frozen,      \* the snapshot of each pass
  outcome,     \* the outcome of each pass
  metered      \* the passes with run.completed and usage rows

vars == <<opened, frozen, outcome, metered>>

OpenedOf(c) == {p \in opened : CallOf[p] = c}

Init ==
  /\ opened = {}
  /\ frozen = [p \in Passes |-> None]
  /\ outcome = [p \in Passes |-> None]
  /\ metered = {}

Open(p) ==
  /\ p \notin opened
  /\ Cardinality(OpenedOf(CallOf[p])) < MaxPerCase
  /\ opened' = opened \cup {p}
  /\ UNCHANGED <<frozen, outcome, metered>>

Freeze(p, f) ==
  /\ p \in opened
  /\ frozen[p] = None
  /\ frozen' = [frozen EXCEPT ![p] = f]
  /\ UNCHANGED <<opened, outcome, metered>>

Finish(p, o) ==
  /\ p \in opened
  /\ outcome[p] = None
  /\ outcome' = [outcome EXCEPT ![p] = o]
  /\ metered' = metered \cup {p}
  /\ UNCHANGED <<opened, frozen>>

Next ==
  \E p \in Passes :
    \/ Open(p)
    \/ \E f \in Frozen : Freeze(p, f)
    \/ \E o \in Outcomes : Finish(p, o)

Spec == Init /\ [][Next]_vars
=============================================================================
