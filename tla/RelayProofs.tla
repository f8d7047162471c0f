------------------------- MODULE RelayProofs -------------------------
(***************************************************************************)
(* Proofs about a relay.  Publishing, for any number of requests: the      *)
(* types, that a live share link has its agent, that republishes never     *)
(* break a link that works, and that requests which came one at a time     *)
(* leave nothing on the account that no row counts.  StudioDraft, for any  *)
(* set of texts and any number of late saves: what the bar says and the    *)
(* browser keeps is sound, and no save replaces a draft its author does    *)
(* not know of.                                                            *)
(***************************************************************************)
EXTENDS Publishing, StudioDraft, FiniteSetTheorems, SequenceTheorems, TLAPS

Holds(r, a) == rows[r].st \in {"creating", "live"} /\ rows[r].agent = a

Retiring == {"swapped", "published", "deleting", "gone", "kept"}
Deleting == {"deleting", "gone", "kept"}

\* The type of the requests, with the rows and the agents there are so far.
Request(n, k) ==
  [pc: Steps, row: 0..n, fresh: BOOLEAN, agent: 1..k \cup {None}, old: 1..k \cup {None},
   tomb: 0..n, unpublish: BOOLEAN]

Row(k) == [st: Statuses, agent: 1..k \cup {None}, gone: BOOLEAN]

\* Requests that made their agent, or never will.
Made == {p \in Publishes : at[p].pc \notin {"idle", "checked", "found", "placed"}}

Typed ==
  /\ made \in Nat /\ rows \in Seq(Row(made))
  /\ relay \in [st: {"draft", "published"}, removed: BOOLEAN]
  /\ agents \subseteq 1..made /\ taken \subseteq 1..made
  /\ at \in [Requests -> Request(Len(rows), made)]
  /\ mixed \in BOOLEAN

\* Each publish makes one agent at most.
OneEach == made <= Cardinality(Made)

\* A request that writes a row has one; until it found its row it has nothing to retire.
Placed ==
  /\ \A p \in Publishes :
       /\ at[p].pc \in {"placed", "created", "refused"} => at[p].row \in 1..Len(rows)
       /\ at[p].pc = "found" /\ ~at[p].fresh => at[p].row \in 1..Len(rows)
       /\ at[p].pc \in {"idle", "checked"} => at[p].old = None /\ ~at[p].fresh
       /\ at[p].fresh => at[p].old = None
  /\ \A x \in Requests : at[x].pc \in Deleting => at[x].tomb \in 1..Len(rows)

\* Until the swap, the new agent is known to its publish only.
Unknown ==
  \A p \in Publishes : at[p].pc = "created" =>
    /\ at[p].agent \in agents
    /\ \A r \in 1..Len(rows) : rows[r].agent # at[p].agent
    /\ \A x \in Requests : at[x].old # at[p].agent
    /\ \A q \in Publishes \ {p} : at[q].pc = "created" => at[q].agent # at[p].agent

\* One row holds an agent, and the agent a publish will retire is in no other row
\* than the one it swaps, and in none after the swap.
OneHolder ==
  \A r, q \in 1..Len(rows) : \A a \in 1..made : Holds(r, a) /\ Holds(q, a) => r = q

Given ==
  \A p \in Publishes, r \in 1..Len(rows) : at[p].old # None /\ Holds(r, at[p].old) =>
    /\ at[p].pc \in {"found", "placed", "created"} => r = at[p].row
    /\ at[p].pc \notin Retiring

\* A tombstone is not live, and no publish swaps it.
Tombs ==
  \A p \in Publishes : at[p].pc \in Deleting =>
    /\ ~Live(at[p].tomb)
    /\ \A q \in Publishes : at[q].pc \in {"placed", "created"} \/ (at[q].pc = "found" /\ ~at[q].fresh)
                              => at[q].row # at[p].tomb

PublishInv == Typed /\ OneEach /\ Placed /\ Unknown /\ OneHolder /\ Given /\ Tombs /\ LiveAgentExists

-----------------------------------------------------------------------------

LEMMA PublishInit ==
  ASSUME Init
  PROVE  PublishInv
<1>1. rows = <<>> /\ Len(rows) = 0 /\ made = 0 /\ at = [x \in Requests |-> Rest("idle")]
  BY DEF Init
<1>2. Typed
  <2>1. rows \in Seq(Row(made))
    BY <1>1, EmptySeq
  <2>2. Rest("idle") \in Request(0, 0)
    BY DEF Rest, Request, Steps
  <2>3. at \in [Requests -> Request(Len(rows), made)]
    BY <1>1, <2>2
  <2>4. made \in Nat /\ agents \subseteq 1..made /\ taken \subseteq 1..made /\ mixed \in BOOLEAN
        /\ relay \in [st: {"draft", "published"}, removed: BOOLEAN]
    BY DEF Init
  <2> QED
    BY <2>1, <2>3, <2>4 DEF Typed
<1>3. OneEach
  <2>1. Made \subseteq Publishes /\ IsFiniteSet(Publishes)
    BY PublishingAssumption, FS_Subset DEF Made, Requests
  <2>2. Cardinality(Made) \in Nat
    BY <2>1, FS_Subset, FS_CardinalityType
  <2> QED
    BY <1>1, <2>2 DEF OneEach
<1>4. \A x \in Requests : at[x].pc = "idle" /\ at[x].old = None /\ ~at[x].fresh
  BY <1>1 DEF Rest
<1>5. Placed /\ Unknown /\ OneHolder /\ Given /\ Tombs /\ LiveAgentExists
  BY <1>1, <1>4 DEF Placed, Unknown, OneHolder, Given, Tombs, LiveAgentExists, Deleting, Requests
<1> QED
  BY <1>2, <1>3, <1>5 DEF PublishInv

-----------------------------------------------------------------------------
(* Steps that change their request only. *)

\* What the actions leave of the shared state.
Quiet == UNCHANGED <<rows, agents, made, taken>>

Shared == relay' \in [st: {"draft", "published"}, removed: BOOLEAN] /\ mixed' \in BOOLEAN

LEMMA MadeGrows ==
  ASSUME PublishInv, made' = made, Made \subseteq Made'
  PROVE  OneEach'
<1>1. IsFiniteSet(Publishes) /\ Made' \subseteq Publishes
  BY PublishingAssumption, FS_Subset DEF Made, Requests
<1>2. IsFiniteSet(Made') /\ IsFiniteSet(Made)
  BY <1>1, FS_Subset
<1>3. /\ Cardinality(Made) <= Cardinality(Made')
      /\ Cardinality(Made) \in Nat /\ Cardinality(Made') \in Nat
  BY <1>2, FS_Subset, FS_CardinalityType
<1> QED
  BY <1>3 DEF PublishInv, Typed, OneEach

\* A new agent is an agent.
LEMMA NewAgent ==
  ASSUME PublishInv, NEW p \in Publishes, at[p].pc = "created"
  PROVE  at[p].agent \in 1..made /\ at[p].agent # None
<1>1. at[p].agent \in agents /\ agents \subseteq 1..made /\ made \in Nat
  BY DEF PublishInv, Typed, Unknown
<1>2. at[p].agent \in 1..made
  BY <1>1
<1>3. at[p].agent \in Nat
  BY <1>1, <1>2
<1> QED
  BY <1>2, <1>3, PublishingAssumption

\* Rows are left alone or taken down, and keep their agents.
RowsDown ==
  /\ rows' \in Seq(Row(made)) /\ Len(rows') = Len(rows)
  /\ \A r \in 1..Len(rows) :
       /\ rows'[r].agent = rows[r].agent
       /\ rows'[r] = rows[r] \/ rows'[r].st \in {"failed", "deleting", "deleted"}

LEMMA RowsLeft ==
  ASSUME PublishInv, UNCHANGED rows
  PROVE  RowsDown
BY DEF PublishInv, Typed, RowsDown

LEMMA RowTakenDown ==
  ASSUME PublishInv, NEW r \in 1..Len(rows), NEW new \in Row(made), rows' = [rows EXCEPT ![r] = new],
         new.agent = rows[r].agent, new.st \in {"failed", "deleting", "deleted"}
  PROVE  RowsDown
<1>1. rows \in Seq(Row(made))
  BY DEF PublishInv, Typed
<1>2. rows' \in Seq(Row(made)) /\ Len(rows') = Len(rows)
      /\ rows'[r] = new /\ \A q \in 1..Len(rows) \ {r} : rows'[q] = rows[q]
  BY <1>1, ExceptSeq
<1> QED
  BY <1>2 DEF RowsDown

\* A request ends, or only has the relay to mark.
LEMMA EndsKeeps ==
  ASSUME PublishInv, NEW x \in Requests, Ends(x) \/ Go(x, "unmark"),
         RowsDown, UNCHANGED <<agents, made, taken>>, Shared
  PROVE  PublishInv'
<1>1. /\ at \in [Requests -> Request(Len(rows), made)] /\ rows \in Seq(Row(made)) /\ made \in Nat
      /\ rows' \in Seq(Row(made)) /\ Len(rows') = Len(rows)
      /\ agents' = agents /\ made' = made /\ taken' = taken
  BY DEF PublishInv, Typed, RowsDown
<1>2. \A r \in 1..Len(rows) :
        /\ rows'[r].agent = rows[r].agent
        /\ rows'[r] = rows[r] \/ rows'[r].st \notin {"creating", "live"}
  BY DEF RowsDown
<1>3. Rest("done") \in Request(Len(rows), made)
  BY <1>1, LenProperties DEF Rest, Request, Steps
<1>4. /\ at' \in [Requests -> Request(Len(rows), made)]
      /\ \A y \in Requests \ {x} : at'[y] = at[y]
      /\ at'[x].pc \in {"done", "unmark"} /\ at'[x].old \in {None, at[x].old}
      /\ x \in Publishes /\ at'[x].fresh => at'[x].old = None
  <2>1. CASE Ends(x)
    BY <1>1, <1>3, <2>1 DEF Ends, Rest
  <2>2. CASE Go(x, "unmark")
    <3>1. at' = [at EXCEPT ![x].pc = "unmark"]
      BY <2>2 DEF Go
    <3>2. at'[x].fresh = at[x].fresh /\ at'[x].old = at[x].old
      BY <1>1, <3>1
    <3> QED
      BY <1>1, <3>1, <3>2 DEF Request, Steps, PublishInv, Placed
  <2> QED
    BY <2>1, <2>2
<1>5. Typed'
  BY <1>1, <1>4 DEF PublishInv, Typed, Shared
<1>6. Made \subseteq Made'
  BY <1>4 DEF Made, Requests
<1>7. Placed'
  BY <1>1, <1>4 DEF PublishInv, Placed, Deleting, Requests
<1>8. Unknown'
  <2>1. Unknown /\ \A q \in Publishes : at[q].pc = "created" => at[q].agent # None
    BY <1>1, NewAgent DEF PublishInv
  <2> QED
    BY <1>1, <1>2, <1>4, <2>1 DEF Unknown, Requests
<1>9. OneHolder'
  BY <1>1, <1>2 DEF PublishInv, OneHolder, Holds
<1>10. Given'
  BY <1>1, <1>2, <1>4 DEF PublishInv, Given, Holds, Retiring, Requests
<1>11. Tombs'
  BY <1>1, <1>2, <1>4 DEF PublishInv, Placed, Tombs, Live, Standing, Deleting, Requests
<1>12. LiveAgentExists'
  BY <1>1, <1>2 DEF PublishInv, LiveAgentExists, Standing
<1> QED
  BY <1>1, <1>5, <1>6, <1>7, <1>8, <1>9, <1>10, <1>11, <1>12, MadeGrows DEF PublishInv

\* The request of a publish goes on, and asks for nothing that is not there.
LEMMA GoesOn ==
  ASSUME PublishInv, NEW x \in Requests, NEW pc \in Steps, Go(x, pc), Quiet, Shared,
         \/ at[x].pc = "idle" /\ pc = "checked"
         \/ at[x].pc = "found" /\ pc = "placed" /\ ~at[x].fresh
         \/ at[x].pc = "placed" /\ pc = "refused"
         \/ at[x].pc = "swapped" /\ pc = "published"
  PROVE  PublishInv'
<1>1. /\ at \in [Requests -> Request(Len(rows), made)] /\ rows \in Seq(Row(made)) /\ made \in Nat
      /\ at' = [at EXCEPT ![x].pc = pc]
      /\ rows' = rows /\ agents' = agents /\ made' = made /\ taken' = taken
  BY DEF PublishInv, Typed, Go, Quiet
<1>3. /\ at' \in [Requests -> Request(Len(rows), made)]
      /\ \A y \in Requests \ {x} : at'[y] = at[y]
      /\ at'[x].pc = pc /\ at'[x].old = at[x].old /\ at'[x].fresh = at[x].fresh
      /\ at'[x].row = at[x].row /\ at'[x].tomb = at[x].tomb /\ at'[x].agent = at[x].agent
  BY <1>1 DEF Request
<1>4. Typed'
  BY <1>1, <1>3 DEF PublishInv, Typed, Shared
<1>5. Made \subseteq Made'
  BY <1>3 DEF Made, Requests
<1>6. Placed'
  BY <1>1, <1>3 DEF PublishInv, Placed, Deleting, Requests
<1>7. Unknown'
  BY <1>1, <1>3 DEF PublishInv, Unknown, Requests
<1>8. OneHolder'
  BY <1>1 DEF PublishInv, OneHolder, Holds
<1>9. Given'
  BY <1>1, <1>3 DEF PublishInv, Given, Placed, Holds, Retiring, Requests
<1>10. Tombs'
  BY <1>1, <1>3 DEF PublishInv, Tombs, Live, Standing, Deleting, Requests
<1>11. LiveAgentExists'
  BY <1>1 DEF PublishInv, LiveAgentExists, Standing
<1> QED
  BY <1>1, <1>4, <1>5, <1>6, <1>7, <1>8, <1>9, <1>10, <1>11, MadeGrows DEF PublishInv

-----------------------------------------------------------------------------
(* Steps of a publish that write. *)

LEMMA FindStep ==
  ASSUME PublishInv, NEW p \in Publishes, Find(p)
  PROVE  PublishInv'
<1>1. /\ at \in [Requests -> Request(Len(rows), made)] /\ rows \in Seq(Row(made)) /\ made \in Nat
      /\ at[p].pc = "checked" /\ at[p].old = None /\ ~at[p].fresh /\ p \in Requests
      /\ rows' = rows /\ agents' = agents /\ made' = made /\ taken' = taken /\ relay' = relay /\ mixed' = mixed
  BY DEF PublishInv, Typed, Find, Placed, Requests
<1>2. CASE Ends(p)
  BY <1>1, <1>2, RowsLeft, EndsKeeps DEF Shared, PublishInv, Typed
<1>3. CASE ~Ends(p)
  <2>1. /\ at' \in [Requests -> Request(Len(rows), made)]
        /\ \A y \in Requests \ {p} : at'[y] = at[y]
        /\ at'[p].pc = "found" /\ at'[p].agent = at[p].agent
        /\ \/ at'[p].fresh /\ at'[p].old = None
           \/ at'[p].row \in LiveRows /\ at'[p].old = rows[at'[p].row].agent /\ at'[p].fresh = at[p].fresh
    <3>1. at[p] \in Request(Len(rows), made)
      BY <1>1
    <3>2. CASE LiveRows = {}
      <4> DEFINE new == [at[p] EXCEPT !.pc = "found", !.fresh = TRUE]
      <4>1. at' = [at EXCEPT ![p] = new]
        BY <1>3, <3>2 DEF Find
      <4>2. new \in Request(Len(rows), made) /\ new.pc = "found" /\ new.agent = at[p].agent
            /\ new.fresh /\ new.old = None
        BY <1>1, <3>1 DEF Request, Steps
      <4> HIDE DEF new
      <4> QED
        BY <1>1, <4>1, <4>2
    <3>3. CASE LiveRows # {}
      <4>1. PICK r \in LiveRows :
              at' = [at EXCEPT ![p] = [@ EXCEPT !.pc = "found", !.row = r, !.old = rows[r].agent]]
        BY <1>3, <3>3 DEF Find
      <4> DEFINE new == [at[p] EXCEPT !.pc = "found", !.row = r, !.old = rows[r].agent]
      <4>2. r \in 1..Len(rows) /\ rows[r] \in Row(made) /\ Len(rows) \in Nat
        BY <1>1, <4>1, LenProperties DEF LiveRows
      <4>3. new \in Request(Len(rows), made) /\ new.pc = "found" /\ new.agent = at[p].agent
            /\ new.row = r /\ new.old = rows[r].agent /\ new.fresh = at[p].fresh
        <5>1. rows[r].agent \in 1..made \cup {None} /\ r \in 0..Len(rows)
          BY <4>2 DEF Row
        <5> QED
          BY <3>1, <5>1 DEF Request, Steps
      <4>4. at' = [at EXCEPT ![p] = new]
        BY <4>1
      <4> HIDE DEF new
      <4> QED
        BY <1>1, <4>1, <4>3, <4>4
    <3> QED
      BY <3>2, <3>3
  <2>2. at'[p].row \in LiveRows => at'[p].row \in 1..Len(rows) /\ Live(at'[p].row)
    BY <1>1 DEF LiveRows
  <2>3. Typed'
    BY <1>1, <2>1 DEF PublishInv, Typed
  <2>4. Made \subseteq Made'
    BY <1>1, <2>1 DEF Made, Requests
  <2>5. Placed'
    BY <1>1, <2>1, <2>2 DEF PublishInv, Placed, Deleting, Requests
  <2>6. Unknown'
    BY <1>1, <2>1, <2>2, NewAgent DEF PublishInv, Unknown, Requests
  <2>7. OneHolder'
    BY <1>1 DEF PublishInv, OneHolder, Holds
  <2>8. Given'
    <3>1. at'[p].old # None => at'[p].old \in 1..made /\ Holds(at'[p].row, at'[p].old)
      BY <1>1, <2>1, <2>2 DEF Request, Live, Holds
    <3>2. \A r \in 1..Len(rows) : at'[p].old # None /\ Holds(r, at'[p].old) => r = at'[p].row
      BY <2>1, <2>2, <3>1 DEF PublishInv, OneHolder
    <3> QED
      BY <1>1, <2>1, <3>2 DEF PublishInv, Given, Holds, Retiring, Requests
  <2>9. Tombs'
    BY <1>1, <2>1, <2>2 DEF PublishInv, Tombs, Live, Standing, Deleting, Requests
  <2>10. LiveAgentExists'
    BY <1>1 DEF PublishInv, LiveAgentExists, Standing
  <2> QED
    BY <1>1, <2>3, <2>4, <2>5, <2>6, <2>7, <2>8, <2>9, <2>10, MadeGrows DEF PublishInv
<1> QED
  BY <1>2, <1>3

\* A row appended is of its type, and the others stay where they are.
LEMMA Appended ==
  ASSUME NEW k \in Nat, NEW row \in Row(k), rows \in Seq(Row(k)), rows' = Append(rows, row)
  PROVE  /\ rows' \in Seq(Row(k)) /\ Len(rows') = Len(rows) + 1
         /\ rows'[Len(rows) + 1] = row
         /\ \A r \in 1..Len(rows) : rows'[r] = rows[r]
BY AppendProperties

LEMMA PlaceStep ==
  ASSUME PublishInv, NEW p \in Publishes, Place(p)
  PROVE  PublishInv'
<1>1. /\ at \in [Requests -> Request(Len(rows), made)] /\ rows \in Seq(Row(made)) /\ made \in Nat
      /\ at[p].pc = "found" /\ p \in Requests
      /\ agents' = agents /\ made' = made /\ taken' = taken /\ relay' = relay /\ mixed' = mixed
  BY DEF PublishInv, Typed, Place, Requests
<1>2. CASE ~at[p].fresh
  <2>1. Go(p, "placed") /\ Quiet
    BY <1>1, <1>2 DEF Place, Quiet
  <2> QED
    BY <1>1, <1>2, <2>1, GoesOn DEF Shared, PublishInv, Typed, Steps
<1>3. CASE at[p].fresh
  <2> DEFINE row == [st |-> "creating", agent |-> None, gone |-> FALSE]
  <2>1. row \in Row(made) /\ rows' = Append(rows, row)
    BY <1>3 DEF Place, Row, Statuses
  <2>2. /\ rows' \in Seq(Row(made)) /\ Len(rows') = Len(rows) + 1
        /\ rows'[Len(rows) + 1] = row
        /\ \A r \in 1..Len(rows) : rows'[r] = rows[r]
    BY <1>1, <2>1, Appended
  <2>3. Len(rows) \in Nat /\ at[p].old = None
    BY <1>1, <1>3, LenProperties DEF PublishInv, Placed
  <2>4. /\ at' \in [Requests -> Request(Len(rows'), made)]
        /\ \A y \in Requests \ {p} : at'[y] = at[y]
        /\ at'[p].pc = "placed" /\ at'[p].agent = at[p].agent /\ at'[p].old = None
        /\ at'[p].row = Len(rows) + 1
    <3> DEFINE new == [at[p] EXCEPT !.pc = "placed", !.row = Len(rows) + 1]
    <3>1. at' = [at EXCEPT ![p] = new]
      BY <1>3 DEF Place
    <3>2. \A q \in Request(Len(rows), made) : q \in Request(Len(rows'), made)
      BY <2>2, <2>3 DEF Request
    <3>3. new \in Request(Len(rows'), made) /\ new.pc = "placed" /\ new.agent = at[p].agent
          /\ new.old = None /\ new.row = Len(rows) + 1
      <4>1. at[p] \in Request(Len(rows'), made) /\ Len(rows) + 1 \in 0..Len(rows')
        BY <1>1, <2>2, <2>3, <3>2
      <4> QED
        BY <2>3, <4>1 DEF Request, Steps
    <3> HIDE DEF new
    <3> QED
      BY <1>1, <3>1, <3>2, <3>3
  <2>5. \A r \in 1..Len(rows') : r \in 1..Len(rows) \/ r = Len(rows) + 1
    BY <2>2, <2>3
  <2>6. Typed'
    BY <1>1, <2>2, <2>4 DEF PublishInv, Typed
  <2>7. Made \subseteq Made'
    BY <1>1, <2>4 DEF Made, Requests
  <2>8. Placed'
    BY <1>1, <2>2, <2>3, <2>4 DEF PublishInv, Placed, Deleting, Requests
  <2>9. Unknown'
    BY <1>1, <2>2, <2>4, <2>5, NewAgent DEF PublishInv, Unknown, Requests
  <2>10. OneHolder'
    BY <1>1, <2>2, <2>5, PublishingAssumption DEF PublishInv, OneHolder, Holds
  <2>11. Given'
    BY <1>1, <2>2, <2>4, <2>5 DEF PublishInv, Given, Holds, Retiring, Requests
  <2>12. Tombs'
    BY <1>1, <2>2, <2>3, <2>4 DEF PublishInv, Placed, Tombs, Live, Standing, Deleting, Requests
  <2>13. LiveAgentExists'
    BY <1>1, <2>2, <2>5 DEF PublishInv, LiveAgentExists, Standing
  <2> QED
    BY <1>1, <2>6, <2>7, <2>8, <2>9, <2>10, <2>11, <2>12, <2>13, MadeGrows DEF PublishInv
<1> QED
  BY <1>2, <1>3

LEMMA CreateStep ==
  ASSUME PublishInv, NEW p \in Publishes, Create(p)
  PROVE  PublishInv'
<1>1. /\ at \in [Requests -> Request(Len(rows), made)] /\ rows \in Seq(Row(made)) /\ made \in Nat
      /\ at[p].pc = "placed" /\ p \in Requests
      /\ made' = made + 1 /\ agents' = agents \cup {made + 1}
      /\ rows' = rows /\ taken' = taken /\ relay' = relay /\ mixed' \in BOOLEAN
  BY DEF PublishInv, Typed, Create, Requests
<1>2. \A q \in Request(Len(rows), made) : q \in Request(Len(rows), made')
  BY <1>1 DEF Request
<1>3. /\ at' \in [Requests -> Request(Len(rows'), made')]
      /\ \A y \in Requests \ {p} : at'[y] = at[y]
      /\ \/ at'[p].pc = "created" /\ at'[p].agent = made + 1
         \/ at'[p].pc = "refused"
      /\ at'[p].old = at[p].old /\ at'[p].row = at[p].row /\ at'[p].fresh = at[p].fresh
  <2>1. at[p] \in Request(Len(rows'), made') /\ made + 1 \in 1..made'
    BY <1>1, <1>2
  <2>2. CASE Go(p, "refused")
    <3> DEFINE new == [at[p] EXCEPT !.pc = "refused"]
    <3>1. new \in Request(Len(rows'), made') /\ new.pc = "refused" /\ new.old = at[p].old
          /\ new.row = at[p].row /\ new.fresh = at[p].fresh
      BY <2>1 DEF Request, Steps
    <3>2. at' = [at EXCEPT ![p] = new]
      BY <2>2 DEF Go
    <3> HIDE DEF new
    <3> QED
      BY <1>1, <1>2, <3>1, <3>2
  <2>3. CASE at' = [at EXCEPT ![p] = [@ EXCEPT !.pc = "created", !.agent = made + 1]]
    <3> DEFINE new == [at[p] EXCEPT !.pc = "created", !.agent = made + 1]
    <3>1. new \in Request(Len(rows'), made') /\ new.pc = "created" /\ new.agent = made + 1
          /\ new.old = at[p].old /\ new.row = at[p].row /\ new.fresh = at[p].fresh
      BY <2>1 DEF Request, Steps
    <3>2. at' = [at EXCEPT ![p] = new]
      BY <2>3
    <3> HIDE DEF new
    <3> QED
      BY <1>1, <1>2, <3>1, <3>2
  <2> QED
    BY <2>2, <2>3 DEF Create
<1>4. \A r \in 1..Len(rows) : rows[r] \in Row(made) /\ rows[r].agent # made + 1
  <2>1. \A r \in 1..Len(rows) : rows[r] \in Row(made)
    BY <1>1
  <2> QED
    BY <1>1, <2>1, PublishingAssumption DEF Row
<1>5. Typed'
  <2>1. \A row \in Row(made) : row \in Row(made')
    BY <1>1 DEF Row
  <2>2. rows' \in Seq(Row(made'))
    BY <1>1, <1>4, <2>1, LenProperties
  <2> QED
    BY <1>1, <1>3, <2>2 DEF PublishInv, Typed
<1>6. OneEach'
  <2>1. p \notin Made /\ Made' = Made \cup {p}
    BY <1>1, <1>3 DEF Made, Requests
  <2>2. IsFiniteSet(Made)
    BY PublishingAssumption, FS_Subset DEF Made, Requests
  <2>3. Cardinality(Made') = Cardinality(Made) + 1 /\ Cardinality(Made) \in Nat
    BY <2>1, <2>2, FS_AddElement, FS_CardinalityType
  <2> QED
    BY <1>1, <2>3 DEF PublishInv, OneEach
<1>7. Placed'
  BY <1>1, <1>3 DEF PublishInv, Placed, Deleting, Requests
<1>8. Unknown'
  <2>1. \A q \in Publishes : at[q].pc = "created" => at[q].agent # made + 1
    BY <1>1, NewAgent
  <2>2. \A x \in Requests : at[x].old # made + 1
    BY <1>1, PublishingAssumption DEF Request
  <2> QED
    BY <1>1, <1>3, <1>4, <2>1, <2>2 DEF PublishInv, Unknown, Requests
<1>9. OneHolder'
  BY <1>1, <1>4 DEF PublishInv, OneHolder, Holds
<1>10. Given'
  BY <1>1, <1>3 DEF PublishInv, Given, Holds, Retiring, Requests
<1>11. Tombs'
  BY <1>1, <1>3 DEF PublishInv, Tombs, Live, Standing, Deleting, Requests
<1>12. LiveAgentExists'
  BY <1>1 DEF PublishInv, LiveAgentExists, Standing
<1> QED
  BY <1>5, <1>6, <1>7, <1>8, <1>9, <1>10, <1>11, <1>12 DEF PublishInv

LEMMA SwapStep ==
  ASSUME PublishInv, NEW p \in Publishes, Swap(p)
  PROVE  PublishInv'
<1> DEFINE row == at[p].row
<1> DEFINE new == [st |-> "live", agent |-> at[p].agent, gone |-> FALSE]
<1>1. /\ at \in [Requests -> Request(Len(rows), made)] /\ rows \in Seq(Row(made)) /\ made \in Nat
      /\ at[p].pc = "created" /\ p \in Requests /\ row \in 1..Len(rows)
      /\ at' = [at EXCEPT ![p].pc = "swapped"] /\ rows' = [rows EXCEPT ![row] = new]
      /\ made' = made /\ agents' = agents /\ taken' = taken /\ relay' = relay /\ mixed' = mixed
  BY DEF PublishInv, Typed, Placed, Swap, Go, Requests
<1>2. new \in Row(made) /\ new.agent = at[p].agent /\ new.agent \in agents
  BY <1>1, NewAgent DEF Row, Statuses, PublishInv, Unknown
<1>3. /\ rows' \in Seq(Row(made)) /\ Len(rows') = Len(rows)
      /\ rows'[row] = new /\ \A r \in 1..Len(rows) \ {row} : rows'[r] = rows[r]
  BY <1>1, <1>2, ExceptSeq
<1>4. /\ at' \in [Requests -> Request(Len(rows), made)]
      /\ \A y \in Requests \ {p} : at'[y] = at[y]
      /\ at'[p].pc = "swapped" /\ at'[p].old = at[p].old /\ at'[p].fresh = at[p].fresh
  BY <1>1 DEF Request, Steps
<1>5. /\ \A r \in 1..Len(rows) : rows[r].agent # at[p].agent
      /\ \A x \in Requests : at[x].old # at[p].agent
      /\ \A q \in Publishes \ {p} : at[q].pc = "created" => at[q].agent # at[p].agent
  BY <1>1 DEF PublishInv, Unknown
<1> HIDE DEF row, new
<1>6. Typed'
  BY <1>1, <1>3, <1>4 DEF PublishInv, Typed
<1>7. Made \subseteq Made'
  BY <1>4 DEF Made, Requests
<1>8. Placed'
  BY <1>1, <1>3, <1>4 DEF PublishInv, Placed, Deleting, Requests
<1>9. Unknown'
  BY <1>1, <1>2, <1>3, <1>4, <1>5 DEF PublishInv, Unknown, Requests
<1>10. OneHolder'
  <2>1. \A r \in 1..Len(rows) : \A a \in 1..made : Holds(r, a)' =>
          \/ r = row /\ a = at[p].agent
          \/ r # row /\ a # at[p].agent /\ Holds(r, a)
    BY <1>1, <1>2, <1>3, <1>5 DEF Holds
  <2> QED
    BY <1>1, <1>3, <2>1 DEF PublishInv, OneHolder
<1>11. Given'
  <2>1. \A x \in Requests : at'[x].old = at[x].old
    BY <1>4
  <2>2. \A x \in Requests, r \in 1..Len(rows) :
          Holds(r, at[x].old)' => Holds(r, at[x].old) /\ r # row
    BY <1>2, <1>3, <1>5, <2>1 DEF Holds
  <2> QED
    BY <1>1, <1>3, <1>4, <2>1, <2>2 DEF PublishInv, Given, Retiring, Requests, row
<1>12. Tombs'
  <2>1. \A q \in Publishes : at[q].pc \in Deleting => at[q].tomb # row /\ at[q].tomb \in 1..Len(rows)
    BY <1>1 DEF PublishInv, Tombs, Placed, Requests, row
  <2>2. \A t \in 1..Len(rows) : t # row => (Live(t)' <=> Live(t))
    BY <1>3 DEF Live, Standing
  <2>3. \A q \in Publishes : at'[q].row = at[q].row /\ at'[q].tomb = at[q].tomb
    BY <1>1, <1>4 DEF Requests
  <2>4. \A q \in Publishes : q # p => at'[q].pc = at[q].pc /\ at'[q].fresh = at[q].fresh
    BY <1>4 DEF Requests
  <2> QED
    BY <1>1, <1>4, <2>1, <2>2, <2>3, <2>4 DEF PublishInv, Tombs, Deleting, Requests, Live, Standing
<1>13. LiveAgentExists'
  BY <1>1, <1>2, <1>3 DEF PublishInv, LiveAgentExists, Standing
<1> QED
  BY <1>1, <1>6, <1>7, <1>8, <1>9, <1>10, <1>11, <1>12, <1>13, MadeGrows DEF PublishInv

LEMMA FailStep ==
  ASSUME PublishInv, NEW p \in Publishes, Fail(p)
  PROVE  PublishInv'
<1>1. /\ at[p].pc = "refused" /\ p \in Requests /\ at[p].row \in 1..Len(rows) /\ Ends(p)
      /\ rows \in Seq(Row(made)) /\ made \in Nat
      /\ UNCHANGED <<agents, made, taken>> /\ Shared
  BY DEF PublishInv, Typed, Placed, Fail, Shared, Requests
<1>2. RowsDown
  <2>1. CASE UNCHANGED rows
    BY <2>1, RowsLeft
  <2>2. CASE rows' = [rows EXCEPT ![at[p].row].st = "failed"]
    <3> DEFINE new == [rows[at[p].row] EXCEPT !.st = "failed"]
    <3>1. new \in Row(made) /\ new.agent = rows[at[p].row].agent /\ new.st = "failed"
      <4>1. rows[at[p].row] \in Row(made)
        BY <1>1
      <4> QED
        BY <4>1 DEF Row, Statuses
    <3>2. rows' = [rows EXCEPT ![at[p].row] = new]
      BY <2>2
    <3> HIDE DEF new
    <3> QED
      BY <1>1, <3>1, <3>2, RowTakenDown
  <2> QED
    BY <2>1, <2>2 DEF Fail
<1> QED
  BY <1>1, <1>2, EndsKeeps

LEMMA RetireStep ==
  ASSUME PublishInv, NEW p \in Publishes, Retire(p)
  PROVE  PublishInv'
<1>1. /\ at \in [Requests -> Request(Len(rows), made)] /\ rows \in Seq(Row(made)) /\ made \in Nat
      /\ at[p].pc = "published" /\ p \in Requests
      /\ agents' = agents /\ made' = made /\ taken' = taken /\ relay' = relay /\ mixed' = mixed
  BY DEF PublishInv, Typed, Retire, Requests
<1>2. CASE Retired(p) = None
  <2>1. Ends(p) /\ UNCHANGED rows
    BY <1>2 DEF Retire
  <2> QED
    BY <1>1, <2>1, RowsLeft, EndsKeeps DEF Shared, PublishInv, Typed
<1>3. CASE Retired(p) # None
  <2> DEFINE row == [st |-> "deleting", agent |-> at[p].old, gone |-> FALSE]
  <2>1. Retired(p) = at[p].old /\ at[p].old \in 1..made
    BY <1>1, <1>3 DEF Retired, Request
  <2>2. row \in Row(made) /\ rows' = Append(rows, row)
    BY <1>3, <2>1 DEF Retire, Row, Statuses
  <2>3. /\ rows' \in Seq(Row(made)) /\ Len(rows') = Len(rows) + 1
        /\ rows'[Len(rows) + 1] = row
        /\ \A r \in 1..Len(rows) : rows'[r] = rows[r]
    BY <1>1, <2>2, Appended
  <2>4. Len(rows) \in Nat
    BY <1>1, LenProperties
  <2>5. /\ at' \in [Requests -> Request(Len(rows'), made)]
        /\ \A y \in Requests \ {p} : at'[y] = at[y]
        /\ at'[p].pc = "deleting" /\ at'[p].old = at[p].old
        /\ at'[p].tomb = Len(rows) + 1 /\ at'[p].fresh = at[p].fresh
    <3> DEFINE new == [at[p] EXCEPT !.pc = "deleting", !.tomb = Len(rows) + 1, !.old = Retired(p)]
    <3>1. at' = [at EXCEPT ![p] = new]
      BY <1>3 DEF Retire
    <3>2. \A q \in Request(Len(rows), made) : q \in Request(Len(rows'), made)
      BY <2>3, <2>4 DEF Request
    <3>3. at[p] \in Request(Len(rows'), made) /\ Len(rows) + 1 \in 0..Len(rows')
      BY <1>1, <2>3, <2>4, <3>2
    <3>4. new \in Request(Len(rows'), made) /\ new.pc = "deleting" /\ new.old = at[p].old
          /\ new.tomb = Len(rows) + 1 /\ new.fresh = at[p].fresh
      BY <2>1, <3>3 DEF Request, Steps
    <3> HIDE DEF new
    <3> QED
      BY <1>1, <3>1, <3>2, <3>4
  <2>6. \A r \in 1..Len(rows') : r \in 1..Len(rows) \/ r = Len(rows) + 1
    BY <2>3, <2>4
  <2>7. Typed'
    BY <1>1, <2>3, <2>5 DEF PublishInv, Typed
  <2>8. Made \subseteq Made'
    BY <1>1, <2>5 DEF Made, Requests
  <2>9. Placed'
    BY <1>1, <2>3, <2>4, <2>5 DEF PublishInv, Placed, Deleting, Requests
  <2>10. Unknown'
    BY <1>1, <2>3, <2>5, <2>6 DEF PublishInv, Unknown, Requests
  <2>11. OneHolder'
    BY <1>1, <2>3, <2>6 DEF PublishInv, OneHolder, Holds
  <2>12. Given'
    BY <1>1, <2>3, <2>5, <2>6 DEF PublishInv, Given, Holds, Retiring, Requests
  <2>13. Tombs'
    BY <1>1, <2>3, <2>4, <2>5 DEF PublishInv, Placed, Tombs, Live, Standing, Deleting, Requests
  <2>14. LiveAgentExists'
    BY <1>1, <2>3, <2>6 DEF PublishInv, LiveAgentExists, Standing
  <2> QED
    BY <1>1, <2>7, <2>8, <2>9, <2>10, <2>11, <2>12, <2>13, <2>14, MadeGrows DEF PublishInv
<1> QED
  BY <1>2, <1>3

-----------------------------------------------------------------------------
(* Deletions *)

LEMMA TakeStep ==
  ASSUME PublishInv, NEW d \in Deletes, NEW r \in DOMAIN rows, Unpublish(d, r) \/ Retry(d, r)
  PROVE  PublishInv'
<1>1. PICK unpublish \in BOOLEAN : Take(d, r, unpublish)
  BY DEF Unpublish, Retry
<1>2. /\ at \in [Requests -> Request(Len(rows), made)] /\ rows \in Seq(Row(made)) /\ made \in Nat
      /\ at[d].pc = "idle" /\ d \in Requests /\ d \notin Publishes
      /\ rows' = rows /\ agents' = agents /\ made' = made /\ taken' = taken /\ relay' = relay
      /\ mixed' \in BOOLEAN
  BY <1>1, PublishingAssumption DEF PublishInv, Typed, Take, Requests
<1>3. r \in 1..Len(rows) /\ rows[r] \in Row(made) /\ Len(rows) \in Nat
  BY <1>2, LenProperties
<1>4. /\ at' \in [Requests -> Request(Len(rows), made)]
      /\ \A y \in Requests \ {d} : at'[y] = at[y]
      /\ at'[d].pc = "deleting" /\ at'[d].tomb = r /\ at'[d].old = rows[r].agent
  <2> DEFINE new == [at[d] EXCEPT !.pc = "deleting", !.tomb = r, !.old = rows[r].agent,
                                  !.unpublish = unpublish]
  <2>1. at' = [at EXCEPT ![d] = new]
    BY <1>1 DEF Take
  <2>2. rows[r].agent \in 1..made \cup {None} /\ r \in 0..Len(rows)
    BY <1>3 DEF Row
  <2>3. at[d] \in Request(Len(rows), made)
    BY <1>2
  <2>4. new \in Request(Len(rows), made) /\ new.pc = "deleting" /\ new.tomb = r /\ new.old = rows[r].agent
    BY <2>2, <2>3 DEF Request, Steps
  <2> HIDE DEF new
  <2> QED
    BY <1>2, <2>1, <2>4
<1>5. Typed'
  BY <1>2, <1>4 DEF PublishInv, Typed
<1>6. Made \subseteq Made'
  BY <1>2, <1>4 DEF Made, Requests
<1>7. Placed'
  BY <1>2, <1>3, <1>4 DEF PublishInv, Placed, Deleting, Requests
<1>8. Unknown'
  BY <1>2, <1>3, <1>4 DEF PublishInv, Unknown, Requests
<1>9. OneHolder'
  BY <1>2 DEF PublishInv, OneHolder, Holds
<1>10. Given'
  BY <1>2, <1>4 DEF PublishInv, Given, Holds, Retiring, Requests
<1>11. Tombs'
  BY <1>2, <1>4 DEF PublishInv, Tombs, Live, Standing, Deleting, Requests
<1>12. LiveAgentExists'
  BY <1>2 DEF PublishInv, LiveAgentExists, Standing
<1> QED
  BY <1>2, <1>5, <1>6, <1>7, <1>8, <1>9, <1>10, <1>11, <1>12, MadeGrows DEF PublishInv

\* Of a publish, the deletion takes an agent that no row holds.
LEMMA DeleteStep ==
  ASSUME PublishInv, NEW x \in Requests, Delete(x)
  PROVE  PublishInv'
<1>1. /\ at \in [Requests -> Request(Len(rows), made)] /\ rows \in Seq(Row(made)) /\ made \in Nat
      /\ at[x].pc = "deleting" /\ at[x].old \in 1..made \cup {None}
      /\ rows' = rows /\ made' = made /\ relay' = relay /\ mixed' = mixed
      /\ agents \ {at[x].old} \subseteq agents' /\ agents' \subseteq agents
      /\ taken' = IF x \in Deletes THEN taken \cup ({at[x].old} \ {None}) ELSE taken
      /\ agents \subseteq 1..made /\ taken \subseteq 1..made
  BY DEF PublishInv, Typed, Delete, Request
<1>2. PICK pc \in {"gone", "kept"} : at' = [at EXCEPT ![x].pc = pc]
  BY DEF Delete, Go
<1>3. /\ at' \in [Requests -> Request(Len(rows), made)]
      /\ \A y \in Requests \ {x} : at'[y] = at[y]
      /\ at'[x].pc \in {"gone", "kept"} /\ at'[x].old = at[x].old /\ at'[x].tomb = at[x].tomb
      /\ at'[x].fresh = at[x].fresh
  BY <1>1, <1>2 DEF Request, Steps
<1>4. Typed'
  BY <1>1, <1>3 DEF PublishInv, Typed
<1>5. Made \subseteq Made'
  BY <1>1, <1>3 DEF Made, Requests
<1>6. Placed'
  BY <1>1, <1>3 DEF PublishInv, Placed, Deleting, Requests
<1>7. Unknown'
  BY <1>1, <1>3 DEF PublishInv, Unknown, Requests
<1>8. OneHolder'
  BY <1>1 DEF PublishInv, OneHolder, Holds
<1>9. Given'
  BY <1>1, <1>3 DEF PublishInv, Given, Holds, Retiring, Requests
<1>10. Tombs'
  BY <1>1, <1>3 DEF PublishInv, Tombs, Live, Standing, Deleting, Requests
<1>11. LiveAgentExists'
  <2> SUFFICES ASSUME NEW r \in 1..Len(rows), Standing(r), rows[r].st = "live"
               PROVE  rows[r].agent \in agents' \cup taken'
    BY <1>1 DEF LiveAgentExists, Standing
  <2>1. rows[r].agent \in agents \cup taken /\ taken \subseteq taken'
    BY <1>1 DEF PublishInv, LiveAgentExists
  <2>2. rows[r].agent # None
    <3>1. rows[r].agent \in 1..made /\ made \in Nat
      BY <1>1, <2>1
    <3>2. rows[r].agent \in Nat
      BY <3>1
    <3> QED
      BY <3>2, PublishingAssumption
  <2>3. x \in Deletes /\ rows[r].agent = at[x].old => rows[r].agent \in taken'
    BY <1>1, <2>2
  <2>4. x \notin Deletes => rows[r].agent # at[x].old
    BY <1>1, <2>2 DEF PublishInv, Given, Holds, Retiring, Requests
  <2> QED
    BY <1>1, <2>1, <2>3, <2>4
<1> QED
  BY <1>1, <1>4, <1>5, <1>6, <1>7, <1>8, <1>9, <1>10, <1>11, MadeGrows DEF PublishInv

LEMMA SettleStep ==
  ASSUME PublishInv, NEW x \in Requests, Settle(x)
  PROVE  PublishInv'
<1>1. /\ at[x].tomb \in 1..Len(rows) /\ (Ends(x) \/ Go(x, "unmark"))
      /\ rows \in Seq(Row(made)) /\ made \in Nat /\ UNCHANGED <<agents, made, taken>> /\ Shared
  BY DEF PublishInv, Typed, Placed, Deleting, Settle, Shared
<1> DEFINE new == AfterDelete(rows[at[x].tomb], at[x].pc)
<1>2. new \in Row(made) /\ new.agent = rows[at[x].tomb].agent /\ new.st \in {"deleting", "deleted"}
  <2>1. rows[at[x].tomb] \in Row(made)
    BY <1>1
  <2> QED
    BY <2>1 DEF AfterDelete, Row, Statuses
<1>3. rows' = [rows EXCEPT ![at[x].tomb] = new]
  BY DEF Settle
<1> HIDE DEF new
<1>4. RowsDown
  BY <1>1, <1>2, <1>3, RowTakenDown
<1> QED
  BY <1>1, <1>4, EndsKeeps

-----------------------------------------------------------------------------
(* The theorems. *)

LEMMA PublishNext ==
  ASSUME PublishInv, [Next]_vars
  PROVE  PublishInv'
<1>1. /\ relay \in [st: {"draft", "published"}, removed: BOOLEAN] /\ mixed \in BOOLEAN
      /\ Publishes \subseteq Requests /\ Deletes \subseteq Requests
  BY DEF PublishInv, Typed, Requests
<1>2. CASE Remove
  <2>1. relay' = [relay EXCEPT !.removed = TRUE] /\ UNCHANGED <<rows, agents, made, at, taken, mixed>>
    BY <1>2 DEF Remove
  <2> QED
    BY <1>1, <2>1 DEF PublishInv, Typed, OneEach, Made, Placed, Unknown, OneHolder, Holds, Given, Tombs, Live,
                      Standing, LiveAgentExists
<1>3. ASSUME NEW p \in Publishes, Publish(p)
      PROVE  PublishInv'
  <2>1. CASE Begin(p)
    <3>1. Go(p, "checked") /\ Quiet /\ Shared /\ at[p].pc = "idle"
      BY <1>1, <2>1 DEF Begin, Quiet, Shared, Overlaps, Busy
    <3> QED
      BY <1>1, <3>1, GoesOn DEF Steps
  <2>2. CASE Refuse(p)
    <3>1. Ends(p) /\ UNCHANGED <<rows, agents, made, taken>> /\ Shared
      BY <1>1, <2>2 DEF Refuse, Shared
    <3> QED
      BY <1>1, <3>1, RowsLeft, EndsKeeps
  <2>3. CASE CreateFails(p)
    <3>1. Go(p, "refused") /\ Quiet /\ Shared /\ at[p].pc = "placed"
      BY <1>1, <2>3 DEF CreateFails, Quiet, Shared
    <3> QED
      BY <1>1, <3>1, GoesOn DEF Steps
  <2>4. CASE Published(p)
    <3>1. Go(p, "published") /\ Quiet /\ Shared /\ at[p].pc = "swapped"
      BY <1>1, <2>4 DEF Published, Quiet, Shared, Mark
    <3> QED
      BY <1>1, <3>1, GoesOn DEF Steps
  <2> QED
    BY <1>3, <2>1, <2>2, <2>3, <2>4, FindStep, PlaceStep, CreateStep, FailStep, SwapStep, RetireStep DEF Publish
<1>4. ASSUME NEW d \in Deletes, NEW r \in DOMAIN rows, Unpublish(d, r) \/ Retry(d, r)
      PROVE  PublishInv'
  BY <1>4, TakeStep
<1>5. ASSUME NEW x \in Requests, Unmark(x) \/ Dies(x)
      PROVE  PublishInv'
  <2>1. Ends(x) /\ UNCHANGED <<rows, agents, made, taken>> /\ Shared
    BY <1>1, <1>5 DEF Unmark, Dies, Mark, Shared
  <2> QED
    BY <2>1, RowsLeft, EndsKeeps
<1>6. CASE UNCHANGED vars
  BY <1>6 DEF vars, PublishInv, Typed, OneEach, Made, Placed, Unknown, OneHolder, Holds, Given, Tombs, Live,
              Standing, LiveAgentExists
<1> QED
  BY <1>2, <1>3, <1>4, <1>5, <1>6, DeleteStep, SettleStep DEF Next

LEMMA PublishTyped ==
  ASSUME PublishInv
  PROVE  TypeOK
<1>1. made \in Nat /\ rows \in Seq(Row(made)) /\ at \in [Requests -> Request(Len(rows), made)]
  BY DEF PublishInv, Typed
<1>2. Cardinality(Publishes) \in Nat /\ made <= Cardinality(Publishes)
  <2>1. IsFiniteSet(Publishes) /\ Made \subseteq Publishes
    BY PublishingAssumption, FS_Subset DEF Made, Requests
  <2>2. /\ Cardinality(Made) <= Cardinality(Publishes)
        /\ Cardinality(Made) \in Nat /\ Cardinality(Publishes) \in Nat
    BY <2>1, FS_Subset, FS_CardinalityType
  <2> QED
    BY <1>1, <2>2 DEF PublishInv, OneEach
<1>3. \A a \in 1..made : a \in Agent
  BY <1>1, <1>2 DEF Agent
<1> DEFINE Rows == [st: Statuses, agent: Agent \cup {None}, gone: BOOLEAN]
<1>4. \A row \in Row(made) : row \in Rows
  BY <1>3 DEF Row
<1> HIDE DEF Rows
<1>5. rows \in Seq(Rows)
  <2>1. \A r \in 1..Len(rows) : rows[r] \in Rows
    BY <1>1, <1>4
  <2> QED
    BY <1>1, <2>1, LenProperties
<1>6. at \in [Requests -> [pc: Steps, row: 0 .. Len(rows), fresh: BOOLEAN, agent: Agent \cup {None},
                           old: Agent \cup {None}, tomb: 0 .. Len(rows), unpublish: BOOLEAN]]
  BY <1>1, <1>3 DEF Request
<1> QED
  BY <1>1, <1>2, <1>5, <1>6 DEF TypeOK, PublishInv, Typed, Rows

\* The invariant of the publications holds always.
THEOREM PublishInvAlways == Spec => []PublishInv
BY PublishInit, PublishNext, PTL DEF Spec

\* However many publishes, unpublishes and purges overlap and wherever they die:
\* an agent behind a live link exists unless somebody asked for its deletion.
THEOREM RowsSoundAlways == Spec => []RowsSound
<1>1. PublishInv => RowsSound
  BY PublishTyped DEF PublishInv, RowsSound
<1> QED
  BY <1>1, PublishInvAlways, PTL

\* Nothing but republishes is under way.
Republishing == \A x \in Requests : Busy(x) => x \in Publishes /\ ~at[x].fresh

\* A live row that keeps its place, its state and its agent keeps the link working.
LEMMA RowServes ==
  ASSUME NEW r \in DOMAIN rows, Live(r), rows[r].st = "live", rows[r].agent \in agents',
         r \in DOMAIN rows', rows'[r] = rows[r]
  PROVE  Serving'
BY DEF Serving, LiveRows, Live, Standing

LEMMA ServingKept ==
  ASSUME PublishInv, [Next]_vars, Serving, Republishing
  PROVE  Serving'
<1>1. PICK r \in DOMAIN rows : Live(r) /\ rows[r].st = "live" /\ rows[r].agent \in agents
  BY DEF Serving, LiveRows
<1>2. /\ rows \in Seq(Row(made)) /\ made \in Nat /\ agents \subseteq 1..made /\ r \in 1..Len(rows)
      /\ DOMAIN rows = 1..Len(rows) /\ Len(rows) \in Nat
  BY <1>1, LenProperties DEF PublishInv, Typed
<1>3. rows[r].agent # None
  <2>1. rows[r].agent \in 1..made
    BY <1>1, <1>2
  <2>2. rows[r].agent \in Nat
    BY <1>2, <2>1
  <2> QED
    BY <2>2, PublishingAssumption
<1>4. CASE rows' = rows /\ agents \subseteq agents'
  BY <1>1, <1>4, RowServes
<1>5. ASSUME NEW p \in Publishes, Place(p)
      PROVE  rows' = rows
  <2>1. Busy(p) /\ p \in Requests
    BY <1>5 DEF Place, Busy, Requests
  <2> QED
    BY <1>5, <2>1 DEF Place, Republishing
<1>6. ASSUME NEW p \in Publishes, Fail(p)
      PROVE  rows' = rows
  <2>1. Busy(p) /\ p \in Requests
    BY <1>6 DEF Fail, Busy, Requests
  <2> QED
    BY <1>6, <2>1 DEF Fail, FailsRow, Republishing
<1>7. ASSUME NEW p \in Publishes, Swap(p)
      PROVE  Serving'
  <2> DEFINE new == [st |-> "live", agent |-> at[p].agent, gone |-> FALSE]
  <2>1. at[p].row \in 1..Len(rows) /\ at[p].agent \in agents /\ agents' = agents
    BY <1>7 DEF Swap, PublishInv, Placed, Unknown
  <2>2. rows' = [rows EXCEPT ![at[p].row] = new] /\ new \in Row(made)
    BY <1>2, <1>7, <2>1 DEF Swap, Row, Statuses
  <2>3. DOMAIN rows' = DOMAIN rows /\ rows'[at[p].row] = new
    BY <1>2, <2>1, <2>2
  <2> QED
    BY <1>2, <2>1, <2>3 DEF Serving, LiveRows, Live, Standing
<1>8. ASSUME NEW p \in Publishes, Retire(p)
      PROVE  Serving'
  <2>1. CASE rows' = rows
    BY <1>1, <1>8, <2>1, RowServes DEF Retire
  <2>2. CASE rows' # rows
    <3>1. rows' = Append(rows, [st |-> "deleting", agent |-> Retired(p), gone |-> FALSE]) /\ agents' = agents
      BY <1>8, <2>2 DEF Retire
    <3>2. r \in DOMAIN rows' /\ rows'[r] = rows[r]
      BY <1>2, <3>1
    <3> QED
      BY <1>1, <3>1, <3>2, RowServes
  <2> QED
    BY <2>1, <2>2
<1>9. ASSUME NEW x \in Requests, Delete(x)
      PROVE  Serving'
  <2>1. x \in Publishes /\ at[x].pc = "deleting"
    BY <1>9 DEF Delete, Busy, Republishing
  <2>2. rows[r].agent # at[x].old
    BY <1>1, <1>2, <1>3, <2>1 DEF PublishInv, Given, Holds, Retiring
  <2>3. rows[r].agent \in agents' /\ rows' = rows
    BY <1>1, <1>9, <2>2 DEF Delete
  <2> QED
    BY <1>1, <2>3, RowServes
<1>10. ASSUME NEW x \in Requests, Settle(x)
       PROVE  Serving'
  <2>1. x \in Publishes /\ at[x].pc \in Deleting
    BY <1>10 DEF Settle, Busy, Republishing, Deleting
  <2>2. r # at[x].tomb
    BY <1>1, <2>1 DEF PublishInv, Tombs
  <2>3. rows' = [rows EXCEPT ![at[x].tomb] = AfterDelete(rows[at[x].tomb], at[x].pc)] /\ agents' = agents
    BY <1>10 DEF Settle
  <2>4. r \in DOMAIN rows' /\ rows'[r] = rows[r]
    BY <1>2, <2>2, <2>3
  <2> QED
    BY <1>1, <2>3, <2>4, RowServes
<1>11. ASSUME NEW p \in Publishes, \/ Begin(p) \/ Find(p) \/ Refuse(p) \/ Place(p) \/ Create(p) \/ CreateFails(p)
                                   \/ Fail(p) \/ Published(p)
       PROVE  rows' = rows /\ agents \subseteq agents'
  <2>1. agents \subseteq agents'
    BY <1>11 DEF Begin, Find, Refuse, Place, Create, CreateFails, Fail, Published
  <2>2. rows' = rows
    BY <1>5, <1>6, <1>11 DEF Begin, Find, Refuse, Create, CreateFails, Published
  <2> QED
    BY <2>1, <2>2
<1>12. ASSUME \/ Remove \/ UNCHANGED vars
              \/ \E d \in Deletes, q \in DOMAIN rows : Unpublish(d, q) \/ Retry(d, q)
              \/ \E x \in Requests : Unmark(x) \/ Dies(x)
       PROVE  rows' = rows /\ agents' = agents
  BY <1>12 DEF Remove, vars, Unpublish, Retry, Take, Unmark, Dies
<1> QED
  BY <1>4, <1>7, <1>8, <1>9, <1>10, <1>11, <1>12 DEF Next, Publish

\* Republishes that fail, die or overlap never take away a link that works.
THEOREM KeepsServingAlways == Spec => KeepsServing
<1>1. ASSUME PublishInv, [Next]_vars
      PROVE  [Serving /\ (\A x \in Requests : Busy(x) => x \in Publishes /\ ~at[x].fresh) => Serving']_vars
  BY <1>1, ServingKept DEF Republishing
<1> QED
  BY <1>1, PublishInvAlways, PTL DEF Spec, KeepsServing

-----------------------------------------------------------------------------
(* What requests that came one at a time, and got their answers, leave       *)
(* behind.                                                                   *)

\* One request is under way at most.
Single == \A x, y \in Requests : Busy(x) /\ Busy(y) => x = y

IsLive(r) == r \in 1..Len(rows) /\ Live(r)

\* What a request has read or written is still as it left it.
Mine(x) ==
  /\ at[x].pc = "found" /\ at[x].fresh => \A r \in 1..Len(rows) : ~Live(r)
  /\ at[x].pc = "found" /\ ~at[x].fresh => IsLive(at[x].row) /\ rows[at[x].row].agent = at[x].old
  /\ at[x].pc \in {"placed", "created", "refused"} =>
       /\ IsLive(at[x].row) /\ rows[at[x].row].agent = at[x].old
       /\ at[x].fresh => rows[at[x].row].st = "creating"
  /\ at[x].pc \in {"swapped", "published"} =>
       /\ IsLive(at[x].row) /\ rows[at[x].row].st = "live"
       /\ rows[at[x].row].agent = at[x].agent /\ at[x].agent \in agents
       /\ at[x].old # None => \A r \in 1..Len(rows) : rows[r].agent # at[x].old
  /\ at[x].pc \in Deleting =>
       /\ Standing(at[x].tomb) /\ rows[at[x].tomb].agent = at[x].old
       /\ ~at[x].unpublish => rows[at[x].tomb].st = "deleting"
       /\ at[x].pc = "gone" => at[x].old \notin agents
  /\ at[x].unpublish => at[x].pc \in Deleting \cup {"unmark"}
  /\ at[x].pc = "unmark" => at[x].unpublish

\* An agent that no row counts yet, or none any more, and that its publish accounts for.
InHand(x, a) ==
  \/ at[x].pc = "created" /\ at[x].agent = a
  \/ at[x].pc \in {"swapped", "published"} /\ at[x].old = a

Counts(r, a) == Standing(r) /\ rows[r].st \in {"creating", "live", "deleting"} /\ rows[r].agent = a

Counted ==
  \A a \in agents : (\E r \in 1..Len(rows) : Counts(r, a)) \/ (\E x \in Requests : InHand(x, a))

OneLive  == \A r, q \in 1..Len(rows) : Live(r) /\ Live(q) => r = q
Distinct == \A r, q \in 1..Len(rows) : rows[r].agent # None /\ rows[r].agent = rows[q].agent => r = q

Works(r) == Live(r) /\ rows[r].st = "live" /\ rows[r].agent \in agents

Marked ==
  relay.st = "published" => (\E r \in 1..Len(rows) : Works(r)) \/ (\E x \in Requests : at[x].unpublish)

Sole == Single /\ (\A x \in Requests : Mine(x)) /\ Counted /\ OneLive /\ Distinct /\ Marked

SoleInv == ~mixed => Sole

LEMMA SoleInit ==
  ASSUME Init
  PROVE  SoleInv
<1>1. /\ \A x \in Requests : at[x].pc = "idle" /\ ~at[x].unpublish
      /\ Len(rows) = 0 /\ agents = {} /\ relay.st = "draft"
  BY DEF Init, Rest
<1>2. \A r \in 1..Len(rows) : FALSE
  BY <1>1
<1> QED
  BY <1>1, <1>2 DEF SoleInv, Sole, Single, Busy, Mine, Deleting, Counted, OneLive, Distinct, Marked

\* The shapes the steps below rest on.
LEMMA Shapes ==
  ASSUME PublishInv
  PROVE  /\ at \in [Requests -> Request(Len(rows), made)] /\ rows \in Seq(Row(made))
         /\ Len(rows) \in Nat /\ made \in Nat /\ DOMAIN rows = 1..Len(rows)
         /\ agents \subseteq 1..made /\ None \notin agents
<1>1. /\ at \in [Requests -> Request(Len(rows), made)] /\ rows \in Seq(Row(made))
      /\ made \in Nat /\ agents \subseteq 1..made
  BY DEF PublishInv, Typed
<1>2. None \notin 1..made
  BY <1>1, PublishingAssumption
<1> QED
  BY <1>1, <1>2, LenProperties

\* Request x moves, and every other is at rest.
OnlyOne(x) == \A y \in Requests \ {x} : ~Busy(y) /\ at'[y] = at[y]

Alone(x) == \A y \in Requests \ {x} : ~Busy(y)

LEMMA Moves ==
  ASSUME PublishInv, Single, NEW x \in Requests, Busy(x), NEW new, at' = [at EXCEPT ![x] = new]
  PROVE  OnlyOne(x) /\ at'[x] = new
BY Shapes DEF Single, OnlyOne

\* The others have nothing that could go stale.
LEMMA OthersRest ==
  ASSUME Sole, NEW x \in Requests, OnlyOne(x), Mine(x)'
  PROVE  Single' /\ \A y \in Requests : Mine(y)'
<1>1. Single'
  BY DEF OnlyOne, Single, Busy
<1>2. ASSUME NEW y \in Requests \ {x}
      PROVE  Mine(y)'
  <2>1. at'[y] = at[y] /\ at[y].pc \in {"idle", "done"} /\ Mine(y)
    BY <1>2 DEF OnlyOne, Busy, Sole
  <2>2. ~at[y].unpublish
    BY <2>1 DEF Mine, Deleting
  <2> QED
    BY <2>1, <2>2 DEF Mine, Deleting
<1> QED
  BY <1>1, <1>2

\* A request at rest has nothing in hand and asks for nothing.
LEMMA NothingInHand ==
  ASSUME Sole, NEW x \in Requests, OnlyOne(x), NEW y \in Requests \ {x}, NEW a
  PROVE  ~InHand(y, a) /\ ~at[y].unpublish
<1>1. at[y].pc \in {"idle", "done"} /\ Mine(y)
  BY DEF OnlyOne, Busy, Sole
<1> QED
  BY <1>1 DEF InHand, Mine, Deleting

\* The relay is as published as it was.
LEMMA MarkedStays ==
  ASSUME Sole, NEW x \in Requests, OnlyOne(x), at[x].unpublish => at'[x].unpublish,
         relay'.st = "published" => relay.st = "published",
         \A r \in 1..Len(rows) : Works(r) => r \in 1..Len(rows') /\ Works(r)'
  PROVE  Marked'
BY DEF Sole, Marked, OnlyOne

\* A step that leaves the rows and the agents alone.
LEMMA RowsStill ==
  ASSUME Sole, NEW x \in Requests, OnlyOne(x), Mine(x)',
         UNCHANGED <<rows, agents>>, at[x].pc \notin {"created", "swapped", "published"},
         relay'.st = "published" => relay.st = "published" /\ (at[x].unpublish => at'[x].unpublish)
  PROVE  Sole'
<1>1. Single' /\ \A y \in Requests : Mine(y)'
  BY OthersRest
<1>2. Counted'
  <2>1. \A a : ~InHand(x, a)
    BY DEF InHand
  <2>2. \A y \in Requests, a \in agents : ~InHand(y, a)
    BY <2>1, NothingInHand
  <2>3. \A a \in agents : \E r \in 1..Len(rows) : Counts(r, a)
    BY <2>2 DEF Sole, Counted
  <2> QED
    BY <2>3 DEF Counted, Counts, Standing
<1>3. OneLive' /\ Distinct'
  BY DEF Sole, OneLive, Distinct, Live, Standing
<1>4. Marked'
  BY NothingInHand DEF Sole, Marked, Works, Live, Standing
<1> QED
  BY <1>1, <1>2, <1>3, <1>4 DEF Sole

\* A request that ends and leaves the rows alone.
LEMMA EndsStill ==
  ASSUME PublishInv, Sole, NEW x \in Requests, Busy(x), Ends(x), UNCHANGED <<rows, agents>>,
         at[x].pc \notin {"created", "swapped", "published"},
         relay'.st = "published" => relay.st = "published" /\ ~at[x].unpublish
  PROVE  Sole'
<1>1. OnlyOne(x) /\ at'[x] = Rest("done")
  BY Moves DEF Ends, Sole
<1>2. Mine(x)'
  BY <1>1 DEF Mine, Rest, Deleting
<1> QED
  BY <1>1, <1>2, RowsStill

LEMMA FindSole ==
  ASSUME PublishInv, Sole, NEW p \in Publishes, Find(p)
  PROVE  Sole'
<1>1. /\ p \in Requests /\ at[p].pc = "checked" /\ Busy(p) /\ rows' = rows /\ agents' = agents /\ relay' = relay
      /\ ~at[p].unpublish /\ Mine(p)
  BY DEF Find, Busy, Requests, Sole, Mine, Deleting
<1>2. CASE Ends(p)
  BY <1>1, <1>2, EndsStill
<1>3. CASE LiveRows = {} /\ at' = [at EXCEPT ![p] = [@ EXCEPT !.pc = "found", !.fresh = TRUE]]
  <2>1. OnlyOne(p) /\ at'[p] = [at[p] EXCEPT !.pc = "found", !.fresh = TRUE]
    BY <1>1, <1>3, Moves, Shapes DEF Sole
  <2>2. at[p] \in Request(Len(rows), made)
    BY <1>1, Shapes
  <2>3. at'[p].pc = "found" /\ at'[p].fresh /\ at'[p].unpublish = at[p].unpublish
    BY <2>1, <2>2 DEF Request
  <2>4. \A r \in 1..Len(rows) : ~Live(r)
    BY <1>3, Shapes DEF LiveRows
  <2>5. Mine(p)'
    BY <1>1, <2>3, <2>4 DEF Mine, Deleting, Live, Standing
  <2> QED
    BY <1>1, <2>1, <2>5, RowsStill
<1>4. ASSUME NEW r \in LiveRows,
             at' = [at EXCEPT ![p] = [@ EXCEPT !.pc = "found", !.row = r, !.old = rows[r].agent]]
      PROVE  Sole'
  <2>1. OnlyOne(p) /\ at'[p] = [at[p] EXCEPT !.pc = "found", !.row = r, !.old = rows[r].agent]
    BY <1>1, <1>4, Moves, Shapes DEF Sole
  <2>2. at[p] \in Request(Len(rows), made)
    BY <1>1, Shapes
  <2>3. /\ at'[p].pc = "found" /\ at'[p].row = r /\ at'[p].old = rows[r].agent
        /\ at'[p].fresh = at[p].fresh /\ at'[p].unpublish = at[p].unpublish
    BY <2>1, <2>2 DEF Request
  <2>4. IsLive(r) /\ ~at[p].fresh
    BY <1>1, Shapes DEF LiveRows, IsLive, PublishInv, Placed
  <2>5. Mine(p)'
    BY <1>1, <2>3, <2>4 DEF Mine, IsLive, Deleting, Live, Standing
  <2> QED
    BY <1>1, <2>1, <2>5, RowsStill
<1> QED
  BY <1>1, <1>2, <1>3, <1>4 DEF Find

\* The publish goes on and writes nothing.
LEMMA GoesOnSole ==
  ASSUME PublishInv, Sole, NEW x \in Requests, Alone(x), NEW pc \in Steps, Go(x, pc),
         UNCHANGED <<rows, agents, relay>>,
         \/ at[x].pc = "idle" /\ pc = "checked"
         \/ at[x].pc = "found" /\ pc = "placed" /\ ~at[x].fresh
         \/ at[x].pc = "placed" /\ pc = "refused"
  PROVE  Sole'
<1>1. /\ OnlyOne(x) /\ at'[x].pc = pc /\ at'[x].unpublish = at[x].unpublish
      /\ at'[x].row = at[x].row /\ at'[x].old = at[x].old /\ at'[x].fresh = at[x].fresh
  BY Shapes DEF Go, Alone, OnlyOne, Request
<1>2. Mine(x) /\ ~at[x].unpublish
  BY DEF Sole, Mine, Deleting
<1>3. Mine(x)'
  BY <1>1, <1>2 DEF Mine, IsLive, Deleting, Live, Standing, PublishInv, Placed
<1> QED
  BY <1>1, <1>3, RowsStill

LEMMA PlaceSole ==
  ASSUME PublishInv, Sole, NEW p \in Publishes, Place(p)
  PROVE  Sole'
<1>1. /\ p \in Requests /\ at[p].pc = "found" /\ Busy(p) /\ Alone(p) /\ Mine(p)
      /\ agents' = agents /\ relay' = relay
  BY DEF Place, Busy, Requests, Sole, Single, Alone
<1>2. CASE ~at[p].fresh
  BY <1>1, <1>2, GoesOnSole DEF Place, Steps
<1>3. CASE at[p].fresh
  <2> DEFINE row == [st |-> "creating", agent |-> None, gone |-> FALSE]
  <2>1. row \in Row(made) /\ rows' = Append(rows, row)
    BY <1>3 DEF Place, Row, Statuses
  <2>2. /\ Len(rows') = Len(rows) + 1 /\ Len(rows) \in Nat
        /\ rows'[Len(rows) + 1] = row
        /\ \A r \in 1..Len(rows) : rows'[r] = rows[r]
        /\ \A r \in 1..Len(rows') : r \in 1..Len(rows) \/ r = Len(rows) + 1
    BY <2>1, Appended, Shapes
  <2>3. at' = [at EXCEPT ![p] = [at[p] EXCEPT !.pc = "placed", !.row = Len(rows) + 1]]
    BY <1>3 DEF Place
  <2>4. OnlyOne(p) /\ at'[p] = [at[p] EXCEPT !.pc = "placed", !.row = Len(rows) + 1]
    BY <1>1, <2>3, Moves DEF Sole
  <2>5. at[p] \in Request(Len(rows), made) /\ at[p].old = None
    BY <1>1, <1>3, Shapes DEF PublishInv, Placed
  <2>6. /\ at'[p].pc = "placed" /\ at'[p].row = Len(rows) + 1 /\ at'[p].old = None
        /\ at'[p].unpublish = at[p].unpublish
    BY <2>4, <2>5 DEF Request
  <2> HIDE DEF row
  <2>7. \A r \in 1..Len(rows) : ~Live(r)
    BY <1>1, <1>3 DEF Mine
  <2>8. Mine(p)'
    BY <1>1, <2>2, <2>6 DEF Mine, IsLive, Live, Standing, Deleting, row
  <2>9. Counted'
    <3>1. \A a : ~InHand(p, a)
      BY <1>1 DEF InHand
    <3>2. \A y \in Requests, a \in agents : ~InHand(y, a)
      BY <1>1, <2>4, <3>1, NothingInHand
    <3>3. \A a \in agents : \E r \in 1..Len(rows) : Counts(r, a)
      BY <3>2 DEF Sole, Counted
    <3> QED
      BY <1>1, <2>2, <3>3 DEF Counted, Counts, Standing
  <2>10. OneLive'
    BY <2>2, <2>7 DEF OneLive, Live, Standing
  <2>11. Distinct'
    BY <2>2 DEF Sole, Distinct, row
  <2>12. Marked'
    <3>1. \A r \in 1..Len(rows) : Works(r) => r \in 1..Len(rows') /\ Works(r)'
      BY <1>1, <2>2 DEF Works, Live, Standing
    <3> QED
      BY <1>1, <2>4, <2>6, <3>1, MarkedStays
  <2> QED
    BY <1>1, <2>4, <2>8, <2>9, <2>10, <2>11, <2>12, OthersRest DEF Sole
<1> QED
  BY <1>2, <1>3

\* Of an agent whose id is lost nothing is claimed: the step sets mixed.
LEMMA CreateSole ==
  ASSUME PublishInv, Sole, NEW p \in Publishes, Create(p), ~mixed'
  PROVE  Sole'
<1>1. /\ p \in Requests /\ at[p].pc = "placed" /\ Busy(p) /\ Mine(p)
      /\ agents' = agents \cup {made + 1} /\ relay' = relay /\ rows' = rows
      /\ at' = [at EXCEPT ![p] = [at[p] EXCEPT !.pc = "created", !.agent = made + 1]]
  BY DEF Create, Busy, Requests, Sole
<1>2. OnlyOne(p) /\ at'[p] = [at[p] EXCEPT !.pc = "created", !.agent = made + 1]
  BY <1>1, Moves DEF Sole
<1>3. /\ at'[p].pc = "created" /\ at'[p].agent = made + 1 /\ at'[p].row = at[p].row
      /\ at'[p].old = at[p].old /\ at'[p].fresh = at[p].fresh /\ at'[p].unpublish = at[p].unpublish
  BY <1>1, <1>2, Shapes DEF Request
<1>4. Mine(p)'
  BY <1>1, <1>3 DEF Mine, IsLive, Live, Standing, Deleting
<1>5. Counted'
  <2>1. \A a : ~InHand(p, a)
    BY <1>1 DEF InHand
  <2>2. \A y \in Requests, a \in agents : ~InHand(y, a)
    BY <1>1, <1>2, <2>1, NothingInHand
  <2>3. \A a \in agents : \E r \in 1..Len(rows) : Counts(r, a)
    BY <2>2 DEF Sole, Counted
  <2>4. \A a : a = made + 1 => InHand(p, a)'
    BY <1>3 DEF InHand
  <2>5. \A a \in agents : \E r \in 1..Len(rows') : Counts(r, a)'
    BY <1>1, <2>3 DEF Counts, Standing
  <2> QED
    BY <1>1, <2>4, <2>5 DEF Counted
<1>6. OneLive' /\ Distinct'
  BY <1>1 DEF Sole, OneLive, Distinct, Live, Standing
<1>7. Marked'
  <2>1. \A r \in 1..Len(rows) : Works(r) => Works(r)'
    BY <1>1 DEF Works, Live, Standing
  <2> QED
    BY <1>1, <1>2, <1>3, <2>1, MarkedStays
<1> QED
  BY <1>1, <1>2, <1>4, <1>5, <1>6, <1>7, OthersRest DEF Sole

LEMMA FailSole ==
  ASSUME PublishInv, Sole, NEW p \in Publishes, Fail(p)
  PROVE  Sole'
<1>1. /\ p \in Requests /\ at[p].pc = "refused" /\ Busy(p) /\ Mine(p) /\ ~at[p].unpublish
      /\ agents' = agents /\ relay' = relay /\ Ends(p)
  BY DEF Fail, Busy, Requests, Sole, Mine, Deleting
<1>2. CASE rows' = rows
  BY <1>1, <1>2, EndsStill
<1>3. CASE rows' # rows
  <2>1. at[p].fresh /\ rows' = [rows EXCEPT ![at[p].row].st = "failed"]
    BY <1>3 DEF Fail, FailsRow
  <2>2. /\ IsLive(at[p].row) /\ rows[at[p].row].agent = None /\ rows[at[p].row].st = "creating"
        /\ at[p].row \in 1..Len(rows)
    BY <1>1, <2>1 DEF Mine, IsLive, PublishInv, Placed
  <2>3. rows[at[p].row] \in Row(made)
    BY <2>2, Shapes
  <2>4. /\ Len(rows') = Len(rows) /\ rows'[at[p].row].st = "failed"
        /\ \A r \in 1..Len(rows) : rows'[r].agent = rows[r].agent /\ rows'[r].gone = rows[r].gone
        /\ \A r \in 1..Len(rows) : r # at[p].row => rows'[r] = rows[r]
    BY <2>1, <2>2, <2>3, Shapes DEF Row
  <2>5. OnlyOne(p) /\ at'[p] = Rest("done")
    BY <1>1, Moves DEF Ends, Sole
  <2>6. Mine(p)'
    BY <2>5 DEF Mine, Rest, Deleting
  <2>7. Counted'
    <3>1. \A a : ~InHand(p, a)
      BY <1>1 DEF InHand
    <3>2. \A y \in Requests, a \in agents : ~InHand(y, a)
      BY <1>1, <2>5, <3>1, NothingInHand
    <3>3. \A a \in agents : \E r \in 1..Len(rows) : Counts(r, a) /\ r # at[p].row
      BY <2>2, <3>2, Shapes DEF Sole, Counted, Counts
    <3> QED
      BY <1>1, <2>4, <3>3 DEF Counted, Counts, Standing
  <2>8. OneLive' /\ Distinct'
    BY <2>4 DEF Sole, OneLive, Distinct, Live, Standing
  <2>9. Marked'
    <3>1. \A r \in 1..Len(rows) : Works(r) => r \in 1..Len(rows') /\ Works(r)'
      BY <1>1, <2>2, <2>4 DEF Works, Live, Standing
    <3> QED
      BY <1>1, <2>5, <3>1, MarkedStays
  <2> QED
    BY <1>1, <2>5, <2>6, <2>7, <2>8, <2>9, OthersRest DEF Sole
<1> QED
  BY <1>2, <1>3

\* The old agent goes in hand, and the row gets the one that was.
LEMMA SwapSole ==
  ASSUME PublishInv, Sole, NEW p \in Publishes, Swap(p)
  PROVE  Sole'
<1>0. PICK row \in 1..Len(rows) : row = at[p].row
  BY DEF Swap, PublishInv, Placed
<1> DEFINE new == [st |-> "live", agent |-> at[p].agent, gone |-> FALSE]
<1>1. /\ p \in Requests /\ at[p].pc = "created" /\ Busy(p) /\ Mine(p) /\ ~at[p].unpublish
      /\ agents' = agents /\ relay' = relay
      /\ at' = [at EXCEPT ![p] = [at[p] EXCEPT !.pc = "swapped"]] /\ rows' = [rows EXCEPT ![row] = new]
  BY <1>0 DEF Swap, Go, Busy, Requests, Sole, Mine, Deleting
<1>2. row \in 1..Len(rows) /\ Live(row) /\ rows[row].agent = at[p].old
  BY <1>0, <1>1 DEF Mine, IsLive
<1>3. /\ Len(rows') = Len(rows) /\ rows'[row] = new
      /\ \A r \in 1..Len(rows) \ {row} : rows'[r] = rows[r]
  BY <1>1, <1>2, Shapes
<1>4. OnlyOne(p) /\ at'[p] = [at[p] EXCEPT !.pc = "swapped"]
  BY <1>1, Moves DEF Sole
<1>5. /\ at'[p].pc = "swapped" /\ at'[p].agent = at[p].agent /\ at'[p].row = row
      /\ at'[p].old = at[p].old /\ at'[p].unpublish = at[p].unpublish
  BY <1>0, <1>1, <1>4, Shapes DEF Request
<1>6. /\ at[p].agent \in agents /\ at[p].old # at[p].agent
      /\ \A r \in 1..Len(rows) : rows[r].agent # at[p].agent
  BY <1>1 DEF PublishInv, Unknown
<1>7. new.st = "live" /\ new.agent = at[p].agent /\ ~new.gone
  OBVIOUS
<1> HIDE DEF new
<1>8. Live(row)' /\ Works(row)'
  BY <1>1, <1>2, <1>3, <1>5, <1>6, <1>7 DEF Live, Works, Standing
<1>9. Mine(p)'
  <2>1. at[p].old # None => \A r \in 1..Len(rows) : rows'[r].agent # at[p].old
    BY <1>2, <1>3, <1>6, <1>7 DEF Sole, Distinct
  <2>2. IsLive(at[p].row)' /\ rows'[at'[p].row] = new
    BY <1>1, <1>2, <1>3, <1>5, <1>8 DEF IsLive, Live, Standing
  <2> QED
    BY <1>1, <1>3, <1>5, <1>6, <1>7, <2>1, <2>2 DEF Mine, Deleting
<1>10. Counted'
  <2>1. SUFFICES ASSUME NEW a \in agents
                 PROVE  (\E r \in 1..Len(rows) : Counts(r, a)') \/ InHand(p, a)'
    BY <1>1, <1>3, <2>1 DEF Counted
  <2>2. CASE a = at[p].agent
    BY <1>2, <1>3, <1>7, <2>2 DEF Counts, Standing
  <2>3. CASE a # at[p].agent
    <3>1. \A y \in Requests : ~InHand(y, a)
      BY <1>1, <1>4, <2>3, NothingInHand DEF InHand
    <3>2. PICK r \in 1..Len(rows) : Counts(r, a)
      BY <3>1 DEF Sole, Counted
    <3>3. CASE r = row
      BY <1>2, <1>5, <3>2, <3>3 DEF Counts, InHand
    <3>4. CASE r # row
      BY <1>3, <3>2, <3>4 DEF Counts, Standing
    <3> QED
      BY <3>3, <3>4
  <2> QED
    BY <2>2, <2>3
<1>11. OneLive'
  <2>1. \A r \in 1..Len(rows) : Live(r)' => Live(r)
    BY <1>2, <1>3 DEF Live, Standing
  <2> QED
    BY <1>3, <2>1 DEF Sole, OneLive
<1>12. Distinct'
  BY <1>3, <1>6, <1>7 DEF Sole, Distinct
<1>13. Marked'
  BY <1>2, <1>3, <1>8 DEF Marked
<1> QED
  BY <1>1, <1>4, <1>9, <1>10, <1>11, <1>12, <1>13, OthersRest DEF Sole

LEMMA PublishedSole ==
  ASSUME PublishInv, Sole, NEW p \in Publishes, Published(p)
  PROVE  Sole'
<1>1. /\ p \in Requests /\ at[p].pc = "swapped" /\ Busy(p) /\ Mine(p)
      /\ agents' = agents /\ rows' = rows
      /\ at' = [at EXCEPT ![p] = [at[p] EXCEPT !.pc = "published"]]
  BY DEF Published, Go, Busy, Requests, Sole
<1>2. OnlyOne(p) /\ at'[p] = [at[p] EXCEPT !.pc = "published"]
  BY <1>1, Moves DEF Sole
<1>3. /\ at'[p].pc = "published" /\ at'[p].agent = at[p].agent /\ at'[p].row = at[p].row
      /\ at'[p].old = at[p].old /\ at'[p].unpublish = at[p].unpublish
  BY <1>1, <1>2, Shapes DEF Request
<1>4. Mine(p)'
  BY <1>1, <1>3 DEF Mine, IsLive, Live, Standing, Deleting
<1>5. Counted'
  <2>1. \A y \in Requests, a \in agents : InHand(y, a) => InHand(y, a)'
    BY <1>1, <1>2, <1>3 DEF InHand, OnlyOne
  <2>2. \A r \in 1..Len(rows), a \in agents : Counts(r, a) => Counts(r, a)'
    BY <1>1 DEF Counts, Standing
  <2> QED
    BY <1>1, <2>1, <2>2 DEF Sole, Counted
<1>6. OneLive' /\ Distinct'
  BY <1>1 DEF Sole, OneLive, Distinct, Live, Standing
<1>7. Marked'
  <2>1. at[p].row \in 1..Len(rows) /\ Works(at[p].row)
    BY <1>1 DEF Mine, IsLive, Works
  <2>2. \A r \in 1..Len(rows) : Works(r) => Works(r)'
    BY <1>1 DEF Works, Live, Standing
  <2> QED
    BY <1>1, <2>1, <2>2 DEF Marked
<1> QED
  BY <1>1, <1>2, <1>4, <1>5, <1>6, <1>7, OthersRest DEF Sole

LEMMA RetireSole ==
  ASSUME PublishInv, Sole, NEW p \in Publishes, Retire(p)
  PROVE  Sole'
<1>1. /\ p \in Requests /\ at[p].pc = "published" /\ Busy(p) /\ Mine(p) /\ ~at[p].unpublish
      /\ agents' = agents /\ relay' = relay
  BY DEF Retire, Busy, Requests, Sole, Mine, Deleting
<1>2. /\ at[p].row \in 1..Len(rows) /\ rows[at[p].row].agent = at[p].agent
      /\ at[p].old # None => at[p].old # at[p].agent /\ \A r \in 1..Len(rows) : rows[r].agent # at[p].old
  BY <1>1 DEF Mine, IsLive
<1>3. CASE Retired(p) = None
  <2>1. at[p].old = None /\ Ends(p) /\ rows' = rows
    BY <1>2, <1>3 DEF Retire, Retired
  <2>2. OnlyOne(p) /\ at'[p] = Rest("done")
    BY <1>1, <2>1, Moves DEF Ends, Sole
  <2>3. Mine(p)'
    BY <2>2 DEF Mine, Rest, Deleting
  <2>4. Counted'
    <3>1. \A a \in agents : ~InHand(p, a)
      BY <1>1, <2>1, Shapes DEF InHand
    <3>2. \A y \in Requests, a \in agents : ~InHand(y, a)
      BY <1>1, <2>2, <3>1, NothingInHand
    <3>3. \A a \in agents : \E r \in 1..Len(rows) : Counts(r, a)
      BY <3>2 DEF Sole, Counted
    <3> QED
      BY <1>1, <2>1, <3>3 DEF Counted, Counts, Standing
  <2>5. OneLive' /\ Distinct'
    BY <2>1 DEF Sole, OneLive, Distinct, Live, Standing
  <2>6. Marked'
    <3>1. \A r \in 1..Len(rows) : Works(r) => Works(r)'
      BY <1>1, <2>1 DEF Works, Live, Standing
    <3> QED
      BY <1>1, <2>1, <2>2, <3>1, MarkedStays
  <2> QED
    BY <1>1, <2>2, <2>3, <2>4, <2>5, <2>6, OthersRest DEF Sole
<1>4. CASE Retired(p) # None
  <2> DEFINE row == [st |-> "deleting", agent |-> at[p].old, gone |-> FALSE]
  <2>1. Retired(p) = at[p].old /\ at[p].old # None
    BY <1>4 DEF Retired
  <2>2. /\ rows' = Append(rows, row)
        /\ at' = [at EXCEPT ![p] = [at[p] EXCEPT !.pc = "deleting", !.tomb = Len(rows) + 1, !.old = at[p].old]]
    BY <1>4, <2>1 DEF Retire
  <2>3. row \in Row(made)
    BY <1>1, Shapes DEF Row, Statuses, Request
  <2>4. /\ Len(rows') = Len(rows) + 1 /\ Len(rows) \in Nat
        /\ rows'[Len(rows) + 1] = row
        /\ \A r \in 1..Len(rows) : rows'[r] = rows[r]
        /\ \A r \in 1..Len(rows') : r \in 1..Len(rows) \/ r = Len(rows) + 1
    BY <2>2, <2>3, Appended, Shapes
  <2>5. /\ OnlyOne(p)
        /\ at'[p] = [at[p] EXCEPT !.pc = "deleting", !.tomb = Len(rows) + 1, !.old = at[p].old]
    BY <1>1, <2>2, Moves DEF Sole
  <2>6. /\ at'[p].pc = "deleting" /\ at'[p].tomb = Len(rows) + 1 /\ at'[p].old = at[p].old
        /\ at'[p].unpublish = at[p].unpublish
    BY <1>1, <2>5, Shapes DEF Request
  <2>7. row.st = "deleting" /\ row.agent = at[p].old /\ ~row.gone
    OBVIOUS
  <2> HIDE DEF row
  <2>8. Mine(p)'
    BY <1>1, <2>4, <2>6, <2>7 DEF Mine, Standing, Deleting
  <2>9. Counted'
    <3>1. SUFFICES ASSUME NEW a \in agents
                   PROVE  \E r \in 1..Len(rows') : Counts(r, a)'
      BY <1>1, <3>1 DEF Counted
    <3>2. CASE a = at[p].old
      BY <2>4, <2>7, <3>2 DEF Counts, Standing
    <3>3. CASE a # at[p].old
      <4>1. \A y \in Requests : ~InHand(y, a)
        BY <1>1, <2>5, <3>3, NothingInHand DEF InHand
      <4>2. PICK r \in 1..Len(rows) : Counts(r, a)
        BY <4>1 DEF Sole, Counted
      <4> QED
        BY <2>4, <4>2 DEF Counts, Standing
    <3> QED
      BY <3>2, <3>3
  <2>10. OneLive'
    BY <2>4, <2>7 DEF Sole, OneLive, Live, Standing
  <2>11. Distinct'
    BY <1>2, <2>1, <2>4, <2>7 DEF Sole, Distinct
  <2>12. Marked'
    <3>1. \A r \in 1..Len(rows) : Works(r) => r \in 1..Len(rows') /\ Works(r)'
      BY <1>1, <2>4 DEF Works, Live, Standing
    <3> QED
      BY <1>1, <2>5, <2>6, <3>1, MarkedStays
  <2> QED
    BY <1>1, <2>5, <2>8, <2>9, <2>10, <2>11, <2>12, OthersRest DEF Sole
<1> QED
  BY <1>3, <1>4

LEMMA TakeSole ==
  ASSUME PublishInv, Sole, NEW d \in Deletes, NEW r \in DOMAIN rows, Alone(d), Unpublish(d, r) \/ Retry(d, r)
  PROVE  Sole'
<1>1. PICK unpublish \in BOOLEAN :
        Take(d, r, unpublish) /\ Standing(r) /\ (~unpublish => rows[r].st = "deleting")
  BY DEF Unpublish, Retry
<1>2. /\ d \in Requests /\ at[d].pc = "idle" /\ UNCHANGED <<rows, agents, relay>> /\ ~at[d].unpublish
      /\ at' = [at EXCEPT ![d] = [at[d] EXCEPT !.pc = "deleting", !.tomb = r, !.old = rows[r].agent,
                                               !.unpublish = unpublish]]
  BY <1>1 DEF Take, Requests, Sole, Mine, Deleting
<1>3. OnlyOne(d) /\ at'[d] = [at[d] EXCEPT !.pc = "deleting", !.tomb = r, !.old = rows[r].agent,
                                           !.unpublish = unpublish]
  BY <1>2, Shapes DEF OnlyOne, Alone
<1>4. /\ at'[d].pc = "deleting" /\ at'[d].tomb = r /\ at'[d].old = rows[r].agent
      /\ at'[d].unpublish = unpublish
  BY <1>2, <1>3, Shapes DEF Request
<1>5. Mine(d)'
  BY <1>1, <1>2, <1>4 DEF Mine, Standing, Deleting
<1> QED
  BY <1>2, <1>3, <1>5, RowsStill

\* Only the row of the deletion has the agent that goes, and it is no live one
\* unless the owner asked.
LEMMA DeleteSole ==
  ASSUME PublishInv, Sole, NEW x \in Requests, Delete(x)
  PROVE  Sole'
<1>1. /\ at[x].pc = "deleting" /\ Busy(x) /\ Mine(x)
      /\ rows' = rows /\ relay' = relay /\ agents \ {at[x].old} \subseteq agents' /\ agents' \subseteq agents
  BY DEF Delete, Busy, Sole
<1>2. PICK pc \in {"gone", "kept"} : at' = [at EXCEPT ![x] = [at[x] EXCEPT !.pc = pc]]
  BY DEF Delete, Go
<1>3. pc = "gone" => agents' = agents \ {at[x].old}
  <2>1. at'[x].pc = pc
    BY <1>2, Shapes DEF Request
  <2>2. Go(x, "kept") => at'[x].pc = "kept"
    BY Shapes DEF Go, Request
  <2> QED
    BY <2>1, <2>2 DEF Delete
<1>4. OnlyOne(x) /\ at'[x] = [at[x] EXCEPT !.pc = pc]
  BY <1>1, <1>2, Moves DEF Sole
<1>5. at'[x].pc = pc /\ at'[x].tomb = at[x].tomb /\ at'[x].old = at[x].old /\ at'[x].unpublish = at[x].unpublish
  BY <1>4, Shapes DEF Request
<1>6. Mine(x)'
  BY <1>1, <1>2, <1>3, <1>5 DEF Mine, Standing, Deleting
<1>7. Counted'
  <2>1. \A a : ~InHand(x, a)
    BY <1>1 DEF InHand
  <2>2. \A y \in Requests, a \in agents : ~InHand(y, a)
    BY <1>4, <2>1, NothingInHand
  <2>3. \A a \in agents : \E r \in 1..Len(rows) : Counts(r, a)
    BY <2>2 DEF Sole, Counted
  <2> QED
    BY <1>1, <2>3 DEF Counted, Counts, Standing
<1>8. OneLive' /\ Distinct'
  BY <1>1 DEF Sole, OneLive, Distinct, Live, Standing
<1>9. Marked'
  <2>1. CASE at[x].unpublish
    BY <1>5, <2>1 DEF Marked
  <2>2. CASE ~at[x].unpublish
    <3>1. /\ rows[at[x].tomb].st = "deleting" /\ rows[at[x].tomb].agent = at[x].old
          /\ at[x].tomb \in 1..Len(rows)
      BY <1>1, <2>2 DEF Mine, Deleting, PublishInv, Placed
    <3>2. \A r \in 1..Len(rows) : Works(r) => rows[r].agent # at[x].old
      BY <3>1, Shapes DEF Works, Sole, Distinct
    <3>3. \A r \in 1..Len(rows) : Works(r) => Works(r)'
      BY <1>1, <3>2 DEF Works, Live, Standing
    <3> QED
      BY <1>1, <1>4, <1>5, <3>3, MarkedStays
  <2> QED
    BY <2>1, <2>2
<1> QED
  BY <1>4, <1>6, <1>7, <1>8, <1>9, OthersRest DEF Sole

\* A row whose agent is gone counts it no more; one whose agent may be there stays
\* a tombstone.
LEMMA SettleSole ==
  ASSUME PublishInv, Sole, NEW x \in Requests, Settle(x)
  PROVE  Sole'
<1>0. PICK tomb \in 1..Len(rows) : tomb = at[x].tomb
  BY DEF Settle, PublishInv, Placed, Deleting
<1> DEFINE new == AfterDelete(rows[tomb], at[x].pc)
<1>1. /\ at[x].pc \in {"gone", "kept"} /\ Busy(x) /\ Mine(x)
      /\ agents' = agents /\ relay' = relay /\ rows' = [rows EXCEPT ![tomb] = new]
  BY <1>0 DEF Settle, Busy, Sole
<1>2. /\ Standing(tomb) /\ rows[tomb].agent = at[x].old
      /\ ~at[x].unpublish => rows[tomb].st = "deleting"
      /\ at[x].pc = "gone" => at[x].old \notin agents
  BY <1>0, <1>1 DEF Mine, Deleting
<1>3. new.agent = rows[tomb].agent /\ new.st \in {"deleting", "deleted"}
      /\ (at[x].pc = "kept" => new.st = "deleting" /\ ~new.gone)
  <2>1. rows[tomb] \in Row(made)
    BY Shapes
  <2> QED
    BY <1>2, <2>1 DEF AfterDelete, Row, Standing
<1> HIDE DEF new
<1>4. /\ Len(rows') = Len(rows) /\ rows'[tomb] = new
      /\ \A r \in 1..Len(rows) \ {tomb} : rows'[r] = rows[r]
  BY <1>1, Shapes
<1>5. /\ OnlyOne(x) /\ Mine(x)'
      /\ at'[x].unpublish = at[x].unpublish
  <2>1. CASE at[x].unpublish
    <3>1. at' = [at EXCEPT ![x] = [at[x] EXCEPT !.pc = "unmark"]]
      BY <2>1 DEF Settle, Go
    <3>2. OnlyOne(x) /\ at'[x] = [at[x] EXCEPT !.pc = "unmark"]
      BY <1>1, <3>1, Moves DEF Sole
    <3>3. at'[x].pc = "unmark" /\ at'[x].unpublish
      BY <2>1, <3>2, Shapes DEF Request
    <3> QED
      BY <2>1, <3>2, <3>3 DEF Mine, Deleting
  <2>2. CASE ~at[x].unpublish
    <3>1. OnlyOne(x) /\ at'[x] = Rest("done")
      BY <1>1, <2>2, Moves DEF Settle, Ends, Sole
    <3>2. at[x].unpublish = FALSE
      BY <2>2, Shapes DEF Request
    <3>3. at'[x].pc = "done" /\ at'[x].unpublish = FALSE
      BY <3>1 DEF Rest
    <3> QED
      BY <3>1, <3>2, <3>3 DEF Mine, Deleting
  <2> QED
    BY <2>1, <2>2
<1>6. Counted'
  <2>1. \A a : ~InHand(x, a)
    BY <1>1 DEF InHand
  <2>2. \A y \in Requests, a \in agents : ~InHand(y, a)
    BY <1>5, <2>1, NothingInHand
  <2>3. \A a \in agents : \E r \in 1..Len(rows) : Counts(r, a)
    BY <2>2 DEF Sole, Counted
  <2>4. \A r \in 1..Len(rows), a \in agents : Counts(r, a) => Counts(r, a)'
    <3>1. \A a \in agents : Counts(tomb, a) => Counts(tomb, a)'
      BY <1>1, <1>2, <1>3, <1>4 DEF Counts, Standing
    <3>2. \A r \in 1..Len(rows) \ {tomb}, a \in agents : Counts(r, a) => Counts(r, a)'
      BY <1>4 DEF Counts, Standing
    <3> QED
      BY <3>1, <3>2
  <2> QED
    BY <1>1, <1>4, <2>3, <2>4 DEF Counted
<1>7. OneLive'
  BY <1>3, <1>4 DEF Sole, OneLive, Live, Standing
<1>8. Distinct'
  <2>1. \A r \in 1..Len(rows) : rows'[r].agent = rows[r].agent
    BY <1>3, <1>4
  <2> QED
    BY <1>4, <2>1 DEF Sole, Distinct
<1>9. Marked'
  <2>1. CASE at[x].unpublish
    BY <1>5, <2>1 DEF Marked
  <2>2. CASE ~at[x].unpublish
    <3>1. \A r \in 1..Len(rows) : Works(r) => r # tomb
      BY <1>2, <2>2 DEF Works
    <3>2. \A r \in 1..Len(rows) : Works(r) => r \in 1..Len(rows') /\ Works(r)'
      BY <1>1, <1>4, <3>1 DEF Works, Live, Standing
    <3> QED
      BY <1>1, <1>5, <3>2, MarkedStays
  <2> QED
    BY <2>1, <2>2
<1> QED
  BY <1>5, <1>6, <1>7, <1>8, <1>9, OthersRest DEF Sole

LEMMA SoleStep ==
  ASSUME PublishInv, SoleInv, [Next]_vars
  PROVE  SoleInv'
<1> SUFFICES ASSUME ~mixed'
             PROVE  Sole'
  BY DEF SoleInv
<1>1. ASSUME ~mixed
      PROVE  Sole
  BY <1>1 DEF SoleInv
<1>2. Publishes \subseteq Requests /\ Deletes \subseteq Requests
  BY DEF Requests
<1>3. ASSUME Remove \/ UNCHANGED vars
      PROVE  Sole'
  <2>1. UNCHANGED <<rows, agents, at, mixed>> /\ relay'.st = relay.st
    <3>1. Remove => relay'.st = relay.st
      BY DEF Remove, PublishInv, Typed
    <3> QED
      BY <1>3, <3>1 DEF Remove, vars
  <2>2. Sole
    BY <1>1, <2>1
  <2>3. Single' /\ Counted' /\ OneLive' /\ Distinct'
    BY <2>1, <2>2 DEF Sole, Single, Busy, Counted, Counts, InHand, OneLive, Distinct, Live, Standing
  <2>4. \A x \in Requests : Mine(x)'
    BY <2>1, <2>2 DEF Sole, Mine, IsLive, Live, Standing
  <2>5. Marked'
    BY <2>1, <2>2 DEF Sole, Marked, Works, Live, Standing
  <2> QED
    BY <2>3, <2>4, <2>5 DEF Sole
<1>4. ASSUME NEW p \in Publishes, Publish(p)
      PROVE  Sole'
  <2>1. CASE Begin(p)
    <3>1. Sole /\ Alone(p)
      BY <1>1, <2>1 DEF Begin, Overlaps, Alone
    <3> QED
      BY <1>2, <2>1, <3>1, GoesOnSole DEF Begin, Steps
  <2>2. CASE ~Begin(p)
    <3>1. Sole
      BY <1>1, <1>4, <2>2 DEF Publish, Find, Refuse, Place, Create, CreateFails, Fail, Swap, Published, Retire
    <3>2. ASSUME Refuse(p)
          PROVE  Sole'
      <4>1. at[p].pc = "found" /\ Busy(p) /\ Ends(p) /\ UNCHANGED <<rows, agents, relay>> /\ ~at[p].unpublish
        BY <1>2, <3>1, <3>2 DEF Refuse, Busy, Sole, Mine, Deleting
      <4> QED
        BY <1>2, <3>1, <4>1, EndsStill
    <3>3. ASSUME CreateFails(p)
          PROVE  Sole'
      <4>1. /\ at[p].pc = "placed" /\ Busy(p) /\ Go(p, "refused") /\ UNCHANGED <<rows, agents, relay>>
        BY <3>3 DEF CreateFails, Busy
      <4>2. Alone(p)
        BY <1>2, <3>1, <4>1 DEF Sole, Single, Alone
      <4> QED
        BY <1>2, <3>1, <4>1, <4>2, GoesOnSole DEF Steps
    <3> QED
      BY <1>4, <2>2, <3>1, <3>2, <3>3, FindSole, PlaceSole, CreateSole, FailSole, SwapSole, PublishedSole,
         RetireSole DEF Publish
  <2> QED
    BY <2>1, <2>2
<1>5. ASSUME NEW d \in Deletes, NEW r \in DOMAIN rows, Unpublish(d, r) \/ Retry(d, r)
      PROVE  Sole'
  <2>1. Sole /\ Alone(d)
    BY <1>1, <1>5 DEF Unpublish, Retry, Take, Overlaps, Alone
  <2> QED
    BY <1>5, <2>1, TakeSole
<1>6. ASSUME NEW x \in Requests, Delete(x) \/ Settle(x) \/ Unmark(x)
      PROVE  Sole'
  <2>1. Sole
    BY <1>1, <1>6 DEF Delete, Settle, Unmark
  <2>2. ASSUME Unmark(x)
        PROVE  Sole'
    <3>1. at[x].pc = "unmark" /\ Busy(x) /\ Ends(x) /\ UNCHANGED <<rows, agents>> /\ relay'.st = "draft"
      BY <2>2 DEF Unmark, Busy, Mark, PublishInv, Typed
    <3> QED
      BY <2>1, <3>1, EndsStill
  <2> QED
    BY <1>6, <2>1, <2>2, DeleteSole, SettleSole
<1>7. \A x \in Requests : ~Dies(x)
  BY DEF Dies
<1> QED
  BY <1>3, <1>4, <1>5, <1>6, <1>7 DEF Next

\* Requests at rest have nothing in hand, so the rows account for everything.
LEMMA SoleAccounts ==
  ASSUME PublishInv, Sole, \A x \in Requests : ~Busy(x)
  PROVE  /\ agents \subseteq {rows[r].agent : r \in {q \in DOMAIN rows :
                                Standing(q) /\ rows[q].st \in {"creating", "live", "deleting"}}}
         /\ Cardinality(LiveRows) <= 1
         /\ relay.st = "published" => Serving
<1>1. DOMAIN rows = 1..Len(rows)
  BY Shapes
<1>2. \A x \in Requests, a \in agents : ~InHand(x, a) /\ ~at[x].unpublish
  BY DEF Busy, InHand, Sole, Mine, Deleting
<1>3. \A a \in agents : \E r \in 1..Len(rows) : Counts(r, a)
  BY <1>2 DEF Sole, Counted
<1>4. agents \subseteq {rows[r].agent : r \in {q \in DOMAIN rows :
                          Standing(q) /\ rows[q].st \in {"creating", "live", "deleting"}}}
  BY <1>1, <1>3 DEF Counts
<1>5. Cardinality(LiveRows) <= 1
  <2>1. CASE LiveRows = {}
    BY <2>1, FS_EmptySet
  <2>2. CASE LiveRows # {}
    <3>1. PICK r : r \in LiveRows
      BY <2>2
    <3>2. LiveRows = {r}
      BY <1>1, <3>1 DEF LiveRows, Sole, OneLive
    <3>3. Cardinality(LiveRows) = 1
      BY <3>2, FS_Singleton
    <3> QED
      BY <3>3
  <2> QED
    BY <2>1, <2>2
<1>6. relay.st = "published" => Serving
  <2>1. \A x \in Requests : ~at[x].unpublish
    BY DEF Busy, Sole, Mine, Deleting
  <2>2. relay.st = "published" => \E r \in 1..Len(rows) : Works(r)
    BY <2>1 DEF Sole, Marked
  <2> QED
    BY <1>1, <2>2 DEF Works, Serving, LiveRows
<1> QED
  BY <1>4, <1>5, <1>6

\* However often the provider refuses, of requests that came one at a time: every
\* agent on the account is in a row that counts it, one publication is live at
\* most, and the relay is published only while its link works.
THEOREM AccountedAlways == Spec => []Accounted
<1>1. PublishInv /\ SoleInv => Accounted
  BY SoleAccounts DEF SoleInv, Accounted
<1>2. Spec => []SoleInv
  BY SoleInit, SoleStep, PublishInvAlways, PTL DEF Spec
<1> QED
  BY <1>1, <1>2, PublishInvAlways, PTL

-----------------------------------------------------------------------------
(* StudioDraft: the draft of a relay *)

Page ==
  [open: BOOLEAN, text: Texts, saved: Texts, fresh: BOOLEAN,
   status: {"clean", "dirty", "saving", "saved", "invalid", "conflict", "error"},
   saving: BOOLEAN, edited: BOOLEAN, parse: BOOLEAN, timer: BOOLEAN,
   asks: BOOLEAN, theirs: Texts \cup {NoText}, theirsFresh: BOOLEAN,
   restorable: Texts \cup {NoText},
   wiped: BOOLEAN, missed: BOOLEAN, knows: BOOLEAN]

\* What the bar says of a page.
SaysSaved(p) == p.status \in {"saved", "clean"} => p.text = p.saved

\* The page's unsaved text is in the browser, and a text undone under a save counts as wiped.
Keeps(p, k) ==
  /\ p.open /\ p.text # p.saved /\ ~p.wiped => k = p.text
  /\ p.open /\ p.saving /\ p.text = p.saved => p.wiped

\* A page with the draft's revision has it from its author.
Knows(p) == p.fresh => p.knows

\* A request is the page's own, carries a valid text, and knows what it replaces.
Asked ==
  /\ req.pc # "none" => page.open /\ page.saving
  /\ req.pc \in {"sent", "ok"} => req.text \in Valid
  /\ req.pc = "sent" /\ req.fresh => req.knows

StudioInv == DraftTypeOK /\ SaysSaved(page) /\ Keeps(page, kept) /\ Knows(page) /\ Asked

-----------------------------------------------------------------------------
(* The helpers of the store *)

LEMMA OpenedPage ==
  ASSUME kept \in Texts \cup {NoText}, NEW x \in Texts
  PROVE  /\ Opened(x) \in Page /\ SaysSaved(Opened(x)) /\ Knows(Opened(x)) /\ Keeps(Opened(x), kept')
         /\ Keeps(Opened(x), kept)
BY DEF Opened, Page, SaysSaved, Knows, Keeps

LEMMA ParsedPage ==
  ASSUME NEW p \in Page, SaysSaved(p)
  PROVE  /\ Parsed(p) \in Page /\ SaysSaved(Parsed(p))
         /\ Knows(p) => Knows(Parsed(p))
         /\ \A k : Keeps(p, k) => Keeps(Parsed(p), k)
         /\ Parsed(p).open = p.open /\ Parsed(p).saving = p.saving
         /\ Parsed(p).text = p.text /\ Parsed(p).saved = p.saved /\ Parsed(p).wiped = p.wiped
         /\ Parsed(p).fresh = p.fresh /\ Parsed(p).knows = p.knows
<1>1. /\ StatusFor(p) \in {"clean", "dirty", "saving", "saved", "invalid", "conflict", "error"}
      /\ StatusFor(p) \in {"saved", "clean"} => p.text = p.saved
  BY DEF StatusFor, Page, SaysSaved
<1> DEFINE status == StatusFor(p)
<1>2. Parsed(p) = [p EXCEPT !.parse = FALSE, !.status = status]
  BY DEF Parsed
<1> HIDE DEF status
<1> QED
  BY <1>1, <1>2 DEF Page, SaysSaved, Knows, Keeps, status

LEMMA EditedPage ==
  ASSUME NEW p \in Page, NEW x \in Texts, Knows(p)
  PROVE  /\ Edited(p, x) \in Page /\ SaysSaved(Edited(p, x)) /\ Knows(Edited(p, x))
         /\ Mirrored(Edited(p, x)) \in Texts \cup {NoText}
         /\ Keeps(Edited(p, x), Mirrored(Edited(p, x)))
         /\ Edited(p, x).open = p.open /\ Edited(p, x).saving = p.saving
BY DEF Edited, Page, SaysSaved, Knows, Keeps, Mirrored

LEMMA BehindPage ==
  ASSUME NEW p \in Page, SaysSaved(p)
  PROVE  /\ Behind(p) \in Page /\ SaysSaved(Behind(p)) /\ Knows(Behind(p))
         /\ \A k : Keeps(p, k) => Keeps(Behind(p), k)
         /\ Behind(p).open = p.open /\ Behind(p).saving = p.saving
BY DEF Behind, Page, SaysSaved, Knows, Keeps

-----------------------------------------------------------------------------
(* One step per action *)

LEMMA StudioInit ==
  ASSUME DraftInit
  PROVE  StudioInv
<1>1. draft \in Texts /\ kept = NoText /\ page = Opened(draft) /\ req = NoRequest /\ late = {}
  BY DEF DraftInit, Valid
<1>2. page \in Page /\ SaysSaved(page) /\ Knows(page) /\ Keeps(page, kept)
  BY <1>1, OpenedPage
<1>3. Asked
  BY <1>1 DEF Asked, NoRequest
<1>4. DraftTypeOK
  BY <1>1, <1>2 DEF DraftInit, DraftTypeOK, Page, NoRequest
<1> QED
  BY <1>2, <1>3, <1>4 DEF StudioInv

\* The author and the page's own timers: nothing but the page and the copy change.
LEMMA AuthorStep ==
  ASSUME StudioInv,
         \/ Open \/ Restore \/ Discard \/ KeepMine \/ TakeTheirs \/ Parse
         \/ \E x \in Texts : Edit(x)
  PROVE  StudioInv'
<1>1. /\ page \in Page /\ kept \in Texts \cup {NoText} /\ SaysSaved(page) /\ Knows(page) /\ Keeps(page, kept)
      /\ draft \in Texts /\ NoText \notin Texts /\ Asked
  BY StudioAssumption DEF StudioInv, DraftTypeOK, Page, Valid
<1>2. UNCHANGED <<draft, req, late>>
  BY DEF Open, Restore, Discard, KeepMine, TakeTheirs, Parse, Edit
<1>3. SUFFICES /\ page' \in Page /\ kept' \in Texts \cup {NoText}
               /\ SaysSaved(page') /\ Knows(page') /\ Keeps(page', kept')
               /\ page.open => page'.open = page.open /\ page'.saving = page.saving
  BY <1>2 DEF StudioInv, DraftTypeOK, Page, Asked
<1>4. CASE Open
  BY <1>1, <1>4, OpenedPage DEF Open
<1>5. ASSUME NEW x \in Texts, Edit(x)
      PROVE  /\ page' \in Page /\ kept' \in Texts \cup {NoText}
             /\ SaysSaved(page') /\ Knows(page') /\ Keeps(page', kept')
             /\ page'.open = page.open /\ page'.saving = page.saving
  BY <1>1, <1>5, EditedPage DEF Edit
<1>6. CASE Restore
  <2> DEFINE p == [page EXCEPT !.restorable = NoText]
  <2>1. p \in Page /\ Knows(p) /\ p.open = page.open /\ p.saving = page.saving
    BY <1>1 DEF Page, Knows
  <2>2. page.restorable \in Texts
    BY <1>1, <1>6 DEF Restore, Page
  <2>3. page' = Edited(p, page.restorable) /\ kept' = Mirrored(page')
    BY <1>6 DEF Restore
  <2> HIDE DEF p
  <2> QED
    BY <2>1, <2>2, <2>3, EditedPage
<1>7. CASE Discard
  BY <1>1, <1>7 DEF Discard, Page, SaysSaved, Knows, Keeps
<1>8. CASE KeepMine
  BY <1>1, <1>8 DEF KeepMine, Page, SaysSaved, Knows, Keeps
<1>9. CASE TakeTheirs
  <2> DEFINE p == [page EXCEPT !.text = page.theirs, !.saved = page.theirs, !.fresh = page.theirsFresh,
                               !.asks = FALSE, !.theirs = NoText, !.theirsFresh = FALSE,
                               !.status = "clean", !.knows = page.theirsFresh, !.wiped = page.saving]
  <2>1. page.theirs \in Texts
    BY <1>1, <1>9 DEF TakeTheirs, Page
  <2>2. p \in Page /\ SaysSaved(p) /\ Knows(p) /\ p.open = page.open /\ p.saving = page.saving
        /\ Keeps(p, NoText)
    BY <1>1, <2>1 DEF Page, SaysSaved, Knows, Keeps
  <2>3. page' = Parsed(p) /\ kept' = NoText
    BY <1>9 DEF TakeTheirs
  <2> HIDE DEF p
  <2> QED
    BY <2>2, <2>3, ParsedPage
<1>10. CASE Parse
  BY <1>1, <1>10, ParsedPage DEF Parse
<1> QED
  BY <1>4, <1>5, <1>6, <1>7, <1>8, <1>9, <1>10

LEMMA CloseStep ==
  ASSUME StudioInv, NEW left \in BOOLEAN, Close(left)
  PROVE  StudioInv'
<1>1. /\ page \in Page /\ kept \in Texts \cup {NoText} /\ draft \in Valid /\ Asked
      /\ req \in [pc: {"none", "sent", "ok", "conflict", "error"}, text: Texts, fresh: BOOLEAN, knows: BOOLEAN]
      /\ late \subseteq [pc: {"sent", "ok"}, text: Valid, fresh: BOOLEAN, wipes: BOOLEAN]
  BY DEF StudioInv, DraftTypeOK, Page
<1>2. page.saved \in Texts
  BY <1>1 DEF Page
<1> DEFINE p == Opened(page.saved)
<1>3. p \in Page /\ SaysSaved(p) /\ Knows(p)
  BY <1>1, <1>2, OpenedPage
<1>4. page' = [p EXCEPT !.open = FALSE, !.restorable = NoText] /\ req' = NoRequest /\ UNCHANGED <<kept, draft>>
  BY DEF Close
<1> HIDE DEF p
<1>5. page' \in Page /\ SaysSaved(page') /\ Knows(page') /\ Keeps(page', kept')
  BY <1>3, <1>4 DEF Page, SaysSaved, Knows, Keeps
<1>6. late' \subseteq [pc: {"sent", "ok"}, text: Valid, fresh: BOOLEAN, wipes: BOOLEAN]
  <2>1. CASE UNCHANGED late
    BY <1>1, <2>1
  <2>2. CASE req.pc \in {"sent", "ok"}
    <3> DEFINE wipes == left /\ StillCurrent(page, req.text)
    <3> DEFINE rest == [pc |-> req.pc, text |-> req.text, fresh |-> req.fresh, wipes |-> wipes]
    <3>1. wipes \in BOOLEAN
      BY DEF StillCurrent
    <3>2. late' = late \cup {rest}
      BY <2>2 DEF Close
    <3>3. req.text \in Valid /\ req.fresh \in BOOLEAN
      BY <1>1, <2>2 DEF Asked
    <3> HIDE DEF wipes
    <3> QED
      BY <1>1, <2>2, <3>1, <3>2, <3>3
  <2> QED
    BY <2>1, <2>2 DEF Close
<1>7. req'.pc = "none" /\ req' \in [pc: {"none"}, text: Valid, fresh: BOOLEAN, knows: BOOLEAN]
  BY <1>1, <1>4 DEF NoRequest
<1> QED
  BY <1>1, <1>4, <1>5, <1>6, <1>7 DEF StudioInv, DraftTypeOK, Page, Asked, Valid

SaveRequest == [pc: {"none", "sent", "ok", "conflict", "error"}, text: Texts, fresh: BOOLEAN, knows: BOOLEAN]
LateRequest == [pc: {"sent", "ok"}, text: Valid, fresh: BOOLEAN, wipes: BOOLEAN]

\* A save starts over a text that is not the saved one.
LEMMA SaveStep ==
  ASSUME StudioInv, page.open, SaveNow
  PROVE  StudioInv'
<1> DEFINE p0 == [page EXCEPT !.timer = FALSE]
<1> DEFINE p == Parsed(p0)
<1>1. /\ page \in Page /\ SaysSaved(page) /\ Knows(page) /\ Keeps(page, kept) /\ Asked /\ req \in SaveRequest
      /\ UNCHANGED <<kept, draft, late>>
  BY DEF StudioInv, DraftTypeOK, Page, SaveRequest, SaveNow
<1>2. p0 \in Page /\ SaysSaved(p0) /\ Knows(p0) /\ Keeps(p0, kept) /\ p0.open /\ p0.saving = page.saving
  BY <1>1 DEF Page, SaysSaved, Knows, Keeps
<1> HIDE DEF p0
<1>3. p \in Page /\ SaysSaved(p) /\ Knows(p) /\ Keeps(p, kept) /\ p.open /\ p.saving = page.saving
  BY <1>2, ParsedPage
<1>4. \/ /\ p.saving /\ req' = req
         /\ page' = [p EXCEPT !.missed = req.pc # "none"]
      \/ /\ ~p.saving /\ p.text = p.saved /\ req' = req
         /\ page' = [p EXCEPT !.status = "clean"]
      \/ /\ ~p.saving /\ p.text # p.saved /\ req' = req
         /\ page' = [p EXCEPT !.status = "invalid"]
      \/ /\ ~p.saving /\ p.text # p.saved /\ p.text \notin Broken
         /\ page' = [p EXCEPT !.status = "saving", !.saving = TRUE, !.edited = FALSE]
         /\ req' = [pc |-> "sent", text |-> p.text, fresh |-> p.fresh, knows |-> p.knows]
  BY DEF SaveNow, p0
<1> HIDE DEF p
<1>5. page' \in Page /\ SaysSaved(page') /\ Knows(page') /\ Keeps(page', kept)
  <2>1. CASE page' = [p EXCEPT !.missed = req.pc # "none"]
    <3> DEFINE m == req.pc # "none"
    <3>1. m \in BOOLEAN /\ page' = [p EXCEPT !.missed = m]
      BY <2>1
    <3> HIDE DEF m
    <3> QED
      BY <1>3, <3>1 DEF Page, SaysSaved, Knows, Keeps
  <2>2. CASE p.text = p.saved /\ page' = [p EXCEPT !.status = "clean"]
    BY <1>3, <2>2 DEF Page, SaysSaved, Knows, Keeps
  <2>3. CASE page' = [p EXCEPT !.status = "invalid"]
    BY <1>3, <2>3 DEF Page, SaysSaved, Knows, Keeps
  <2>4. CASE p.text # p.saved /\ page' = [p EXCEPT !.status = "saving", !.saving = TRUE, !.edited = FALSE]
    BY <1>3, <2>4 DEF Page, SaysSaved, Knows, Keeps
  <2> QED
    BY <1>4, <2>1, <2>2, <2>3, <2>4
<1>6. req' \in SaveRequest /\ Asked'
  <2>1. CASE req' = req
    <3>1. page'.open /\ (page.saving => page'.saving)
      BY <1>3, <1>4 DEF Page
    <3> QED
      BY <1>1, <2>1, <3>1 DEF Asked
  <2>2. CASE req' # req
    <3>1. /\ p.text \in Valid /\ page' = [p EXCEPT !.status = "saving", !.saving = TRUE, !.edited = FALSE]
          /\ req' = [pc |-> "sent", text |-> p.text, fresh |-> p.fresh, knows |-> p.knows]
      BY <1>3, <1>4, <2>2 DEF Page, Valid
    <3>2. page'.open /\ page'.saving
      BY <1>3, <3>1 DEF Page
    <3>3. p.text \in Texts /\ p.fresh \in BOOLEAN /\ p.knows \in BOOLEAN /\ (p.fresh => p.knows)
      BY <1>3 DEF Page, Knows
    <3> QED
      BY <3>1, <3>2, <3>3 DEF Asked, SaveRequest
  <2> QED
    BY <2>1, <2>2
<1> QED
  BY <1>1, <1>5, <1>6 DEF StudioInv, DraftTypeOK, Page, SaveRequest

LEMMA AnswerStep ==
  ASSUME StudioInv, AnswerOk \/ AnswerConflict \/ AnswerError
  PROVE  StudioInv'
<1>1. /\ page \in Page /\ SaysSaved(page) /\ Knows(page) /\ Keeps(page, kept) /\ Asked /\ req \in SaveRequest
      /\ kept \in Texts \cup {NoText} /\ draft \in Valid
      /\ req' = NoRequest /\ UNCHANGED <<draft, late>>
  BY DEF StudioInv, DraftTypeOK, Page, SaveRequest, AnswerOk, AnswerConflict, AnswerError
<1>2. page.open /\ page.saving
  BY <1>1 DEF Asked, AnswerOk, AnswerConflict, AnswerError
<1>3. req' \in SaveRequest /\ Asked'
  BY <1>1 DEF NoRequest, SaveRequest, Asked, Valid
<1>4. SUFFICES /\ page' \in Page /\ kept' \in Texts \cup {NoText}
               /\ SaysSaved(page') /\ Knows(page') /\ Keeps(page', kept')
  BY <1>1, <1>3 DEF StudioInv, DraftTypeOK, Page, SaveRequest
<1>5. CASE AnswerOk
  <2> DEFINE current == StillCurrent(page, req.text)
  <2> DEFINE p == [page EXCEPT !.fresh = req.fresh, !.knows = req.fresh, !.saved = req.text,
                               !.saving = FALSE, !.status = IF current THEN "saved" ELSE "dirty"]
  <2>1. page' = p /\ kept' = IF current THEN NoText ELSE kept
    BY <1>5 DEF AnswerOk
  <2>2. current => page.text = req.text
    BY DEF StillCurrent
  <2>3. req.text \in Texts /\ req.fresh \in BOOLEAN
    BY <1>1 DEF SaveRequest
  <2> HIDE DEF current
  <2>4. p \in Page /\ SaysSaved(p) /\ Knows(p)
    BY <1>1, <2>2, <2>3 DEF Page, SaysSaved, Knows
  <2>5. Keeps(p, IF current THEN NoText ELSE kept)
    BY <1>1, <1>2, <2>2, <2>3 DEF Page, Keeps
  <2> HIDE DEF p
  <2> QED
    BY <1>1, <2>1, <2>4, <2>5
<1>6. CASE AnswerConflict
  <2>1. PICK x \in {draft, NoText} :
          page' = [page EXCEPT !.asks = TRUE, !.status = "conflict", !.saving = FALSE,
                               !.theirs = x, !.theirsFresh = req.fresh]
    BY <1>6 DEF AnswerConflict, AskAuthor
  <2>2. x \in Texts \cup {NoText} /\ req.fresh \in BOOLEAN /\ kept' = kept
    BY <1>1, <1>6 DEF SaveRequest, Valid, AnswerConflict
  <2> QED
    BY <1>1, <2>1, <2>2 DEF Page, SaysSaved, Knows, Keeps
<1>7. CASE AnswerError
  BY <1>1, <1>7 DEF AnswerError, NotSaving, Page, SaysSaved, Knows, Keeps
<1> QED
  BY <1>5, <1>6, <1>7

\* A save of anybody's leaves all revisions behind.
LEMMA ServerStep ==
  ASSUME StudioInv, \/ Serve \/ Lost \/ \E x \in Valid : OtherSaves(x)
                    \/ \E q \in late : ServeLate(q) \/ AnswerLate(q)
  PROVE  StudioInv'
<1>1. /\ page \in Page /\ SaysSaved(page) /\ Knows(page) /\ Keeps(page, kept) /\ Asked /\ req \in SaveRequest
      /\ kept \in Texts \cup {NoText} /\ draft \in Valid /\ late \subseteq LateRequest
  BY DEF StudioInv, DraftTypeOK, Page, SaveRequest, LateRequest
<1>2. /\ Behind(page) \in Page /\ SaysSaved(Behind(page)) /\ Knows(Behind(page)) /\ Keeps(Behind(page), kept)
      /\ Behind(page).open = page.open /\ Behind(page).saving = page.saving
  BY <1>1, BehindPage
<1>3. Stale(req) \in SaveRequest /\ Stale(req).pc = req.pc /\ Stale(req).text = req.text /\ ~Stale(req).fresh
  BY <1>1 DEF Stale, SaveRequest
<1>4. \A q \in LateRequest : Stale(q) \in LateRequest /\ [q EXCEPT !.pc = "ok"] \in LateRequest
  BY DEF Stale, LateRequest
<1>5. SUFFICES /\ page' \in Page /\ kept' \in Texts \cup {NoText} /\ draft' \in Valid
               /\ SaysSaved(page') /\ Knows(page') /\ Keeps(page', kept')
               /\ req' \in SaveRequest /\ late' \subseteq LateRequest /\ Asked'
  BY DEF StudioInv, DraftTypeOK, Page, SaveRequest, LateRequest
<1>6. CASE Serve
  <2>1. CASE Accepts(req)
    <3>1. /\ draft' = req.text /\ page' = Behind(page) /\ late' = {Stale(q) : q \in late} /\ kept' = kept
          /\ req.text \in Valid
      BY <1>1, <1>6, <2>1 DEF Serve, Asked
    <3>2. PICK answer \in {"ok", "error"} : req' = [req EXCEPT !.pc = answer]
      BY <1>6, <2>1 DEF Serve
    <3>3. req' \in SaveRequest /\ req'.pc \in {"ok", "error"} /\ req'.text = req.text
      BY <1>1, <3>2 DEF SaveRequest
    <3>4. Asked'
      BY <1>1, <1>2, <1>6, <3>1, <3>3 DEF Asked, Serve
    <3> QED
      BY <1>1, <1>2, <1>4, <3>1, <3>3, <3>4
  <2>2. CASE ~Accepts(req)
    <3>1. req' = [req EXCEPT !.pc = "conflict", !.fresh = TRUE] /\ UNCHANGED <<draft, page, late, kept>>
      BY <1>6, <2>2 DEF Serve
    <3> QED
      BY <1>1, <1>6, <3>1 DEF Asked, SaveRequest, Serve
  <2> QED
    BY <2>1, <2>2
<1>7. CASE Lost
  BY <1>1, <1>7 DEF Lost, Asked, SaveRequest
<1>8. ASSUME NEW x \in Valid, OtherSaves(x)
      PROVE  /\ page' \in Page /\ kept' \in Texts \cup {NoText} /\ draft' \in Valid
             /\ SaysSaved(page') /\ Knows(page') /\ Keeps(page', kept')
             /\ req' \in SaveRequest /\ late' \subseteq LateRequest /\ Asked'
  <2>1. /\ draft' = x /\ page' = Behind(page) /\ req' = Stale(req) /\ late' = {Stale(q) : q \in late}
        /\ kept' = kept
    BY <1>8 DEF OtherSaves
  <2>2. Asked'
    BY <1>1, <1>2, <1>3, <2>1 DEF Asked
  <2> QED
    BY <1>1, <1>2, <1>3, <1>4, <2>1, <2>2
<1>9. ASSUME NEW q \in late, ServeLate(q)
      PROVE  /\ page' \in Page /\ kept' \in Texts \cup {NoText} /\ draft' \in Valid
             /\ SaysSaved(page') /\ Knows(page') /\ Keeps(page', kept')
             /\ req' \in SaveRequest /\ late' \subseteq LateRequest /\ Asked'
  <2>1. CASE Accepts(q)
    <3>1. /\ draft' = q.text /\ page' = Behind(page) /\ req' = Stale(req) /\ kept' = kept
          /\ late' = {Stale(r) : r \in late \ {q}} \cup {[q EXCEPT !.pc = "ok"]}
      BY <1>9, <2>1 DEF ServeLate
    <3>2. q.text \in Valid
      BY <1>1 DEF LateRequest
    <3>3. Asked'
      BY <1>1, <1>2, <1>3, <3>1 DEF Asked
    <3> QED
      BY <1>1, <1>2, <1>3, <1>4, <3>1, <3>2, <3>3
  <2>2. CASE ~Accepts(q)
    <3>1. late' = late \ {q} /\ UNCHANGED <<draft, page, req, kept>>
      BY <1>9, <2>2 DEF ServeLate
    <3> QED
      BY <1>1, <3>1 DEF Asked
  <2> QED
    BY <2>1, <2>2
<1>10. ASSUME NEW q \in late, AnswerLate(q)
       PROVE  /\ page' \in Page /\ kept' \in Texts \cup {NoText} /\ draft' \in Valid
              /\ SaysSaved(page') /\ Knows(page') /\ Keeps(page', kept')
              /\ req' \in SaveRequest /\ late' \subseteq LateRequest /\ Asked'
  <2> DEFINE wiped == page.wiped \/ (q.wipes /\ page.text # page.saved)
  <2>1. /\ kept' = (IF q.wipes THEN NoText ELSE kept) /\ late' = late \ {q} /\ UNCHANGED <<draft, req>>
        /\ page' = [page EXCEPT !.wiped = wiped]
    BY <1>10 DEF AnswerLate
  <2>2. wiped \in BOOLEAN /\ q.wipes \in BOOLEAN
    BY <1>1 DEF Page, LateRequest
  <2>3. page.wiped => wiped
    OBVIOUS
  <2>4. q.wipes /\ page.text # page.saved => wiped
    OBVIOUS
  <2> HIDE DEF wiped
  <2>5. page' \in Page /\ SaysSaved(page') /\ Knows(page') /\ Keeps(page', kept')
        /\ page'.open = page.open /\ page'.saving = page.saving
    BY <1>1, <2>1, <2>2, <2>3, <2>4 DEF Page, SaysSaved, Knows, Keeps
  <2> QED
    BY <1>1, <2>1, <2>2, <2>5 DEF Asked
<1> QED
  BY <1>6, <1>7, <1>8, <1>9, <1>10

-----------------------------------------------------------------------------
(* The theorems *)

LEMMA StudioNext ==
  ASSUME StudioInv, [DraftNext]_draftVars
  PROVE  StudioInv'
<1>1. CASE Autosave \/ Save
  BY <1>1, SaveStep DEF Autosave, Save
<1>2. CASE UNCHANGED draftVars
  BY <1>2 DEF draftVars, StudioInv, DraftTypeOK, SaysSaved, Keeps, Knows, Asked
<1> QED
  BY <1>1, <1>2, AuthorStep, CloseStep, AnswerStep, ServerStep DEF DraftNext

\* The invariant of the draft holds always.
THEOREM StudioInvAlways == DraftSpec => []StudioInv
BY StudioInit, StudioNext, PTL DEF DraftSpec

\* Whatever is typed while saves, answers, reloads and other authors come and go: the
\* bar says "saved" over the acknowledged text only, and unsaved text is in the browser.
THEOREM StudioSoundAlways == DraftSpec => []StudioSound
<1>1. StudioInv => StudioSound
  BY DEF StudioInv, StudioSound, SaysSaved, Keeps
<1> QED
  BY <1>1, StudioInvAlways, PTL

\* No save replaces a draft its author does not know of, whatever came in between.
THEOREM NoSilentOverwriteAlways == DraftSpec => NoSilentOverwrite
<1>1. ASSUME StudioInv, [DraftNext]_draftVars
      PROVE  [Serve /\ draft' # draft => req.knows]_draftVars
  <2>1. Serve /\ draft' # draft => req.pc = "sent" /\ req.fresh
    BY DEF Serve, Accepts
  <2> QED
    BY <1>1, <2>1 DEF StudioInv, Asked
<1> QED
  BY <1>1, StudioInvAlways, PTL DEF DraftSpec, NoSilentOverwrite

=============================================================================
