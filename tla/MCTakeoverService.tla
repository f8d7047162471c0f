------------------------- MODULE MCTakeoverService -------------------------
(* Small instances of TakeoverService: one call, a few passes of it. *)
EXTENDS TakeoverService, TLC

CONSTANTS c1, t1, t2, t3, k1, k2, v1, e1, e2, w1

OneCall == [t \in Takeovers |-> c1]

\* Requests of one kind are interchangeable, and so are arm requests of a call.
Symmetry == Permutations(Takeovers) \cup Permutations(Compiles) \cup Permutations(Ends)

Comps    == Cardinality({k \in Compiles : cmp[k].pc # "idle"})
EndCalls == Cardinality({e \in Ends : ends[e].pc # "idle"})
Third    == \A t \in Takeovers : arms[t] # "idle"
Others   == (\E v \in Reports : evs[v].pc # "idle") \/ (\E w \in Sweeps : swp[w].pc # "idle")

\* Not every request comes: of two passes every kind of request with one end, where the report
\* and the stale-slot handler meet one compile at a time, or both ends and one compile; of three
\* passes the arms, the tools and two of the compiles and ends.
Within ==
  \/ ~Third /\ EndCalls <= 1 /\ (Comps <= 1 \/ ~Others)
  \/ ~Third /\ Comps <= 1 /\ ~Others
  \/ Comps + EndCalls <= 2 /\ ~Others
Narrow == Init /\ [][Next /\ Within']_vars
=============================================================================
