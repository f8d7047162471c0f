------------------------- MODULE MCTakeoverMachine -------------------------
(* Small instances of TakeoverMachine: a few pages of each kind. *)
EXTENDS TakeoverMachine, TLC

Page(live, handoff, bundle, auto) ==
  [live |-> live, handoff |-> handoff, bundle |-> bundle, auto |-> auto]

\* Auto-baton changes nothing on a page that is not eligible for it.
EveryPage == {c \in Config : c.auto => c.live /\ c.handoff = "accepted"}
=============================================================================
