----------------------------- MODULE MCVaSlots -----------------------------
(* Small instances of VaSlots: one call and one takeover. *)
EXTENDS VaSlots

CONSTANTS c1, t1

OneCase == {c1}
OneTakeover == {t1}
SameCase == [t \in {t1} |-> c1]
=============================================================================
