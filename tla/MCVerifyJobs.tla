--------------------------- MODULE MCVerifyJobs ---------------------------
(* A small instance of VerifyJobs: both callers of one pass. *)
EXTENDS VerifyJobs, TLC

CONSTANTS end, sweep, pass

OnePass == [j \in Jobs |-> pass]
=============================================================================
