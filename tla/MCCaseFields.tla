---------------------------- MODULE MCCaseFields ----------------------------
(* Instances of CaseFields for TLC *)
EXTENDS CaseFields, TLC

\* The customer and the representative take turns.
Alternate == [t \in Turns |-> IF t % 2 = 1 THEN "customer" ELSE "rep"]

\* A name, the same name in full, and another that shares one word with it; and a price.
Spoken == [name |-> {{"maya"}, {"maya", "raman"}, {"maya", "rao"}}, premium |-> {{"142"}, {"151"}}]

Facts3And4 == [name |-> 3, premium |-> 4]
=============================================================================
