----------------------------- MODULE MCSagaLive -----------------------------
(* One partition whose first record is poison; two replicas that take it from *)
(* each other, and an advisory stage that finds nothing or fails.             *)
EXTENDS Saga

CONSTANTS p1, r1, r2, s1, o1, c1, plain, v1

MCTopicLen == [p \in {p1} |-> 2]
MCContent ==
  [rec \in {p1} \X (1..2) |->
     IF rec[2] = 1 THEN Poison
     ELSE [id |-> s1, org |-> o1, coord |-> c1, diff |-> plain]]
MCRulesetOf == [r \in {r1, r2} |-> v1]
MCRequired == [d \in {plain} |-> {}]
MCScan == [d \in {plain} |-> {}]
MCAdvisory == {{}}
=============================================================================
