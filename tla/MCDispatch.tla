----------------------------- MODULE MCDispatch -----------------------------
(* Two replicas that share a redis log or have each its own in memory; a       *)
(* poison record and two events of one submission on the partition of its      *)
(* organization: two runs of the orchestrator, with different verdicts.        *)
EXTENDS Dispatch

CONSTANTS p1, r1, r2, s1, status, comment, redis, memory1, memory2

MCTopicLen == [p \in {p1} |-> 3]
MCContent ==
  [rec \in {p1} \X (1..3) |->
     CASE rec[2] = 1 -> [id |-> s1, decision |-> "needs_review"]
       [] rec[2] = 2 -> Poison
       [] OTHER -> [id |-> s1, decision |-> "rejected"]]
MCNotifiers == <<status, comment>>
MCDeployments ==
  {[r \in {r1, r2} |-> redis],
   [r \in {r1, r2} |-> IF r = r1 THEN memory1 ELSE memory2]}
=============================================================================
