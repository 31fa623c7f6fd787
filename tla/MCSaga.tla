------------------------------- MODULE MCSaga -------------------------------
(* Two replicas, the second on the next ruleset; two submissions of different *)
(* tenants with the same diff, in which the scan sees a credential.           *)
EXTENDS Saga

CONSTANTS p1, p2, r1, r2, s1, s2, o1, o2, c1, c2, leak, v1, v2

MCTopicLen == [p \in {p1, p2} |-> 1]

Submission(i, o, c, d) == [id |-> i, org |-> o, coord |-> c, diff |-> d]
MCContent ==
  [rec \in {p1, p2} \X {1} |->
     IF rec[1] = p1 THEN Submission(s1, o1, c1, leak)
                    ELSE Submission(s2, o2, c2, leak)]
MCRulesetOf == [r \in {r1, r2} |-> IF r = r1 THEN v1 ELSE v2]
MCRequired == [d \in {leak} |-> {"warning", "blocking"}]
MCScan == [d \in {leak} |-> {"blocking"}]
MCAdvisory == {{}}
=============================================================================
