----------------------------- MODULE ReleaseGate -----------------------------
(***************************************************************************)
(* The combined release gate of pkg/assurance, as operators: what an       *)
(* AgentTwin evaluation and a code verdict decide about a release, when an *)
(* evidence record is valid, and what commit status is published for it.   *)
(*                                                                         *)
(* An evaluation is its run status and the set of scenario classes it saw: *)
(* "critical" (new critical failures), "regressed", "incomplete" and       *)
(* "errored".  How many of each there were never matters.                  *)
(***************************************************************************)
RawStatuses == {"COMPLETED", "ERROR", "FAILED", "CANCELLED", "PENDING", "QUEUED",
                "RUNNING", "", "other"}
Classes == {"critical", "regressed", "incomplete", "errored"}
Evaluations == [raw : RawStatuses, seen : SUBSET Classes]

Statuses == {"COMPLETED", "COMPLETED_WITH_CRITICAL_FAILURE",
             "COMPLETED_WITH_REGRESSION", "ERROR", "INCOMPLETE", "PENDING",
             "NOT_CONFIGURED", "BLOCKED"}
Gates == {"PASS", "WARN", "BLOCK", "INCOMPLETE", "ERROR"}
Rules == {"CODE_CRITICAL", "AGENT_CRITICAL_SCENARIO", "NONCRITICAL_REGRESSION",
          "AGENT_EVAL_INCOMPLETE", "OPTIONAL_ASSURANCE_UNAVAILABLE", "COVERAGE_GAP"}
Policies == [regressionBlocks : BOOLEAN, assuranceRequired : BOOLEAN]
Outcomes == {"success", "failure", "neutral"}

\* What a completed evaluation amounts to.
Completed(seen) ==
  IF "errored" \in seen THEN "ERROR"
  ELSE IF "incomplete" \in seen THEN "INCOMPLETE"
  ELSE IF "critical" \in seen THEN "COMPLETED_WITH_CRITICAL_FAILURE"
  ELSE IF "regressed" \in seen THEN "COMPLETED_WITH_REGRESSION"
  ELSE "COMPLETED"

\* Variation of MapEvalStatus: a cancelled run counts for what it has seen.
MapEvalStatusLenient(eval) ==
  IF eval.raw \in {"COMPLETED", "CANCELLED"} THEN Completed(eval.seen)
  ELSE IF eval.raw \in {"ERROR", "FAILED"} THEN "ERROR"
  ELSE "PENDING"

MapEvalStatus(eval) ==
  IF eval.raw = "COMPLETED" THEN Completed(eval.seen)
  ELSE IF eval.raw \in {"ERROR", "FAILED"} THEN "ERROR"
  ELSE IF eval.raw = "CANCELLED" THEN "INCOMPLETE"
  ELSE "PENDING"

\* The agent's half of the gate.
Decide(status, policy) ==
  IF status = "COMPLETED" THEN "PASS"
  ELSE IF status \in {"COMPLETED_WITH_CRITICAL_FAILURE", "BLOCKED"} THEN "BLOCK"
  ELSE IF status = "COMPLETED_WITH_REGRESSION"
       THEN IF policy.regressionBlocks THEN "BLOCK" ELSE "WARN"
  ELSE IF status = "NOT_CONFIGURED"
       THEN IF policy.assuranceRequired THEN "BLOCK" ELSE "WARN"
  ELSE IF status = "ERROR" THEN "ERROR"
  ELSE "INCOMPLETE"

\* The rule an agent status cites.
AgentRule(status) ==
  IF status = "COMPLETED" THEN {}
  ELSE IF status = "COMPLETED_WITH_CRITICAL_FAILURE" THEN {"AGENT_CRITICAL_SCENARIO"}
  ELSE IF status = "COMPLETED_WITH_REGRESSION" THEN {"NONCRITICAL_REGRESSION"}
  ELSE IF status = "NOT_CONFIGURED" THEN {"OPTIONAL_ASSURANCE_UNAVAILABLE"}
  ELSE {"AGENT_EVAL_INCOMPLETE"}

\* BLOCK > ERROR > INCOMPLETE > WARN > PASS; of the code verdict only BLOCK and
\* WARN are looked at.
CombinedDecision(agent, code) ==
  IF "BLOCK" \in {agent, code} THEN "BLOCK"
  ELSE IF agent \in {"ERROR", "INCOMPLETE"} THEN agent
  ELSE IF "WARN" \in {agent, code} THEN "WARN"
  ELSE "PASS"

\* The code verdict, from the severities of what the client has found.
CodeVerdictOf(scan) ==
  IF "blocking" \in scan THEN "BLOCK"
  ELSE IF "warning" \in scan THEN "WARN"
  ELSE "PASS"

\* Variation of CombinedRules: a code warning is not cited.
CombinedRulesSilent(status, code, decision) ==
  (IF code = "BLOCK" THEN {"CODE_CRITICAL"} ELSE {}) \cup AgentRule(status)

CombinedRules(status, code, decision) ==
  (IF code = "BLOCK" THEN {"CODE_CRITICAL"} ELSE {})
    \cup AgentRule(status)
    \cup (IF decision = "WARN" /\ code = "WARN" THEN {"COVERAGE_GAP"} ELSE {})

\* The two consistency rules an evidence record is held to.
Consistent(ev) ==
  /\ ev.gate = "PASS" => ev.status = "COMPLETED"
  /\ ev.gate \in {"BLOCK", "WARN"} => ev.rules # {}

\* What the gate and the mode come to on the commit.
MapSCMStatus(ev, mode) ==
  IF ev.gate = "PASS" THEN "success"
  ELSE IF ev.gate = "BLOCK" /\ mode = "enforce" THEN "failure"
  ELSE "neutral"
==============================================================================
