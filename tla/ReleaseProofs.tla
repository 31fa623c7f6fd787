---------------------------- MODULE ReleaseProofs ----------------------------
(***************************************************************************)
(* Proofs about the combined release gate and the release-evidence         *)
(* command, for every set of invocations and every input they may have.    *)
(***************************************************************************)
EXTENDS ReleaseEvidence, TLAPS

------------------------------------------------------------------------------
(* The gate. *)

LEMMA StatusType ==
  ASSUME NEW eval \in Evaluations
  PROVE  MapEvalStatus(eval) \in Statuses
BY DEF MapEvalStatus, Completed, Statuses

LEMMA DecideType ==
  ASSUME NEW status \in Statuses, NEW policy \in Policies
  PROVE  Decide(status, policy) \in Gates
BY DEF Decide, Statuses, Gates

LEMMA DecisionType ==
  ASSUME NEW agent \in Gates, NEW code \in Gates
  PROVE  CombinedDecision(agent, code) \in Gates
BY DEF CombinedDecision, Gates

LEMMA RulesType ==
  ASSUME NEW status \in Statuses, NEW code \in Gates, NEW decision \in Gates
  PROVE  CombinedRules(status, code, decision) \in SUBSET Rules
BY DEF CombinedRules, AgentRule, Rules, Statuses

\* A gate that passes is a clean evaluation and no objection to the code.
LEMMA PassIsClean ==
  ASSUME NEW eval \in Evaluations, NEW policy \in Policies, NEW code \in Gates,
         CombinedDecision(Decide(MapEvalStatus(eval), policy), code) = "PASS"
  PROVE  /\ MapEvalStatus(eval) = "COMPLETED"
         /\ eval = [raw |-> "COMPLETED", seen |-> {}]
         /\ code \notin {"BLOCK", "WARN"}
<1> DEFINE status == MapEvalStatus(eval)
<1>1. /\ Decide(status, policy) \notin {"BLOCK", "ERROR", "INCOMPLETE", "WARN"}
      /\ code \notin {"BLOCK", "WARN"}
  BY DEF CombinedDecision
<1>2. status \in Statuses
  BY StatusType
<1> HIDE DEF status
<1>3. status = "COMPLETED"
  BY <1>1, <1>2 DEF Decide, Statuses, Policies
<1> USE DEF status
<1>4. eval.raw = "COMPLETED" /\ Completed(eval.seen) = "COMPLETED"
  BY <1>3 DEF MapEvalStatus
<1>5. eval.seen \cap Classes = {}
  BY <1>4 DEF Completed, Classes
<1>6. eval.seen = {}
  BY <1>5 DEF Evaluations
<1> QED
  BY <1>1, <1>3, <1>4, <1>6 DEF Evaluations

\* What blocks a release: the code, a critical failure, a strict policy.
LEMMA BlockIsEarned ==
  ASSUME NEW eval \in Evaluations, NEW policy \in Policies, NEW code \in Gates,
         CombinedDecision(Decide(MapEvalStatus(eval), policy), code) = "BLOCK"
  PROVE  \/ code = "BLOCK"
         \/ eval.raw = "COMPLETED" /\ "critical" \in eval.seen
         \/ /\ eval.raw = "COMPLETED" /\ "regressed" \in eval.seen
            /\ policy.regressionBlocks
<1> DEFINE status == MapEvalStatus(eval)
<1>1. code = "BLOCK" \/ Decide(status, policy) = "BLOCK"
  BY DEF CombinedDecision
<1>2. status \notin {"BLOCKED", "NOT_CONFIGURED"}
  BY DEF MapEvalStatus, Completed
<1>3. status \in Statuses
  BY StatusType
<1>4. status = "COMPLETED_WITH_CRITICAL_FAILURE" =>
        eval.raw = "COMPLETED" /\ "critical" \in eval.seen
  BY DEF MapEvalStatus, Completed
<1>5. status = "COMPLETED_WITH_REGRESSION" =>
        eval.raw = "COMPLETED" /\ "regressed" \in eval.seen
  BY DEF MapEvalStatus, Completed
<1> HIDE DEF status
<1> QED
  BY <1>1, <1>2, <1>3, <1>4, <1>5 DEF Decide, Statuses

LEMMA CodeFacts ==
  ASSUME NEW scan \in SUBSET {"blocking", "warning", "info"}
  PROVE  /\ CodeVerdictOf(scan) \in Gates
         /\ CodeVerdictOf(scan) = "BLOCK" => "blocking" \in scan
         /\ CodeVerdictOf(scan) \notin {"BLOCK", "WARN"} => scan \subseteq {"info"}
BY DEF CodeVerdictOf, Gates

\* Every decision is one its own record can be validated with.
LEMMA GateIsConsistent ==
  ASSUME NEW in \in Inputs, NEW i,
         NEW record,
         record = LET code == CodeVerdictOf(in.scan)
                      status == MapEvalStatus(in.eval)
                      gate == CombinedDecision(Decide(status, in.policy), code)
                  IN  [run |-> i, status |-> status, gate |-> gate,
                       rules |-> CombinedRules(status, code, gate)]
  PROVE  Consistent(record)
<1> DEFINE code == CodeVerdictOf(in.scan)
           status == MapEvalStatus(in.eval)
           agent == Decide(status, in.policy)
           gate == CombinedDecision(agent, code)
           rules == CombinedRules(status, code, gate)
<1>1. in.eval \in Evaluations /\ in.policy \in Policies /\ code \in Gates
  BY CodeFacts DEF Inputs
<1>2. status \in Statuses
  BY <1>1, StatusType
<1>3. gate = "PASS" => status = "COMPLETED"
  BY <1>1, PassIsClean
<1> HIDE DEF status
<1>4. AgentRule(status) # {} \/ status = "COMPLETED"
  BY <1>2 DEF AgentRule, Statuses
<1>5. status = "COMPLETED" => agent = "PASS"
  BY DEF Decide
<1>6. gate \in {"BLOCK", "WARN"} /\ status = "COMPLETED" =>
        code = "BLOCK" \/ (gate = "WARN" /\ code = "WARN")
  <2> HIDE DEF agent
  <2> QED
    BY <1>5 DEF CombinedDecision
<1>7. gate \in {"BLOCK", "WARN"} => rules # {}
  <2> HIDE DEF gate
  <2>1. AgentRule(status) \subseteq rules
    BY DEF CombinedRules
  <2>2. code = "BLOCK" => "CODE_CRITICAL" \in rules
    BY DEF CombinedRules
  <2>3. gate = "WARN" /\ code = "WARN" => "COVERAGE_GAP" \in rules
    BY DEF CombinedRules
  <2> HIDE DEF rules
  <2> QED
    BY <1>4, <1>6, <2>1, <2>2, <2>3
<1>8. record.gate = gate /\ record.status = status /\ record.rules = rules
  BY DEF status
<1> HIDE DEF gate, rules
<1> QED
  BY <1>3, <1>7, <1>8 DEF Consistent

------------------------------------------------------------------------------
(* Types, and where records and statuses come from. *)

LEMMA BuiltRecord ==
  ASSUME NEW i \in Runs, input[i] \in Inputs
  PROVE  /\ BuildReleaseEvidence(i) \in Records
         /\ BuildReleaseEvidence(i) # None
         /\ Consistent(BuildReleaseEvidence(i))
<1> DEFINE in == input[i]
           code == CodeVerdictOf(in.scan)
           status == MapEvalStatus(in.eval)
           gate == CombinedDecision(Decide(status, in.policy), code)
<1>1. in.eval \in Evaluations /\ in.policy \in Policies /\ code \in Gates
  BY CodeFacts DEF Inputs
<1>2. status \in Statuses
  BY <1>1, StatusType
<1>3. gate \in Gates
  BY <1>1, <1>2, DecideType, DecisionType
<1>4. CombinedRules(status, code, gate) \in SUBSET Rules
  BY <1>1, <1>2, <1>3, RulesType
<1>5. BuildReleaseEvidence(i) \in Records
  BY <1>2, <1>3, <1>4 DEF BuildReleaseEvidence, Records
<1>6. Consistent(BuildReleaseEvidence(i))
  BY GateIsConsistent DEF BuildReleaseEvidence
<1> QED
  BY <1>5, <1>6, EvidenceAssumption

LEMMA StatusOutcome ==
  ASSUME NEW record, NEW mode
  PROVE  MapSCMStatus(record, mode) \in Outcomes
BY DEF MapSCMStatus, Outcomes

Inv == TypeOK /\ BuiltInv

\* Each step keeps the types, builds a record only from its input, and posts
\* only what its record says.
LEMMA BuiltStep == Inv /\ [Next]_vars => Inv'
<1> SUFFICES ASSUME TypeOK, BuiltInv, [Next]_vars PROVE TypeOK' /\ BuiltInv'
  BY DEF Inv
<1>1. CASE Read \/ UNCHANGED vars
  <2>1. UNCHANGED <<pc, input, ev, scm>>
    BY <1>1 DEF Read, vars
  <2>2. TypeOK'
    BY <1>1 DEF TypeOK, Read, vars
  <2> QED
    BY <2>1, <2>2 DEF BuiltInv, BuildReleaseEvidence
<1>2. ASSUME NEW i \in Runs, FetchEval(i) PROVE TypeOK' /\ BuiltInv'
  <2>1. PICK in \in InputsOf[i] : Fetched(in) /\ input' = [input EXCEPT ![i] = in]
    BY <1>2 DEF FetchEval
  <2>2. in \in Inputs
    BY <2>1, EvidenceAssumption
  <2>3. TypeOK'
    BY <1>2, <2>1, <2>2 DEF FetchEval, Goto, TypeOK
  <2>4. ev[i] = None /\ UNCHANGED <<ev, scm>> /\ pc' = [pc EXCEPT ![i] = "build"]
    BY <1>2 DEF FetchEval, Goto, BuiltInv
  <2>5. \A j \in Runs : j # i => input'[j] = input[j] /\ pc'[j] = pc[j]
    BY <1>2, <2>1, <2>4 DEF TypeOK
  <2>6. scm # None => scm.by \in Runs /\ scm.by # i
    BY <2>4 DEF BuiltInv, TypeOK
  <2>7. input'[i] = in /\ Fetched(in) /\ pc'[i] = "build"
    BY <2>1, <2>4 DEF TypeOK
  <2> QED
    BY <2>2, <2>3, <2>4, <2>5, <2>6, <2>7 DEF BuiltInv, BuildReleaseEvidence
<1>3. ASSUME NEW i \in Runs,
             UNCHANGED <<input, ev>>, scm' = scm,
             NEW label \in {"check", "open", "write", "publish", "done", "failed"},
             pc' = [pc EXCEPT ![i] = label],
             label # "failed" => pc[i] \in {"check", "open", "write", "publish"},
             file' \in Records \cup {None, Partial},
             served' = served, raced' \subseteq Runs
      PROVE  TypeOK' /\ BuiltInv'
  <2>1. TypeOK'
    BY <1>3 DEF TypeOK, Ended
  <2> QED
    BY <1>3, <2>1 DEF BuiltInv, BuildReleaseEvidence, TypeOK
<1>4. ASSUME NEW i \in Runs, Build(i) PROVE TypeOK' /\ BuiltInv'
  <2>1. input[i] \in Inputs /\ ev[i] = None
    BY <1>4 DEF Build, BuiltInv
  <2>2. BuildReleaseEvidence(i) \in Records /\ BuildReleaseEvidence(i) # None
    BY <2>1, BuiltRecord
  <2>3. TypeOK'
    BY <1>4, <2>2 DEF Build, Goto, TypeOK
  <2>4. /\ UNCHANGED <<input, scm>>
        /\ \A j \in Runs : j # i => ev'[j] = ev[j] /\ pc'[j] = pc[j]
        /\ ev'[i] = BuildReleaseEvidence(i) /\ pc'[i] = "check"
    BY <1>4 DEF Build, Goto, TypeOK
  <2>5. scm # None => scm.by \in Runs /\ scm.by # i
    BY <2>1 DEF BuiltInv, TypeOK
  <2>6. \A j \in Runs : BuildReleaseEvidence(j)' = BuildReleaseEvidence(j)
    BY <2>4 DEF BuildReleaseEvidence
  <2> QED
    BY <2>1, <2>2, <2>3, <2>4, <2>5, <2>6 DEF BuiltInv
<1>5. ASSUME NEW i \in Runs, Refuse(i) PROVE TypeOK' /\ BuiltInv'
  <2>1. TypeOK'
    BY <1>5 DEF Refuse, Goto, TypeOK, Ended
  <2>2. /\ UNCHANGED <<input, ev, scm>>
        /\ \A j \in Runs : j # i => pc'[j] = pc[j]
        /\ pc[i] = "build" /\ pc'[i] = "refused"
        /\ ~(input[i].whole /\ Consistent(BuildReleaseEvidence(i)))
    BY <1>5 DEF Refuse, Goto, TypeOK
  <2>3. \A j \in Runs : BuildReleaseEvidence(j)' = BuildReleaseEvidence(j)
    BY <2>2 DEF BuildReleaseEvidence
  <2>4. \A j \in Runs : Consistent(BuildReleaseEvidence(j))' <=>
                        Consistent(BuildReleaseEvidence(j))
    BY <2>3 DEF Consistent
  <2> QED
    BY <2>1, <2>2, <2>3, <2>4 DEF BuiltInv
<1>6. ASSUME NEW i \in Runs, Publish(i) \/ PublishFails(i), Post(i)
      PROVE  TypeOK' /\ BuiltInv'
  <2>1. ev[i] # None
    BY <1>6 DEF Publish, PublishFails, BuiltInv
  <2>2. scm' = [by |-> i, outcome |-> MapSCMStatus(ev[i], input[i].mode)]
    BY <1>6 DEF Post
  <2>3. MapSCMStatus(ev[i], input[i].mode) \in Outcomes
    BY StatusOutcome
  <2>4. TypeOK'
    BY <1>6, <2>2, <2>3 DEF Publish, PublishFails, Goto, TypeOK, Ended
  <2>5. /\ UNCHANGED <<input, ev>>
        /\ \A j \in Runs : j # i => pc'[j] = pc[j]
        /\ pc'[i] \in {"done", "failed"}
    BY <1>6 DEF Publish, PublishFails, Goto, TypeOK
  <2>6. \A j \in Runs : BuildReleaseEvidence(j)' = BuildReleaseEvidence(j)
    BY <2>5 DEF BuildReleaseEvidence
  <2>7. MapSCMStatus(ev[i], input[i].mode)' = MapSCMStatus(ev[i], input[i].mode)
    BY <2>5 DEF MapSCMStatus
  <2>8. scm'.by = i /\ scm'.outcome = MapSCMStatus(ev[i], input[i].mode)
    BY <2>2
  <2> QED
    BY <2>1, <2>4, <2>5, <2>6, <2>7, <2>8 DEF BuiltInv
<1>7. ASSUME NEW i \in Runs, FetchFails(i) PROVE TypeOK' /\ BuiltInv'
  BY <1>3, <1>7 DEF FetchFails, Goto, TypeOK
<1>8. ASSUME NEW i \in Runs, CheckAbsent(i) \/ CheckFails(i)
      PROVE  TypeOK' /\ BuiltInv'
  BY <1>3, <1>8 DEF CheckAbsent, CheckFails, Goto, TypeOK
<1>9. ASSUME NEW i \in Runs, Conflict(i) PROVE TypeOK' /\ BuiltInv'
  BY <1>3, <1>9 DEF Conflict, Goto, TypeOK
<1>10. ASSUME NEW i \in Runs, OpenFile(i) PROVE TypeOK' /\ BuiltInv'
  BY <1>3, <1>10 DEF OpenFile, Goto, TypeOK
<1>11. ASSUME NEW i \in Runs, WriteFile(i) PROVE TypeOK' /\ BuiltInv'
  <2>1. ev[i] \in Records
    BY <1>11 DEF WriteFile, BuiltInv, TypeOK
  <2> QED
    BY <1>3, <1>11, <2>1 DEF WriteFile, Goto, TypeOK
<1>12. ASSUME NEW i \in Runs, WriteFails(i) PROVE TypeOK' /\ BuiltInv'
  BY <1>3, <1>12 DEF WriteFails, Goto, TypeOK
<1>13. ASSUME NEW i \in Runs, PublishFails(i), UNCHANGED scm
       PROVE  TypeOK' /\ BuiltInv'
  BY <1>3, <1>13 DEF PublishFails, Goto, TypeOK
<1>14. ASSUME NEW i \in Runs, Crash(i) PROVE TypeOK' /\ BuiltInv'
  BY <1>3, <1>14 DEF Crash, Goto, TypeOK
<1> QED
  BY <1>1, <1>2, <1>4, <1>5, <1>6, <1>7, <1>8, <1>9, <1>10, <1>11, <1>12, <1>13,
     <1>14 DEF Next, Publish, PublishFails

LEMMA BuiltInit == Init => Inv
BY DEF Init, Inv, TypeOK, BuiltInv

(* The types hold in every reachable state, whatever the invocations and their
   inputs, and every record and every status is the one its input comes to. *)
THEOREM EvidenceInvariant == Spec => []Inv
BY BuiltInit, BuiltStep, PTL DEF Spec

THEOREM EvidenceTypeCorrect == Spec => []TypeOK
BY EvidenceInvariant, PTL DEF Inv

------------------------------------------------------------------------------
(* What a status on a commit means. *)

(* A green commit status is only ever posted for a clean evaluation and a code
   verdict without objection: for every evaluation, policy and code verdict. *)
THEOREM GreenMeansClean == Spec => []SuccessIsClean
<1>1. Inv => SuccessIsClean
  <2> SUFFICES ASSUME Inv, Posted("success") PROVE SuccessIsClean
    BY DEF SuccessIsClean
  <2> DEFINE i == scm.by
             in == input[i]
             code == CodeVerdictOf(in.scan)
  <2>1. i \in Runs /\ in \in Inputs /\ ev[i] = BuildReleaseEvidence(i)
    BY DEF Inv, TypeOK, BuiltInv, Posted
  <2>2. ev[i].gate = "PASS"
    <3>1. MapSCMStatus(ev[i], in.mode) = "success"
      BY DEF Inv, BuiltInv, Posted
    <3> QED
      BY <3>1 DEF MapSCMStatus
  <2>3. CombinedDecision(Decide(MapEvalStatus(in.eval), in.policy), code) = "PASS"
    BY <2>1, <2>2 DEF BuildReleaseEvidence
  <2>4. in.eval \in Evaluations /\ in.policy \in Policies /\ code \in Gates
    BY <2>1, CodeFacts DEF Inputs
  <2>5. in.eval = [raw |-> "COMPLETED", seen |-> {}] /\ code \notin {"BLOCK", "WARN"}
    BY <2>3, <2>4, PassIsClean
  <2>6. in.scan \subseteq {"info"}
    BY <2>1, <2>5, CodeFacts DEF Inputs
  <2>7. in.from.live
    <3>1. in.eval.seen # FakeRef.seen
      BY <2>5 DEF FakeRef
    <3>2. Fetched(in)
      BY <2>1, EvidenceAssumption DEF Inv, BuiltInv
    <3> QED
      BY <3>1, <3>2 DEF Fetched
  <2> QED
    BY <2>5, <2>6, <2>7 DEF SuccessIsClean
<1> QED
  BY <1>1, EvidenceInvariant, PTL

(* A commit is only ever blocked in enforce mode and for one of the three
   reasons the gate knows. *)
THEOREM RedMeansEarned == Spec => []FailureIsEarned
<1>1. Inv => FailureIsEarned
  <2> SUFFICES ASSUME Inv, Posted("failure") PROVE FailureIsEarned
    BY DEF FailureIsEarned
  <2> DEFINE i == scm.by
             in == input[i]
             code == CodeVerdictOf(in.scan)
  <2>1. i \in Runs /\ in \in Inputs /\ ev[i] = BuildReleaseEvidence(i)
    BY DEF Inv, TypeOK, BuiltInv, Posted
  <2>2. ev[i].gate = "BLOCK" /\ in.mode = "enforce"
    <3>1. MapSCMStatus(ev[i], in.mode) = "failure"
      BY DEF Inv, BuiltInv, Posted
    <3> QED
      BY <3>1 DEF MapSCMStatus
  <2>3. CombinedDecision(Decide(MapEvalStatus(in.eval), in.policy), code) = "BLOCK"
    BY <2>1, <2>2 DEF BuildReleaseEvidence
  <2>4. in.eval \in Evaluations /\ in.policy \in Policies /\ code \in Gates
    BY <2>1, CodeFacts DEF Inputs
  <2>5. code = "BLOCK" => "blocking" \in in.scan
    BY <2>1, CodeFacts DEF Inputs
  <2> HIDE DEF code
  <2> QED
    BY <2>2, <2>3, <2>4, <2>5, BlockIsEarned DEF FailureIsEarned
<1> QED
  BY <1>1, EvidenceInvariant, PTL

(* No run that has all its fields is ever turned down by the validation of the
   record the gate itself assembled. *)
THEOREM GateNeverContradicts == Spec => []RefusedIsMalformed
<1>1. Inv => RefusedIsMalformed
  BY BuiltRecord DEF Inv, BuiltInv, RefusedIsMalformed
<1> QED
  BY <1>1, EvidenceInvariant, PTL

------------------------------------------------------------------------------
(* The store. *)

LEMMA StoreStep == Inv /\ Inv' /\ StoreInv /\ [Next]_vars => StoreInv'
<1> SUFFICES ASSUME Inv, Inv', StoreInv, [Next]_vars, raced' = {}
             PROVE  StoreInv'
  BY DEF StoreInv
<1>1. raced = {}
  BY DEF Next, Read, FetchEval, FetchFails, Build, Refuse, CheckAbsent, CheckFails,
         Conflict, OpenFile, WriteFile, WriteFails, Publish, PublishFails, Crash, vars
<1>2. /\ \A i, j \in Writing : i = j
      /\ \A i \in Runs :
           /\ pc[i] = "open" => file = None
           /\ pc[i] = "write" => file = Partial
           /\ pc[i] \in {"publish", "done"} => file = ev[i]
      /\ scm # None => file = ev[scm.by]
      /\ served # None => file = served
  BY <1>1 DEF StoreInv
<1>3. /\ pc \in [Runs -> {"idle", "build", "check", "open", "write", "publish",
                          "done", "failed", "refused"}]
      /\ ev \in [Runs -> Records \cup {None}]
      /\ scm # None => scm.by \in Runs /\ ev[scm.by] \in Records
      /\ \A i \in Runs : pc[i] \in {"publish", "done", "write"} => ev[i] \in Records
      /\ served \in Records \cup {None}
  BY DEF Inv, TypeOK, Ended, BuiltInv
<1>4. None \notin Records /\ Partial \notin Records /\ None # Partial
  BY EvidenceAssumption
<1>5. CASE Read \/ UNCHANGED vars
  BY <1>2, <1>5 DEF Read, vars, StoreInv, Writing
<1>6. ASSUME NEW i \in Runs, NEW label, label \notin {"open", "write", "publish", "done"},
             pc' = [pc EXCEPT ![i] = label],
             UNCHANGED <<file, served, scm>>,
             \A j \in Runs : ev[j] # None \/ pc[j] = "done" => ev'[j] = ev[j]
      PROVE  StoreInv'
  <2>1. \A j \in Runs : pc'[j] \in {"open", "write", "publish", "done"}
                          => pc[j] = pc'[j]
    BY <1>3, <1>6
  <2>2. Writing' \subseteq Writing
    BY <1>3, <1>6 DEF Writing
  <2>3. scm # None => ev'[scm.by] = ev[scm.by]
    BY <1>3, <1>4, <1>6
  <2>4. \A j \in Runs : pc'[j] \in {"publish", "done"} => ev'[j] = ev[j]
    BY <1>3, <1>4, <1>6, <2>1
  <2> QED
    BY <1>2, <1>6, <2>1, <2>2, <2>3, <2>4 DEF StoreInv
<1>7. ASSUME NEW i \in Runs, FetchEval(i) PROVE StoreInv'
  BY <1>6, <1>7 DEF FetchEval, Goto
<1>8. ASSUME NEW i \in Runs, FetchFails(i) PROVE StoreInv'
  BY <1>6, <1>8 DEF FetchFails, Goto
<1>9. ASSUME NEW i \in Runs, Build(i) PROVE StoreInv'
  <2>1. ev[i] = None
    BY <1>9 DEF Inv, BuiltInv, Build
  <2> QED
    BY <1>3, <1>6, <1>9, <2>1 DEF Build, Goto
<1>10. ASSUME NEW i \in Runs, Refuse(i) PROVE StoreInv'
  BY <1>6, <1>10 DEF Refuse, Goto
<1>11. ASSUME NEW i \in Runs, Conflict(i) PROVE StoreInv'
  BY <1>6, <1>11 DEF Conflict, Goto
<1>12. ASSUME NEW i \in Runs, WriteFails(i) PROVE StoreInv'
  BY <1>6, <1>12 DEF WriteFails, Goto
<1>13. ASSUME NEW i \in Runs, Crash(i) PROVE StoreInv'
  BY <1>6, <1>13 DEF Crash, Goto
<1>14. ASSUME NEW i \in Runs, CheckFails(i) PROVE StoreInv'
  BY <1>14 DEF CheckFails
<1>15. ASSUME NEW i \in Runs, CheckAbsent(i) PROVE StoreInv'
  <2>1. Writing = {} /\ file = None
    BY <1>15 DEF CheckAbsent
  <2>2. /\ pc' = [pc EXCEPT ![i] = "open"]
        /\ UNCHANGED <<ev, file, scm, served>>
    BY <1>15 DEF CheckAbsent, Goto
  <2>3. Writing' = {i}
    BY <1>3, <2>1, <2>2 DEF Writing
  <2>4. \A j \in Runs : pc'[j] \in {"write", "publish", "done"} => pc[j] = pc'[j]
    BY <1>3, <2>2
  <2> QED
    BY <1>2, <2>1, <2>2, <2>3, <2>4 DEF StoreInv
<1>16. ASSUME NEW i \in Runs, OpenFile(i) PROVE StoreInv'
  <2>1. /\ pc[i] = "open" /\ file = None /\ file' = Partial
        /\ pc' = [pc EXCEPT ![i] = "write"]
        /\ UNCHANGED <<ev, scm, served>>
    BY <1>2, <1>16 DEF OpenFile, Goto
  <2>2. scm = None /\ served = None
    BY <1>2, <1>3, <1>4, <2>1
  <2>3. \A j \in Runs : pc[j] \notin {"publish", "done"}
    BY <1>2, <1>3, <1>4, <2>1
  <2>4. Writing' = Writing /\ \A j \in Writing : j = i
    BY <1>2, <1>3, <2>1 DEF Writing
  <2> QED
    BY <1>2, <1>3, <2>1, <2>2, <2>3, <2>4 DEF StoreInv, Writing
<1>17. ASSUME NEW i \in Runs, WriteFile(i) PROVE StoreInv'
  <2>1. /\ pc[i] = "write" /\ file = Partial /\ file' = ev[i]
        /\ pc' = [pc EXCEPT ![i] = "publish"]
        /\ UNCHANGED <<ev, scm, served>>
    BY <1>2, <1>17 DEF WriteFile, Goto
  <2>2. scm = None /\ served = None
    BY <1>2, <1>3, <1>4, <2>1
  <2>3. \A j \in Runs : pc[j] \notin {"publish", "done"}
    BY <1>2, <1>3, <1>4, <2>1
  <2>4. Writing' = {}
    BY <1>2, <1>3, <2>1 DEF Writing
  <2> QED
    BY <1>3, <2>1, <2>2, <2>3, <2>4 DEF StoreInv, Writing
<1>18. ASSUME NEW i \in Runs, Publish(i) \/ PublishFails(i) PROVE StoreInv'
  <2>1. PICK label \in {"done", "failed"} : pc' = [pc EXCEPT ![i] = label]
    BY <1>18 DEF Publish, PublishFails, Goto
  <2>2. /\ pc[i] = "publish" /\ UNCHANGED <<ev, file, served>>
        /\ file = ev[i]
    BY <1>2, <1>18 DEF Publish, PublishFails
  <2>3. scm' = scm \/ scm'.by = i
    BY <1>18 DEF Publish, PublishFails, Post
  <2>4. Writing' = Writing
    BY <1>3, <2>1, <2>2 DEF Writing
  <2>5. \A j \in Runs : j # i => pc'[j] = pc[j]
    BY <1>3, <2>1
  <2>6. pc'[i] \in {"done", "failed"}
    BY <1>3, <2>1
  <2> QED
    BY <1>2, <2>2, <2>3, <2>4, <2>5, <2>6 DEF StoreInv
<1> QED
  BY <1>5, <1>7, <1>8, <1>9, <1>10, <1>11, <1>12, <1>13, <1>14, <1>15, <1>16,
     <1>17, <1>18 DEF Next

LEMMA StoreInit == Init => StoreInv
BY DEF Init, StoreInv, Writing

(* As long as no invocations overlap in the store, one at a time writes, and
   what has been posted or read is what is in the file. *)
THEOREM StoreInvariant == Spec => []StoreInv
BY EvidenceInvariant, StoreInit, StoreStep, PTL DEF Spec

(* The status on the commit is then the stored record's, after any number of
   invocations, crashes and failed writes. *)
THEOREM StatusIsStored == Spec => []PostedIsStored
<1>1. Inv /\ StoreInv => PostedIsStored
  BY DEF Inv, BuiltInv, StoreInv, PostedIsStored
<1> QED
  BY <1>1, EvidenceInvariant, StoreInvariant, PTL

(* A record a reader has seen is the record every reader will see, unless
   invocations overlap in the store. *)
THEOREM RecordsAreForEver == Spec => ServedChangesOnlyByRace
<1>1. StoreInv /\ [Next]_vars =>
        [served # None /\ served' # served => raced # {}]_vars
  BY DEF StoreInv, Next, Read, FetchEval, FetchFails, Build, Refuse, CheckAbsent,
         CheckFails, Conflict, OpenFile, WriteFile, WriteFails, Publish,
         PublishFails, Crash, vars
<1> QED
  BY <1>1, StoreInvariant, PTL DEF Spec, ServedChangesOnlyByRace
==============================================================================
