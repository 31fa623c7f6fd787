------------------------------- MODULE Analysis -------------------------------
(***************************************************************************)
(* One submission in the orchestrator's stage chain, with the services the *)
(* stages call: the required stage (the analyzer service, or the secret    *)
(* scan in the process), the context from the resolver, the advice of the  *)
(* semantic service with its local model and its premium reviewers, and    *)
(* the deterministic fallback.                                             *)
(*                                                                         *)
(* Time passes in ticks.  The stages share one budget, the fallback has    *)
(* its own, and a call whose budget is used up returns with an error; the  *)
(* work it asked for goes on in the semantic service, which is not told.   *)
(*                                                                         *)
(* The models, the premium providers and the gold index are external: they *)
(* answer what they like, when they like, or not at all.                   *)
(***************************************************************************)
EXTENDS Scan, FiniteSets, FiniteSetsExt

CONSTANTS
  Submissions,       \* [diff, language, tenant]: tenant if org is a UUID
  Reviewers,         \* the premium providers
  ModelAnswers,      \* sets of severities a model may answer with
  Deployments,       \* what the services may be configured with
  StageDeadline,     \* ticks for all stages together
  FallbackDeadline   \* ticks for the fallback

\* Severities as a model names them: a model may make one up.
Named == Severities \cup {"critical"}

\* The configuration that wire (orchestrator) and build (semantic service) go
\* by.  premium is the feature flag and keys the providers that have a key.
Setups ==
  [analyzer : BOOLEAN, semantic : BOOLEAN, resolver : BOOLEAN, vllm : BOOLEAN,
   premium : BOOLEAN, keys : SUBSET Reviewers]

ASSUME AnalysisAssumption ==
  /\ \A s \in Submissions :
       /\ s.diff \in Texts
       /\ s.tenant \in BOOLEAN
  /\ ModelAnswers \subseteq SUBSET Named
  /\ Deployments \subseteq Setups
  /\ StageDeadline \in Nat
  /\ FallbackDeadline \in Nat
  /\ Reviewers \cap {"scan", "analyzer", "semantic", "local"} = {}

VARIABLES
  setup, sub,  \* the deployment and the submission
  pc,          \* where the chain is
  text,        \* the diff for the later stages
  found,       \* findings: <<who, severity>>
  left,        \* what is left of the budget
  elapsed,     \* time since the chain began
  verdict,     \* [decision, source], both "none" until pc is "done"
  task,        \* the request at the semantic service
  local,       \* severities in the local model's answer
  review,      \* reviewer -> "idle", "asked", "answered" or "failed"
  answer,      \* reviewer -> the severities it answered with
  shown        \* history: texts the resolver or a model has been shown

chainVars == <<pc, text, found, left, verdict>>
taskVars == <<task, local, review, answer>>
vars == <<setup, sub, chainVars, elapsed, taskVars, shown>>

Stages == {"required", "context", "resolving", "advice", "waiting", "verdict"}
Findings == ({"scan", "analyzer", "semantic", "local"} \cup Reviewers) \X Severities
NoVerdict == [decision |-> "none", source |-> "none"]
Verdicts ==
  [decision : {"approved", "needs_review", "rejected"},
   source : {"pipeline", "fallback"}]

TypeOK ==
  /\ setup \in Deployments
  /\ sub \in Submissions
  /\ pc \in Stages \cup {"fallback", "done"}
  /\ text \in Texts
  /\ found \subseteq Findings
  /\ left \in Nat
  /\ elapsed \in Nat
  /\ verdict \in Verdicts \cup {NoVerdict}
  /\ task \in {"none", "local", "premium", "answered", "failed"}
  /\ local \subseteq Named
  /\ review \in [Reviewers -> {"idle", "asked", "answered", "failed"}]
  /\ answer \in [Reviewers -> SUBSET Named]
  /\ shown \subseteq Texts

Init ==
  /\ setup \in Deployments
  /\ sub \in Submissions
  /\ pc = "required"
  /\ text = sub.diff
  /\ found = {}
  /\ left = StageDeadline
  /\ elapsed = 0
  /\ verdict = NoVerdict
  /\ task = "none"
  /\ local = {}
  /\ review = [r \in Reviewers |-> "idle"]
  /\ answer = [r \in Reviewers |-> {}]
  /\ shown = {}

By(who, severities) == {<<who, s>> : s \in severities}
SeveritiesOf(findings) == {f.severity : f \in findings}
Heard == {f[2] : f \in found}

Consolidate(severities) ==
  IF "blocking" \in severities THEN "rejected"
  ELSE IF "warning" \in severities THEN "needs_review"
  ELSE "approved"

------------------------------------------------------------------------------
(* The required stage and the fallback. *)

Passed(who, findings, masked) ==
  /\ found' = By(who, SeveritiesOf(findings))
  /\ text' = masked
  /\ pc' = IF setup.semantic THEN "context" ELSE "verdict"

\* SecretScan.Analyze reports and masks nothing.
ScanInProcess ==
  /\ pc = "required"
  /\ ~setup.analyzer
  /\ left > 0
  /\ Passed("scan", SecretDetect(text), text)
  /\ UNCHANGED <<setup, sub, left, elapsed, verdict, taskVars, shown>>

\* AnalyzeDiff.Handle runs the detectors of pkg/scan by itself.
Analyzed == Run(text, sub.language)

\* The analyzer service: its severities survive the wire.
AnalyzerAnswers ==
  /\ pc = "required"
  /\ setup.analyzer
  /\ left > 0
  /\ Passed("analyzer", Analyzed.findings, Analyzed.masked)
  /\ UNCHANGED <<setup, sub, left, elapsed, verdict, taskVars, shown>>

\* The analyzer or the way to it fails, the budget is used up, or a shutdown
\* cancels the chain: the fallback starts, on a budget of its own.
RequiredFails ==
  /\ pc = "required"
  /\ pc' = "fallback"
  /\ left' = FallbackDeadline
  /\ UNCHANGED <<setup, sub, text, found, elapsed, verdict, taskVars, shown>>

Publish(findings, decision, source) ==
  /\ found' = findings
  /\ verdict' = [decision |-> decision, source |-> source]
  /\ pc' = "done"

FallbackScan ==
  /\ pc = "fallback"
  /\ left > 0
  /\ LET severities == SeveritiesOf(SecretDetect(sub.diff))
     IN  Publish(By("scan", severities), Consolidate(severities), "fallback")
  /\ UNCHANGED <<setup, sub, text, left, elapsed, taskVars, shown>>

FallbackFails ==
  /\ pc = "fallback"
  /\ left = 0
  /\ Publish(By("scan", {"warning"}), "needs_review", "fallback")
  /\ UNCHANGED <<setup, sub, text, left, elapsed, taskVars, shown>>

------------------------------------------------------------------------------
(* The advisory stage: context, request, answer. *)

WantsContext == setup.resolver /\ sub.tenant

AskResolver ==
  /\ pc = "context"
  /\ WantsContext
  /\ left > 0
  /\ shown' = shown \cup {text}
  /\ pc' = "resolving"
  /\ UNCHANGED <<setup, sub, text, found, left, elapsed, verdict, taskVars>>

NoContext ==
  /\ pc = "context"
  /\ ~WantsContext \/ left = 0
  /\ pc' = "advice"
  /\ UNCHANGED <<setup, sub, text, found, left, elapsed, verdict, taskVars, shown>>

\* Variation of ContextBack: the next call starts on a full budget.
ContextBackRenewed ==
  /\ pc = "resolving"
  /\ pc' = "advice"
  /\ left' = StageDeadline
  /\ UNCHANGED <<setup, sub, text, found, elapsed, verdict, taskVars, shown>>

\* The resolver answers, refuses the query (it insists on a language), fails
\* or is out of time: in each case the request goes on, with what it has.
ContextBack ==
  /\ pc = "resolving"
  /\ pc' = "advice"
  /\ UNCHANGED <<setup, sub, text, found, left, elapsed, verdict, taskVars, shown>>

AskSemantic ==
  /\ pc = "advice"
  /\ left > 0
  /\ shown' = shown \cup {text}
  /\ task' = "local"
  /\ pc' = "waiting"
  /\ UNCHANGED <<setup, sub, text, found, left, elapsed, verdict,
                 local, review, answer>>

\* Variation of Parsed: the severities are taken as they come.
ParsedAsIs(severities) == severities

\* A severity that is not known counts as a warning.
Parsed(severities) == {IF s \in Severities THEN s ELSE "warning" : s \in severities}

\* Variation of Advice: the reviewers' findings replace the local model's.
AdviceReplaced ==
  IF \A r \in Reviewers : review[r] = "idle"
  THEN By("local", Parsed(local))
  ELSE (UNION {By(r, Parsed(answer[r])) : r \in Reviewers})
         \cup {<<r, "info">> : r \in {s \in Reviewers : review[s] = "failed"}}

\* The findings of the service's answer.
Advice ==
  By("local", Parsed(local))
    \cup (UNION {By(r, Parsed(answer[r])) : r \in Reviewers})
    \cup {<<r, "info">> : r \in {s \in Reviewers : review[s] = "failed"}}

TakeAdvice ==
  /\ pc = "waiting"
  /\ task = "answered"
  /\ left > 0
  /\ found' = found \cup Advice
  /\ pc' = "verdict"
  /\ UNCHANGED <<setup, sub, text, left, elapsed, verdict, taskVars, shown>>

\* Variations of LoseAdvice: the verdict does not say so; only a failure of
\* the service ends the call.
LoseAdviceSilently ==
  /\ pc \in {"advice", "waiting"}
  /\ pc' = "verdict"
  /\ UNCHANGED <<setup, sub, text, found, left, elapsed, verdict, taskVars, shown>>
LoseAdviceOnError ==
  /\ pc = "waiting"
  /\ task = "failed"
  /\ found' = found \cup By("semantic", {"warning"})
  /\ pc' = "verdict"
  /\ UNCHANGED <<setup, sub, text, left, elapsed, verdict, taskVars, shown>>

\* Optional: the service answers with an error, the connection breaks, or the
\* budget is used up.
LoseAdvice ==
  /\ pc \in {"advice", "waiting"}
  /\ found' = found \cup By("semantic", {"warning"})
  /\ pc' = "verdict"
  /\ UNCHANGED <<setup, sub, text, left, elapsed, verdict, taskVars, shown>>

Conclude ==
  /\ pc = "verdict"
  /\ Publish(found, Consolidate(Heard), "pipeline")
  /\ UNCHANGED <<setup, sub, text, left, elapsed, taskVars, shown>>

------------------------------------------------------------------------------
(* The semantic service. *)

\* The weights of the heuristic's markers, in tenths, and the threshold.
Weights ==
  [auth |-> 3, crypto |-> 3, password |-> 3, masked |-> 4, eval |-> 4, shell |-> 2,
   large |-> 2]
Threshold == 5
Markers(t) == {m \in DOMAIN Weights : \E i \in DOMAIN t : m \in t[i]}
Score(t) == MapThenSumSet(LAMBDA m : Weights[m], Markers(t))

\* should_escalate
Escalates(findings, risky) == risky \/ "blocking" \in findings

\* EvaluateDiff.handle, once the local model has given its assessment: the
\* cost gate.  A premium tier that is enabled without a key refuses to run.
Assessed(findings, risky) ==
  /\ task = "local"
  /\ local' = findings
  /\ \/ /\ ~setup.premium \/ ~Escalates(findings, risky)
        /\ task' = "answered"
        /\ UNCHANGED <<review, shown>>
     \/ /\ setup.premium
        /\ Escalates(findings, risky)
        /\ IF setup.keys = {}
           THEN task' = "failed" /\ UNCHANGED <<review, shown>>
           ELSE /\ task' = "premium"
                /\ review' = [r \in Reviewers |-> IF r \in setup.keys THEN "asked"
                                                                      ELSE "idle"]
                /\ shown' = shown \cup {text}
  /\ UNCHANGED <<setup, sub, chainVars, elapsed, answer>>

\* The model gives an answer that can be parsed.  Nothing bounds the time it
\* takes: the client's timeout starts again with each read.
ModelAssesses ==
  /\ setup.vllm
  /\ \E findings \in ModelAnswers, risky \in BOOLEAN : Assessed(findings, risky)

\* The stub, which is also FallbackLocalModel's answer for a failed model.
HeuristicAssesses ==
  Assessed(IF Markers(text) = {} THEN {} ELSE {"info"}, Score(text) >= Threshold)

ReviewerAnswers(r) ==
  /\ review[r] = "asked"
  /\ review' = [review EXCEPT ![r] = "answered"]
  /\ \E findings \in ModelAnswers : answer' = [answer EXCEPT ![r] = findings]
  /\ UNCHANGED <<setup, sub, chainVars, elapsed, task, local, shown>>

\* An error of the provider, an answer that cannot be parsed, or wait_for.
ReviewerFails(r) ==
  /\ review[r] = "asked"
  /\ review' = [review EXCEPT ![r] = "failed"]
  /\ UNCHANGED <<setup, sub, chainVars, elapsed, task, local, answer, shown>>

\* DualModelConsensus.review: one answer is enough; without any the request
\* fails, and the local model's findings with it.
Gathered ==
  /\ task = "premium"
  /\ \A r \in Reviewers : review[r] # "asked"
  /\ task' = IF \E r \in Reviewers : review[r] = "answered" THEN "answered"
                                                            ELSE "failed"
  /\ UNCHANGED <<setup, sub, chainVars, elapsed, local, review, answer, shown>>

------------------------------------------------------------------------------
(* A call that is due returns before more time passes. *)
Tick ==
  /\ pc # "done"
  /\ left > 0
  /\ left' = left - 1
  /\ elapsed' = elapsed + 1
  /\ UNCHANGED <<setup, sub, pc, text, found, verdict, taskVars, shown>>

Service ==
  \/ ModelAssesses \/ HeuristicAssesses \/ Gathered
  \/ \E r \in Reviewers : ReviewerAnswers(r) \/ ReviewerFails(r)

Next ==
  \/ ScanInProcess \/ AnalyzerAnswers \/ RequiredFails
  \/ FallbackScan \/ FallbackFails
  \/ AskResolver \/ NoContext \/ ContextBack
  \/ AskSemantic \/ TakeAdvice \/ LoseAdvice \/ Conclude
  \/ Service
  \/ Tick

Spec == Init /\ [][Next]_vars

\* What the process does without any answer from another.
Own ==
  \/ ScanInProcess \/ FallbackScan \/ FallbackFails
  \/ AskResolver \/ NoContext \/ AskSemantic \/ Conclude
  \/ left = 0 /\ (RequiredFails \/ ContextBack \/ LoseAdvice)

\* Time passes and the process runs.  No other service need ever answer.
FairSpec == Spec /\ WF_vars(Tick) /\ WF_vars(Own)

------------------------------------------------------------------------------
(* Properties. *)

(* A verdict is there when the two budgets are used up, and a verdict of the
   pipeline within the stages' own: context, request and answer share what the
   required stage has left of it. *)
InTime ==
  /\ elapsed <= StageDeadline + FallbackDeadline
  /\ verdict.source = "pipeline" => elapsed <= StageDeadline

(* With an analyzer configured no text in which a secret pattern still matches
   reaches the resolver, the local model or a provider, however the analyzer
   fails.  (Without one the in-process scan masks nothing, and the diff goes
   out as it came.) *)
ShownIsMasked == setup.analyzer => \A t \in shown : ~Leaks(t)

(* A diff with a credential on a line is not approved, and neither is one in
   which the local model or a reviewer has found more than an info: not when
   the advice comes too late, when it is lost on the way, when the reviewers
   fail after the local model, or when a model makes up a severity. *)
SeriousNeverApproved ==
  verdict.decision = "approved" =>
    /\ SecretDetect(sub.diff) = {}
    /\ local \subseteq {"info"}
    /\ \A r \in Reviewers : answer[r] \subseteq {"info"}

(* A pipeline verdict of a chain with the semantic stage says that the advice
   is missing, or has all of it: the local findings, those of each reviewer
   that answered, and a note for each one that did not. *)
AdviceIsWhole ==
  verdict.source = "pipeline" /\ setup.semantic =>
    \/ <<"semantic", "warning">> \in found
    \/ /\ task = "answered"
       /\ By("local", local \cap Severities) \subseteq found
       /\ \A r \in Reviewers :
            /\ review[r] # "asked"
            /\ review[r] = "answered" => By(r, answer[r] \cap Severities) \subseteq found
            /\ review[r] = "failed" => <<r, "info">> \in found

(* Each submission gets a verdict, whoever does not answer. *)
EveryDiffJudged == <>(pc = "done")
==============================================================================
