---------------------------- MODULE AnalysisProofs ----------------------------
(***************************************************************************)
(* The stage chain keeps its budget, keeps secrets to itself once an       *)
(* analyzer has masked them, and approves nothing that a detector, a model *)
(* or a reviewer has objected to: for any texts, deployments, deadlines    *)
(* and answers.  The client agrees with it and with itself, and the        *)
(* gateway's typosquat check is exact: for any trees, flags and names.     *)
(***************************************************************************)
EXTENDS Agreement, TLAPS, FiniteSetTheorems, FunctionTheorems, WellFoundedInduction

------------------------------------------------------------------------------
(* Texts. *)

LEMMA MarkFacts == LineSecrets \subseteq Marks /\ "masked" \in Marks /\ "masked" \notin LineSecrets
BY DEF Marks, LineSecrets

(* What the library has masked it no longer matches, a credential that is
   broken over two lines included. *)
LEMMA MaskLeaksNothing ==
  ASSUME NEW t \in Texts
  PROVE  Mask(t) \in Texts /\ ~Leaks(Mask(t))
<1> DEFINE u == Mask(t)
<1>1. /\ Len(t) \in Nat \ {0} /\ DOMAIN t = 1..Len(t)
      /\ \A i \in DOMAIN t : t[i] \in SUBSET Marks
  BY DEF Texts
<1>2. /\ DOMAIN u = DOMAIN t
      /\ \A i \in DOMAIN t :
           u[i] = IF MatchedAt(t, i) = {} THEN t[i]
                  ELSE (t[i] \ MatchedAt(t, i)) \cup {"masked"}
  BY DEF Mask
<1> HIDE DEF u
<1>3. \A i \in DOMAIN t : u[i] \in SUBSET Marks
  BY <1>1, <1>2, MarkFacts
<1>4. u \in Texts
  <2>1. u \in [1..Len(t) -> SUBSET Marks]
    BY <1>1, <1>2, <1>3 DEF u, Mask
  <2>2. u \in Seq(SUBSET Marks)
    BY <2>1, <1>1
  <2>3. u # <<>>
    BY <1>1, <1>2
  <2> QED
    BY <2>2, <2>3 DEF Texts
<1>5. \A i \in DOMAIN t : MatchedAt(t, i) \cap LineSecrets = t[i] \cap LineSecrets
  BY DEF MatchedAt, LineSecrets
<1>6. \A i \in DOMAIN t : u[i] \cap LineSecrets = {}
  BY <1>2, <1>5, MarkFacts
<1>7. \A i : BrokenAt(t, i) => "open" \in MatchedAt(t, i)
  BY DEF MatchedAt
<1>8. \A i : ~BrokenAt(u, i)
  <2> SUFFICES ASSUME NEW i, BrokenAt(u, i)
               PROVE  FALSE
    OBVIOUS
  <2>1. {i, i + 1} \subseteq DOMAIN t /\ "open" \in u[i] /\ "close" \in u[i + 1]
    BY <1>2 DEF BrokenAt
  <2>2. "open" \in t[i] /\ "close" \in t[i + 1]
    BY <1>2, <2>1
  <2>3. "open" \in MatchedAt(t, i)
    BY <1>7, <2>1, <2>2 DEF BrokenAt
  <2> QED
    BY <1>2, <2>1, <2>3
<1>9. \A i \in DOMAIN u : MatchedAt(u, i) = {}
  BY <1>2, <1>6, <1>8 DEF MatchedAt
<1> QED
  BY <1>4, <1>9 DEF Leaks, u

(* The severities of the library's findings. *)
LEMMA DetectedSeverities ==
  ASSUME NEW t, NEW language
  PROVE  /\ SeveritiesOf(SecretDetect(t)) \subseteq {"blocking"}
         /\ SecretDetect(t) # {} => "blocking" \in SeveritiesOf(SecretDetect(t))
         /\ SeveritiesOf(Run(t, language).findings) \subseteq {"blocking", "warning"}
         /\ SecretDetect(t) # {} => "blocking" \in SeveritiesOf(Run(t, language).findings)
<1>1. ASSUME NEW rules, NEW severity
      PROVE  \A f \in FindingsOf(t, rules, severity) : f.severity = severity
  BY DEF FindingsOf
<1>2. \A f \in SecretDetect(t) : f.severity = "blocking"
  BY <1>1 DEF SecretDetect
<1>3. \A f \in RiskyDetect(t, language) : f.severity = "warning"
  BY <1>1 DEF RiskyDetect
<1>4. Run(t, language).findings = SecretDetect(t) \cup RiskyDetect(t, language)
  BY DEF Run
<1> QED
  BY <1>2, <1>3, <1>4 DEF SeveritiesOf

(* Consolidate approves only what nobody objects to. *)
LEMMA ConsolidateFacts ==
  ASSUME NEW severities
  PROVE  /\ Consolidate(severities) \in {"approved", "needs_review", "rejected"}
         /\ Consolidate(severities) = "approved" =>
              "blocking" \notin severities /\ "warning" \notin severities
BY DEF Consolidate

LEMMA ParsedFacts ==
  ASSUME NEW severities
  PROVE  /\ Parsed(severities) \subseteq Severities
         /\ severities \cap Severities \subseteq Parsed(severities)
         /\ Parsed(severities) \subseteq {"info"} => severities \subseteq {"info"}
BY DEF Parsed, Severities

LEMMA ByFacts ==
  ASSUME NEW who \in {"scan", "analyzer", "semantic", "local"} \cup Reviewers,
         NEW severities \in SUBSET Severities
  PROVE  By(who, severities) \subseteq Findings
BY DEF By, Findings

LEMMA AdviceType ==
  ASSUME TypeOK
  PROVE  Advice \subseteq Findings
<1>1. By("local", Parsed(local)) \subseteq Findings
  BY ParsedFacts, ByFacts
<1>2. \A r \in Reviewers : By(r, Parsed(answer[r])) \subseteq Findings
  BY ParsedFacts, ByFacts
<1>3. \A r \in Reviewers : <<r, "info">> \in Findings
  BY DEF Findings, Severities
<1> QED
  BY <1>1, <1>2, <1>3 DEF Advice

(* What is in the advice. *)
LEMMA AdviceFacts ==
  /\ By("local", Parsed(local)) \subseteq Advice
  /\ \A r \in Reviewers : By(r, Parsed(answer[r])) \subseteq Advice
  /\ \A r \in Reviewers : review[r] = "failed" => <<r, "info">> \in Advice
BY DEF Advice

------------------------------------------------------------------------------
(* Types. *)

LEMMA TypeInit == Init => TypeOK
<1> SUFFICES ASSUME Init PROVE TypeOK
  OBVIOUS
<1>1. setup \in Setups /\ sub.diff \in Texts
  BY AnalysisAssumption DEF Init
<1> QED
  BY <1>1, AnalysisAssumption DEF Init, TypeOK, Stages, NoVerdict

LEMMA TypePublish ==
  ASSUME TypeOK, NEW findings \in SUBSET Findings, NEW decision, NEW source,
         decision \in {"approved", "needs_review", "rejected"},
         source \in {"pipeline", "fallback"},
         Publish(findings, decision, source),
         UNCHANGED <<setup, sub, text, left, elapsed, taskVars, shown>>
  PROVE  TypeOK'
BY DEF TypeOK, Publish, Verdicts, taskVars

LEMMA TypePassed ==
  ASSUME TypeOK, NEW who \in {"scan", "analyzer"}, NEW findings, NEW masked \in Texts,
         SeveritiesOf(findings) \subseteq Severities,
         Passed(who, findings, masked),
         UNCHANGED <<setup, sub, left, elapsed, verdict, taskVars, shown>>
  PROVE  TypeOK'
<1>1. found' \subseteq Findings /\ text' \in Texts /\ pc' \in Stages
  BY ByFacts DEF Passed, Stages
<1> QED
  BY <1>1 DEF TypeOK, taskVars

LEMMA TypeAssessed ==
  ASSUME TypeOK, NEW findings \in SUBSET Named, NEW risky, Assessed(findings, risky)
  PROVE  TypeOK'
<1>1. /\ task' \in {"none", "local", "premium", "answered", "failed"}
      /\ local' \subseteq Named
      /\ shown' \subseteq Texts
      /\ UNCHANGED <<setup, sub, chainVars, elapsed, answer>>
  BY DEF Assessed, TypeOK
<1>2. review' \in [Reviewers -> {"idle", "asked", "answered", "failed"}]
  BY DEF Assessed, TypeOK
<1> QED
  BY <1>1, <1>2 DEF TypeOK, chainVars

LEMMA TypeNext == TypeOK /\ [Next]_vars => TypeOK'
<1> SUFFICES ASSUME TypeOK, [Next]_vars PROVE TypeOK'
  OBVIOUS
<1>0. sub.diff \in Texts
  BY AnalysisAssumption DEF TypeOK
<1>1. CASE ScanInProcess
  <2>1. SeveritiesOf(SecretDetect(text)) \subseteq Severities /\ text \in Texts
    BY DetectedSeverities DEF Severities, TypeOK
  <2> QED
    BY <1>1, <2>1, TypePassed DEF ScanInProcess
<1>2. CASE AnalyzerAnswers
  <2>1. SeveritiesOf(Run(text, sub.language).findings) \subseteq Severities
    BY DetectedSeverities DEF Severities
  <2>2. Run(text, sub.language).masked \in Texts
    BY MaskLeaksNothing DEF Run, TypeOK
  <2> QED
    BY <1>2, <2>1, <2>2, TypePassed DEF AnalyzerAnswers, Analyzed
<1>3. CASE RequiredFails
  BY <1>3, AnalysisAssumption DEF RequiredFails, TypeOK, taskVars
<1>4. CASE FallbackScan
  <2> DEFINE severities == SeveritiesOf(SecretDetect(sub.diff))
  <2>1. By("scan", severities) \in SUBSET Findings
    BY DetectedSeverities, ByFacts DEF Severities
  <2>2. Consolidate(severities) \in {"approved", "needs_review", "rejected"}
    BY ConsolidateFacts
  <2> QED
    BY <1>4, <2>1, <2>2, TypePublish DEF FallbackScan
<1>5. CASE FallbackFails
  <2>1. By("scan", {"warning"}) \in SUBSET Findings
    BY ByFacts DEF Severities
  <2> QED
    BY <1>5, <2>1, TypePublish DEF FallbackFails
<1>6. CASE AskResolver
  BY <1>6 DEF AskResolver, TypeOK, Stages, taskVars
<1>7. CASE NoContext
  BY <1>7 DEF NoContext, TypeOK, Stages, taskVars
<1>8. CASE ContextBack
  BY <1>8 DEF ContextBack, TypeOK, Stages, taskVars
<1>9. CASE AskSemantic
  BY <1>9 DEF AskSemantic, TypeOK, Stages
<1>10. CASE TakeAdvice
  <2>1. found' \subseteq Findings /\ pc' \in Stages
    BY <1>10, AdviceType DEF TakeAdvice, TypeOK, Stages
  <2> QED
    BY <1>10, <2>1 DEF TakeAdvice, TypeOK, taskVars
<1>11. CASE LoseAdvice
  <2>1. found' \subseteq Findings /\ pc' \in Stages
    BY <1>11, ByFacts DEF LoseAdvice, TypeOK, Stages, Severities
  <2> QED
    BY <1>11, <2>1 DEF LoseAdvice, TypeOK, taskVars
<1>12. CASE Conclude
  <2>1. Consolidate(Heard) \in {"approved", "needs_review", "rejected"}
    BY ConsolidateFacts
  <2>2. found \in SUBSET Findings
    BY DEF TypeOK
  <2> QED
    BY <1>12, <2>1, <2>2, TypePublish DEF Conclude
<1>13. CASE ModelAssesses
  BY <1>13, AnalysisAssumption, TypeAssessed DEF ModelAssesses
<1>14. CASE HeuristicAssesses
  <2>1. (IF Markers(text) = {} THEN {} ELSE {"info"}) \in SUBSET Named
    BY DEF Named, Severities
  <2> QED
    BY <1>14, <2>1, TypeAssessed DEF HeuristicAssesses
<1>15. CASE Gathered
  BY <1>15 DEF Gathered, TypeOK, chainVars
<1>16. ASSUME NEW r \in Reviewers, ReviewerAnswers(r) \/ ReviewerFails(r)
       PROVE  TypeOK'
  <2>1. CASE ReviewerAnswers(r)
    <3>1. answer' \in [Reviewers -> SUBSET Named]
      BY <2>1, AnalysisAssumption DEF ReviewerAnswers, TypeOK
    <3>2. review' \in [Reviewers -> {"idle", "asked", "answered", "failed"}]
      BY <2>1 DEF ReviewerAnswers, TypeOK
    <3> QED
      BY <2>1, <3>1, <3>2 DEF ReviewerAnswers, TypeOK, chainVars
  <2>2. CASE ReviewerFails(r)
    BY <2>2 DEF ReviewerFails, TypeOK, chainVars
  <2> QED
    BY <1>16, <2>1, <2>2
<1>17. CASE Tick
  BY <1>17 DEF Tick, TypeOK, taskVars
<1>18. CASE UNCHANGED vars
  BY <1>18 DEF TypeOK, vars, chainVars, taskVars
<1> QED
  BY <1>1, <1>2, <1>3, <1>4, <1>5, <1>6, <1>7, <1>8, <1>9, <1>10, <1>11, <1>12, <1>13,
     <1>14, <1>15, <1>16, <1>17, <1>18 DEF Next, Service

(* Each variable keeps its type: in particular a severity that a model makes up
   gets no further than the parser. *)
THEOREM ChainTypeCorrect == Spec => []TypeOK
BY TypeInit, TypeNext, PTL DEF Spec

------------------------------------------------------------------------------
(* Time. *)

\* The stages' budget and the time add up until the fallback starts, which adds
\* its own.
TimeInv ==
  /\ pc # "done" => verdict = NoVerdict
  /\ pc \in Stages => elapsed + left = StageDeadline
  /\ pc = "fallback" => elapsed + left <= StageDeadline + FallbackDeadline
  /\ InTime

LEMMA TimeInit == Init => TimeInv
BY AnalysisAssumption DEF Init, TimeInv, InTime, Stages, NoVerdict

LEMMA TimeNext == TypeOK /\ TimeInv /\ [Next]_vars => TimeInv'
<1> SUFFICES ASSUME TypeOK, TimeInv, [Next]_vars PROVE TimeInv'
  OBVIOUS
<1> USE DEF TimeInv, InTime
<1>0. /\ left \in Nat /\ elapsed \in Nat /\ StageDeadline \in Nat /\ FallbackDeadline \in Nat
      /\ NoVerdict.source = "none"
  BY AnalysisAssumption DEF TypeOK, NoVerdict
<1>1. CASE UNCHANGED <<left, elapsed, verdict>> /\ pc \in Stages /\ pc' \in Stages
  BY <1>0, <1>1 DEF Stages
<1>2. CASE UNCHANGED <<left, elapsed, verdict, pc>>
  BY <1>0, <1>2
<1>3. CASE RequiredFails
  BY <1>0, <1>3 DEF RequiredFails, Stages
<1>4. CASE FallbackScan \/ FallbackFails
  <2>1. pc = "fallback" /\ pc' = "done" /\ verdict'.source = "fallback"
        /\ UNCHANGED <<left, elapsed>>
    BY <1>4 DEF FallbackScan, FallbackFails, Publish
  <2> QED
    BY <1>0, <2>1 DEF Stages
<1>5. CASE Conclude
  <2>1. pc = "verdict" /\ pc' = "done" /\ UNCHANGED <<left, elapsed>>
    BY <1>5 DEF Conclude, Publish
  <2> QED
    BY <1>0, <2>1 DEF Stages
<1>6. CASE Tick
  <2>1. /\ pc # "done" /\ left > 0 /\ left' = left - 1 /\ elapsed' = elapsed + 1
        /\ pc' = pc /\ verdict' = verdict
    BY <1>6 DEF Tick
  <2>2. pc \in Stages \/ pc = "fallback"
    BY <2>1 DEF TypeOK
  <2>3. elapsed' + left' = elapsed + left /\ elapsed' <= elapsed + left
    BY <1>0, <2>1
  <2>4. verdict'.source = "none"
    BY <1>0, <2>1
  <2> QED
    BY <1>0, <2>1, <2>2, <2>3, <2>4 DEF Stages
<1>7. CASE ScanInProcess \/ AnalyzerAnswers
  BY <1>1, <1>7 DEF ScanInProcess, AnalyzerAnswers, Passed, Stages
<1>8. CASE AskResolver \/ NoContext \/ ContextBack
  BY <1>1, <1>8 DEF AskResolver, NoContext, ContextBack, Stages
<1>9. CASE AskSemantic \/ TakeAdvice \/ LoseAdvice
  BY <1>1, <1>9 DEF AskSemantic, TakeAdvice, LoseAdvice, Stages
<1>10. CASE Service
  BY <1>2, <1>10 DEF Service, ModelAssesses, HeuristicAssesses, Assessed, Gathered,
     ReviewerAnswers, ReviewerFails, chainVars
<1>11. CASE UNCHANGED vars
  BY <1>2, <1>11 DEF vars, chainVars
<1> QED
  BY <1>3, <1>4, <1>5, <1>6, <1>7, <1>8, <1>9, <1>10, <1>11 DEF Next

------------------------------------------------------------------------------
(* What is shown. *)

\* From the context on the text is what the required stage handed on, and what
\* the semantic service has to show is that text.
MaskInv ==
  /\ pc \in {"required", "fallback"} => task = "none"
  /\ setup.analyzer =>
       /\ pc \in {"context", "resolving", "advice", "waiting"} => ~Leaks(text)
       /\ task # "none" => ~Leaks(text)
  /\ ShownIsMasked

LEMMA MaskInit == Init => MaskInv
BY DEF Init, MaskInv, ShownIsMasked

LEMMA MaskNext == TypeOK /\ MaskInv /\ [Next]_vars => MaskInv'
<1> SUFFICES ASSUME TypeOK, MaskInv, [Next]_vars PROVE MaskInv'
  OBVIOUS
<1> USE DEF MaskInv, ShownIsMasked
<1>1. CASE ScanInProcess
  BY <1>1 DEF ScanInProcess, Passed, taskVars
<1>2. CASE AnalyzerAnswers
  <2>1. ~Leaks(text')
    BY <1>2, MaskLeaksNothing DEF AnalyzerAnswers, Analyzed, Passed, Run, TypeOK
  <2> QED
    BY <1>2, <2>1 DEF AnalyzerAnswers, Passed, taskVars
<1>3. CASE RequiredFails
  BY <1>3 DEF RequiredFails, taskVars
<1>4. CASE FallbackScan \/ FallbackFails \/ Conclude
  BY <1>4 DEF FallbackScan, FallbackFails, Conclude, Publish, taskVars
<1>5. CASE AskResolver
  BY <1>5 DEF AskResolver, taskVars
<1>6. CASE NoContext \/ ContextBack
  BY <1>6 DEF NoContext, ContextBack, taskVars
<1>7. CASE AskSemantic
  BY <1>7 DEF AskSemantic
<1>8. CASE TakeAdvice \/ LoseAdvice
  BY <1>8 DEF TakeAdvice, LoseAdvice, taskVars
<1>9. ASSUME NEW findings, NEW risky, Assessed(findings, risky)
      PROVE  MaskInv'
  <2>1. /\ task = "local" /\ task' # "none" /\ UNCHANGED <<setup, pc, text>>
        /\ shown' = shown \/ shown' = shown \cup {text}
    BY <1>9 DEF Assessed, chainVars
  <2> QED
    BY <2>1
<1>10. CASE Gathered
  BY <1>10 DEF Gathered, chainVars
<1>11. ASSUME NEW r \in Reviewers, ReviewerAnswers(r) \/ ReviewerFails(r)
       PROVE  MaskInv'
  BY <1>11 DEF ReviewerAnswers, ReviewerFails, chainVars
<1>12. CASE Tick
  BY <1>12 DEF Tick, taskVars
<1>13. CASE UNCHANGED vars
  BY <1>13 DEF vars, chainVars, taskVars
<1> QED
  BY <1>1, <1>2, <1>3, <1>4, <1>5, <1>6, <1>7, <1>8, <1>9, <1>10, <1>11, <1>12, <1>13
  DEF Next, Service, ModelAssesses, HeuristicAssesses

------------------------------------------------------------------------------
(* What is approved. *)

\* The advice has been lost, which the findings say, or heard in full.
Judged ==
  \/ <<"semantic", "warning">> \in found
  \/ task = "answered" /\ Advice \subseteq found

SecretsHeard == SecretDetect(sub.diff) # {} => "blocking" \in Heard

JudgeInv ==
  /\ pc # "done" => verdict = NoVerdict
  /\ pc = "required" => text = sub.diff
  /\ pc \in {"context", "resolving", "advice", "waiting"} => setup.semantic
  /\ pc \in {"required", "fallback", "context", "resolving", "advice"} => task = "none"
  /\ ~setup.semantic => task = "none"
  /\ task \in {"none", "local"} =>
       local = {} /\ \A r \in Reviewers : review[r] = "idle" /\ answer[r] = {}
  /\ \A r \in Reviewers : review[r] = "asked" => task = "premium"
  /\ pc \in Stages \ {"required"} => SecretsHeard
  /\ pc = "verdict" /\ setup.semantic => Judged
  /\ verdict.source = "pipeline" =>
       /\ verdict.decision = Consolidate(Heard)
       /\ SecretsHeard
       /\ setup.semantic => Judged
  /\ verdict.source = "fallback" =>
       /\ task = "none"
       /\ verdict.decision = "approved" => SecretDetect(sub.diff) = {}

LEMMA JudgeInit == Init => JudgeInv
BY DEF Init, JudgeInv, Stages, NoVerdict

\* What the chain has heard stays heard while the service goes on: once an
\* answer is complete the service is done with it.
LEMMA JudgeService ==
  ASSUME TypeOK, JudgeInv, UNCHANGED <<setup, sub, chainVars>>,
         task # "none", task # "answered", task' # "none",
         task' = "local" => UNCHANGED <<local, review, answer>>,
         task' = "local" => task = "local",
         \A r \in Reviewers : review'[r] = "asked" => task' = "premium"
  PROVE  JudgeInv'
<1>1. UNCHANGED <<setup, sub, pc, text, found, left, verdict>>
  BY DEF chainVars
<1>2. Heard' = Heard /\ SecretsHeard' = SecretsHeard
  BY <1>1 DEF Heard, SecretsHeard
<1>3. Judged => Judged'
  BY <1>1 DEF Judged
<1> QED
  BY <1>1, <1>2, <1>3 DEF JudgeInv

\* A step of the chain that leaves the service alone.
LEMMA JudgeChain ==
  ASSUME JudgeInv, UNCHANGED <<setup, sub, text, verdict, taskVars>>, found \subseteq found',
         pc \in Stages \ {"required"}, pc' \in Stages \ {"required"},
         pc' \in {"context", "resolving", "advice", "waiting"} => setup.semantic,
         pc' \in {"context", "resolving", "advice"} => task = "none",
         pc' = "verdict" => Judged'
  PROVE  JudgeInv'
<1>1. verdict = NoVerdict /\ verdict' = NoVerdict
  BY DEF JudgeInv, Stages
<1>2. SecretsHeard'
  BY DEF JudgeInv, SecretsHeard, Heard
<1>3. NoVerdict.source = "none"
  BY DEF NoVerdict
<1> QED
  BY <1>1, <1>2, <1>3 DEF JudgeInv, taskVars, Stages

LEMMA JudgeNext == TypeOK /\ JudgeInv /\ [Next]_vars => JudgeInv'
<1> SUFFICES ASSUME TypeOK, JudgeInv, [Next]_vars PROVE JudgeInv'
  OBVIOUS
<1>0. NoVerdict.source = "none"
  BY DEF NoVerdict
<1>a. ASSUME NEW who, NEW findings, NEW masked, Passed(who, findings, masked), pc = "required",
             SecretDetect(sub.diff) # {} => "blocking" \in SeveritiesOf(findings),
             UNCHANGED <<setup, sub, left, elapsed, verdict, taskVars, shown>>
      PROVE  JudgeInv'
  <2>1. found' = By(who, SeveritiesOf(findings))
        /\ pc' = (IF setup.semantic THEN "context" ELSE "verdict")
    BY <1>a DEF Passed
  <2>2. SecretsHeard'
    <3> SUFFICES ASSUME SecretDetect(sub.diff) # {} PROVE "blocking" \in Heard'
      BY <1>a DEF SecretsHeard
    <3>1. <<who, "blocking">> \in By(who, SeveritiesOf(findings))
      BY Zenon, <1>a DEF By
    <3>2. <<who, "blocking">> \in found' /\ <<who, "blocking">>[2] = "blocking"
      BY <2>1, <3>1
    <3> QED
      BY Zenon, <3>2 DEF Heard
  <2>3. verdict' = NoVerdict /\ task' = "none"
    BY <1>a DEF JudgeInv, taskVars
  <2> QED
    BY <1>0, <1>a, <2>1, <2>2, <2>3 DEF JudgeInv, taskVars, Stages
<1>1. CASE ScanInProcess
  BY <1>1, <1>a, DetectedSeverities DEF ScanInProcess, JudgeInv
<1>2. CASE AnalyzerAnswers
  BY <1>2, <1>a, DetectedSeverities DEF AnalyzerAnswers, Analyzed, JudgeInv
<1>3. CASE RequiredFails
  BY <1>0, <1>3 DEF RequiredFails, JudgeInv, taskVars, Stages
<1>4. ASSUME pc = "fallback", NEW findings, NEW decision, Publish(findings, decision, "fallback"),
             decision = "approved" => SecretDetect(sub.diff) = {},
             UNCHANGED <<setup, sub, text, left, elapsed, taskVars, shown>>
      PROVE  JudgeInv'
  <2>1. pc' = "done" /\ verdict' = [decision |-> decision, source |-> "fallback"]
    BY <1>4 DEF Publish
  <2>2. verdict'.source = "fallback" /\ verdict'.decision = decision /\ task = "none"
    BY <1>4, <2>1 DEF JudgeInv
  <2> QED
    BY <1>4, <2>1, <2>2 DEF JudgeInv, taskVars, Stages
<1>5. CASE FallbackScan
  <2> DEFINE severities == SeveritiesOf(SecretDetect(sub.diff))
  <2>1. Consolidate(severities) = "approved" => SecretDetect(sub.diff) = {}
    BY ConsolidateFacts, DetectedSeverities
  <2> QED
    BY <1>4, <1>5, <2>1 DEF FallbackScan
<1>6. CASE FallbackFails
  BY <1>4, <1>6 DEF FallbackFails
<1>7. CASE AskResolver
  BY <1>7, JudgeChain DEF AskResolver, Stages, JudgeInv
<1>8. CASE NoContext \/ ContextBack
  BY <1>8, JudgeChain DEF NoContext, ContextBack, Stages, JudgeInv
<1>9. CASE AskSemantic
  <2>1. /\ pc = "advice" /\ pc' = "waiting" /\ task = "none" /\ task' = "local"
        /\ UNCHANGED <<setup, sub, text, found, verdict, local, review, answer>>
    BY <1>9 DEF AskSemantic, JudgeInv
  <2>2. SecretsHeard' = SecretsHeard
    BY <2>1 DEF SecretsHeard, Heard
  <2> QED
    BY <1>0, <2>1, <2>2 DEF JudgeInv, Stages
<1>10. CASE TakeAdvice
  <2>1. Judged'
    BY <1>10 DEF TakeAdvice, Judged, Advice, taskVars
  <2> QED
    BY <1>10, <2>1, JudgeChain DEF TakeAdvice, Stages
<1>11. CASE LoseAdvice
  <2>1. Judged'
    BY <1>11 DEF LoseAdvice, Judged, By
  <2> QED
    BY <1>11, <2>1, JudgeChain DEF LoseAdvice, Stages
<1>12. CASE Conclude
  <2>1. /\ pc = "verdict" /\ pc' = "done" /\ found' = found
        /\ verdict' = [decision |-> Consolidate(Heard), source |-> "pipeline"]
        /\ UNCHANGED <<setup, sub, text, taskVars>>
    BY <1>12 DEF Conclude, Publish
  <2>2. /\ Heard' = Heard /\ SecretsHeard' = SecretsHeard /\ Judged' = Judged
        /\ verdict'.decision = Consolidate(Heard) /\ verdict'.source = "pipeline"
    BY <2>1 DEF Heard, SecretsHeard, Judged, Advice, taskVars
  <2> QED
    BY <2>1, <2>2 DEF JudgeInv, Stages, taskVars
<1>13. ASSUME NEW findings, NEW risky, Assessed(findings, risky)
       PROVE  JudgeInv'
  <2>1. /\ task = "local" /\ task' \in {"answered", "failed", "premium"}
        /\ UNCHANGED <<setup, sub, chainVars>>
    BY <1>13 DEF Assessed
  <2>2. \A r \in Reviewers : review'[r] = "asked" => task' = "premium"
    BY <1>13, <2>1 DEF Assessed, JudgeInv
  <2> QED
    BY <2>1, <2>2, JudgeService
<1>14. CASE Gathered
  <2>1. /\ task = "premium" /\ task' \in {"answered", "failed"}
        /\ UNCHANGED <<setup, sub, chainVars>>
        /\ \A r \in Reviewers : review'[r] # "asked"
    BY <1>14 DEF Gathered
  <2> QED
    BY <2>1, JudgeService
<1>15. ASSUME NEW r \in Reviewers, ReviewerAnswers(r) \/ ReviewerFails(r)
       PROVE  JudgeInv'
  <2>1. /\ task = "premium" /\ task' = "premium" /\ UNCHANGED <<setup, sub, chainVars>>
    BY <1>15 DEF ReviewerAnswers, ReviewerFails, JudgeInv
  <2> QED
    BY <2>1, JudgeService
<1>16. CASE Tick
  <2>1. UNCHANGED <<setup, sub, pc, text, found, verdict, task, local, review, answer>>
    BY <1>16 DEF Tick, taskVars
  <2>2. SecretsHeard' = SecretsHeard /\ Judged' = Judged /\ Heard' = Heard
    BY <2>1 DEF SecretsHeard, Heard, Judged, Advice
  <2> QED
    BY <2>1, <2>2 DEF JudgeInv
<1>17. CASE UNCHANGED vars
  <2>1. UNCHANGED <<setup, sub, pc, text, found, verdict, task, local, review, answer>>
    BY <1>17 DEF vars, chainVars, taskVars
  <2>2. SecretsHeard' = SecretsHeard /\ Judged' = Judged /\ Heard' = Heard
    BY <2>1 DEF SecretsHeard, Heard, Judged, Advice
  <2> QED
    BY <2>1, <2>2 DEF JudgeInv
<1> QED
  BY <1>1, <1>2, <1>3, <1>5, <1>6, <1>7, <1>8, <1>9, <1>10, <1>11, <1>12, <1>13,
     <1>14, <1>15, <1>16, <1>17 DEF Next, Service, ModelAssesses, HeuristicAssesses

LEMMA JudgeImplies == TypeOK /\ JudgeInv => SeriousNeverApproved /\ AdviceIsWhole
<1> SUFFICES ASSUME TypeOK, JudgeInv PROVE SeriousNeverApproved /\ AdviceIsWhole
  OBVIOUS
<1>1. SeriousNeverApproved
  <2> SUFFICES ASSUME verdict.decision = "approved"
               PROVE  /\ SecretDetect(sub.diff) = {}
                      /\ local \subseteq {"info"}
                      /\ \A r \in Reviewers : answer[r] \subseteq {"info"}
    BY DEF SeriousNeverApproved
  <2>1. verdict.source = "pipeline" \/ verdict.source = "fallback"
    BY DEF TypeOK, Verdicts, NoVerdict
  <2>2. CASE verdict.source = "fallback"
    BY <2>2 DEF JudgeInv
  <2>3. CASE verdict.source = "pipeline"
    <3>1. "blocking" \notin Heard /\ "warning" \notin Heard
      BY <2>3, ConsolidateFacts DEF JudgeInv
    <3>2. SecretDetect(sub.diff) = {}
      BY <2>3, <3>1 DEF JudgeInv, SecretsHeard
    <3>3. CASE ~setup.semantic
      BY <3>2, <3>3 DEF JudgeInv
    <3>4. CASE setup.semantic
      <4>1. <<"semantic", "warning">> \notin found
        BY <3>1 DEF Heard
      <4>2. Advice \subseteq found
        BY <2>3, <3>4, <4>1 DEF JudgeInv, Judged
      <4>3. ASSUME NEW who, NEW s \in SUBSET Named, By(who, Parsed(s)) \subseteq found
            PROVE  s \subseteq {"info"}
        <5>1. ASSUME NEW x \in Parsed(s) PROVE x \in Heard
          <6>1. <<who, x>> \in By(who, Parsed(s))
            BY Zenon, <5>1 DEF By
          <6>2. <<who, x>> \in found /\ <<who, x>>[2] = x
            BY <4>3, <6>1
          <6> QED
            BY Zenon, <6>2 DEF Heard
        <5>2. Parsed(s) \subseteq {"info"}
          BY <5>1, <3>1, ParsedFacts DEF Severities
        <5> QED
          BY <5>2, ParsedFacts
      <4>4. local \subseteq {"info"}
        BY <4>2, <4>3, AdviceFacts DEF TypeOK
      <4>5. \A r \in Reviewers : answer[r] \subseteq {"info"}
        BY <4>2, <4>3, AdviceFacts DEF TypeOK
      <4> QED
        BY <3>2, <4>4, <4>5
    <3> QED
      BY <3>3, <3>4
  <2> QED
    BY <2>1, <2>2, <2>3
<1>2. AdviceIsWhole
  <2> SUFFICES ASSUME verdict.source = "pipeline", setup.semantic,
                      <<"semantic", "warning">> \notin found
               PROVE  /\ task = "answered"
                      /\ By("local", local \cap Severities) \subseteq found
                      /\ \A r \in Reviewers :
                           /\ review[r] # "asked"
                           /\ review[r] = "answered" =>
                                By(r, answer[r] \cap Severities) \subseteq found
                           /\ review[r] = "failed" => <<r, "info">> \in found
    BY DEF AdviceIsWhole
  <2>1. task = "answered" /\ Advice \subseteq found
    BY DEF JudgeInv, Judged
  <2>2. \A who, s : By(who, s \cap Severities) \subseteq By(who, Parsed(s))
    BY ParsedFacts DEF By
  <2>3. \A r \in Reviewers : review[r] # "asked"
    BY <2>1 DEF JudgeInv
  <2> QED
    BY <2>1, <2>2, <2>3, AdviceFacts
<1> QED
  BY <1>1, <1>2

------------------------------------------------------------------------------
(* Who found what. *)

\* What the library has to say of the diff.
Library == SeveritiesOf(Run(sub.diff, sub.language).findings)

SourceInv ==
  /\ \A s : <<"analyzer", s>> \in found => s \in Library
  /\ <<"scan", "blocking">> \in found => SecretDetect(sub.diff) # {}
  /\ setup.analyzer /\ pc \in Stages \ {"required"} => By("analyzer", Library) \subseteq found
  /\ setup.analyzer /\ verdict.source = "pipeline" => By("analyzer", Library) \subseteq found

LEMMA SourceInit == Init => SourceInv
BY DEF Init, SourceInv, Stages, NoVerdict

LEMMA ByWhom ==
  ASSUME NEW who, NEW severities, NEW other, NEW s, <<other, s>> \in By(who, severities)
  PROVE  other = who /\ s \in severities
BY DEF By

\* What is advised is not the required stage's.
LEMMA AdviceIsNotTheirs ==
  ASSUME NEW who \in {"scan", "analyzer"}, NEW s
  PROVE  <<who, s>> \notin Advice
<1>1. who \notin Reviewers /\ who # "local"
  BY AnalysisAssumption
<1>2. <<who, s>> \notin By("local", Parsed(local))
  BY <1>1, ByWhom
<1>3. \A r \in Reviewers : <<who, s>> \notin By(r, Parsed(answer[r]))
  BY <1>1, ByWhom
<1>4. <<who, s>> \notin {<<r, "info">> : r \in {q \in Reviewers : review[q] = "failed"}}
  BY <1>1
<1> QED
  BY <1>2, <1>3, <1>4 DEF Advice

LEMMA SourceNext == TypeOK /\ JudgeInv /\ SourceInv /\ [Next]_vars => SourceInv'
<1> SUFFICES ASSUME TypeOK, JudgeInv, SourceInv, [Next]_vars PROVE SourceInv'
  OBVIOUS
<1>0. NoVerdict.source = "none"
  BY DEF NoVerdict
<1>1. CASE ScanInProcess
  <2>1. /\ found' = By("scan", SeveritiesOf(SecretDetect(sub.diff))) /\ ~setup.analyzer
        /\ UNCHANGED <<setup, sub>>
    BY <1>1 DEF ScanInProcess, Passed, JudgeInv
  <2>2. \A s : <<"analyzer", s>> \notin found'
    BY <2>1, ByWhom
  <2>3. <<"scan", "blocking">> \in found' => SecretDetect(sub.diff) # {}
    BY <2>1, ByWhom DEF SeveritiesOf
  <2> QED
    BY <2>1, <2>2, <2>3 DEF SourceInv
<1>2. CASE AnalyzerAnswers
  <2>1. /\ found' = By("analyzer", Library) /\ UNCHANGED <<setup, sub>>
        /\ Library' = Library
    BY <1>2 DEF AnalyzerAnswers, Passed, JudgeInv, Analyzed, Library
  <2>2. \A s : <<"scan", s>> \notin found'
    BY <2>1, ByWhom
  <2>3. \A s : <<"analyzer", s>> \in found' => s \in Library
    BY <2>1, ByWhom
  <2>4. By("analyzer", Library)' = By("analyzer", Library)
    BY <2>1
  <2> QED
    BY <2>1, <2>2, <2>3, <2>4 DEF SourceInv
<1>3. ASSUME UNCHANGED <<setup, sub, found>>,
             pc' \in Stages \ {"required"} => pc \in Stages \ {"required"},
             verdict'.source = "pipeline" =>
               verdict.source = "pipeline" \/ pc \in Stages \ {"required"}
      PROVE  SourceInv'
  <2>1. Library' = Library
    BY <1>3 DEF Library
  <2>2. By("analyzer", Library)' = By("analyzer", Library)
    BY <2>1
  <2> QED
    BY <1>3, <2>1, <2>2 DEF SourceInv
<1>4. CASE RequiredFails
  BY <1>3, <1>4 DEF RequiredFails, Stages
<1>5. ASSUME NEW severities, found' = By("scan", severities), pc' = "done",
             verdict'.source = "fallback", UNCHANGED <<setup, sub>>,
             "blocking" \in severities => SecretDetect(sub.diff) # {}
      PROVE  SourceInv'
  <2>1. \A s : <<"analyzer", s>> \notin found'
    BY <1>5, ByWhom
  <2>2. <<"scan", "blocking">> \in found' => SecretDetect(sub.diff) # {}
    BY <1>5, ByWhom
  <2> QED
    BY <1>5, <2>1, <2>2 DEF SourceInv, Stages
<1>6. CASE FallbackScan
  <2> DEFINE severities == SeveritiesOf(SecretDetect(sub.diff))
  <2>1. "blocking" \in severities => SecretDetect(sub.diff) # {}
    BY DEF SeveritiesOf
  <2> HIDE DEF severities
  <2>2. /\ found' = By("scan", severities) /\ pc' = "done"
        /\ verdict'.source = "fallback" /\ UNCHANGED <<setup, sub>>
    BY <1>6 DEF FallbackScan, Publish, severities
  <2> QED
    BY <1>5, <2>1, <2>2
<1>7. CASE FallbackFails
  <2>1. /\ found' = By("scan", {"warning"}) /\ pc' = "done"
        /\ verdict'.source = "fallback" /\ UNCHANGED <<setup, sub>>
    BY <1>7 DEF FallbackFails, Publish
  <2> QED
    BY <1>5, <2>1
<1>8. CASE AskResolver \/ NoContext \/ ContextBack \/ AskSemantic
  BY <1>3, <1>8 DEF AskResolver, NoContext, ContextBack, AskSemantic, Stages
<1>9. ASSUME NEW more, found' = found \cup more, UNCHANGED <<setup, sub, verdict>>,
             \A s : <<"analyzer", s>> \notin more /\ <<"scan", s>> \notin more,
             pc \in Stages \ {"required"}
      PROVE  SourceInv'
  <2>1. Library' = Library
    BY <1>9 DEF Library
  <2>2. By("analyzer", Library)' = By("analyzer", Library)
    BY <2>1
  <2>3. verdict.source # "pipeline"
    BY <1>0, <1>9 DEF JudgeInv, Stages
  <2> QED
    BY <1>9, <2>1, <2>2, <2>3 DEF SourceInv
<1>10. CASE TakeAdvice
  BY <1>9, <1>10, AdviceIsNotTheirs DEF TakeAdvice, Stages
<1>11. CASE LoseAdvice
  <2>1. \A s : /\ <<"analyzer", s>> \notin By("semantic", {"warning"})
               /\ <<"scan", s>> \notin By("semantic", {"warning"})
    BY ByWhom
  <2> QED
    BY <1>9, <1>11, <2>1 DEF LoseAdvice, Stages
<1>12. CASE Conclude
  BY <1>3, <1>12 DEF Conclude, Publish, Stages
<1>13. CASE Service
  <2>1. UNCHANGED <<setup, sub, chainVars>>
    BY <1>13 DEF Service, ModelAssesses, HeuristicAssesses, Assessed, Gathered,
                 ReviewerAnswers, ReviewerFails
  <2> QED
    BY <1>3, <2>1 DEF chainVars
<1>14. CASE Tick
  BY <1>3, <1>14 DEF Tick
<1>15. CASE UNCHANGED vars
  BY <1>3, <1>15 DEF vars, chainVars
<1> QED
  BY <1>1, <1>2, <1>4, <1>6, <1>7, <1>8, <1>10, <1>11, <1>12, <1>13, <1>14, <1>15 DEF Next
------------------------------------------------------------------------------
(* Theorems. *)

ChainInv == TypeOK /\ TimeInv /\ MaskInv /\ JudgeInv /\ SourceInv

\* The inductive invariant of the chain.
LEMMA ChainInvariant == Spec => []ChainInv
<1>1. Init => ChainInv
  BY TypeInit, TimeInit, MaskInit, JudgeInit, SourceInit DEF ChainInv
<1>2. ChainInv /\ [Next]_vars => ChainInv'
  BY TypeNext, TimeNext, MaskNext, JudgeNext, SourceNext DEF ChainInv
<1> QED
  BY <1>1, <1>2, PTL DEF Spec

(* A verdict is there in the time that process.go allows for it: the stages use
   up one budget between them, whoever is asked, and only the fallback gets a
   second. *)
THEOREM VerdictInTime == Spec => []InTime
<1>1. ChainInv => InTime
  BY DEF ChainInv, TimeInv
<1> QED
  BY <1>1, ChainInvariant, PTL

(* With an analyzer configured nothing in which a secret pattern still matches
   leaves for the resolver, the local model or a provider. *)
THEOREM SecretsStay == Spec => []ShownIsMasked
<1>1. ChainInv => ShownIsMasked
  BY DEF ChainInv, MaskInv
<1> QED
  BY <1>1, ChainInvariant, PTL

(* No order of answers, failures and deadlines gets a diff approved to which a
   detector, the local model or a reviewer has objected. *)
THEOREM ObjectionsCount == Spec => []SeriousNeverApproved
<1>1. ChainInv => SeriousNeverApproved
  BY JudgeImplies DEF ChainInv
<1> QED
  BY <1>1, ChainInvariant, PTL

(* The advice in a verdict is all of the advice, or the verdict says that there
   is none. *)
THEOREM AllOrNoAdvice == Spec => []AdviceIsWhole
<1>1. ChainInv => AdviceIsWhole
  BY JudgeImplies DEF ChainInv
<1> QED
  BY <1>1, ChainInvariant, PTL
------------------------------------------------------------------------------
(* The gateway: the typosquat check is exact for names whose characters are
   single bytes, and what is allowed no rule speaks against. *)

LEMMA LeastPlace ==
  ASSUME NEW S \in SUBSET Nat, S # {}
  PROVE  \E n \in S : \A m \in S : n <= m
<1> DEFINE Less == OpToRel(<, Nat)
<1>1. \E n \in S : \A m \in S : <<m, n>> \notin Less
  BY NatLessThanWellFounded, WFMin
<1>2. \A m, n \in Nat : m < n => <<m, n>> \in Less
  BY DEF OpToRel
<1> HIDE DEF Less
<1>3. PICK n \in S : \A m \in S : <<m, n>> \notin Less
  BY <1>1
<1>4. \A m \in S : m \in Nat /\ n \in Nat /\ ~(m < n)
  BY <1>2, <1>3
<1>5. \A m \in S : n <= m
  BY <1>4, SMT
<1> QED
  BY <1>3, <1>5

LEMMA FirstIsFirst ==
  ASSUME NEW S \in SUBSET Nat, S # {}
  PROVE  FirstOf(S) \in S /\ \A m \in S : FirstOf(S) <= m
BY LeastPlace DEF FirstOf

(* The bytes of the rest of a name. *)
LEMMA FromByte ==
  ASSUME NEW name \in Names, NEW i \in 1..(Len(name) + 1)
  PROVE  /\ From(name, i) \in Seq(Bytes)
         /\ Len(From(name, i)) = Len(name) - i + 1
         /\ \A k \in 1..(Len(name) - i + 1) : From(name, i)[k] = name[i + k - 1]
BY DEF From, Names

(* A name that is shorter by one is aligned with the longer one exactly if a
   byte of the longer one can be taken out. *)
LEMMA AlignedIsInsertion ==
  ASSUME NEW a \in Names, NEW b \in Names, Len(a) + 1 = Len(b)
  PROVE  AlignedShorter(a, b) <=> \E i \in DOMAIN b : a = Without(b, i)
<1> DEFINE D == Differ(a, b)
<1> USE DEF Names
<1>1. D \in SUBSET (1..Len(a)) /\ D \in SUBSET Nat
  BY DEF Differ
<1>2. \A j \in 1..Len(a) : j \notin D => a[j] = b[j]
  BY DEF Differ
<1>3. \A j \in D : a[j] # b[j]
  BY DEF Differ
<1>4. \A i \in DOMAIN b : a = Without(b, i) <=>
        \A j \in 1..Len(a) : a[j] = IF j < i THEN b[j] ELSE b[j + 1]
  BY DEF Without
<1>5. CASE D = {}
  <2>1. Len(b) \in DOMAIN b /\ \A j \in 1..Len(a) : a[j] = IF j < Len(b) THEN b[j] ELSE b[j + 1]
    BY <1>2, <1>5
  <2> QED
    BY <2>1, <1>4, <1>5 DEF AlignedShorter
<1>6. CASE D # {}
  <2> DEFINE n == FirstOf(D)
  <2>1. n \in D /\ \A m \in D : n <= m
    BY <1>1, <1>6, FirstIsFirst
  <2>2. n \in 1..Len(a)
    BY <2>1, <1>1
  <2>3. \A j \in 1..Len(a) : j < n => a[j] = b[j]
    BY <2>1, <2>2, <1>2
  <2> HIDE DEF n
  <2>4. /\ Len(From(a, n)) = Len(a) - n + 1
        /\ \A k \in 1..(Len(a) - n + 1) : From(a, n)[k] = a[n + k - 1]
        /\ From(a, n) \in Seq(Bytes)
    <3>1. a \in Names /\ n \in 1..(Len(a) + 1)
      BY <2>2
    <3> QED
      BY <3>1, FromByte
  <2>5. /\ Len(From(b, n + 1)) = Len(a) - n + 1
        /\ \A k \in 1..(Len(a) - n + 1) : From(b, n + 1)[k] = b[n + k]
        /\ From(b, n + 1) \in Seq(Bytes)
    <3>1. /\ b \in Names /\ n + 1 \in 1..(Len(b) + 1)
          /\ Len(b) - (n + 1) + 1 = Len(a) - n + 1
      BY <2>2
    <3>2. /\ From(b, n + 1) \in Seq(Bytes)
          /\ Len(From(b, n + 1)) = Len(a) - n + 1
          /\ \A k \in 1..(Len(a) - n + 1) : From(b, n + 1)[k] = b[(n + 1) + k - 1]
      BY <3>1, FromByte
    <3>3. \A k \in 1..(Len(a) - n + 1) : (n + 1) + k - 1 = n + k
      BY <2>2
    <3> QED
      BY <3>2, <3>3
  <2>6. From(a, n) = From(b, n + 1) <=> \A j \in n..Len(a) : a[j] = b[j + 1]
    <3>1. ASSUME From(a, n) = From(b, n + 1), NEW j \in n..Len(a)
          PROVE  a[j] = b[j + 1]
      <4>1. j - n + 1 \in 1..(Len(a) - n + 1) /\ n + (j - n + 1) - 1 = j /\ n + (j - n + 1) = j + 1
        BY <2>2
      <4> QED
        BY <3>1, <4>1, <2>4, <2>5
    <3>2. ASSUME \A j \in n..Len(a) : a[j] = b[j + 1]
          PROVE  From(a, n) = From(b, n + 1)
      <4>1. ASSUME NEW k \in 1..(Len(a) - n + 1)
            PROVE  From(a, n)[k] = From(b, n + 1)[k]
        <5>1. n + k - 1 \in n..Len(a) /\ (n + k - 1) + 1 = n + k
          BY <2>2
        <5> QED
          BY <3>2, <5>1, <2>4, <2>5
      <4> QED
        BY <4>1, <2>4, <2>5
    <3> QED
      BY <3>1, <3>2
  <2>7. ASSUME NEW i \in DOMAIN b, a = Without(b, i)
        PROVE  \A j \in n..Len(a) : a[j] = b[j + 1]
    <3>1. i <= n
      BY <2>7, <1>4, <1>3, <2>1, <2>2
    <3> QED
      BY <3>1, <2>7, <1>4, <2>2
  <2>8. ASSUME \A j \in n..Len(a) : a[j] = b[j + 1]
        PROVE  \E i \in DOMAIN b : a = Without(b, i)
    <3>1. n \in DOMAIN b /\ \A j \in 1..Len(a) : a[j] = IF j < n THEN b[j] ELSE b[j + 1]
      BY <2>8, <2>2, <2>3
    <3> QED
      BY <3>1, <1>4
  <2>9. AlignedShorter(a, b) <=> From(a, n) = From(b, n + 1)
    BY <1>6 DEF AlignedShorter, n
  <2> QED
    BY <2>6, <2>7, <2>8, <2>9
<1> QED
  BY <1>5, <1>6

(* Names of one length differ in one place exactly if one byte is replaced. *)
LEMMA OneDifference ==
  ASSUME NEW a \in Names, NEW b \in Names, Len(a) = Len(b), Plain(a)
  PROVE  Cardinality(Differ(a, b) \cap Starts(a)) = 1 <=>
           \E i \in DOMAIN a : a[i] # b[i] /\ \A j \in DOMAIN a : j # i => a[j] = b[j]
<1> DEFINE D == Differ(a, b)
<1>1. D \cap Starts(a) = D
  BY DEF Differ, Starts, Plain
<1>2. IsFiniteSet(D)
  <2>1. D \subseteq 1..Len(a) /\ Len(a) \in Int
    BY DEF Differ, Names
  <2>2. IsFiniteSet(1..Len(a))
    BY <2>1, FS_Interval
  <2> QED
    BY <2>1, <2>2, FS_Subset
<1>3. (\E i : D = {i}) <=>
        \E i \in DOMAIN a : a[i] # b[i] /\ \A j \in DOMAIN a : j # i => a[j] = b[j]
  <2>1. \A i \in DOMAIN a : i \in D <=> a[i] # b[i]
    BY DEF Differ
  <2>2. D \subseteq DOMAIN a
    BY DEF Differ
  <2>3. ASSUME NEW i, D = {i}
        PROVE  \E k \in DOMAIN a : a[k] # b[k] /\ \A j \in DOMAIN a : j # k => a[j] = b[j]
    BY <2>1, <2>2, <2>3
  <2>4. ASSUME NEW i \in DOMAIN a, a[i] # b[i], \A j \in DOMAIN a : j # i => a[j] = b[j]
        PROVE  D = {i}
    BY <2>1, <2>2, <2>4
  <2> QED
    BY <2>3, <2>4
<1> QED
  BY <1>1, <1>2, <1>3, FS_Singleton

(* editDistanceWithin1 returns true exactly if the Levenshtein distance is one,
   and so nearMiss does, for a name of single-byte characters: the scan that
   stops at the first difference misses none and makes none up. *)
THEOREM NearMissExact ==
  ASSUME NEW a \in Names, NEW b \in Names, Plain(a)
  PROVE  NearMiss(a, b) <=> OneEdit(a, b)
<1>0. a \in Names /\ b \in Names /\ Len(a) \in Nat /\ Len(b) \in Nat
  BY DEF Names
<1>1. CASE Len(a) = Len(b)
  <2>1. Len(a) + 1 # Len(b) /\ Len(b) + 1 # Len(a)
    BY <1>0, <1>1
  <2> QED
    BY <1>0, <1>1, <2>1, OneDifference DEF NearMiss, EditDistanceWithin1, OneEdit
<1>2. CASE Len(a) + 1 = Len(b)
  <2>1. Len(a) # Len(b) /\ Len(b) + 1 # Len(a) /\ a # b
    BY <1>0, <1>2
  <2> QED
    BY <1>0, <1>2, <2>1, AlignedIsInsertion DEF NearMiss, EditDistanceWithin1, OneEdit
<1>3. CASE Len(b) + 1 = Len(a)
  <2>1. Len(a) # Len(b) /\ Len(a) + 1 # Len(b) /\ a # b
    BY <1>0, <1>3
  <2> QED
    BY <1>0, <1>3, <2>1, AlignedIsInsertion DEF NearMiss, EditDistanceWithin1, OneEdit
<1>4. CASE Len(a) # Len(b) /\ Len(a) + 1 # Len(b) /\ Len(b) + 1 # Len(a)
  BY <1>4 DEF NearMiss, EditDistanceWithin1, OneEdit
<1> QED
  BY <1>1, <1>2, <1>3, <1>4

(* The names that are compared are among these. *)
THEOREM GatewayIsSound == Spec => []GatewaySound
<1>1. NearMissIsOneEdit
  BY NearMissExact, AskedAssumption DEF NearMissIsOneEdit
<1>2. GatewaySound
  BY <1>1 DEF GatewaySound
<1> QED
  BY <1>2, PTL

(* An answer that allows a tool call or a package has been audited, and nothing
   in the policy speaks against it, in whatever order the rules are asked: it is
   on no deny list, on the allow list if there is one, and no name that is one
   edit from a popular package. *)
THEOREM AllowedIsClean ==
  ASSUME NEW p \in Policies, NEW wellFormed \in BOOLEAN, NEW works \in BOOLEAN,
         NEW name \in Names, NEW ecosystem \in Ecosystems, NEW args \in SUBSET Names
  PROVE  /\ LET reply == Respond(wellFormed, ToolCall(p, name, args), works)
            IN  reply.decision = "allow" =>
                  /\ "allow" \in reply.recorded
                  /\ ~Listed(p.deniedTools, name)
                  /\ p.allowedTools # {} => Listed(p.allowedTools, name)
                  /\ \A arg \in args, pattern \in p.dangerous : ~Within(pattern, arg)
         /\ LET reply == Respond(wellFormed, ScreenPackage(p, ecosystem, name), works)
            IN  reply.decision = "allow" =>
                  /\ "allow" \in reply.recorded
                  /\ ~Listed(p.deniedPackages[ecosystem], name)
                  /\ p.allowedPackages[ecosystem] # {} =>
                       Listed(p.allowedPackages[ecosystem], name)
                  /\ Plain(name) =>
                       \A q \in p.popular[ecosystem] : ~OneEdit(name, q)
<1>1. ToolCall(p, name, args) = "allow" =>
        /\ ~Listed(p.deniedTools, name)
        /\ p.allowedTools # {} => Listed(p.allowedTools, name)
        /\ \A arg \in args, pattern \in p.dangerous : ~Within(pattern, arg)
  BY DEF ToolCall
<1>2. ScreenPackage(p, ecosystem, name) = "allow" =>
        /\ ~Listed(p.deniedPackages[ecosystem], name)
        /\ p.allowedPackages[ecosystem] # {} => Listed(p.allowedPackages[ecosystem], name)
        /\ \A q \in p.popular[ecosystem] : ~NearMiss(name, q)
  BY DEF ScreenPackage, Of
<1>3. p.popular[ecosystem] \subseteq Names
  BY DEF Policies, Lists
<1>4. ASSUME Plain(name), NEW q \in p.popular[ecosystem]
      PROVE  NearMiss(name, q) <=> OneEdit(name, q)
  BY <1>3, <1>4, NearMissExact
<1>5. \A d : LET reply == Respond(wellFormed, d, works)
             IN  reply.decision = "allow" => d = "allow" /\ "allow" \in reply.recorded
  BY DEF Respond, Audited
<1> QED
  BY <1>1, <1>2, <1>4, <1>5

------------------------------------------------------------------------------
(* Counting. *)

LEMMA FiniteImage ==
  ASSUME NEW S, IsFiniteSet(S), NEW g, NEW T, \A y \in T : \E x \in S : y = g[x]
  PROVE  IsFiniteSet(T)
<1> DEFINE U == {g[x] : x \in S}
           h == [x \in S |-> g[x]]
<1>1. h \in Surjection(S, U)
  BY DEF Surjection
<1>2. IsFiniteSet(U)
  BY <1>1, FS_Surjection
<1>3. T \subseteq U
  OBVIOUS
<1> QED
  BY <1>2, <1>3, FS_Subset

\* A strict order of S, a total one, and the first n of S in it.
Ordered(S, R) ==
  /\ \A x \in S : <<x, x>> \notin R
  /\ \A x, y, z \in S : <<x, y>> \in R /\ <<y, z>> \in R => <<x, z>> \in R
TotallyOrdered(S, R) ==
  /\ Ordered(S, R)
  /\ \A x, y \in S : x # y => <<x, y>> \in R \/ <<y, x>> \in R
Firsts(S, R, n) == {x \in S : Cardinality({y \in S : <<y, x>> \in R}) < n}

(* The first n of a finite set in a total order are n, or all if there are not
   so many. *)
LEMMA FirstOnes ==
  ASSUME NEW S, IsFiniteSet(S), NEW R, TotallyOrdered(S, R), NEW n \in Nat
  PROVE  Cardinality(Firsts(S, R, n)) = IF Cardinality(S) <= n THEN Cardinality(S) ELSE n
<1> DEFINE before == [x \in S |-> {y \in S : <<y, x>> \in R}]
<1>0. /\ \A x \in S : <<x, x>> \notin R
      /\ \A x, y, z \in S : <<x, y>> \in R /\ <<y, z>> \in R => <<x, z>> \in R
      /\ \A x, y \in S : x # y => <<x, y>> \in R \/ <<y, x>> \in R
      /\ \A x \in S : before[x] = {y \in S : <<y, x>> \in R}
      /\ \A x \in S : x \in Firsts(S, R, n) <=> Cardinality(before[x]) < n
      /\ Firsts(S, R, n) \subseteq S
  BY DEF TotallyOrdered, Ordered, Firsts
<1> HIDE DEF before
<1> DEFINE N == Cardinality(S)
           r == [x \in S |-> Cardinality(before[x])]
           first == {x \in S : r[x] < n}
           m == IF N <= n THEN N ELSE n
<1>1. N \in Nat
  BY FS_CardinalityType
<1>2. \A x \in S : IsFiniteSet(before[x]) /\ Cardinality(before[x]) \in Nat
  <2> SUFFICES ASSUME NEW x \in S PROVE IsFiniteSet(before[x]) /\ Cardinality(before[x]) \in Nat
    OBVIOUS
  <2>1. before[x] \in SUBSET S
    BY <1>0
  <2>2. IsFiniteSet(before[x])
    BY <2>1, FS_Subset
  <2> QED
    BY <2>2, FS_CardinalityType
<1>3. ASSUME NEW x \in S, NEW y \in S, <<y, x>> \in R
      PROVE  r[y] < r[x]
  <2> HIDE DEF r
  <2>0. /\ before[x] = {z \in S : <<z, x>> \in R} /\ before[y] = {z \in S : <<z, y>> \in R}
        /\ \A z \in S : <<z, y>> \in R => <<z, x>> \in R
        /\ <<y, y>> \notin R
    BY <1>0, <1>3
  <2>1. before[y] \in SUBSET before[x] /\ y \in before[x] /\ y \notin before[y]
    BY <2>0, <1>3
  <2>2. IsFiniteSet(before[x])
    BY <1>2
  <2>3. /\ Cardinality(before[y]) <= Cardinality(before[x])
        /\ Cardinality(before[x]) = Cardinality(before[y]) => before[x] = before[y]
    BY <2>1, <2>2, FS_Subset
  <2>4. before[x] # before[y]
    BY <2>1
  <2> QED
    BY <2>3, <2>4, <1>2 DEF r
<1>4. ASSUME NEW x \in S
      PROVE  r[x] \in 0..(N - 1)
  <2>0. before[x] = {z \in S : <<z, x>> \in R} /\ <<x, x>> \notin R
    BY <1>0
  <2>1. before[x] \in SUBSET S /\ x \notin before[x]
    BY <2>0
  <2>2. /\ Cardinality(before[x]) <= N
        /\ N = Cardinality(before[x]) => S = before[x]
    BY <2>1, FS_Subset
  <2>3. S # before[x]
    BY <2>1
  <2> QED
    BY <2>2, <2>3, <1>1, <1>2
<1> HIDE DEF r
<1>5. r \in Injection(S, 0..(N - 1))
  <2>1. r \in [S -> 0..(N - 1)]
    BY <1>4 DEF r
  <2>2. ASSUME NEW x \in S, NEW y \in S, r[x] = r[y], x # y
        PROVE  FALSE
    <3>1. r[x] \in Int /\ r[y] \in Int
      BY <1>4
    <3>2. r[x] < r[y] \/ r[y] < r[x]
      BY <1>0, <1>3, <2>2
    <3> QED
      BY <3>1, <3>2, <2>2
  <2> QED
    BY <2>1, <2>2 DEF Injection, IsInjective
<1>a. ASSUME NEW k \in Nat
      PROVE  IsFiniteSet(0..(k - 1)) /\ Cardinality(0..(k - 1)) = k
  <2>1. 0 \in Int /\ k - 1 \in Int /\ (0 > k - 1 => k = 0) /\ (k - 1) - 0 + 1 = k
    OBVIOUS
  <2> QED
    BY <2>1, FS_Interval
<1>6. IsFiniteSet(0..(N - 1)) /\ Cardinality(0..(N - 1)) = N
  BY <1>1, <1>a
<1>7. r \in Surjection(S, 0..(N - 1))
  BY <1>5, <1>6, FS_Injection
<1> DEFINE b == [x \in first |-> r[x]]
<1>8. b \in Bijection(first, 0..(m - 1))
  <2>1. m \in Nat /\ m <= N /\ m <= n
    BY <1>1
  <2>2. b \in [first -> 0..(m - 1)]
    BY <1>4, <1>1
  <2>3. \A x, y \in first : b[x] = b[y] => x = y
    BY <1>5 DEF Injection, IsInjective
  <2>4. \A k \in 0..(m - 1) : \E x \in first : b[x] = k
    <3> SUFFICES ASSUME NEW k \in 0..(m - 1) PROVE \E x \in first : b[x] = k
      OBVIOUS
    <3>1. k \in 0..(N - 1) /\ k < n
      BY <2>1, <1>1
    <3>2. PICK x \in S : r[x] = k
      BY <3>1, <1>7 DEF Surjection
    <3> QED
      BY <3>1, <3>2
  <2> QED
    BY <2>2, <2>3, <2>4 DEF Bijection, Injection, IsInjective, Surjection
<1>9. Cardinality(first) = Cardinality(0..(m - 1))
  <2>1. first \in SUBSET S
    OBVIOUS
  <2>2. IsFiniteSet(first)
    BY <2>1, FS_Subset
  <2>3. ExistsBijection(first, 0..(m - 1))
    BY <1>8 DEF ExistsBijection
  <2> QED
    BY <2>2, <2>3, FS_Bijection
<1>10. Cardinality(0..(m - 1)) = m
  <2>1. m \in Nat
    BY <1>1
  <2> HIDE DEF m
  <2> QED
    BY <2>1, <1>a
<1>11. \A x \in S : r[x] < n <=> x \in Firsts(S, R, n)
  BY <1>0 DEF r
<1>12. first = Firsts(S, R, n)
  BY <1>0, <1>11
<1> QED
  BY <1>9, <1>10, <1>12

(* The sum of the sizes of disjoint sets is the size of their union. *)
LEMMA SumOfParts ==
  ASSUME NEW own, IsFiniteSet(UNION {own[x] : x \in DOMAIN own}),
         \A x, y \in DOMAIN own : x # y => own[x] \cap own[y] = {},
         NEW amount, DOMAIN amount = DOMAIN own,
         \A x \in DOMAIN own : amount[x] = Cardinality(own[x])
  PROVE  Sum(amount) = Cardinality(UNION {own[x] : x \in DOMAIN own})
<1> DEFINE X == DOMAIN own
           U == UNION {own[x] : x \in X}
           P == UNION {{x} \X (1..amount[x]) : x \in X}
           b == [x \in X |-> CHOOSE f : f \in Bijection(1..amount[x], own[x])]
           F == [p \in P |-> b[p[1]][p[2]]]
<1>1. ASSUME NEW x \in X
      PROVE  b[x] \in Bijection(1..amount[x], own[x])
  <2>1. own[x] \in SUBSET U
    OBVIOUS
  <2>2. IsFiniteSet(own[x])
    BY <2>1, FS_Subset
  <2>3. ExistsBijection(1..amount[x], own[x])
    BY <2>2, FS_CardinalityType
  <2> QED
    BY <2>3 DEF ExistsBijection
<1>2. \A p \in P : /\ p[1] \in X /\ p[2] \in 1..amount[p[1]] /\ p = <<p[1], p[2]>>
  OBVIOUS
<1>3. \A x \in X : \A k \in 1..amount[x] : <<x, k>> \in P
  OBVIOUS
<1> HIDE DEF b
<1>4. \A x \in X : /\ \A k \in 1..amount[x] : b[x][k] \in own[x]
                   /\ \A k, l \in 1..amount[x] : b[x][k] = b[x][l] => k = l
                   /\ \A u \in own[x] : \E k \in 1..amount[x] : b[x][k] = u
  <2> SUFFICES ASSUME NEW x \in X
               PROVE  /\ \A k \in 1..amount[x] : b[x][k] \in own[x]
                      /\ \A k, l \in 1..amount[x] : b[x][k] = b[x][l] => k = l
                      /\ \A u \in own[x] : \E k \in 1..amount[x] : b[x][k] = u
    OBVIOUS
  <2>1. /\ b[x] \in [1..amount[x] -> own[x]]
        /\ IsInjective(b[x])
        /\ \A u \in own[x] : \E k \in 1..amount[x] : b[x][k] = u
    BY <1>1 DEF Bijection, Injection, Surjection
  <2> QED
    BY <2>1 DEF IsInjective
<1> HIDE DEF P
<1>5. F \in Bijection(P, U)
  <2>1. F \in [P -> U]
    BY <1>2, <1>4
  <2>2. ASSUME NEW p \in P, NEW q \in P, F[p] = F[q]
        PROVE  p = q
    <3>1. F[p] \in own[p[1]] /\ F[q] \in own[q[1]]
      BY <1>2, <1>4
    <3>2. p[1] = q[1]
      BY <1>2, <2>2, <3>1
    <3>3. p[2] = q[2]
      BY <1>2, <1>4, <2>2, <3>2
    <3> QED
      BY <1>2, <3>2, <3>3
  <2>3. ASSUME NEW u \in U
        PROVE  \E p \in P : F[p] = u
    <3>1. PICK x \in X : u \in own[x]
      OBVIOUS
    <3>2. PICK k \in 1..amount[x] : b[x][k] = u
      BY <1>4, <3>1
    <3>3. <<x, k>> \in P /\ F[<<x, k>>] = u
      BY <1>3, <3>2
    <3> QED
      BY <3>3
  <2> QED
    BY <2>1, <2>2, <2>3 DEF Bijection, Injection, IsInjective, Surjection
<1>6. ExistsBijection(U, P)
  BY <1>5, Fun_ExistsBijSymmetric DEF ExistsBijection
<1>7. Cardinality(P) = Cardinality(U)
  BY <1>6, FS_Bijection
<1> QED
  BY <1>7 DEF Sum, P
------------------------------------------------------------------------------
(* The findings of a tree. *)

Rules == LineSecrets \cup RiskyPatterns
SeverityOf(rule) == IF rule \in LineSecrets THEN "blocking" ELSE "warning"

LEMMA RulesFinite == IsFiniteSet(Rules)
<1>1. Rules = (({"token"} \cup {"key"}) \cup {"concat"}) \cup {"tls"}
  BY DEF Rules, LineSecrets, RiskyPatterns
<1>2. IsFiniteSet({"token"})
  BY FS_Singleton
<1>3. IsFiniteSet({"token"} \cup {"key"})
  BY <1>2, FS_AddElement
<1>4. IsFiniteSet(({"token"} \cup {"key"}) \cup {"concat"})
  BY <1>3, FS_AddElement
<1> QED
  BY <1>1, <1>4, FS_AddElement

(* What the library finds in a text. *)
LEMMA LibraryFacts ==
  ASSUME NEW t \in Texts, NEW language
  PROVE  /\ IsFiniteSet(Run(t, language).findings)
         /\ \A x \in Run(t, language).findings :
              x.rule \in Rules /\ x.line \in 1..Len(t) /\ x.severity = SeverityOf(x.rule)
<1> DEFINE S == Rules \X (1..Len(t))
           g == [p \in S |-> [rule |-> p[1], severity |-> SeverityOf(p[1]), line |-> p[2]]]
           T == {g[p] : p \in S}
           found0 == Run(t, language).findings
<1>1. Len(t) \in Nat /\ DOMAIN t = 1..Len(t)
  BY DEF Texts
<1>2. ASSUME NEW rules \in SUBSET Rules, NEW severity,
             \A m \in rules : severity = SeverityOf(m)
      PROVE  \A x \in FindingsOf(t, rules, severity) :
               \E p \in S : x = [rule |-> p[1], severity |-> SeverityOf(p[1]), line |-> p[2]]
  <2> SUFFICES ASSUME NEW x \in FindingsOf(t, rules, severity)
               PROVE  \E p \in S : x = [rule |-> p[1], severity |-> SeverityOf(p[1]), line |-> p[2]]
    OBVIOUS
  <2>1. PICK i \in DOMAIN t : \E m \in t[i] \cap rules :
          x = [rule |-> m, severity |-> severity, line |-> i]
    BY DEF FindingsOf
  <2>2. PICK m \in t[i] \cap rules : x = [rule |-> m, severity |-> severity, line |-> i]
    BY <2>1
  <2>3. <<m, i>> \in S /\ <<m, i>>[1] = m /\ <<m, i>>[2] = i /\ severity = SeverityOf(m)
    BY <1>1, <1>2
  <2> QED
    BY <2>2, <2>3
<1>3. \A x \in SecretDetect(t) : x \in T
  <2>1. \A m \in LineSecrets : "blocking" = SeverityOf(m)
    BY DEF SeverityOf
  <2>2. LineSecrets \in SUBSET Rules
    BY DEF Rules
  <2> QED
    BY <1>2, <2>1, <2>2 DEF SecretDetect
<1>4. \A x \in RiskyDetect(t, language) : x \in T
  <2> DEFINE rules == RiskyPatterns \ (IF language = "go" THEN {} ELSE GoOnly)
  <2>1. \A m \in rules : "warning" = SeverityOf(m)
    BY DEF SeverityOf, RiskyPatterns, LineSecrets
  <2>2. rules \in SUBSET Rules
    BY DEF Rules
  <2> HIDE DEF rules
  <2>3. \A x \in FindingsOf(t, rules, "warning") : x \in T
    BY <1>2, <2>1, <2>2
  <2> QED
    BY <2>3 DEF RiskyDetect, rules
<1>5. found0 \subseteq T
  BY <1>3, <1>4 DEF Run
<1>6. IsFiniteSet(S)
  <2>1. IsFiniteSet(1..Len(t))
    BY <1>1, FS_Interval
  <2> QED
    BY <2>1, RulesFinite, FS_Product
<1>7. IsFiniteSet(T)
  <2>1. \A y \in T : \E p \in S : y = g[p]
    OBVIOUS
  <2> HIDE DEF g, S, T
  <2> QED
    BY <1>6, <2>1, FiniteImage
<1>8. IsFiniteSet(found0)
  BY <1>5, <1>7, FS_Subset
<1>9. \A x \in T : x.rule \in Rules /\ x.line \in 1..Len(t) /\ x.severity = SeverityOf(x.rule)
  OBVIOUS
<1> QED
  BY <1>5, <1>8, <1>9

\* What the report relies on: a finding is determined by its place and its rule,
\* and has the severity of the rule.
Tidy(S) ==
  /\ IsFiniteSet(S)
  /\ \A x \in S : /\ x.file \in Nat \ {0} /\ x.line \in Nat
                  /\ x.rule \in Rules /\ x.severity = SeverityOf(x.rule)
  /\ \A x, y \in S : x.file = y.file => x.dir = y.dir
  /\ \A x, y \in S : x.file = y.file /\ x.line = y.line /\ x.rule = y.rule => x = y

LEMMA FoundIsTidy ==
  ASSUME NEW tree \in Trees
  PROVE  /\ Tidy(Found(tree))
         /\ \A x \in Found(tree) : x.excerpt \cap LineSecrets = {}
<1> DEFINE In(f, x) ==
             [file |-> f.at, dir |-> f.dirs, line |-> x.line, rule |-> x.rule,
              severity |-> x.severity, excerpt |-> Excerpt(f, x.line)]
           Lib(f) == Run(f.text, f.language).findings
<1>1. /\ IsFiniteSet(tree.files) /\ Scanned(tree) \subseteq tree.files
      /\ \A f \in Scanned(tree) : f.at \in Nat \ {0} /\ f.text \in Texts
      /\ \A f, g \in Scanned(tree) : f.at = g.at => f = g
  BY TreesAssumption DEF Scanned
<1>2. ASSUME NEW x \in Found(tree)
      PROVE  \E f \in Scanned(tree) : \E y \in Lib(f) : x = In(f, y)
  BY Zenon DEF Found, Located
<1>3. \A f \in Scanned(tree) : \A y \in Lib(f) :
        y.rule \in Rules /\ y.line \in 1..Len(f.text) /\ y.severity = SeverityOf(y.rule)
  BY <1>1, LibraryFacts
<1>4. IsFiniteSet(Found(tree))
  <2> DEFINE L == [f \in Scanned(tree) |-> Located(f)]
  <2>1. IsFiniteSet(Scanned(tree))
    BY <1>1, FS_Subset
  <2>2. ASSUME NEW f \in Scanned(tree) PROVE IsFiniteSet(Located(f))
    <3> DEFINE g == [y \in Lib(f) |-> In(f, y)]
    <3>1. IsFiniteSet(Lib(f))
      BY <1>1, LibraryFacts
    <3>2. \A x \in Located(f) : \E y \in Lib(f) : x = g[y]
      BY DEF Located
    <3> HIDE DEF g, Lib
    <3> QED
      BY <3>1, <3>2, FiniteImage
  <2> DEFINE Ls == {L[f] : f \in Scanned(tree)}
  <2>3. IsFiniteSet(Ls)
    <3>1. \A T \in Ls : \E f \in Scanned(tree) : T = L[f]
      OBVIOUS
    <3> HIDE DEF L, Ls
    <3> QED
      BY <2>1, <3>1, FiniteImage
  <2>4. \A T \in Ls : IsFiniteSet(T)
    BY <2>2
  <2>5. Found(tree) = UNION Ls
    BY DEF Found
  <2> QED
    BY <2>3, <2>4, <2>5, FS_UNION
<1>5. ASSUME NEW f \in Scanned(tree), NEW n \in 1..Len(f.text)
      PROVE  Excerpt(f, n) \cap LineSecrets = {}
  <2> DEFINE t == <<f.text[n]>>
  <2>1. f.text \in Seq(SUBSET Marks)
    BY <1>1 DEF Texts
  <2>2. t \in Texts
    BY <2>1 DEF Texts
  <2>3. ~Leaks(Mask(t)) /\ 1 \in DOMAIN Mask(t)
    BY <2>2, MaskLeaksNothing DEF Mask
  <2>4. MatchedAt(Mask(t), 1) = {}
    BY <2>3 DEF Leaks
  <2> QED
    BY <2>4 DEF MatchedAt, Excerpt
<1>6. ASSUME NEW x \in Found(tree)
      PROVE  /\ x.file \in Nat \ {0} /\ x.line \in Nat
             /\ x.rule \in Rules /\ x.severity = SeverityOf(x.rule)
             /\ x.excerpt \cap LineSecrets = {}
  <2>1. PICK f \in Scanned(tree) : \E y \in Lib(f) : x = In(f, y)
    BY <1>2
  <2>a. PICK y \in Lib(f) : x = In(f, y)
    BY <2>1
  <2>2. y.rule \in Rules /\ y.line \in 1..Len(f.text) /\ y.severity = SeverityOf(y.rule)
    BY <1>3
  <2>3. f.at \in Nat \ {0} /\ Len(f.text) \in Nat
    BY <1>1 DEF Texts
  <2>4. Excerpt(f, y.line) \cap LineSecrets = {}
    BY <1>5, <2>2
  <2> QED
    BY <2>a, <2>2, <2>3, <2>4
<1>7. ASSUME NEW x \in Found(tree), NEW y \in Found(tree), x.file = y.file
      PROVE  /\ x.dir = y.dir
             /\ x.line = y.line /\ x.rule = y.rule => x = y
  <2>1. PICK f \in Scanned(tree) : \E u \in Lib(f) : x = In(f, u)
    BY <1>2
  <2>a. PICK u \in Lib(f) : x = In(f, u)
    BY <2>1
  <2>2. PICK g \in Scanned(tree) : \E v \in Lib(g) : y = In(g, v)
    BY <1>2
  <2>b. PICK v \in Lib(g) : y = In(g, v)
    BY <2>2
  <2>3. f = g
    BY <1>1, <1>7, <2>a, <2>b
  <2>4. u.severity = SeverityOf(u.rule) /\ v.severity = SeverityOf(v.rule)
    BY <1>3
  <2> QED
    BY <2>a, <2>b, <2>3, <2>4
<1> QED
  BY <1>4, <1>6, <1>7 DEF Tidy
------------------------------------------------------------------------------
(* The detail section. *)

LEMMA WorseFacts ==
  ASSUME NEW S, Tidy(S)
  PROVE  /\ \A x \in S : ~Worse(x, x)
         /\ \A x, y, z \in S : Worse(x, y) /\ Worse(y, z) => Worse(x, z)
         /\ \A x, y \in S : x # y => Worse(x, y) \/ Worse(y, x)
         /\ \A x, y \in S : ~Worse(y, x) => Rank[x.severity] >= Rank[y.severity]
<1> DEFINE rank(x) == Rank[x.severity]
           rule(x) == RuleOrder[x.rule]
<1>1. \A x \in S : /\ x.file \in Nat /\ x.line \in Nat /\ rank(x) \in Nat /\ rule(x) \in Nat
  BY DEF Tidy, Rank, RuleOrder, Rules, LineSecrets, RiskyPatterns, SeverityOf
<1>2. \A x, y \in S : rule(x) = rule(y) => x.rule = y.rule
  BY DEF Tidy, RuleOrder, Rules, LineSecrets, RiskyPatterns
<1>3. \A x, y \in S : x.file = y.file /\ x.line = y.line /\ x.rule = y.rule => x = y
  BY DEF Tidy
<1>4. \A x, y : Worse(x, y) <=>
        \/ rank(x) > rank(y)
        \/ /\ rank(x) = rank(y)
           /\ \/ x.file < y.file
              \/ x.file = y.file /\ x.line < y.line
              \/ x.file = y.file /\ x.line = y.line /\ rule(x) < rule(y)
  BY DEF Worse
<1> HIDE DEF rank, rule
<1>5. \A x \in S : ~Worse(x, x)
  BY <1>1, <1>4
<1>6. \A x, y, z \in S : Worse(x, y) /\ Worse(y, z) => Worse(x, z)
  BY <1>1, <1>4
<1>7. \A x, y \in S : x # y => Worse(x, y) \/ Worse(y, x)
  BY <1>1, <1>2, <1>3, <1>4
<1>8. \A x, y \in S : ~Worse(y, x) => rank(x) >= rank(y)
  BY <1>1, <1>4
<1> QED
  BY <1>5, <1>6, <1>7, <1>8 DEF rank

(* What comes before one of the first n is itself among them. *)
LEMMA BeforeFirst ==
  ASSUME NEW S, IsFiniteSet(S), NEW R, Ordered(S, R), NEW n \in Nat,
         NEW x \in Firsts(S, R, n), NEW y \in S \ Firsts(S, R, n)
  PROVE  <<y, x>> \notin R
<1> SUFFICES ASSUME <<y, x>> \in R
             PROVE  FALSE
  OBVIOUS
<1> DEFINE Before(u) == {z \in S : <<z, u>> \in R}
<1>1. x \in S /\ Cardinality(Before(x)) < n /\ ~(Cardinality(Before(y)) < n)
  BY DEF Firsts
<1>2. Before(x) \in SUBSET S /\ Before(y) \in SUBSET Before(x)
  BY <1>1 DEF Ordered
<1>3. IsFiniteSet(Before(x)) /\ IsFiniteSet(Before(y))
  BY <1>2, FS_Subset
<1>4. /\ Cardinality(Before(x)) \in Nat /\ Cardinality(Before(y)) \in Nat
      /\ Cardinality(Before(y)) <= Cardinality(Before(x))
  BY <1>2, <1>3, FS_Subset, FS_CardinalityType
<1> QED
  BY <1>1, <1>4

LEMMA DetailFacts ==
  ASSUME NEW S, Tidy(S)
  PROVE  /\ Cardinality(Detail(S)) =
              IF Cardinality(S) <= MaxDetail THEN Cardinality(S) ELSE MaxDetail
         /\ \A x \in Detail(S), y \in S \ Detail(S) : Rank[x.severity] >= Rank[y.severity]
<1> DEFINE R == {p \in S \X S : Worse(p[1], p[2])}
<1>1. IsFiniteSet(S) /\ MaxDetail \in Nat
  BY CommandLineAssumption DEF Tidy
<1>2. \A x, y \in S : <<x, y>> \in R <=> Worse(x, y)
  OBVIOUS
<1>3. TotallyOrdered(S, R) /\ Ordered(S, R)
  BY <1>2, WorseFacts DEF TotallyOrdered, Ordered
<1>4. Detail(S) = Firsts(S, R, MaxDetail)
  <2>1. \A x \in S : {y \in S : Worse(y, x)} = {y \in S : <<y, x>> \in R}
    BY <1>2
  <2> QED
    BY <2>1 DEF Detail, Firsts
<1> HIDE DEF R
<1>5. Cardinality(Detail(S)) =
        IF Cardinality(S) <= MaxDetail THEN Cardinality(S) ELSE MaxDetail
  BY <1>1, <1>3, <1>4, FirstOnes
<1>6. ASSUME NEW x \in Detail(S), NEW y \in S \ Detail(S)
      PROVE  ~Worse(y, x)
  <2>1. x \in S /\ y \in S
    BY DEF Detail
  <2>2. x \in Firsts(S, R, MaxDetail) /\ y \in S \ Firsts(S, R, MaxDetail)
    BY <1>4
  <2>3. <<y, x>> \notin R
    BY <1>1, <1>3, <2>2, BeforeFirst
  <2> QED
    BY <1>2, <2>1, <2>3
<1>7. Detail(S) \subseteq S
  BY DEF Detail
<1> QED
  BY <1>5, <1>6, <1>7, WorseFacts

------------------------------------------------------------------------------
(* The tables. *)

LEMMA CountFacts ==
  ASSUME NEW S, IsFiniteSet(S), NEW s
  PROVE  Count(S, s) \in Nat /\ (Count(S, s) = 0 <=> \A x \in S : x.severity # s)
<1> DEFINE T == {x \in S : x.severity = s}
<1>1. T \in SUBSET S
  OBVIOUS
<1>2. IsFiniteSet(T)
  BY <1>1, FS_Subset
<1>3. Cardinality(T) \in Nat /\ (Cardinality(T) = 0 <=> T = {})
  BY <1>2, FS_CardinalityType, FS_EmptySet
<1> QED
  BY <1>3 DEF Count

LEMMA WeightedFacts ==
  ASSUME NEW S, IsFiniteSet(S)
  PROVE  /\ Weighted(S) = 5 * Count(S, "blocking") + 2 * Count(S, "warning") + Count(S, "info")
         /\ Weighted(S) \in Nat
<1>1. /\ Stat(S).blocking = Count(S, "blocking") /\ Stat(S).warning = Count(S, "warning")
      /\ Stat(S).info = Count(S, "info")
  BY DEF Stat, Severities
<1>2. Weighted(S) = 5 * Count(S, "blocking") + 2 * Count(S, "warning") + 1 * Count(S, "info")
  BY <1>1 DEF Weighted, WeightOf, Weight
<1>3. Count(S, "blocking") \in Nat /\ Count(S, "warning") \in Nat /\ Count(S, "info") \in Nat
  BY CountFacts
<1> QED
  BY <1>2, <1>3

RowOf(S, field, k) ==
  LET own == {x \in S : x[field] = k}
  IN  [key |-> k, first |-> Min({x.file : x \in own}), stat |-> Stat(own)]

LEMMA RowFacts ==
  ASSUME NEW S, Tidy(S), NEW field
  PROVE  /\ IsFiniteSet(Rows(S, field))
         /\ \A row \in Rows(S, field) :
              /\ \E x \in S : row.key = x[field]
              /\ row.first \in Nat \ {0}
              /\ row.stat = Stat({x \in S : x[field] = row.key})
         /\ \A x \in S : \E row \in Rows(S, field) : row.key = x[field]
         /\ \A q, row \in Rows(S, field) : q.key = row.key => q = row
<1> DEFINE Key == {x[field] : x \in S}
<1>1. Rows(S, field) = {RowOf(S, field, k) : k \in Key}
  BY DEF Rows, RowOf
<1>2. \A k : /\ RowOf(S, field, k).key = k
             /\ RowOf(S, field, k).stat = Stat({x \in S : x[field] = k})
             /\ RowOf(S, field, k).first = Min({x.file : x \in {y \in S : y[field] = k}})
  BY DEF RowOf
<1>3. ASSUME NEW k \in Key
      PROVE  RowOf(S, field, k).first \in Nat \ {0}
  <2> DEFINE F == {x.file : x \in {y \in S : y[field] = k}}
  <2>1. F \in SUBSET (Nat \ {0}) /\ F # {} /\ F \in SUBSET Nat
    BY DEF Tidy
  <2>2. \E n \in F : \A m \in F : n <= m
    BY <2>1, LeastPlace
  <2>3. Min(F) \in F
    BY <2>2 DEF Min
  <2> QED
    BY <1>2, <2>1, <2>3
<1>4. IsFiniteSet(Rows(S, field))
  <2> DEFINE g == [x \in S |-> RowOf(S, field, x[field])]
  <2>1. \A row \in Rows(S, field) : \E x \in S : row = g[x]
    BY <1>1
  <2>2. IsFiniteSet(S)
    BY DEF Tidy
  <2> HIDE DEF g
  <2> QED
    BY <2>1, <2>2, FiniteImage
<1> QED
  BY <1>1, <1>2, <1>3, <1>4

(* A column of some of the rows counts the findings the rows are about. *)
LEMMA ColumnSum ==
  ASSUME NEW S, Tidy(S), NEW field, NEW R \in SUBSET Rows(S, field), NEW s \in Severities
  PROVE  Total(R, s) =
           Cardinality({x \in S : x.severity = s /\ \E row \in R : row.key = x[field]})
<1> DEFINE own == [row \in R |-> {x \in S : x.severity = s /\ x[field] = row.key}]
           amount == [row \in R |-> row.stat[s]]
           U == UNION {own[row] : row \in DOMAIN own}
           V == {x \in S : x.severity = s /\ \E row \in R : row.key = x[field]}
<1>1. U = V
  OBVIOUS
<1>2. IsFiniteSet(U)
  <2>1. IsFiniteSet(S) /\ U \in SUBSET S
    BY DEF Tidy
  <2> QED
    BY <2>1, FS_Subset
<1>3. \A x, y \in DOMAIN own : x # y => own[x] \cap own[y] = {}
  BY RowFacts
<1>4. ASSUME NEW row \in R
      PROVE  amount[row] = Cardinality(own[row])
  <2>1. row.stat = Stat({x \in S : x[field] = row.key})
    BY RowFacts
  <2>2. row.stat[s] = Count({x \in S : x[field] = row.key}, s)
    BY <2>1 DEF Stat
  <2>3. own[row] = {x \in {y \in S : y[field] = row.key} : x.severity = s}
    OBVIOUS
  <2> QED
    BY <2>2, <2>3 DEF Count
<1>5. DOMAIN amount = DOMAIN own /\ DOMAIN own = R
  OBVIOUS
<1>6. Total(R, s) = Sum(amount)
  BY DEF Total
<1> HIDE DEF own, amount, V
<1>7. Sum(amount) = Cardinality(U)
  BY <1>2, <1>3, <1>4, <1>5, SumOfParts
<1>8. Total(R, s) = Cardinality(V)
  BY <1>1, <1>6, <1>7
<1> QED
  BY <1>8 DEF V

(* The table of directories accounts for every finding, the last row included. *)
LEMMA ByDirAddsUp ==
  ASSUME NEW S, Tidy(S), NEW s \in Severities
  PROVE  Total(ByDir(S), s) = Count(S, s)
<1> DEFINE rows == Rows(S, "dir")
           kept == Heaviest(MaxDirRows, rows)
           other == [key |-> <<"(other directories)">>, first |-> 0,
                     stat |-> [q \in Severities |-> Total(rows \ kept, q)]]
           Of0(x, R) == \E row \in R : row.key = x["dir"]
           A == {x \in S : x.severity = s}
<1>0. kept \subseteq rows /\ A \in SUBSET S /\ IsFiniteSet(S) /\ Count(S, s) = Cardinality(A)
  BY DEF Heaviest, Tidy, Count
<1>1. IsFiniteSet(A)
  BY <1>0, FS_Subset
<1>2. \A x \in S : Of0(x, rows)
  BY RowFacts
<1>3. CASE kept = rows
  <2>1. ByDir(S) = rows
    BY <1>3 DEF ByDir
  <2>2. Total(rows, s) = Cardinality({x \in S : x.severity = s /\ Of0(x, rows)})
    BY ColumnSum
  <2>3. {x \in S : x.severity = s /\ Of0(x, rows)} = A
    BY <1>2
  <2> QED
    BY <1>0, <2>1, <2>2, <2>3
<1>4. CASE kept # rows
  <2> DEFINE B == kept \cup {other}
             rest == {x \in S : x.severity = s /\ Of0(x, rows \ kept)}
             own == [row \in B |-> IF row = other THEN rest
                                   ELSE {x \in S : x.severity = s /\ x["dir"] = row.key}]
             amount == [row \in B |-> row.stat[s]]
             U == UNION {own[row] : row \in DOMAIN own}
  <2>1. ByDir(S) = B
    BY <1>4 DEF ByDir
  <2>2. other \notin rows
    <3>1. \A row \in rows : row.first # 0
      BY RowFacts
    <3> QED
      BY <3>1
  <2>3. /\ \A q, row \in rows : q.key = row.key => q = row
        /\ \A row \in rows : row.stat = Stat({x \in S : x["dir"] = row.key})
    BY RowFacts
  <2>4. amount[other] = Cardinality(own[other])
    <3>1. Total(rows \ kept, s) = Cardinality(rest)
      BY ColumnSum
    <3> QED
      BY <3>1
  <2>5. ASSUME NEW row \in kept
        PROVE  amount[row] = Cardinality(own[row])
    <3>1. row \in rows /\ row # other
      BY <1>0, <2>2
    <3>2. row.stat[s] = Count({x \in S : x["dir"] = row.key}, s)
      BY <2>3, <3>1 DEF Stat
    <3>3. own[row] = {x \in {y \in S : y["dir"] = row.key} : x.severity = s}
      BY <3>1
    <3> QED
      BY <3>2, <3>3 DEF Count
  <2> HIDE DEF other, kept, rows
  <2>6. U = A
    <3>1. \A x \in A : Of0(x, kept) \/ Of0(x, rows \ kept)
      BY <1>2
    <3>2. \A x \in A : \E row \in B : x \in own[row]
      <4> SUFFICES ASSUME NEW x \in A
                   PROVE  \E row \in B : x \in own[row]
        OBVIOUS
      <4>1. CASE Of0(x, kept)
        BY <1>0, <2>2, <4>1
      <4>2. CASE Of0(x, rows \ kept)
        BY <4>2
      <4> QED
        BY <3>1, <4>1, <4>2
    <3>3. \A row \in B : own[row] \subseteq A
      OBVIOUS
    <3> QED
      BY <3>2, <3>3
  <2>7. \A x, y \in B : x # y => own[x] \cap own[y] = {}
    <3>1. \A x \in kept : own[x] \cap rest = {}
      BY <1>0, <2>2, <2>3
    <3>2. \A x, y \in kept : x # y => own[x] \cap own[y] = {}
      BY <1>0, <2>2, <2>3
    <3> QED
      BY <3>1, <3>2
  <2>8. Total(B, s) = Sum(amount)
    BY DEF Total
  <2>9. DOMAIN amount = DOMAIN own /\ DOMAIN own = B /\ \A x \in B : amount[x] = Cardinality(own[x])
    BY <2>4, <2>5
  <2> HIDE DEF own, amount, B, A
  <2>10. Sum(amount) = Cardinality(U)
    BY <1>1, <2>6, <2>7, <2>9, SumOfParts
  <2> QED
    BY <1>0, <2>1, <2>6, <2>8, <2>10
<1> QED
  BY <1>3, <1>4

LEMMA FirstFinding ==
  ASSUME NEW S, Tidy(S), NEW T \in SUBSET S, T # {}
  PROVE  \E x \in T : \A y \in T : ~Earlier(y, x)
<1> DEFINE F == {x.file : x \in T}
<1>1. \A x \in T : x.file \in Nat /\ x.line \in Nat
  BY DEF Tidy
<1>2. F \in SUBSET Nat /\ F # {}
  BY <1>1
<1>3. PICK n \in F : \A m \in F : n <= m
  BY <1>2, LeastPlace
<1> DEFINE L == {x.line : x \in {y \in T : y.file = n}}
<1>4. L \in SUBSET Nat /\ L # {}
  BY <1>1, <1>3
<1>5. PICK l \in L : \A m \in L : l <= m
  BY <1>4, LeastPlace
<1>6. PICK x \in T : x.file = n /\ x.line = l
  BY <1>5
<1>7. ASSUME NEW y \in T
      PROVE  ~Earlier(y, x)
  <2>1. n <= y.file /\ (y.file = n => l <= y.line)
    BY <1>3, <1>5
  <2> QED
    BY <1>1, <1>6, <2>1 DEF Earlier
<1> QED
  BY <1>7

(* And so does the table of rules: a rule has one severity, and so the table may
   take it from any of the rule's findings. *)
LEMMA ByRuleAddsUp ==
  ASSUME NEW S, Tidy(S), NEW s \in Severities
  PROVE  Sum([row \in {q \in ByRule(S) : q.severity = s} |-> row.count]) = Count(S, s)
<1> DEFINE OfRule(r) == {x \in S : x.rule = r}
           First(r) == CHOOSE x \in OfRule(r) : \A y \in OfRule(r) : ~Earlier(y, x)
           Row(r) == [key |-> r, severity |-> First(r).severity,
                      count |-> Cardinality(OfRule(r))]
           Key == {x.rule : x \in S}
           R == {q \in ByRule(S) : q.severity = s}
           A == {x \in S : x.severity = s}
           amount == [row \in R |-> row.count]
           own == [row \in R |-> OfRule(row.key)]
           U == UNION {own[row] : row \in DOMAIN own}
<1>1. ByRule(S) = {Row(r) : r \in Key}
  BY DEF ByRule
<1>2. ASSUME NEW r \in Key
      PROVE  Row(r).severity = SeverityOf(r)
  <2>1. OfRule(r) \in SUBSET S /\ OfRule(r) # {}
    OBVIOUS
  <2>2. \E x \in OfRule(r) : \A y \in OfRule(r) : ~Earlier(y, x)
    BY <2>1, FirstFinding
  <2>3. First(r) \in OfRule(r)
    BY <2>2
  <2>4. Row(r).severity = First(r).severity
    OBVIOUS
  <2> HIDE DEF First
  <2>5. First(r) \in S /\ First(r).rule = r
    BY <2>3
  <2> QED
    BY <2>4, <2>5 DEF Tidy
<1>3. \A r : Row(r).key = r /\ Row(r).count = Cardinality(OfRule(r))
  OBVIOUS
<1> HIDE DEF Row
<1>4. ASSUME NEW row \in R
      PROVE  row.count = Cardinality(OfRule(row.key)) /\ SeverityOf(row.key) = s /\ row = Row(row.key)
  BY <1>1, <1>2, <1>3
<1>5. \A x \in S : x.severity = SeverityOf(x.rule)
  BY DEF Tidy
<1>6. U = A
  <2>1. ASSUME NEW x \in A
        PROVE  \E row \in R : x \in own[row]
    <3>1. x.rule \in Key /\ SeverityOf(x.rule) = s
      BY <1>5
    <3>2. Row(x.rule) \in R /\ Row(x.rule).key = x.rule
      BY <1>1, <1>2, <1>3, <3>1
    <3> QED
      BY <3>2
  <2>2. \A row \in R : own[row] \subseteq A
    BY <1>4, <1>5
  <2> QED
    BY <2>1, <2>2
<1>7. \A x, y \in R : x # y => own[x] \cap own[y] = {}
  <2>1. \A x, y \in R : x.key = y.key => x = y
    BY <1>4
  <2> QED
    BY <2>1
<1>8. A \in SUBSET S /\ IsFiniteSet(S) /\ Count(S, s) = Cardinality(A)
  BY DEF Tidy, Count
<1>9. IsFiniteSet(U)
  BY <1>6, <1>8, FS_Subset
<1>10. DOMAIN amount = DOMAIN own /\ DOMAIN own = R /\ \A x \in R : amount[x] = Cardinality(own[x])
  BY <1>4
<1> HIDE DEF own, A, R
<1>11. Sum(amount) = Cardinality(U)
  <2> HIDE DEF amount
  <2> QED
    BY <1>7, <1>9, <1>10, SumOfParts
<1> QED
  BY <1>6, <1>8, <1>11 DEF R

(* The table of files has the heaviest. *)
LEMMA TopFacts ==
  ASSUME NEW S, Tidy(S), NEW x \in S, NEW top \in TopFiles(S)
  PROVE  \/ \E row \in TopFiles(S) : row.key = x.file
         \/ Weighted({y \in S : y.file = x.file}) <= WeightOf(top.stat)
<1> DEFINE rows == Rows(S, "file")
           weight(row) == WeightOf(row.stat)
           R == {p \in rows \X rows : Heavier(p[1], p[2])}
           top0 == Firsts(rows, R, MaxTopFiles)
<1>1. PICK row \in rows : row.key = x["file"]
  BY RowFacts
<1>2. row.stat = Stat({y \in S : y["file"] = row.key})
  BY RowFacts
<1>3. \A q \in rows : q.first \in Nat /\ weight(q) \in Nat
  <2> SUFFICES ASSUME NEW q \in rows PROVE q.first \in Nat /\ weight(q) \in Nat
    OBVIOUS
  <2>1. q.first \in Nat /\ q.stat = Stat({y \in S : y["file"] = q.key})
    BY RowFacts
  <2>2. {y \in S : y["file"] = q.key} \in SUBSET S /\ IsFiniteSet(S)
    BY DEF Tidy
  <2>3. IsFiniteSet({y \in S : y["file"] = q.key})
    BY <2>2, FS_Subset
  <2>4. Weighted({y \in S : y["file"] = q.key}) \in Nat
    BY <2>3, WeightedFacts
  <2> QED
    BY <2>1, <2>4 DEF Weighted
<1>4. \A p, q : Heavier(p, q) <=>
        \/ weight(p) > weight(q)
        \/ weight(p) = weight(q) /\ p.first < q.first
  BY DEF Heavier
<1>5. weight(row) = Weighted({y \in S : y.file = x.file})
  BY <1>1, <1>2 DEF Weighted
<1> HIDE DEF weight, rows
<1>6. \A p, q \in rows : <<p, q>> \in R <=> Heavier(p, q)
  OBVIOUS
<1>7. Ordered(rows, R)
  BY <1>3, <1>4, <1>6 DEF Ordered
<1>8. TopFiles(S) = top0
  <2>1. \A q \in rows : {p \in rows : Heavier(p, q)} = {p \in rows : <<p, q>> \in R}
    BY <1>6
  <2> QED
    BY <2>1 DEF TopFiles, Heaviest, Firsts, rows
<1>9. MaxTopFiles \in Nat /\ IsFiniteSet(rows) /\ top0 \subseteq rows
  BY CommandLineAssumption, RowFacts DEF rows, Firsts
<1>10. CASE row \in top0
  BY <1>1, <1>8, <1>10
<1>11. CASE row \notin top0
  <2>1. top \in top0 /\ row \in rows \ top0
    BY <1>8, <1>11
  <2> HIDE DEF R
  <2>2. <<row, top>> \notin R
    <3>1. top \in Firsts(rows, R, MaxTopFiles) /\ row \in rows \ Firsts(rows, R, MaxTopFiles)
      BY <2>1
    <3> HIDE DEF top0
    <3> QED
      BY <1>7, <1>9, <3>1, BeforeFirst
  <2>3. ~Heavier(row, top) /\ top \in rows
    BY <1>6, <1>9, <2>1, <2>2
  <2>4. weight(row) <= weight(top)
    BY <1>3, <1>4, <2>3
  <2> QED
    BY <1>5, <2>4 DEF weight
<1> QED
  BY <1>10, <1>11

------------------------------------------------------------------------------
(* The exit code. *)

LEMMA TidyCounts ==
  ASSUME NEW S, Tidy(S)
  PROVE  /\ Count(S, "blocking") \in Nat /\ Count(S, "warning") \in Nat
         /\ Count(S, "blocking") = 0 <=> \A x \in S : x.severity # "blocking"
         /\ Count(S, "blocking") + Count(S, "warning") = 0 <=> S = {}
         /\ Weighted(S) = 0 <=> S = {}
<1>1. IsFiniteSet(S) /\ \A x \in S : x.severity \in {"blocking", "warning"}
  BY DEF Tidy, SeverityOf
<1>2. /\ Count(S, "blocking") \in Nat
      /\ Count(S, "blocking") = 0 <=> \A x \in S : x.severity # "blocking"
  BY <1>1, CountFacts
<1>3. /\ Count(S, "warning") \in Nat
      /\ Count(S, "warning") = 0 <=> \A x \in S : x.severity # "warning"
  BY <1>1, CountFacts
<1>4. Count(S, "info") \in Nat /\ (Count(S, "info") = 0 <=> \A x \in S : x.severity # "info")
  BY <1>1, CountFacts
<1>5. Count(S, "info") = 0
  BY <1>1, <1>4
<1>6. Weighted(S) = 5 * Count(S, "blocking") + 2 * Count(S, "warning") + Count(S, "info")
  BY <1>1, WeightedFacts
<1>7. S = {} <=> Count(S, "blocking") = 0 /\ Count(S, "warning") = 0
  BY <1>1, <1>2, <1>3
<1> QED
  BY <1>2, <1>3, <1>5, <1>6, <1>7

(* What the exit codes say of the findings. *)
LEMMA ExitFacts ==
  ASSUME NEW tree \in Trees, NEW opts, NEW outcome
  PROVE  LET code == Exit(opts, tree, outcome)
             S == Found(tree)
         IN  /\ code = 0 /\ opts.failOn = "warning" => S = {}
             /\ code = 0 /\ opts.failOn \in {"blocking", "warning"} =>
                  \A x \in S : x.severity # "blocking"
             /\ code = 1 => S # {}
             /\ code = 1 /\ opts.failOn = "blocking" => \E x \in S : x.severity = "blocking"
<1> DEFINE S == Found(tree)
           code == Exit(opts, tree, outcome)
<1>1. /\ Count(S, "blocking") \in Nat /\ Count(S, "warning") \in Nat
      /\ Count(S, "blocking") = 0 <=> \A x \in S : x.severity # "blocking"
      /\ Count(S, "blocking") + Count(S, "warning") = 0 <=> S = {}
  BY FoundIsTidy, TidyCounts
<1>2. code \in {0, 1} => code = Decide(opts.failOn, S)
  BY DEF Exit, Decide
<1> HIDE DEF code, S
<1>3. code = 0 /\ opts.failOn = "warning" => S = {}
  BY <1>1, <1>2 DEF Decide
<1>4. code = 0 /\ opts.failOn = "blocking" => \A x \in S : x.severity # "blocking"
  BY <1>1, <1>2 DEF Decide
<1>5. code = 1 => S # {}
  <2> SUFFICES ASSUME code = 1, S = {} PROVE FALSE
    OBVIOUS
  <2>1. Count(S, "blocking") = 0 /\ Count(S, "warning") = 0
    BY <1>1
  <2> QED
    BY <1>2, <2>1 DEF Decide
<1>6. code = 1 /\ opts.failOn = "blocking" => \E x \in S : x.severity = "blocking"
  BY <1>1, <1>2 DEF Decide
<1> QED
  BY <1>3, <1>4, <1>5, <1>6 DEF code, S

LEMMA ExitIsFit ==
  ASSUME NEW tree \in Trees, NEW opts, NEW outcome
  PROVE  ExitFits(tree, opts, outcome)
<1> DEFINE S == Found(tree)
           n == Cardinality(Scanned(tree))
<1>1. ReportOf(tree).grade = Grade(S, n)
  BY DEF ReportOf, Build
<1>2. Weighted(S) = 0 <=> S = {}
  BY FoundIsTidy, TidyCounts
<1>3. Grade(S, n) \in {"A", "none"} <=> Weighted(S) = 0
  <2>1. CASE Weighted(S) = 0
    <3>1. n = 0 => Grade(S, n) = "none"
      BY <2>1, Zenon DEF Grade
    <3>2. n # 0 => Grade(S, n) = "A"
      BY <2>1, Zenon DEF Grade
    <3> QED
      BY <2>1, <3>1, <3>2
  <2>2. CASE Weighted(S) # 0
    <3>1. Grade(S, n) \in {"B", "C", "D", "F"}
      BY <2>2, Zenon DEF Grade
    <3> QED
      BY <2>2, <3>1
  <2> QED
    BY <2>1, <2>2
<1>4. S = {} => \A f \in Scanned(tree) : Run(f.text, f.language).findings = {}
  <2> SUFFICES ASSUME NEW f \in Scanned(tree), NEW x \in Run(f.text, f.language).findings
               PROVE  S # {}
    OBVIOUS
  <2>1. Located(f) # {}
    BY DEF Located
  <2> QED
    BY <2>1 DEF Found
<1> HIDE DEF S, n
<1>5. /\ Exit(opts, tree, outcome) = 0 /\ opts.failOn = "warning" => S = {}
      /\ Exit(opts, tree, outcome) = 1 => S # {}
  BY ExitFacts DEF S
<1> QED
  BY <1>1, <1>2, <1>3, <1>4, <1>5 DEF ExitFits

(* The report and the exit code of the client agree with each other and with the
   detectors, whatever is in the tree, and however long the report's tables may
   be. *)
THEOREM ClientIsConsistent == ClientAgrees
<1> SUFFICES ASSUME NEW tree \in Trees
             PROVE  /\ DetailIsWorst(tree)
                    /\ TablesAddUp(tree)
                    /\ TopIsHeaviest(tree)
                    /\ ExcerptsMasked(tree)
                    /\ \A opts \in Options, outcome \in Outcomes : ExitFits(tree, opts, outcome)
  BY DEF ClientAgrees
<1> DEFINE S == Found(tree)
           report == ReportOf(tree)
<1>1. Tidy(S)
  BY FoundIsTidy
<1>2. /\ report.detail = Detail(S) /\ report.byDir = ByDir(S) /\ report.byRule = ByRule(S)
      /\ report.topFiles = TopFiles(S)
      /\ report.truncated = IF Cardinality(S) > MaxDetail THEN Cardinality(S) - MaxDetail ELSE 0
  BY DEF ReportOf, Build
<1> HIDE DEF report
<1>3. DetailIsWorst(tree)
  <2>1. Cardinality(S) \in Nat /\ MaxDetail \in Nat
    BY <1>1, FS_CardinalityType, CommandLineAssumption DEF Tidy
  <2>2. Cardinality(Detail(S)) = IF Cardinality(S) <= MaxDetail THEN Cardinality(S) ELSE MaxDetail
    BY <1>1, DetailFacts
  <2>3. \A x \in Detail(S), y \in S \ Detail(S) : Rank[x.severity] >= Rank[y.severity]
    BY <1>1, DetailFacts
  <2>4. Cardinality(Detail(S)) + report.truncated = Cardinality(S)
    BY <1>2, <2>1, <2>2
  <2> QED
    BY <1>2, <2>3, <2>4 DEF DetailIsWorst, report
<1>4. TablesAddUp(tree)
  <2>1. \A s \in Severities : Total(report.byDir, s) = Count(S, s)
    BY <1>1, <1>2, ByDirAddsUp
  <2>2. \A s \in Severities :
          Sum([row \in {q \in report.byRule : q.severity = s} |-> row.count]) = Count(S, s)
    BY <1>1, <1>2, ByRuleAddsUp
  <2> QED
    BY <2>1, <2>2 DEF TablesAddUp, report
<1>5. TopIsHeaviest(tree)
  BY <1>1, <1>2, TopFacts DEF TopIsHeaviest, report
<1>6. ExcerptsMasked(tree)
  BY FoundIsTidy DEF ExcerptsMasked
<1> QED
  BY <1>3, <1>4, <1>5, <1>6, ExitIsFit

------------------------------------------------------------------------------
(* The client and the chain. *)

LEMMA BlockingIsSecret ==
  ASSUME NEW t, NEW language, NEW x \in Run(t, language).findings, x.severity = "blocking"
  PROVE  SecretDetect(t) # {}
<1>1. \A y \in RiskyDetect(t, language) : y.severity = "warning"
  BY DEF RiskyDetect, FindingsOf
<1> QED
  BY <1>1 DEF Run

LEMMA OpinionFacts ==
  ASSUME JudgeInv, SourceInv, SeriousNeverApproved
  PROVE  OneOpinion
<1> SUFFICES ASSUME NEW o \in Opinions, o.text = sub.diff, o.language = sub.language
             PROVE  /\ o.code = 0 /\ o.failOn \in {"blocking", "warning"} =>
                         {<<"scan", "blocking">>, <<"analyzer", "blocking">>} \cap found = {}
                    /\ o.code = 0 /\ o.failOn = "warning" => <<"analyzer", "warning">> \notin found
                    /\ o.code = 1 /\ o.failOn = "blocking" => verdict.decision # "approved"
                    /\ o.code = 1 /\ setup.analyzer /\ verdict.source = "pipeline" =>
                         verdict.decision # "approved"
  BY DEF OneOpinion
<1>1. PICK tree \in Trees : Cardinality(Scanned(tree)) = 1 /\ o \in OpinionsOn(tree)
  BY DEF Opinions
<1>2. \E f \in Scanned(tree), opts \in Options, outcome \in Outcomes :
        o = [text |-> f.text, language |-> f.language, failOn |-> opts.failOn,
             code |-> Exit(opts, tree, outcome)]
  BY <1>1, SMTT(20) DEF OpinionsOn
<1>2a. PICK f \in Scanned(tree), opts \in Options, outcome \in Outcomes :
        o = [text |-> f.text, language |-> f.language, failOn |-> opts.failOn,
             code |-> Exit(opts, tree, outcome)]
  BY <1>2, Zenon
<1> DEFINE Lib == Run(sub.diff, sub.language).findings
           S == Found(tree)
<1>3. /\ f.text = sub.diff /\ f.language = sub.language
      /\ o.code = Exit(opts, tree, outcome) /\ o.failOn = opts.failOn
  BY <1>2a
<1>4. S = Located(f)
  <2>1. IsFiniteSet(Scanned(tree))
    <3>1. Scanned(tree) \in SUBSET tree.files /\ IsFiniteSet(tree.files)
      BY TreesAssumption DEF Scanned
    <3> QED
      BY <3>1, FS_Subset
  <2>2. PICK g : Scanned(tree) = {g}
    BY <1>1, <2>1, FS_Singleton
  <2>3. Scanned(tree) = {f}
    BY <2>2
  <2> QED
    BY <2>3 DEF Found
<1>5. /\ \A y \in Lib : \E x \in S : x.severity = y.severity
      /\ \A x \in S : \E y \in Lib : x.severity = y.severity
  <2> DEFINE At(y) == [file |-> f.at, dir |-> f.dirs, line |-> y.line, rule |-> y.rule,
                       severity |-> y.severity, excerpt |-> Excerpt(f, y.line)]
  <2>1. S = {At(y) : y \in Lib}
    BY <1>3, <1>4 DEF Located
  <2>2. \A y : At(y).severity = y.severity
    OBVIOUS
  <2> HIDE DEF At, S, Lib
  <2> QED
    BY <2>1, <2>2
<1> HIDE DEF S, Lib
<1>6. /\ o.code = 0 /\ o.failOn = "warning" => S = {}
      /\ o.code = 0 /\ o.failOn \in {"blocking", "warning"} =>
           \A x \in S : x.severity # "blocking"
      /\ o.code = 1 => S # {}
      /\ o.code = 1 /\ o.failOn = "blocking" => \E x \in S : x.severity = "blocking"
  BY <1>3, ExitFacts DEF S
<1>7. \A s : s \in Library <=> \E y \in Lib : y.severity = s
  BY DEF Library, SeveritiesOf, Lib
<1>8. \A y \in Lib : y.severity = "blocking" => SecretDetect(sub.diff) # {}
  BY BlockingIsSecret DEF Lib
<1>9. ASSUME o.code = 0, o.failOn \in {"blocking", "warning"}
      PROVE  {<<"scan", "blocking">>, <<"analyzer", "blocking">>} \cap found = {}
  <2>1. "blocking" \notin Library
    BY <1>5, <1>6, <1>7, <1>9
  <2>2. SecretDetect(sub.diff) = {}
    <3>1. SecretDetect(sub.diff) # {} => "blocking" \in Library
      BY DetectedSeverities DEF Library
    <3> QED
      BY <2>1, <3>1
  <2> QED
    BY <2>1, <2>2 DEF SourceInv
<1>10. ASSUME o.code = 0, o.failOn = "warning"
       PROVE  <<"analyzer", "warning">> \notin found
  BY <1>5, <1>6, <1>7, <1>10 DEF SourceInv
<1>11. ASSUME o.code = 1, o.failOn = "blocking"
       PROVE  verdict.decision # "approved"
  BY <1>5, <1>6, <1>8, <1>11 DEF SeriousNeverApproved
<1>12. ASSUME o.code = 1, setup.analyzer, verdict.source = "pipeline"
       PROVE  verdict.decision # "approved"
  <2>1. PICK y \in Lib : TRUE
    BY <1>5, <1>6, <1>12
  <2>2. y.severity \in Library /\ Library \subseteq {"blocking", "warning"}
    BY <1>7, DetectedSeverities DEF Library
  <2>3. <<"analyzer", y.severity>> \in found
    BY <1>12, <2>2, Zenon DEF SourceInv, By
  <2>4. <<"analyzer", y.severity>>[2] \in Heard
    BY <2>3, Zenon DEF Heard
  <2>5. verdict.decision = Consolidate(Heard)
    BY <1>12 DEF JudgeInv
  <2> QED
    BY <2>2, <2>4, <2>5, ConsolidateFacts
<1> QED
  BY <1>9, <1>10, <1>11, <1>12

(* What CI is told of a text and what the orchestrator makes of it agree: a
   finding that fails the build cannot be approved, and a build that passes has
   nothing that the required stage would object to, for any trees, flags,
   deployments, deadlines and answers. *)
THEOREM ClientIsSound == Spec => []ClientSound
<1>1. ChainInv => ClientSound
  BY ClientIsConsistent, OpinionFacts, JudgeImplies DEF ChainInv, ClientSound
<1> QED
  BY <1>1, ChainInvariant, PTL
==============================================================================
