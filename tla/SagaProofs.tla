----------------------------- MODULE SagaProofs -----------------------------
(***************************************************************************)
(* The Saga runs on the consumer group as the group allows, and whatever   *)
(* it publishes -- by pipeline, cache, fallback or fail-safe, with any     *)
(* number of replicas, faults and cache evictions -- answers its           *)
(* submission and follows from its findings.                               *)
(***************************************************************************)
EXTENDS Saga, ConsumerGroupProofs

LEMMA SubmissionShape ==
  ASSUME NEW rec \in Records, Content[rec] # Poison
  PROVE  /\ Content[rec] \in Submissions
         /\ Content[rec].id \in Ids /\ Content[rec].org \in Orgs
         /\ Content[rec].coord \in Coords /\ Content[rec].diff \in Diffs
BY SagaAssumption DEF Submissions

LEMMA KeyType ==
  ASSUME NEW r \in Replicas, cur[r] \in Records, Content[cur[r]] # Poison
  PROVE  /\ Key(r) \in Keys
         /\ Key(r)[1] = Content[cur[r]].diff
         /\ Key(r)[2] = RulesetOf[r]
BY SubmissionShape, SagaAssumption DEF Key, Sub, CacheKey, Keys

LEMMA ConsolidateType == \A F : Consolidate(F) \in Decisions
BY DEF Consolidate, Decisions

(* What Analyze makes of a submission, on each of its three paths. *)
LEMMA AnalyzeGood ==
  ASSUME NEW rec \in Records, Content[rec] # Poison, NEW rs \in Rulesets,
         NEW v,
         \/ \E advice \in AdvisoryFindings :
              v = PipelineVerdict(Content[rec], rs, advice)
         \/ v = FallbackVerdict(Content[rec], rs)
         \/ v = FailSafeVerdict(Content[rec], rs)
  PROVE  GoodVerdict(v, rec) /\ v.ruleset = rs
<1> DEFINE sub == Content[rec]
<1>1. /\ sub.id \in Ids /\ sub.org \in Orgs /\ sub.coord \in Coords
      /\ sub.diff \in Diffs
  BY SubmissionShape
<1>2. /\ RequiredFindings[sub.diff] \subseteq Severities
      /\ ScanFindings[sub.diff] \subseteq {"blocking"}
      /\ ScanFindings[sub.diff] \subseteq RequiredFindings[sub.diff]
  BY <1>1, SagaAssumption
<1> HIDE DEF sub
<1>3. ASSUME NEW advice \in AdvisoryFindings PROVE advice \subseteq Severities
  BY <1>3, SagaAssumption DEF AdvisoryFindings, Severities
<1>4. ASSUME NEW F \in SUBSET Severities, NEW src \in Sources,
             NEW d \in Decisions
      PROVE  NewVerdict(sub, d, src, rs, F) \in Verdicts
  BY <1>1 DEF NewVerdict, Verdicts
<1>5. ASSUME NEW advice \in AdvisoryFindings, v = PipelineVerdict(sub, rs, advice)
      PROVE  GoodVerdict(v, rec) /\ v.ruleset = rs
  <2> DEFINE F == RequiredFindings[sub.diff] \cup advice
  <2>1. F \in SUBSET Severities /\ "pipeline" \in Sources
    BY <1>2, <1>3 DEF Sources
  <2>2. v = NewVerdict(sub, Consolidate(F), "pipeline", rs, F)
    BY <1>5 DEF PipelineVerdict
  <2>3. "blocking" \in ScanFindings[sub.diff] => Consolidate(F) = "rejected"
    BY <1>2 DEF Consolidate
  <2>4. v \in Verdicts
    BY <1>4, <2>1, <2>2, ConsolidateType
  <2>5. RequiredFindings[sub.diff] \subseteq F
    OBVIOUS
  <2> HIDE DEF F
  <2> QED
    BY <2>2, <2>3, <2>4, <2>5 DEF GoodVerdict, NewVerdict, sub
<1>6. CASE v = FallbackVerdict(sub, rs)
  <2> DEFINE F == ScanFindings[sub.diff]
  <2>1. F \in SUBSET Severities /\ "fallback" \in Sources
    BY <1>2 DEF Severities, Sources
  <2>2. v = NewVerdict(sub, Consolidate(F), "fallback", rs, F)
    BY <1>6 DEF FallbackVerdict
  <2>3. "blocking" \in ScanFindings[sub.diff] => Consolidate(F) = "rejected"
    BY DEF Consolidate
  <2>4. v \in Verdicts
    BY <1>4, <2>1, <2>2, ConsolidateType
  <2> HIDE DEF F
  <2> QED
    BY <2>2, <2>3, <2>4 DEF GoodVerdict, NewVerdict, sub
<1>7. CASE v = FailSafeVerdict(sub, rs)
  <2>1. /\ {"warning"} \in SUBSET Severities /\ "fallback" \in Sources
        /\ "needs_review" \in Decisions
    BY DEF Severities, Sources, Decisions
  <2>2. v = NewVerdict(sub, "needs_review", "fallback", rs, {"warning"})
    BY <1>7 DEF FailSafeVerdict
  <2>3. v \in Verdicts
    BY <1>4, <2>1, <2>2
  <2>4. Consolidate({"warning"}) = "needs_review"
    BY DEF Consolidate
  <2> QED
    BY <2>2, <2>3, <2>4 DEF GoodVerdict, NewVerdict, sub
<1> QED
  BY <1>5, <1>6, <1>7 DEF sub

(* A cache entry restamped for a submission with the key's diff. *)
LEMMA StampGood ==
  ASSUME NEW rec \in Records, Content[rec] # Poison, NEW k \in Keys,
         k[1] = Content[rec].diff, NEW v, GoodEntry(v, k)
  PROVE  LET w == [StampSource(v, Content[rec]) EXCEPT !.source = "cache"]
         IN  GoodVerdict(w, rec) /\ w.ruleset = k[2]
<1> DEFINE sub == Content[rec]
           w == [StampSource(v, sub) EXCEPT !.source = "cache"]
<1>1. /\ sub.id \in Ids /\ sub.org \in Orgs /\ sub.coord \in Coords
      /\ sub.diff \in Diffs
  BY SubmissionShape
<1>2. ScanFindings[sub.diff] \subseteq RequiredFindings[sub.diff]
  BY <1>1, SagaAssumption
<1>3. v \in Verdicts
  BY DEF GoodEntry
<1> HIDE DEF sub
<1>4. /\ w \in Verdicts
      /\ w.id = sub.id /\ w.org = sub.org /\ w.coord = sub.coord
      /\ w.source = "cache" /\ w.decision = v.decision
      /\ w.findings = v.findings /\ w.ruleset = v.ruleset
  BY <1>1, <1>3 DEF StampSource, Verdicts, Sources
<1> HIDE DEF w
<1>5. /\ v.decision = Consolidate(v.findings) /\ v.ruleset = k[2]
      /\ RequiredFindings[sub.diff] \subseteq v.findings
  BY DEF GoodEntry, sub
<1>6. "blocking" \in ScanFindings[sub.diff] => w.decision # "approved"
  BY <1>2, <1>4, <1>5 DEF Consolidate
<1>7. GoodVerdict(w, rec) /\ w.ruleset = k[2]
  BY <1>4, <1>5, <1>6 DEF GoodVerdict, sub
<1> QED
  BY <1>7 DEF w, sub

(* A pipeline verdict makes a cache entry for its diff and ruleset. *)
LEMMA StripGood ==
  ASSUME NEW rec \in Records, NEW v, GoodVerdict(v, rec),
         v.source = "pipeline", NEW k \in Keys, k[1] = Content[rec].diff,
         k[2] = v.ruleset
  PROVE  StripSource(v) \in Verdicts /\ GoodEntry(StripSource(v), k)
<1>1. v \in Verdicts /\ v.decision = Consolidate(v.findings)
      /\ RequiredFindings[k[1]] \subseteq v.findings
  BY DEF GoodVerdict
<1>2. /\ StripSource(v) \in Verdicts
      /\ StripSource(v).decision = v.decision
      /\ StripSource(v).findings = v.findings
      /\ StripSource(v).ruleset = v.ruleset
  BY <1>1 DEF StripSource, Verdicts
<1> QED
  BY <1>1, <1>2 DEF GoodEntry

------------------------------------------------------------------------------
(* The steps. *)

Labels == {"loop", "lookup", "analyze", "store", "publish", "audited", "enqueued"}

(* A step of one replica's handler keeps the invariant when the handler's    *)
(* new state fits its label and what it writes is good.                      *)
LEMMA HandlerStep ==
  ASSUME SagaTypeOK, SagaInv, NEW r \in Replicas,
         NEW l \in Labels, pc' = [pc EXCEPT ![r] = l],
         NEW c \in Records \cup {None}, cur' = [cur EXCEPT ![r] = c],
         NEW v \in Verdicts \cup {None}, verdict' = [verdict EXCEPT ![r] = v],
         LabelFits(l, c, v, RulesetOf[r]), rowId' \in [Replicas -> Nat],
         cache' \in [Keys -> Verdicts \cup {None}],
         \A k \in Keys : cache'[k] # None => GoodEntry(cache'[k], k),
         audit' = outbox', outbox' \subseteq Rows,
         \A row \in outbox' : GoodVerdict(row.verdict, row.rec),
         nextId' \in Nat, failed' \subseteq Records
  PROVE  SagaTypeOK' /\ SagaInv'
<1>1. SagaTypeOK'
  BY DEF SagaTypeOK, Labels
<1>2. ASSUME NEW q \in Replicas
      PROVE  LabelFits(pc'[q], cur'[q], verdict'[q], RulesetOf[q])
  <2>1. CASE q = r
    BY <2>1 DEF SagaTypeOK
  <2>2. CASE q # r
    <3>1. pc'[q] = pc[q] /\ cur'[q] = cur[q] /\ verdict'[q] = verdict[q]
      BY <2>2 DEF SagaTypeOK
    <3> QED
      BY <3>1 DEF SagaInv
  <2> QED
    BY <2>1, <2>2
<1>3. SagaInv'
  BY <1>2 DEF SagaInv, LabelFits, GoodVerdict, GoodEntry
<1> QED
  BY <1>1, <1>3

(* The same for a step that leaves the tables alone. *)
LEMMA HandlerMove ==
  ASSUME SagaTypeOK, SagaInv, NEW r \in Replicas,
         NEW l \in Labels, pc' = [pc EXCEPT ![r] = l],
         NEW c \in Records \cup {None}, cur' = [cur EXCEPT ![r] = c],
         NEW v \in Verdicts \cup {None}, verdict' = [verdict EXCEPT ![r] = v],
         LabelFits(l, c, v, RulesetOf[r]),
         rowId' \in [Replicas -> Nat], nextId' \in Nat,
         UNCHANGED <<cache, audit, outbox, failed>>
  PROVE  SagaTypeOK' /\ SagaInv'
<1>1. /\ cache' \in [Keys -> Verdicts \cup {None}]
      /\ \A k \in Keys : cache'[k] # None => GoodEntry(cache'[k], k)
      /\ audit' = outbox' /\ outbox' \subseteq Rows
      /\ \A row \in outbox' : GoodVerdict(row.verdict, row.rec)
      /\ failed' \subseteq Records
  BY DEF SagaTypeOK, SagaInv
<1> QED
  BY <1>1, HandlerStep

LEMMA SagaInit == Init => SagaTypeOK /\ SagaInv
<1> SUFFICES ASSUME Init PROVE SagaTypeOK /\ SagaInv
  OBVIOUS
<1>1. SagaTypeOK
  BY DEF Init, SagaTypeOK
<1>2. \A r \in Replicas :
        pc[r] = "loop" /\ cur[r] = None /\ verdict[r] = None
  BY DEF Init
<1>3. \A r \in Replicas : LabelFits(pc[r], cur[r], verdict[r], RulesetOf[r])
  BY <1>2 DEF LabelFits
<1> QED
  BY <1>1, <1>3 DEF Init, SagaInv

(* Back to the loop, for whatever reason. *)
LEMMA BackToLoop ==
  ASSUME SagaTypeOK, SagaInv, NEW r \in Replicas,
         pc' = [pc EXCEPT ![r] = "loop"], cur' = [cur EXCEPT ![r] = None],
         verdict' = [verdict EXCEPT ![r] = None], rowId' = [rowId EXCEPT ![r] = 0],
         UNCHANGED <<cache, nextId>>, failed' \subseteq Records,
         \/ UNCHANGED <<audit, outbox>>
         \/ /\ pc[r] = "enqueued"
            /\ audit' = audit \cup {Row(r)}
            /\ outbox' = outbox \cup {Row(r)}
  PROVE  SagaTypeOK' /\ SagaInv'
<1>1. LabelFits("loop", None, None, RulesetOf[r]) /\ "loop" \in Labels
  BY DEF LabelFits, Labels
<1>2. pc[r] = "enqueued" => Row(r) \in Rows /\ GoodVerdict(verdict[r], cur[r])
  BY DEF SagaInv, LabelFits, GoodVerdict, SagaTypeOK, Rows, Row
<1>3. /\ audit' = outbox' /\ outbox' \subseteq Rows
      /\ \A row \in outbox' : GoodVerdict(row.verdict, row.rec)
  <2>1. CASE UNCHANGED <<audit, outbox>>
    BY <2>1 DEF SagaInv, SagaTypeOK
  <2>2. CASE /\ pc[r] = "enqueued"
             /\ audit' = audit \cup {Row(r)}
             /\ outbox' = outbox \cup {Row(r)}
    <3>1. Row(r).verdict = verdict[r] /\ Row(r).rec = cur[r]
      BY DEF Row
    <3>2. \A row \in outbox : GoodVerdict(row.verdict, row.rec)
      BY DEF SagaInv
    <3>3. audit = outbox /\ outbox \subseteq Rows
      BY DEF SagaInv, SagaTypeOK
    <3> QED
      BY <1>2, <2>2, <3>1, <3>2, <3>3
  <2> QED
    BY <2>1, <2>2
<1>4. /\ cache' \in [Keys -> Verdicts \cup {None}] /\ nextId' \in Nat
      /\ \A k \in Keys : cache'[k] # None => GoodEntry(cache'[k], k)
      /\ rowId' \in [Replicas -> Nat]
  BY DEF SagaTypeOK, SagaInv
<1> QED
  BY <1>1, <1>3, <1>4, HandlerStep

LEMMA SagaStep ==
  ASSUME TypeOK, SagaInv, [Next]_vars
  PROVE  SagaTypeOK' /\ SagaInv'
<1> SagaTypeOK
  BY DEF TypeOK
<1>1. ASSUME UNCHANGED sagaVars PROVE SagaTypeOK' /\ SagaInv'
  BY <1>1 DEF sagaVars, handlerVars, tableVars, SagaTypeOK, SagaInv, LabelFits,
              GoodVerdict, GoodEntry
\* What the handler of r leaves alone keeps its type and its worth.
<1>2. /\ audit = outbox /\ outbox \subseteq Rows /\ failed \subseteq Records
      /\ \A row \in outbox : GoodVerdict(row.verdict, row.rec)
      /\ cache \in [Keys -> Verdicts \cup {None}] /\ nextId \in Nat
      /\ \A k \in Keys : cache[k] # None => GoodEntry(cache[k], k)
  BY DEF SagaTypeOK, SagaInv
<1>3. ASSUME NEW r \in Replicas
      PROVE  /\ cur[r] \in Records \cup {None} /\ verdict[r] \in Verdicts \cup {None}
             /\ rowId[r] \in Nat
             /\ cur = [cur EXCEPT ![r] = cur[r]]
             /\ verdict = [verdict EXCEPT ![r] = verdict[r]]
             /\ rowId = [rowId EXCEPT ![r] = rowId[r]]
             /\ LabelFits(pc[r], cur[r], verdict[r], RulesetOf[r])
  BY DEF SagaTypeOK, SagaInv
<1>4. ASSUME NEW r \in Replicas, Take(r) PROVE SagaTypeOK' /\ SagaInv'
  <2>1. PICK rec \in inflight[r] :
          Content[rec] # Poison /\ cur' = [cur EXCEPT ![r] = rec]
    BY <1>4 DEF Take
  <2>2. rec \in Records
    BY DEF TypeOK, GroupTypeOK
  <2>3. /\ pc[r] = "loop" /\ pc' = [pc EXCEPT ![r] = "lookup"]
        /\ UNCHANGED <<verdict, rowId, cache, audit, outbox, nextId, failed>>
    BY <1>4 DEF Take, Goto, tableVars
  <2>4. LabelFits("lookup", rec, verdict[r], RulesetOf[r]) /\ "lookup" \in Labels
    BY <1>3, <2>1, <2>2 DEF LabelFits, Labels
  <2>5. /\ verdict' = [verdict EXCEPT ![r] = verdict[r]]
        /\ rowId' \in [Replicas -> Nat] /\ nextId' \in Nat
        /\ UNCHANGED <<cache, audit, outbox, failed>>
    BY <1>3, <2>3 DEF SagaTypeOK
  <2> QED
    BY <1>3, <2>1, <2>2, <2>3, <2>4, <2>5, HandlerMove
<1>5. ASSUME NEW r \in Replicas, CacheHit(r) PROVE SagaTypeOK' /\ SagaInv'
  <2> DEFINE w == [StampSource(cache[Key(r)], Sub(r)) EXCEPT !.source = "cache"]
  <2>1. /\ pc[r] = "lookup" /\ pc' = [pc EXCEPT ![r] = "publish"]
        /\ cache[Key(r)] # None /\ verdict' = [verdict EXCEPT ![r] = w]
        /\ UNCHANGED <<cur, rowId, cache, audit, outbox, nextId, failed>>
    BY <1>5 DEF CacheHit, Goto, tableVars
  <2>2. cur[r] \in Records /\ Content[cur[r]] # Poison
    BY <1>3, <2>1 DEF LabelFits
  <2>3. /\ Key(r) \in Keys /\ Key(r)[1] = Content[cur[r]].diff
        /\ Key(r)[2] = RulesetOf[r] /\ GoodEntry(cache[Key(r)], Key(r))
    BY <1>2, <2>1, <2>2, KeyType
  <2>4. GoodVerdict(w, cur[r]) /\ w.ruleset = RulesetOf[r]
    BY <2>2, <2>3, StampGood DEF Sub
  <2> HIDE DEF w
  <2>5. LabelFits("publish", cur[r], w, RulesetOf[r]) /\ "publish" \in Labels
    BY <2>2, <2>4 DEF LabelFits, Labels
  <2>6. w \in Verdicts
    BY <2>4 DEF GoodVerdict
  <2>7. /\ cur' = [cur EXCEPT ![r] = cur[r]]
        /\ rowId' \in [Replicas -> Nat] /\ nextId' \in Nat
        /\ UNCHANGED <<cache, audit, outbox, failed>>
    BY <1>3, <2>1 DEF SagaTypeOK
  <2> QED
    BY <1>3, <2>1, <2>5, <2>6, <2>7, HandlerMove
<1>6. ASSUME NEW r \in Replicas, CacheMiss(r) PROVE SagaTypeOK' /\ SagaInv'
  <2>1. /\ pc[r] = "lookup" /\ pc' = [pc EXCEPT ![r] = "analyze"]
        /\ UNCHANGED <<cur, verdict, rowId, cache, audit, outbox, nextId, failed>>
    BY <1>6 DEF CacheMiss, Goto, tableVars
  <2>2. /\ LabelFits("analyze", cur[r], verdict[r], RulesetOf[r])
        /\ "analyze" \in Labels
    BY <1>3, <2>1 DEF LabelFits, Labels
  <2>3. /\ cur' = [cur EXCEPT ![r] = cur[r]]
        /\ verdict' = [verdict EXCEPT ![r] = verdict[r]]
        /\ rowId' \in [Replicas -> Nat] /\ nextId' \in Nat
        /\ UNCHANGED <<cache, audit, outbox, failed>>
    BY <1>3, <2>1 DEF SagaTypeOK
  <2> QED
    BY <1>3, <2>1, <2>2, <2>3, HandlerMove
<1>7. ASSUME NEW r \in Replicas, Analyze(r) PROVE SagaTypeOK' /\ SagaInv'
  <2>1. /\ pc[r] = "analyze"
        /\ pc' = [pc EXCEPT ![r] = IF verdict'[r].source = "pipeline"
                                   THEN "store" ELSE "publish"]
        /\ UNCHANGED <<cur, rowId, cache, audit, outbox, nextId, failed>>
    BY <1>7 DEF Analyze, Goto, tableVars
  <2>2. cur[r] \in Records /\ Content[cur[r]] # Poison /\ RulesetOf[r] \in Rulesets
    BY <1>3, <2>1, SagaAssumption DEF LabelFits
  <2>3. PICK v :
          /\ verdict' = [verdict EXCEPT ![r] = v]
          /\ \/ \E advice \in AdvisoryFindings :
                  v = PipelineVerdict(Content[cur[r]], RulesetOf[r], advice)
             \/ v = FallbackVerdict(Content[cur[r]], RulesetOf[r])
             \/ v = FailSafeVerdict(Content[cur[r]], RulesetOf[r])
    BY <1>7 DEF Analyze, Sub
  <2>4. GoodVerdict(v, cur[r]) /\ v.ruleset = RulesetOf[r]
    BY <2>2, <2>3, AnalyzeGood
  <2>5. v \in Verdicts /\ verdict'[r] = v
    BY <2>3, <2>4 DEF GoodVerdict, SagaTypeOK
  <2> DEFINE l == IF v.source = "pipeline" THEN "store" ELSE "publish"
  <2>6. /\ LabelFits(l, cur[r], v, RulesetOf[r]) /\ l \in Labels
        /\ pc' = [pc EXCEPT ![r] = l]
    BY <2>1, <2>2, <2>4, <2>5 DEF LabelFits, Labels
  <2>7. /\ cur' = [cur EXCEPT ![r] = cur[r]]
        /\ rowId' \in [Replicas -> Nat] /\ nextId' \in Nat
        /\ UNCHANGED <<cache, audit, outbox, failed>>
    BY <1>3, <2>1 DEF SagaTypeOK
  <2> HIDE DEF l
  <2> QED
    BY <1>3, <2>3, <2>5, <2>6, <2>7, HandlerMove
<1>8. ASSUME NEW r \in Replicas, CacheSet(r) PROVE SagaTypeOK' /\ SagaInv'
  <2> DEFINE e == StripSource(verdict[r])
  <2>1. /\ pc[r] = "store" /\ pc' = [pc EXCEPT ![r] = "publish"]
        /\ cache' = [cache EXCEPT ![Key(r)] = e] \/ UNCHANGED cache
        /\ UNCHANGED <<cur, verdict, rowId, audit, outbox, nextId, failed>>
    BY <1>8 DEF CacheSet, Goto, tableVars
  <2>2. /\ cur[r] \in Records /\ Content[cur[r]] # Poison
        /\ GoodVerdict(verdict[r], cur[r]) /\ verdict[r].source = "pipeline"
    BY <1>3, <2>1 DEF LabelFits
  <2>3. verdict[r].ruleset = RulesetOf[r]
    BY <1>3, <2>1 DEF LabelFits
  <2>4. /\ Key(r) \in Keys /\ Key(r)[1] = Content[cur[r]].diff
        /\ Key(r)[2] = verdict[r].ruleset
    BY <2>2, <2>3, KeyType
  <2>5. e \in Verdicts /\ GoodEntry(e, Key(r))
    BY <2>2, <2>4, StripGood
  <2> HIDE DEF e
  <2>6. /\ cache' \in [Keys -> Verdicts \cup {None}]
        /\ \A k \in Keys : cache'[k] # None => GoodEntry(cache'[k], k)
    BY <1>2, <2>1, <2>4, <2>5
  <2>7. /\ LabelFits("publish", cur[r], verdict[r], RulesetOf[r])
        /\ "publish" \in Labels
    BY <1>3, <2>1, <2>2 DEF LabelFits, Labels
  <2>8. /\ cur' = [cur EXCEPT ![r] = cur[r]]
        /\ verdict' = [verdict EXCEPT ![r] = verdict[r]]
        /\ rowId' \in [Replicas -> Nat]
        /\ audit' = outbox' /\ outbox' \subseteq Rows
        /\ \A row \in outbox' : GoodVerdict(row.verdict, row.rec)
        /\ nextId' \in Nat /\ failed' \subseteq Records
    BY <1>2, <1>3, <2>1 DEF SagaTypeOK
  <2> QED
    BY <1>2, <1>3, <2>1, <2>6, <2>7, <2>8, HandlerStep
<1>9. ASSUME NEW r \in Replicas, InsertAudit(r) PROVE SagaTypeOK' /\ SagaInv'
  <2>1. /\ pc[r] = "publish" /\ pc' = [pc EXCEPT ![r] = "audited"]
        /\ UNCHANGED <<cur, verdict, rowId, cache, audit, outbox, nextId, failed>>
    BY <1>9 DEF InsertAudit, Goto, tableVars
  <2>2. /\ LabelFits("audited", cur[r], verdict[r], RulesetOf[r])
        /\ "audited" \in Labels
    BY <1>3, <2>1 DEF LabelFits, Labels
  <2>3. /\ cur' = [cur EXCEPT ![r] = cur[r]]
        /\ verdict' = [verdict EXCEPT ![r] = verdict[r]]
        /\ rowId' \in [Replicas -> Nat] /\ nextId' \in Nat
        /\ UNCHANGED <<cache, audit, outbox, failed>>
    BY <1>2, <1>3, <2>1 DEF SagaTypeOK
  <2> QED
    BY <1>3, <2>1, <2>2, <2>3, HandlerMove
<1>10. ASSUME NEW r \in Replicas, InsertOutbox(r) PROVE SagaTypeOK' /\ SagaInv'
  <2>1. /\ pc[r] = "audited" /\ pc' = [pc EXCEPT ![r] = "enqueued"]
        /\ rowId' = [rowId EXCEPT ![r] = nextId] /\ nextId' = nextId + 1
        /\ UNCHANGED <<cur, verdict, cache, audit, outbox, failed>>
    BY <1>10 DEF InsertOutbox, Goto, tableVars
  <2>2. /\ LabelFits("enqueued", cur[r], verdict[r], RulesetOf[r])
        /\ "enqueued" \in Labels /\ nextId' \in Nat
    BY <1>2, <1>3, <2>1 DEF LabelFits, Labels
  <2>3. /\ cur' = [cur EXCEPT ![r] = cur[r]]
        /\ verdict' = [verdict EXCEPT ![r] = verdict[r]]
        /\ rowId' \in [Replicas -> Nat] /\ nextId' \in Nat
        /\ UNCHANGED <<cache, audit, outbox, failed>>
    BY <1>2, <1>3, <2>1 DEF SagaTypeOK
  <2> QED
    BY <1>3, <2>1, <2>2, <2>3, HandlerMove
<1>11. ASSUME NEW r \in Replicas, CommitTx(r) PROVE SagaTypeOK' /\ SagaInv'
  BY <1>2, <1>11, BackToLoop DEF CommitTx, Commit, Finish
<1>12. ASSUME NEW r \in Replicas, PublishFails(r) PROVE SagaTypeOK' /\ SagaInv'
  <2>1. failed' \subseteq Records
    BY <1>2, <1>3, <1>12 DEF PublishFails, LabelFits
  <2> QED
    BY <1>12, <2>1, BackToLoop DEF PublishFails, Finish, tableVars
<1>13. ASSUME NEW r \in Replicas, CommitUnknown(r) PROVE SagaTypeOK' /\ SagaInv'
  <2>1. failed' \subseteq Records
    BY <1>2, <1>3, <1>13 DEF CommitUnknown, LabelFits
  <2> QED
    BY <1>13, <2>1, BackToLoop DEF CommitUnknown, Commit, Finish
<1>14. ASSUME NEW r \in Replicas, Die(r) PROVE SagaTypeOK' /\ SagaInv'
  BY <1>2, <1>14, BackToLoop DEF Die, Abandon, tableVars
<1>15. ASSUME NEW k \in Keys, Expire(k) PROVE SagaTypeOK' /\ SagaInv'
  <2>1. /\ cache' = [cache EXCEPT ![k] = None]
        /\ UNCHANGED <<pc, cur, verdict, rowId, audit, outbox, nextId, failed>>
    BY <1>15 DEF Expire, handlerVars, tableVars
  <2>2. /\ cache' \in [Keys -> Verdicts \cup {None}]
        /\ \A x \in Keys : cache'[x] # None => GoodEntry(cache'[x], x)
    BY <1>2, <2>1
  <2>3. SagaTypeOK'
    BY <2>1, <2>2 DEF SagaTypeOK
  <2>4. SagaInv'
    BY <2>1, <2>2 DEF SagaInv, LabelFits, GoodVerdict, GoodEntry
  <2> QED
    BY <2>3, <2>4
<1>16. ASSUME NEW r \in Replicas, SkipPoison(r) \/ Poll(r) PROVE UNCHANGED sagaVars
  BY <1>16 DEF SkipPoison, Poll
<1>17. CASE Group \/ UNCHANGED vars
  BY <1>1, <1>17 DEF Group, vars
<1> QED
  BY <1>1, <1>4, <1>5, <1>6, <1>7, <1>8, <1>9, <1>10, <1>11, <1>12, <1>13,
     <1>14, <1>15, <1>16, <1>17 DEF Next, Handle

(* Every step of the Saga is a step of the consumer group, or none of it. *)
LEMMA GroupStep ==
  ASSUME TypeOK, SagaInv, [Next]_vars
  PROVE  [GroupNext]_groupVars
<1>1. ASSUME NEW r \in Replicas, NEW rec \in Records, Return(r, rec),
             UNCHANGED faults \/ Faulty
      PROVE  GroupNext
  BY <1>1 DEF GroupNext
<1>2. ASSUME NEW r \in Replicas, SkipPoison(r) PROVE GroupNext
  <2>1. PICK rec \in inflight[r] : Return(r, rec)
    BY <1>2 DEF SkipPoison
  <2>2. rec \in Records /\ UNCHANGED faults
    BY <1>2 DEF SkipPoison, TypeOK, GroupTypeOK
  <2> QED
    BY <1>1, <2>1, <2>2
<1>3. ASSUME NEW r \in Replicas, Finish(r), UNCHANGED faults \/ Faulty
      PROVE  GroupNext
  <2>1. cur[r] \in Records /\ Return(r, cur[r])
    BY <1>3 DEF Finish, Return, TypeOK, GroupTypeOK
  <2> QED
    BY <1>1, <1>3, <2>1
<1>4. ASSUME NEW r \in Replicas, CommitTx(r) \/ PublishFails(r) \/ CommitUnknown(r)
      PROVE  GroupNext
  <2>1. Finish(r) /\ (UNCHANGED faults \/ Faulty)
    BY <1>4 DEF CommitTx, PublishFails, CommitUnknown
  <2> QED
    BY <1>3, <2>1
<1>5. ASSUME NEW r \in Replicas,
             \/ Take(r) \/ CacheHit(r) \/ CacheMiss(r) \/ Analyze(r)
             \/ CacheSet(r) \/ InsertAudit(r) \/ InsertOutbox(r)
      PROVE  UNCHANGED groupVars
  BY <1>5 DEF Take, CacheHit, CacheMiss, Analyze, CacheSet, InsertAudit,
              InsertOutbox
<1>6. ASSUME NEW r \in Replicas, Poll(r) \/ Die(r) PROVE GroupNext
  BY <1>6 DEF Poll, Die, GroupNext
<1>7. CASE Group
  BY <1>7 DEF Group, GroupNext
<1>8. ASSUME NEW k \in Keys, Expire(k) PROVE UNCHANGED groupVars
  BY <1>8 DEF Expire
<1>9. CASE UNCHANGED vars
  BY <1>9 DEF vars
<1> QED
  BY <1>2, <1>4, <1>5, <1>6, <1>7, <1>8, <1>9 DEF Next, Handle

------------------------------------------------------------------------------

LEMMA InvInit == Init => TypeOK /\ SagaInv
BY GroupTypeInit, SagaInit DEF Init, TypeOK

LEMMA InvStep == TypeOK /\ SagaInv /\ [Next]_vars => TypeOK' /\ SagaInv'
<1> SUFFICES ASSUME TypeOK, SagaInv, [Next]_vars PROVE TypeOK' /\ SagaInv'
  OBVIOUS
<1>1. SagaTypeOK' /\ SagaInv'
  BY SagaStep
<1>2. GroupTypeOK'
  BY GroupStep, GroupTypeStep DEF TypeOK
<1> QED
  BY <1>1, <1>2 DEF TypeOK

(* The Saga's state stays within its types, and what its handlers, the cache *)
(* and the tables hold is good for the record, key or row it belongs to.     *)
THEOREM SagaInvariant == Spec => [](TypeOK /\ SagaInv)
BY InvInit, InvStep, PTL DEF Spec

THEOREM SagaTypeCorrect == Spec => []TypeOK
BY SagaInvariant, PTL

(* The orchestrator consumes as the consumer group prescribes. *)
THEOREM SagaImplementsGroup == Spec => GroupSpec
<1>1. Init => GroupInit
  BY DEF Init
<1> QED
  BY <1>1, GroupStep, SagaInvariant, PTL DEF Spec, GroupSpec

(* No submission falls behind the committed offset before a handler returned *)
(* for it or its fetch was discarded.                                        *)
THEOREM SagaCommitsSettled == Spec => []CommittedSettled
BY SagaImplementsGroup, CommittedOnlySettled, PTL

THEOREM SagaGroupInv == Spec => []GroupInv
BY SagaImplementsGroup, GroupInvariant, PTL

(* Audit trail and outbox never part, whatever statement of the transaction  *)
(* fails, and whatever becomes of the replica.                               *)
THEOREM SagaDurable == Spec => []AuditOutboxAgree
<1>1. SagaInv => AuditOutboxAgree
  BY DEF SagaInv, AuditOutboxAgree
<1> QED
  BY <1>1, SagaInvariant, PTL

(* Each published verdict carries the identity of its own submission. *)
THEOREM SagaIdentity == Spec => []VerdictFitsSubmission
<1>1. SagaInv => VerdictFitsSubmission
  BY DEF SagaInv, GoodVerdict, VerdictFitsSubmission
<1> QED
  BY <1>1, SagaInvariant, PTL

(* No path approves a diff in which the secret scan sees a credential. *)
THEOREM SagaNoSecretApproved == Spec => []SecretNeverApproved
<1>1. SagaInv => SecretNeverApproved
  BY DEF SagaInv, GoodVerdict, SecretNeverApproved
<1> QED
  BY <1>1, SagaInvariant, PTL

(* Pipeline and cache answers hold all the required stage reports. *)
THEOREM SagaKeepsFindings == Spec => []CachedKeepsFindings
<1>1. SagaInv => CachedKeepsFindings
  BY DEF SagaInv, GoodVerdict, CachedKeepsFindings
<1> QED
  BY <1>1, SagaInvariant, PTL

(* Decision and findings agree on every path. *)
THEOREM SagaDecides == Spec => []DecisionMatchesFindings
<1>1. SagaInv => DecisionMatchesFindings
  BY DEF SagaInv, GoodVerdict, DecisionMatchesFindings
<1> QED
  BY <1>1, SagaInvariant, PTL

(* Replicas on different rulesets never take each other's cached verdicts. *)
THEOREM SagaHonoursRuleset == Spec => []RulesetHonoured
<1>1. SagaInv => RulesetHonoured
  BY DEF SagaInv, LabelFits, RulesetHonoured
<1> QED
  BY <1>1, SagaInvariant, PTL

------------------------------------------------------------------------------
(***************************************************************************)
(* Duplicates.  A row is written by a replica that has the record in hand  *)
(* and lets go of it in the same step, so that rows, hands and the turn    *)
(* that is due grow only with the faults.                                  *)
(***************************************************************************)

LEMMA AccountInit == Init => AccountInv
<1> SUFFICES ASSUME Init, NEW rec \in Records
             PROVE  /\ RowsOf(rec) = {} /\ Holders(rec) = {}
                    /\ Due(rec) \in {0, 1} /\ faults = 0
  BY FS_EmptySet DEF AccountInv
<1> QED
  BY DEF Init, GroupInit, RowsOf, Holders, Due

(* The account of rec: the rows must not grow without a hand letting go. *)
LEMMA AccountKept ==
  ASSUME TypeOK, [GroupNext]_groupVars, AccountInv, NEW rec \in Records,
         \/ RowsOf(rec)' \subseteq RowsOf(rec)
         \/ \E r \in Replicas : \E row :
              /\ Return(r, rec)
              /\ RowsOf(rec)' \subseteq RowsOf(rec) \cup {row}
  PROVE  /\ IsFiniteSet(RowsOf(rec)') /\ IsFiniteSet(Holders(rec)')
         /\ Cardinality(RowsOf(rec)') + Cardinality(Holders(rec)') + Due(rec)'
              <= 1 + faults'
<1> DEFINE R == RowsOf(rec)
           H == Holders(rec)
           D == Due(rec)
<1>1. /\ IsFiniteSet(R) /\ IsFiniteSet(H)
      /\ Cardinality(R) + Cardinality(H) + D <= 1 + faults
  BY DEF AccountInv
<1>2. /\ faults \in Nat /\ faults' \in Nat
      /\ faults' = faults \/ faults' = faults + 1
  BY FaultsGrow DEF TypeOK
<1>3. D \in {0, 1} /\ D' \in {0, 1}
  BY DEF Due
<1>4. \/ NoMoreTurns(H, D)
      \/ OneMoreTurn(H, D)
  BY TurnStep DEF TypeOK
<1>5. ASSUME NEW r \in Replicas, Return(r, rec)
      PROVE  r \in H /\ H' \subseteq H \ {r} /\ D' = D
  BY <1>5, ReturnTurn DEF TypeOK
<1> HIDE DEF R, H, D
<1>6. CASE R' \subseteq R
  <2>1. /\ IsFiniteSet(R') /\ Cardinality(R') <= Cardinality(R)
        /\ Cardinality(R') \in Nat /\ Cardinality(R) \in Nat
    BY <1>1, <1>6, CardNoMore
  <2>2. CASE NoMoreTurns(H, D)
    <3>1. /\ IsFiniteSet(H') /\ Cardinality(H') <= Cardinality(H)
          /\ Cardinality(H') \in Nat /\ Cardinality(H) \in Nat
      BY <1>1, <2>2, CardNoMore DEF NoMoreTurns
    <3> QED
      BY <1>1, <1>2, <1>3, <2>1, <2>2, <3>1 DEF NoMoreTurns, R, H, D
  <2>3. CASE OneMoreTurn(H, D)
    <3>1. PICK r \in Replicas : H' \subseteq H \cup {r}
                                /\ D' + 1 + faults <= D + faults'
      BY <2>3 DEF OneMoreTurn
    <3>2. /\ IsFiniteSet(H') /\ Cardinality(H') <= Cardinality(H) + 1
          /\ Cardinality(H') \in Nat /\ Cardinality(H) \in Nat
      BY <1>1, <3>1, CardOneMore
    <3> QED
      BY <1>1, <1>2, <1>3, <2>1, <3>1, <3>2 DEF R, H, D
  <2> QED
    BY <1>4, <2>2, <2>3
<1>7. ASSUME NEW r \in Replicas, NEW row, Return(r, rec), R' \subseteq R \cup {row}
      PROVE  /\ IsFiniteSet(R') /\ IsFiniteSet(H')
             /\ Cardinality(R') + Cardinality(H') + D' <= 1 + faults'
  <2>1. r \in H /\ H' \subseteq H \ {r} /\ D' = D
    BY <1>5, <1>7
  <2>2. /\ IsFiniteSet(R') /\ Cardinality(R') <= Cardinality(R) + 1
        /\ Cardinality(R') \in Nat /\ Cardinality(R) \in Nat
    BY <1>1, <1>7, CardOneMore
  <2>3. /\ IsFiniteSet(H') /\ Cardinality(H') + 1 <= Cardinality(H)
        /\ Cardinality(H') \in Nat /\ Cardinality(H) \in Nat
    BY <1>1, <2>1, CardOneLess
  <2> QED
    BY <1>1, <1>2, <1>3, <2>1, <2>2, <2>3
<1> QED
  BY <1>6, <1>7 DEF R, H, D

LEMMA AccountStep ==
  TypeOK /\ SagaInv /\ AccountInv /\ [Next]_vars => AccountInv'
<1> SUFFICES ASSUME TypeOK, SagaInv, AccountInv, [Next]_vars,
                    NEW rec \in Records
             PROVE  \/ RowsOf(rec)' \subseteq RowsOf(rec)
                    \/ \E r \in Replicas : \E row :
                         /\ Return(r, rec)
                         /\ RowsOf(rec)' \subseteq RowsOf(rec) \cup {row}
  BY AccountKept, GroupStep DEF AccountInv
<1>1. ASSUME NEW r \in Replicas, CommitTx(r) \/ CommitUnknown(r)
      PROVE  \/ RowsOf(rec)' \subseteq RowsOf(rec)
             \/ /\ Return(r, rec)
                /\ RowsOf(rec)' \subseteq RowsOf(rec) \cup {Row(r)}
  <2>1. audit' = audit \cup {Row(r)} /\ Return(r, cur[r])
    BY <1>1 DEF CommitTx, CommitUnknown, Commit, Finish
  <2>2. Row(r).rec = cur[r]
    BY DEF Row
  <2> QED
    BY <2>1, <2>2 DEF RowsOf
<1>2. ASSUME audit' = audit PROVE RowsOf(rec)' \subseteq RowsOf(rec)
  BY <1>2 DEF RowsOf
<1>3. ASSUME NEW r \in Replicas,
             \/ SkipPoison(r) \/ Take(r) \/ CacheHit(r) \/ CacheMiss(r) \/ Analyze(r)
             \/ CacheSet(r) \/ InsertAudit(r) \/ InsertOutbox(r) \/ PublishFails(r)
             \/ Poll(r) \/ Die(r)
      PROVE  audit' = audit
  BY <1>3 DEF SkipPoison, Take, CacheHit, CacheMiss, Analyze, CacheSet, InsertAudit,
              InsertOutbox, PublishFails, Poll, Die, Abandon, sagaVars, tableVars
<1>4. ASSUME (\E k \in Keys : Expire(k)) \/ Group \/ UNCHANGED vars
      PROVE  audit' = audit
  BY <1>4 DEF Expire, Group, vars, sagaVars, tableVars
<1> QED
  BY <1>1, <1>2, <1>3, <1>4 DEF Next, Handle

(* A second audit row of a submission's record, and each further one, has    *)
(* been paid for by a crash, a shutdown, a rebalance or a failed call.       *)
THEOREM SagaDuplicates == Spec => []DuplicateNeedsFault
<1>1. TypeOK /\ AccountInv => DuplicateNeedsFault
  <2> SUFFICES ASSUME TypeOK, AccountInv, NEW rec \in Records
               PROVE  Cardinality(RowsOf(rec)) <= 1 + faults
    BY DEF DuplicateNeedsFault, RowsOf
  <2>1. /\ Cardinality(RowsOf(rec)) \in Nat /\ Cardinality(Holders(rec)) \in Nat
        /\ Cardinality(RowsOf(rec)) + Cardinality(Holders(rec)) + Due(rec)
             <= 1 + faults
    BY FS_CardinalityType DEF AccountInv
  <2>2. Due(rec) \in {0, 1} /\ faults \in Nat
    BY GroupAssumption DEF Due, TypeOK, GroupTypeOK
  <2> QED
    BY <2>1, <2>2
<1>2. Spec => []AccountInv
  BY AccountInit, AccountStep, SagaInvariant, PTL DEF Spec
<1> QED
  BY <1>1, <1>2, SagaInvariant, PTL
==============================================================================
