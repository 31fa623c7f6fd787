-------------------------------- MODULE Saga --------------------------------
(***************************************************************************)
(* The orchestrator: replicas that consume code.submission.v1 and take     *)
(* each submission through the Saga -- verdict cache, analysis stages with *)
(* a deterministic fallback, and the transaction that writes the audit row *)
(* and the outbox row.  The consumer loop is ConsumerGroup's; what is in   *)
(* the outbox after the commit is OutboxRelay's.                           *)
(***************************************************************************)
EXTENDS ConsumerGroup

CONSTANTS
  Ids, Orgs, Coords,  \* submission ids, organizations, repo/commit/PR triples
  Diffs, Rulesets,    \* diff contents, ruleset versions
  Poison,             \* a record DecodeSubmission refuses
  Content,            \* record -> submission or Poison
  RulesetOf,          \* replica -> the ruleset version it is configured with
  RequiredFindings,   \* diff -> severities the required first stage reports
  ScanFindings,       \* diff -> severities of the in-process secret scan
  AdvisoryOutcomes    \* what a reachable semantic stage may report; {} = no stage

Severities == {"info", "warning", "blocking"}
Decisions == {"approved", "needs_review", "rejected"}
Sources == {"cache", "pipeline", "fallback"}

Submissions == [id : Ids, org : Orgs, coord : Coords, diff : Diffs]

ASSUME SagaAssumption ==
  /\ None \notin Ids \cup Orgs \cup Coords
  /\ Poison \notin Submissions
  /\ Content \in [Records -> Submissions \cup {Poison}]
  /\ RulesetOf \in [Replicas -> Rulesets]
  /\ RequiredFindings \in [Diffs -> SUBSET Severities]
  /\ ScanFindings \in [Diffs -> SUBSET {"blocking"}]
  /\ AdvisoryOutcomes \subseteq SUBSET Severities
     \* the required stage is the secret scan itself, or the analyzer service,
     \* which runs the same detector among others
  /\ \A d \in Diffs : ScanFindings[d] \subseteq RequiredFindings[d]

VARIABLES
  pc,       \* replica -> where its handler is; "loop" between records
  cur,      \* replica -> the record being handled
  verdict,  \* replica -> the verdict in the handler's hands
  rowId,    \* replica -> identity value of the outbox row of its transaction
  cache,    \* cache key -> verdict without its source, or None
  audit,    \* committed rows of verdict_audit
  outbox,   \* committed rows of outbox
  nextId,   \* the identity sequence of outbox.id
  failed    \* history: records the handler gave up on with an error

handlerVars == <<pc, cur, verdict, rowId>>
tableVars == <<audit, outbox>>
sagaVars == <<handlerVars, cache, tableVars, nextId, failed>>
vars == <<groupVars, sagaVars>>

Verdicts ==
  [id : Ids \cup {None}, org : Orgs \cup {None}, coord : Coords \cup {None},
   decision : Decisions, source : Sources, ruleset : Rulesets,
   findings : SUBSET Severities]

\* An audit row is named by its transaction's outbox row (its own key is a
\* random UUID), so that the rows of the two tables can be matched.
Rows == [id : Nat, rec : Records, verdict : Verdicts]

Keys == Diffs \X Rulesets

SagaTypeOK ==
  /\ pc \in [Replicas -> {"loop", "lookup", "analyze", "store", "publish",
                          "audited", "enqueued"}]
  /\ cur \in [Replicas -> Records \cup {None}]
  /\ verdict \in [Replicas -> Verdicts \cup {None}]
  /\ rowId \in [Replicas -> Nat]
  /\ cache \in [Keys -> Verdicts \cup {None}]
  /\ audit \subseteq Rows
  /\ outbox \subseteq Rows
  /\ nextId \in Nat
  /\ failed \subseteq Records

TypeOK == GroupTypeOK /\ SagaTypeOK

Init ==
  /\ GroupInit
  /\ pc = [r \in Replicas |-> "loop"]
  /\ cur = [r \in Replicas |-> None]
  /\ verdict = [r \in Replicas |-> None]
  /\ rowId = [r \in Replicas |-> 0]
  /\ cache = [k \in Keys |-> None]
  /\ audit = {}
  /\ outbox = {}
  /\ nextId = 1
  /\ failed = {}

------------------------------------------------------------------------------
(* The domain: decisions, identity, cache key. *)

Consolidate(findings) ==
  IF "blocking" \in findings THEN "rejected"
  ELSE IF "warning" \in findings THEN "needs_review"
  ELSE "approved"

\* Variation of StampSource: repository, commit and PR are left as cached.
StampSourceNoCoord(v, sub) == [v EXCEPT !.id = sub.id, !.org = sub.org]

StampSource(v, sub) ==
  [v EXCEPT !.id = sub.id, !.org = sub.org, !.coord = sub.coord]

StripSource(v) == [v EXCEPT !.id = None, !.org = None, !.coord = None]

\* Variation of CacheKey: one entry per diff, whatever the ruleset.
CacheKeyDiffOnly(diff, ruleset) == <<diff, CHOOSE v \in Rulesets : TRUE>>

CacheKey(diff, ruleset) == <<diff, ruleset>>

NewVerdict(sub, decision, source, ruleset, findings) ==
  [id |-> sub.id, org |-> sub.org, coord |-> sub.coord, decision |-> decision,
   source |-> source, ruleset |-> ruleset, findings |-> findings]

\* An advisory stage adds what it finds; wrapped in Optional, its failure or
\* timeout adds a warning instead.  Without the stage nothing is added.
AdvisoryFindings ==
  IF AdvisoryOutcomes = {} THEN {{}} ELSE AdvisoryOutcomes \cup {{"warning"}}

\* The stage chain ran to its end, the advisory stage adding advice.
PipelineVerdict(sub, ruleset, advice) ==
  LET findings == RequiredFindings[sub.diff] \cup advice
  IN  NewVerdict(sub, Consolidate(findings), "pipeline", ruleset, findings)

\* The required stage failed or timed out: the scan of the submitted diff.
FallbackVerdict(sub, ruleset) ==
  LET findings == ScanFindings[sub.diff]
  IN  NewVerdict(sub, Consolidate(findings), "fallback", ruleset, findings)

\* Variations of FailSafeVerdict: no decision is set, a failed scan counts as
\* a clean one, the findings are not filled in.
FailSafeVerdictUndecided(sub, ruleset) ==
  NewVerdict(sub, "", "fallback", ruleset, {"warning"})
FailSafeVerdictOpen(sub, ruleset) ==
  NewVerdict(sub, Consolidate({}), "fallback", ruleset, {})
FailSafeVerdictBare(sub, ruleset) ==
  NewVerdict(sub, "needs_review", "fallback", ruleset, {})

\* The scan failed too: a human has to look.
FailSafeVerdict(sub, ruleset) ==
  NewVerdict(sub, "needs_review", "fallback", ruleset, {"warning"})

------------------------------------------------------------------------------
(* Handle, for the record a replica has in hand. *)

Sub(r) == Content[cur[r]]
Key(r) == CacheKey(Sub(r).diff, RulesetOf[r])

\* Back to the loop, the record's handler having returned.
Finish(r) ==
  /\ Return(r, cur[r])
  /\ pc' = [pc EXCEPT ![r] = "loop"]
  /\ cur' = [cur EXCEPT ![r] = None]
  /\ verdict' = [verdict EXCEPT ![r] = None]
  /\ rowId' = [rowId EXCEPT ![r] = 0]

Goto(r, label) == pc' = [pc EXCEPT ![r] = label]

\* Variation of SkipPoison: the undecodable record is tried again.
SkipPoisonRetry(r) ==
  /\ pc[r] = "loop"
  /\ \E rec \in inflight[r] :
       NextInFlight(r, rec) /\ Content[rec] = Poison
  /\ UNCHANGED vars

\* A record that does not decode is logged and skipped.
SkipPoison(r) ==
  /\ pc[r] = "loop"
  /\ \E rec \in inflight[r] :
       /\ NextInFlight(r, rec)
       /\ Content[rec] = Poison
       /\ Return(r, rec)
  /\ UNCHANGED <<faults, sagaVars>>

Take(r) ==
  /\ pc[r] = "loop"
  /\ \E rec \in inflight[r] :
       /\ NextInFlight(r, rec)
       /\ Content[rec] # Poison
       /\ cur' = [cur EXCEPT ![r] = rec]
  /\ Goto(r, "lookup")
  /\ UNCHANGED <<groupVars, verdict, rowId, cache, tableVars, nextId, failed>>

\* A hit is restamped with the live submission and republished.
CacheHit(r) ==
  /\ pc[r] = "lookup"
  /\ mode[r] = "up"
  /\ cache[Key(r)] # None
  /\ verdict' = [verdict EXCEPT ![r] =
                   [StampSource(cache[Key(r)], Sub(r)) EXCEPT !.source = "cache"]]
  /\ Goto(r, "publish")
  /\ UNCHANGED <<groupVars, cur, rowId, cache, tableVars, nextId, failed>>

\* A miss; an error of the cache is taken for one.
CacheMiss(r) ==
  /\ pc[r] = "lookup"
  /\ Goto(r, "analyze")
  /\ UNCHANGED <<groupVars, cur, verdict, rowId, cache, tableVars, nextId,
                 failed>>

\* Variation of Analyze: every verdict goes by the cache.
AnalyzeCacheAll(r) ==
  /\ pc[r] = "analyze"
  /\ \/ \E advice \in AdvisoryFindings :
          verdict' = [verdict EXCEPT ![r] =
                        PipelineVerdict(Sub(r), RulesetOf[r], advice)]
     \/ verdict' = [verdict EXCEPT ![r] = FallbackVerdict(Sub(r), RulesetOf[r])]
  /\ Goto(r, "store")
  /\ UNCHANGED <<groupVars, cur, rowId, cache, tableVars, nextId, failed>>

\* A verdict of the full pipeline goes by the cache, the others do not.
Analyze(r) ==
  /\ pc[r] = "analyze"
  /\ \/ \E advice \in AdvisoryFindings :
          verdict' = [verdict EXCEPT ![r] =
                        PipelineVerdict(Sub(r), RulesetOf[r], advice)]
     \/ verdict' = [verdict EXCEPT ![r] = FallbackVerdict(Sub(r), RulesetOf[r])]
     \/ verdict' = [verdict EXCEPT ![r] = FailSafeVerdict(Sub(r), RulesetOf[r])]
  /\ Goto(r, IF verdict'[r].source = "pipeline" THEN "store" ELSE "publish")
  /\ UNCHANGED <<groupVars, cur, rowId, cache, tableVars, nextId, failed>>

\* Best effort: the write may fail, and fails once the context is cancelled.
CacheSet(r) ==
  /\ pc[r] = "store"
  /\ \/ mode[r] = "up" /\ cache' = [cache EXCEPT ![Key(r)] = StripSource(verdict[r])]
     \/ UNCHANGED cache
  /\ Goto(r, "publish")
  /\ UNCHANGED <<groupVars, cur, verdict, rowId, tableVars, nextId, failed>>

\* The transaction of outboxstore.Publish.  Its rows are visible from the
\* commit on; the outbox id is drawn at the insert and never given back.
\*
\* Variation of InsertAudit: a statement of its own, outside the transaction.
InsertAuditAlone(r) ==
  /\ pc[r] = "publish"
  /\ mode[r] = "up"
  /\ audit' = audit \cup {[id |-> 0, rec |-> cur[r], verdict |-> verdict[r]]}
  /\ Goto(r, "audited")
  /\ UNCHANGED <<groupVars, cur, verdict, rowId, cache, outbox, nextId, failed>>

InsertAudit(r) ==
  /\ pc[r] = "publish"
  /\ mode[r] = "up"
  /\ Goto(r, "audited")
  /\ UNCHANGED <<groupVars, cur, verdict, rowId, cache, tableVars, nextId,
                 failed>>

InsertOutbox(r) ==
  /\ pc[r] = "audited"
  /\ mode[r] = "up"
  /\ rowId' = [rowId EXCEPT ![r] = nextId]
  /\ nextId' = nextId + 1
  /\ Goto(r, "enqueued")
  /\ UNCHANGED <<groupVars, cur, verdict, cache, tableVars, failed>>

Row(r) == [id |-> rowId[r], rec |-> cur[r], verdict |-> verdict[r]]

Commit(r) ==
  /\ audit' = audit \cup {Row(r)}
  /\ outbox' = outbox \cup {Row(r)}

\* Variation of CommitTx: the record is left in flight.
CommitTxKeep(r) ==
  /\ pc[r] = "enqueued"
  /\ mode[r] = "up"
  /\ Commit(r)
  /\ pc' = [pc EXCEPT ![r] = "loop"]
  /\ cur' = [cur EXCEPT ![r] = None]
  /\ verdict' = [verdict EXCEPT ![r] = None]
  /\ rowId' = [rowId EXCEPT ![r] = 0]
  /\ UNCHANGED <<groupVars, cache, nextId, failed>>

CommitTx(r) ==
  /\ pc[r] = "enqueued"
  /\ mode[r] = "up"
  /\ Commit(r)
  /\ Finish(r)
  /\ UNCHANGED <<faults, cache, nextId, failed>>

\* An error of the transaction: nothing is written and Handle returns the
\* error.  After a shutdown every statement fails, whatever the database does.
PublishFails(r) ==
  /\ pc[r] \in {"publish", "audited", "enqueued"}
  /\ IF mode[r] = "stopping" THEN UNCHANGED faults ELSE Faulty
  /\ failed' = failed \cup {cur[r]}
  /\ Finish(r)
  /\ UNCHANGED <<cache, tableVars, nextId>>

\* The commit took effect and its answer was lost: Handle returns an error.
CommitUnknown(r) ==
  /\ pc[r] = "enqueued"
  /\ IF mode[r] = "stopping" THEN UNCHANGED faults ELSE Faulty
  /\ failed' = failed \cup {cur[r]}
  /\ Commit(r)
  /\ Finish(r)
  /\ UNCHANGED <<cache, nextId>>

\* redis drops an entry: its 72 hours are over, or memory is short.
Expire(k) ==
  /\ cache[k] # None
  /\ cache' = [cache EXCEPT ![k] = None]
  /\ UNCHANGED <<groupVars, handlerVars, tableVars, nextId, failed>>

------------------------------------------------------------------------------
(* The loop around Handle. *)

\* Handle and the open transaction die with the process.
Abandon(r) ==
  /\ pc' = [pc EXCEPT ![r] = "loop"]
  /\ cur' = [cur EXCEPT ![r] = None]
  /\ verdict' = [verdict EXCEPT ![r] = None]
  /\ rowId' = [rowId EXCEPT ![r] = 0]
  /\ UNCHANGED <<cache, tableVars, nextId, failed>>

Die(r) == (Crash(r) \/ Terminate(r)) /\ Abandon(r)

Poll(r) ==
  /\ pc[r] = "loop"
  /\ Fetch(r) \/ FetchError(r) \/ LastPoll(r)
  /\ UNCHANGED sagaVars

Group ==
  /\ \/ \E r \in Replicas : \/ Stop(r) \/ Restart(r)
                            \/ \E p \in Partitions : Assign(p, r)
     \/ \E p \in Partitions : AutoCommit(p)
  /\ UNCHANGED sagaVars

Handle(r) ==
  \/ SkipPoison(r) \/ Take(r) \/ CacheHit(r) \/ CacheMiss(r) \/ Analyze(r)
  \/ CacheSet(r) \/ InsertAudit(r) \/ InsertOutbox(r) \/ CommitTx(r)
  \/ PublishFails(r) \/ CommitUnknown(r)

Next ==
  \/ Group
  \/ \E r \in Replicas : Poll(r) \/ Handle(r) \/ Die(r)
  \/ \E k \in Keys : Expire(k)

Spec == Init /\ [][Next]_vars

\* Scheduling: a live replica goes on polling while there is something to read
\* and goes on with its handler; an unassigned partition is assigned; a replica
\* told to stop does stop, and one that is down is started again.
FetchSome(r) == pc[r] = "loop" /\ Fetch(r) /\ inflight'[r] # {} /\ UNCHANGED sagaVars
Adopt(p) ==
  /\ owner[p] = None
  /\ \E r \in Replicas : Assign(p, r)
  /\ UNCHANGED sagaVars

Fairness ==
  /\ \A r \in Replicas :
       /\ WF_vars(Handle(r))
       /\ WF_vars(FetchSome(r))
       /\ WF_vars(Terminate(r) /\ Abandon(r))
       /\ WF_vars(Restart(r) /\ UNCHANGED sagaVars)
  /\ \A p \in Partitions : WF_vars(Adopt(p))

FairSpec == Spec /\ Fairness

------------------------------------------------------------------------------
(* Properties. *)

Audited(rec) == \E row \in audit : row.rec = rec

(* Durability (D-013): a verdict is in the audit trail exactly when its event
   is in the outbox, whatever fails between the two inserts. *)
AuditOutboxAgree == audit = outbox

(* A verdict carries the identity of the submission it answers -- id,
   organization, repository and commit -- also when another submission with
   the same diff, of another tenant, left it in the cache. *)
VerdictFitsSubmission ==
  \A row \in outbox :
    LET sub == Content[row.rec]
    IN  /\ sub # Poison
        /\ row.verdict.id = sub.id
        /\ row.verdict.org = sub.org
        /\ row.verdict.coord = sub.coord

(* A diff in which the secret scan sees a credential is approved on no path:
   not by the pipeline, a cache entry, the fallback or a failed fallback. *)
SecretNeverApproved ==
  \A row \in outbox :
    "blocking" \in ScanFindings[Content[row.rec].diff]
      => row.verdict.decision # "approved"

(* A verdict said to come from the pipeline or the cache holds everything the
   required stage reports for its diff: an answer of the weaker fallback never
   comes back out of the cache. *)
CachedKeepsFindings ==
  \A row \in outbox :
    row.verdict.source \in {"pipeline", "cache"}
      => RequiredFindings[Content[row.rec].diff] \subseteq row.verdict.findings

(* The decision a verdict states is the one its own findings consolidate to,
   on every path, the fail-safe one included. *)
DecisionMatchesFindings ==
  \A row \in outbox : row.verdict.decision = Consolidate(row.verdict.findings)

(* During a rolling change of the ruleset no replica publishes a verdict made
   under the other version: the shared cache keeps them apart. *)
RulesetHonoured ==
  \A r \in Replicas : verdict[r] # None => verdict[r].ruleset = RulesetOf[r]

(* A submission gets a second audit row only when a fault made the group fetch
   it again: each extra row is paid for by a crash, a shutdown, a rebalance or
   a lost answer. *)
DuplicateNeedsFault ==
  \A rec \in Records :
    Cardinality({row \in audit : row.rec = rec}) <= 1 + faults

\* Why: what a verdict must be for the record it answers, and a cache entry for
\* its key.
GoodVerdict(v, rec) ==
  /\ v \in Verdicts
  /\ Content[rec] # Poison
  /\ v.id = Content[rec].id
  /\ v.org = Content[rec].org
  /\ v.coord = Content[rec].coord
  /\ v.decision = Consolidate(v.findings)
  /\ v.source \in {"pipeline", "cache"}
       => RequiredFindings[Content[rec].diff] \subseteq v.findings
  /\ "blocking" \in ScanFindings[Content[rec].diff] => v.decision # "approved"

GoodEntry(v, key) ==
  /\ v \in Verdicts
  /\ v.ruleset = key[2]
  /\ v.decision = Consolidate(v.findings)
  /\ RequiredFindings[key[1]] \subseteq v.findings

\* The state of a handler at label l, with record c and verdict v in hand.
LabelFits(l, c, v, ruleset) ==
  /\ l # "loop" => c \in Records /\ Content[c] # Poison
  /\ l \in {"store", "publish", "audited", "enqueued"}
       => GoodVerdict(v, c) /\ v.ruleset = ruleset
  /\ l = "store" => v.source = "pipeline"
  /\ v # None => v.ruleset = ruleset

SagaInv ==
  /\ \A r \in Replicas : LabelFits(pc[r], cur[r], verdict[r], RulesetOf[r])
  /\ \A k \in Keys : cache[k] # None => GoodEntry(cache[k], k)
  /\ \A row \in outbox : GoodVerdict(row.verdict, row.rec)
  /\ audit = outbox

\* The account of a record: the rows it has, the replicas that may still write
\* one for it, and the turn it is due are paid for by the faults.
RowsOf(rec) == {row \in audit : row.rec = rec}

AccountInv ==
  \A rec \in Records :
    /\ IsFiniteSet(RowsOf(rec)) /\ IsFiniteSet(Holders(rec))
    /\ Cardinality(RowsOf(rec)) + Cardinality(Holders(rec)) + Due(rec)
         <= 1 + faults

(* With finitely many faults every submission is eventually answered with an
   audited verdict, unless its handler gave up with an error or its fetch was
   discarded; a poison record holds nothing up. *)
EverySubmissionAnswered ==
  \A rec \in Records :
    <>(\/ Content[rec] = Poison /\ rec \in handled
       \/ Audited(rec)
       \/ rec \in failed \cup dropped)

(* What the consumer's comment promises: "processing errors are logged and the
   record is retried by the at-least-once redelivery semantics"
   (kafkabus/consumer.go:57-59) and "saga failed; record will be redelivered"
   (:102).  A record whose Handle failed and that has no verdict is not yet
   behind the committed offset. *)
FailedWillBeRedelivered ==
  \A rec \in failed : Audited(rec) \/ committed[rec[1]] < rec[2]
==============================================================================
