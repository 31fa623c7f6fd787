# A verification development for MEMBRANE.AI

TLA+ models of the services' protocols, TLC configurations that check them on
small instances, and TLAPS proofs of what matters most for every instance.
`PROJECT.json` lists the runs, the mutants that show each property can fail,
the source lines behind every definition, the hazards and the theorems.

All paths below are relative to the repository (`src/` in `PROJECT.json`).

## 1. Inventory

A submission (a diff with its organization and, where known, its commit) enters
through **ingestion**, travels as a `code.submission.v1` record to the
**orchestrator**, which asks the **analyzer** and the **semantic** service,
decides, and hands a verdict to its outbox; the relay puts it on
`code.verdict.v1`; the **reporter** tells the destinations.  Records of one
organization share a partition (the key is the organization).  Beside this
pipeline stands **release assurance** (`pkg/assurance`), which combines a code
verdict with an external AgentTwin evaluation.

| component | state it keeps | operations | talks to |
|---|---|---|---|
| consumer loop (`*/adapters/kafkabus/consumer.go`) | the client's positions and committed offsets | `Run`: poll, give each record to a handler; `Close` | Kafka; the Saga or the dispatcher |
| Saga (`orchestrator/internal/app`) | none of its own; the verdict cache in redis | `Handle`: cache, stages, fallback, publish | redis, analyzer, semantic, PostgreSQL |
| outbox and relay (`adapters/outboxstore`) | tables `verdict_audit`, `outbox` | `Publish`, `PublishPending`, `Run` | PostgreSQL, Kafka |
| reporter (`services/reporter`) | the delivery log, in memory or redis | `Handle`: claim, notify, take back | Kafka, redis, webhook, GitHub |
| release gate (`pkg/assurance`) | none | `MapEvalStatus`, `Decide`, `combinedGate`, `Validate`, `MapSCMStatus` | -- |
| evidence (`pkg/assurance`, `pkg/cmd`) | one JSON file per release; the commit's status | `Put`, `Get`, `List`, publish | AgentTwin, file system, GitHub |
| ingestion | its open calls and the life of the process | `SubmitDiff`, `StreamCodeDiff`, webhook; one synchronous produce each; shutdown | Kafka |
| stages (`orchestrator/internal/adapters`) | the text and the budget that one chain hands on | required stage, context, advice, fallback | analyzer, resolver, semantic |
| analyzer, `pkg/scan` | none | detect, mask | -- |
| semantic (Python) | none beyond a request | local model, cost gate, consensus of the premium models, fallback | model servers, providers |
| resolver | tables it only reads | vector search within an organization | PostgreSQL |
| gateway | none | tool-call, package and agent policy, audit | -- |
| CLI | none | walk and scan a tree, grade it, exit code | `pkg/scan` |
| editor, dashboard | none | submit, show | the services |

What is hard:

* *Replicas.*  Orchestrator and reporter run as consumer groups; rebalances do
  not stop the old owner, and their state is shared (redis, PostgreSQL).
* *Partial failure.*  Each handler makes several calls, each of which may fail,
  or take effect and fail to say so.
* *Crash and shutdown.*  `run` returns on a signal without waiting for the
  consumer goroutine; a process may die between any two calls.
* *At-least-once with no feedback.*  The handler's error never reaches the
  loop, and the client autocommits what the next poll leaves behind.
* *Retries without identity.*  Each attempt at a diff gets a new id, and the
  attempt it replaces may still be on its way.
* *Time.*  Stages share a budget and outlive the calls they make: an answer may
  come when nobody waits for it any more.
* *Degraded modes.*  Fallback, fail-safe, optional stages and cached verdicts
  are different strengths of one answer, and must not be taken for each other.

What makes each component correct:

* consumer loop -- no record falls behind the committed offset unless its
  handler returned or its fetch was discarded; every record is dealt with;
* Saga -- one verdict event per audit row; a verdict is about its own
  submission, under its replica's ruleset, decided as its findings say, never
  an approval of a seen credential, never a weak answer out of the cache;
* outbox -- at-least-once, nothing uncommitted, each copy explained, order, and
  nothing passed over but what a relay has in hand;
* reporter -- each destination once, none lost silently, marks that mean
  delivery, and of several verdicts the first one shown and kept;
* ingestion -- acknowledged only when produced, in the caller's order, each diff
  answered;
* stages and semantic service -- a verdict in time whoever is silent, nothing
  shown unmasked, no objection lost on the way to an approval, all of the advice
  or word that it is missing;
* gateway -- allowed only if audited and if nothing speaks against it;
* client -- exit code, report, analyzer and verdict agree;
* release -- green only for clean and really evaluated, red only for cause, the posted status is
  the stored record's, and a record once seen stays.

`PROJECT.json` lists the hazards with the line where each one bites.

## 2. Modules

| module | models | reads on |
|---|---|---|
| `ConsumerGroup` | the consumer loop and the group around it | -- |
| `Saga` | `ProcessSubmission.Handle` in N orchestrator replicas | `ConsumerGroup` |
| `OutboxRelay` | the outbox table, its writers and N relays | -- |
| `VerdictDelivery` | what the outbox promises (abstract) | -- |
| `Dispatch` | `DispatchVerdict.Handle` in N reporter replicas | `ConsumerGroup` |
| `ReleaseGate` | the gate as operators | -- |
| `ReleaseEvidence` | N invocations of the command, the store, readers | `ReleaseGate` |
| `Ingestion` | the service's calls, its shutdown, and callers that retry | -- |
| `Pipeline` | diff to verdict event: intake, a partition's owners, outbox | `Ingestion`, `OutboxRelay` |
| `Scan` | the detectors of `pkg/scan` as operators | -- |
| `Analysis` | one submission in the stage chain and the services behind it | `Scan` |
| `CommandLine` | the client as operators | `Scan` |
| `Gateway` | the gateway's decisions as operators | -- |
| `Agreement` | what client and chain say of one text; the gateway | `Analysis`, `CommandLine`, `Gateway` |
| `MC*` | instances for TLC | the module named |
| `*Proofs` | theorems | the module named |

### ConsumerGroup

`owner`, `position`, `head`, `committed` are what broker and client know per
partition; `mode` and `inflight` a replica's life and its current batch.
`handled` and `dropped` are history.  The loop of `consumer.go` appears as
`Fetch`, `FetchError` (the `continue` that forgets the batch), `LastPoll`
(cancelled context) and, for a handler's end, `Return`.  Broker and library are
external: a poll makes all of the previous batch committable (`head`), a
background `AutoCommit` writes it, `Assign` gives a partition to a replica that
starts at the committed offset while the old owner goes on with what it holds,
`Crash`, `Stop`, `Terminate` and `Restart` are a replica's life.  `Terminate`
may happen inside a handler, because `run` does not wait for the loop.
Faults share one counter with the bound `MaxFaults`.

`GroupSpec` is the group with an arbitrary handler; a component that consumes
is shown to implement it.

### Saga

`pc` walks a handler through `lookup`, `analyze`, `store`, `publish`,
`audited`, `enqueued`; each label is a point between two calls at which the
process may die or another replica may act.  Findings are sets of severities,
a commit is one value (`coord`), diffs and rulesets are model values, a cache
key is the pair that is hashed.  `CacheMiss` is also the read error, which the
code takes for a miss; `CacheSet` may fail silently.  `Analyze` has one
outcome per path: the pipeline with what the advisory stage adds (`Optional`
turns its failure into a warning), the fallback scan, the fail-safe verdict.
The transaction is two inserts and a commit, whose rows appear at the commit;
`CommitUnknown` is a commit whose answer is lost.  After a shutdown
(`mode = "stopping"`) every call made with the consumer's context fails, while
the fallback, which has a context of its own, still works.  The model is of
the deployment with Kafka, PostgreSQL and redis.

### OutboxRelay and VerdictDelivery

A row is `absent`, `open` (inserted, not committed), `there` or `aborted`; its
id is drawn at the insert, so that ids may become visible out of order.  A
relay's tick takes a snapshot (`Begin`), walks it row by row, skipping locked
rows and rechecking marks (`Scan`), produces in id order (`Publish`), updates
(`Mark`) and commits (`CommitTick`).  Each error rolls the tick back.  The
database may also drop the session in the middle (`SessionLost`): the locks go
at once, the relay finds out at its next statement.  `VerdictDelivery` states
the promise: events are promised by a commit, delivered at least once, struck
off only when delivered, with one more copy allowed per mishap.  `OutboxRelay`
implements it with `promised <- There`, `settled <- marked`,
`mishaps <- faults`.

### Dispatch

`pc` is `claim`, `notify` or `unmark` at the notifier `next`.  `LogOf`, fixed
by the deployment, says which delivery log a replica uses: redis for all, or
its own memory, which a crash empties.  Each call on redis and each
notification may fail, and may fail after it took effect; `Unmark`'s error is
dropped, as in the code.  `Expire` is the 72-hour limit or an eviction.  The
log notifier is left out: it cannot fail.  The GitHub notifiers are modelled
for verdicts that carry a commit.  A memory log shared by several replicas
cannot exist; several replicas with a memory each are what `memorylog.go`'s
comment warns of, and are modelled because nothing prevents them.
`orphans`, `refused` and `expired` are history: keys whose claim may have
outlived its claimant, keys for which a call failed, and keys whose mark redis
dropped.  The mode is `enforce`, in which the three decisions have three
outcomes, so that of two verdicts it is seen which one a destination shows.

### ReleaseGate and ReleaseEvidence

An evaluation is its raw status and the set of scenario classes it saw, since
the code only compares counts with zero, and a scan is the set of severities
the client found.  `ReleaseEvidence` follows
invocations of `release-evidence` with `--store` and `--publish-shadow` for one
release: read the scan and fetch the evaluation (from an AgentTwin, if there is
one to ask and its URL passes `CheckURL`, else the one that is built in), build
(or refuse), the three steps of `FileStore.Put` (read,
truncating open, write), post.  A record is told apart by its run, as its
`created_at` does.  `Read` is `evidence-api` or `--regenerate`.  The commit
status is modelled by its outcome; GitHub is sent `pending` for `neutral`.
`raced` is history: invocations that came to write without seeing that another
was writing or had written.

### Ingestion and Pipeline

A call is `recv` (waiting for a diff), `produce` (in `ProduceSync`) or `landed`
(the record is appended and the handler does not know yet); a stream goes back
to `recv`, any other call ends with its answer.  `here` says whether the caller
is still there: a handler without a caller finds out only when it receives or
answers, so that its produce may overlap the caller's next call.  `Unavailable`
is the produce error of a record that is there or is not; `Fits` separates the
diffs whose encoded record the broker takes from those that pass the limit of
`submission.go` and not the broker's.  `Sigterm`, `GrpcDrained` and `Stopped`
are the order of `run`: gRPC drains first and without a bound, the webhook takes
calls until then.  `Stopped` at any time is also the platform's kill.  Callers
are external and do what a caller that wants its diffs in order can do: go on
after an answer, repeat after none.  The books of the intake are those of
`VerdictDelivery`: a diff is promised when it is admitted, settled when it is
acknowledged.

`Pipeline` puts a partition of the orchestrator behind the topic and the outbox
with its relay behind that.  Of the Saga it keeps what `Saga` and
`ConsumerGroup` show: one record after the other, one row or an error for each,
and a new owner that goes back to a record already handled while the old one
goes on.

### Scan and Analysis

A text is a sequence of lines, a line a set of marks: which pattern matches in
it, or half of one.  `SecretDetect` looks at lines, `Mask` at the text, as the
code does, so that a credential over two lines is masked and not reported.

`Analysis` follows one submission: `pc` is `required`, `context`, `resolving`,
`advice`, `waiting`, `verdict`, `fallback` or `done`.  `left` is the budget of
the context that the calls share, counted in ticks; a call fails at any time,
and must return when nothing is left.  The request at the semantic service
(`task`) goes on by itself: the local model answers or the heuristic does in its
place, the cost gate asks the reviewers, each of which answers, fails or runs
into its deadline, and the answer may find nobody.  What a model answers is any
of `ModelAnswers`, made-up severities included.  `setup` ranges over what `wire`
and `build` can come to: without the analyzer the stage in the process scans
and masks nothing; the premium tier without a key refuses to run.
`shown` is history: each text that has left for the resolver or a model.

### CommandLine, Gateway and Agreement

Both are sequential and keep nothing; their modules are operators.
`CommandLine` has `runner.Run` (what the walk reaches, which files are eligible,
findings and masked excerpts), `report.Build` (grade, capped detail, tables of
rules, directories and files) and the exit code.  What the client may be given
is a constant (`Trees`, `Options`, `Outcomes`; files are numbered in the order of
their paths), and the table of rules is a set.  A finding's text, the scores'
digits and the rendering are left out.  `Gateway` has the three decisions over names
that are sequences of bytes, with the edit-distance check as it is coded, and
the handlers' rule that an answer that cannot be audited is not given.
`Agreement` compares the client, which has the detectors built in, with the
chain, which asks for them, on a text that both were given (`OneOpinion`).  The
two share no state: an opinion is a file the client scanned on its own, its
flag and its exit code.

## 3. Runs

| run | instance | checks |
|---|---|---|
| `saga` | 2 replicas on two rulesets, 2 partitions with one submission each (two tenants, the same diff with a credential), 1 fault | types and eight safety properties |
| `saga_live` | 2 replicas, 1 partition: a poison record, then a submission; 1 fault; fair | every submission is answered |
| `saga_redelivery` | the same | *violated*: a failed record is redelivered |
| `relay` | 2 relays, 3 rows of two organizations, batch 2, 1 fault; fair | the inductive invariant, at-least-once as refinement, what may be overtaken, liveness |
| `relay_order` | 2 relays, no fault | *violated*: order per organization |
| `dispatch` | 2 replicas, redis or two memories, 2 destinations, a poison record and two differing verdicts of one submission, 1 fault, enforce mode; fair | six properties |
| `dispatch_skip` | the same | *violated*: what is skipped was delivered |
| `release` | 2 invocations, one with every input the command can come by | five properties |
| `release_critical` | the same | *violated*: a critical failure blocks |
| `release_store` | the same | *violated*: a served record never changes |
| `pipeline` | an IDE that streams a valid, a blank and a valid diff, a webhook with a diff too large for the broker; 2 calls, 2 owners, 1 relay, 4 rows, 1 mishap of any kind; fair | types, order at the topic and end to end, the intake as refinement, an answer to each diff |
| `analysis` | 6 diffs, 2 reviewers, every sensible deployment, stage budget of 3 ticks and fallback of 1; fair | types, time, masking, advice, a verdict for each; the client over 1024 trees, by itself and against the chain's verdict on the same text; in one of its states the gateway over all names of up to 4 bytes |

**Bounds.**  Two replicas are enough for every race here: each property relates
one record, row or key to at most two parties at a time.  One fault lets a
crash meet each point of a handler, and a rerun follows with no bound of its
own; expiry in the Saga and advisory outcomes are not faults and are unbounded.
Three rows with a batch of two make a tick stop at its limit, leave a row for
another tick, and have a row of another organization in between.  In `release`
the rerun has two inputs, one clean and one critical, so that the second record
always differs from the first in what it says; the first invocation goes
through all code verdicts, statuses, classes and modes, and sources that are
asked, replaced by the built-in evaluation, or refused.  The command leaves the
policy at its zero value and fetches no count of errored scenarios: the runs
keep to that, while the theorems hold for all policies and classes.  Three ticks
leave time to be used up before, in and after each of the calls; one for the
fallback lets it finish or not.  Two reviewers give all, one and none answering.
One mishap in `pipeline` is a crash, a shutdown, a lost caller, a lost answer, a
takeover or a failed tick, at each point of the path: the four rows are the
two records that get to the topic and both of them again after a takeover.  That
the order survives any number of faults along the path is proved.  The client's trees vary a linked or
skipped root, a closed, a skipped and an ordinary directory, a file that is too
big or unreadable, and their contents, which include every diff the chain is given.  The
gateway has no state, so that one state of the run evaluates what is said of it.
Deadlock is not checked in `release`, `pipeline` and `analysis`: invocations,
scripts and chains end.  In the other runs it is.

**Fairness.**  Weak fairness of a live replica's handler and of fetching what
is there: a goroutine runs and each call has a timeout or a cancelled context.
Weak fairness of adopting an orphaned partition (the group coordinator), of a
replica told to stop stopping (its `run` returns), of a stopped one starting
(the restart policy), of a relay's tick (its ticker) and of the end of an
inserting transaction (it commits, rolls back, or its session dies).  In `Ingestion`
callers try again and close a stream they are done with, a handler whose call
has returned goes on, a shutdown ends (the process, or the platform's patience)
and the process is restarted.  In `Analysis` time passes and the process takes
the steps that are its own; a call on another service returns only when its
budget is used up, and no other service need ever answer.  Faults
are finite by their bound; no fairness is assumed of fault actions, and none of
`AutoCommit`, which liveness does not need.

**What the violations say.**
`saga_redelivery`: the error of `Handle` ends in a log line; the next poll makes
the record committable (`orchestrator/.../consumer.go:57-59, 100-104`).  The
reporter's loop is the same (`reporter/.../consumer.go:110`).
`relay_order`: one relay claims an organization's first row, another skips it
and ships the next (`store.go:101-107` against `publisher.go:17-18`).
`dispatch_skip`: a crash after the claim, and the retry passes the destination
over as delivered (`dispatch.go:43-50`).
`release_critical`: incomplete and errored scenarios are looked at first
(`status.go:89-103`).
`release_store`: read-then-write under a mutex of one process
(`store.go:97-99, 131-143`).

**Mutants.**  Each property has a variation of a modelled definition that breaks
it, defined next to the original ("Variation of ..."): a guard dropped, a field
not restamped, a claim kept, a lock not released.  They are no part of the
specification.

## 4. Proofs

TLAPS 1.4.5 with Z3, Zenon and LS4.  Everything is proved from the ASSUMEs of
the modules, which TLC evaluates in each run.  They say that `None` and
`Poison` are no members of other sets, that constants have their types, that a
tree has finitely many files with distinct paths, and, in the Saga, that the
fallback scan finds no more than the required stage, which runs the same
detector.  Two theorems have a hypothesis of their own: `OneRelay` and `Uniform`,
below.

* `ConsumerGroupProofs`: `GroupInv` is inductive with the types: what may be
  committed is settled, and what has been returned to an owner is settled or
  still in its hands.  `CommittedSettled` follows.  It needs the second part:
  the next poll turns "returned" into "committable".  A second part of the module
  counts, for one record, the replicas that still have it in their hands and
  whether it is due to be fetched again: only a fault adds to the sum, which is
  what both consumers' accounts of copies are built on.
* `SagaProofs`: each step of the Saga is a step of the group or leaves it alone
  (`SagaImplementsGroup`), so that the group's theorems carry over.  `SagaInv`
  ties the verdict in a handler's hands to the record and the ruleset, and each
  cache entry to its key; each safety property follows from it but
  `DuplicateNeedsFault`.  That one needs `AccountInv`: the audit rows of a record,
  the handlers that may still write one, and the turn the record is due, come to
  one more than the faults at most.  A bound on the rows alone says nothing about
  the handler that is about to add one.
* `DispatchProofs`: each step of the reporter is a step of the group, or a failed
  call of the handler, which the group allows for.  `DispatchInv` says of a
  handler that it has accounted for each notifier behind it, and of a mark that
  it stands for a delivery, for a claim of a replica that uses the very same log,
  or, outside a memory, for an orphan.  `MarkMeansDelivered` alone is not
  inductive: a claim in progress in one log says nothing of a mark in another,
  which must not lose its backing when that claim is given up.
  `DuplicateNeedsFault` holds for a log that all replicas share, by counting
  posts, claims and the room for one more; a claim of a stopping replica counts
  twice, since its notification may take effect and its claim be dropped for one
  fault, the signal, that has been paid already.  For logs in memory it holds when
  there is one partition: copies then come to the replicas that serve it, and each
  new one has cost a rebalance.  `Uniform` says that the deployment is one of the
  two.  With memories and several partitions two records of one submission may go to
  two replicas, and the claim is false.  `FirstVerdictStands` needs more of the
  group: `InOrder` (what precedes a record in hand is in hand too, or settled),
  which is proved there for any handler.  A replica that claims an unaccounted
  key is at the next of its records; a verdict before it was settled, and had
  it been handled the key would be accounted for, so that it was discarded.
  `FirstInv` adds that a clean key is marked from the claim on and has one
  claimant at a time.
* `OutboxRelayProofs`: `RelayInv` (locks, claims, sent rows and marks agree; a
  relay holds all its locks or none) gives the types of the promise.  For the
  copies it is not enough: a relay that lost its session will still produce what
  it had claimed.  `CopyInv` counts copies and such relays together against the
  faults.  From the two, each step of the relay is a step of `VerdictDelivery`.
  With one relay (`OneRelay`) the order holds that the run `relay_order` refutes
  for two: `OrderInv` says of each row in a tick's hands that the rows before it
  are on the topic or in the same hands, in front of it.  With any number,
  `OvertakenIsInHand` says how far from the order two may come: while no tick has
  failed, what is passed over is claimed, since a claim ends with the row on the
  topic (`OvertakingInv`).
* `IngestionProofs`: `IngestInv` says that everything a caller has behind it is on
  the topic or was refused, and that a call with a caller serves the very place
  its caller is at, while one without may be anywhere before.  Order follows:
  a record appended now is at or behind its caller's place.  `CopyInv` counts the
  copies of a diff, the handlers without a caller that may yet make one and a
  shutdown under way (which cuts off several calls at the price of one fault)
  together against the faults; with it each step is one of `VerdictDelivery`.
* `PipelineProofs`: a behaviour of the pipeline is one of the intake and one of the
  outbox (`PipelineIsBoth`), so that what is proved of them holds here, with no
  second proof.  What the composition adds is `PipeInv`: an owner's open row
  answers the next record, each record behind it has a row that is committed or
  given up, and, when a row is inserted, the rows of all earlier records are
  there or were given up.  With `FirstCopiesInOrder` in front and `OrderInv` behind,
  `VerdictOrder` is a chain of three: diff before diff on the first topic, record
  before record in the table, row before row on the second.
* `AnalysisProofs`, the chain: `TimeInv` (what has elapsed and what is left come to
  the budget), `MaskInv` (from the context on the text is masked, and so is what
  has been shown), `JudgeInv` (what the required stage found stays found; what
  the request knows is in the findings, is still to be taken over, or has been
  replaced by the warning) and `SourceInv` (what stands in the findings under the
  name of the analyzer is all the library finds in the diff, and what stands
  there under the scan's is a credential) are inductive with the types.  The
  lemma behind `MaskInv` is `MaskLeaksNothing`: nothing in a masked text matches
  again, also across lines.  The client: a table cut to its first *n* rows has *n*,
  by the pigeonhole principle on ranks (`FirstOnes`); sums are defined as numbers of
  units, so that a table adds up because its rows share out the findings
  (`SumOfParts`), without induction; the table of rules does because a rule has one
  severity.  `ClientIsSound` joins the two: it needs `SourceInv`, because the
  decision alone does not say whose finding it was for.  The gateway: the
  one-pass check, which looks at the first difference only, is the definition of
  one edit: for equal lengths by cardinality, else because the byte to leave out
  may always be the one at the first difference.
* `ReleaseProofs`: `BuiltInv` (an input was fetched, a record is what its input comes
  to, the status what its record does) gives the properties of the gate for all
  inputs; `StoreInv` (until invocations overlap one at a time writes, and only
  while nobody has posted or read) those of the store.

The types of relay, reporter and release model, and the group's, the Saga's, the
reporter's and the intake's inductive invariants, are proved and listed by no
run; they were checked on the runs' instances before they were proved.

Only model-checked: the liveness properties (`EverySubmissionAnswered`,
`EveryRowMarked`, `EveryVerdictReported`, `EveryItemAnswered`,
`EveryDiffJudged`), which are beyond the prover.  Every invariant and every action
property or refinement of the passing runs is proved.

## 5. Not modelled

The status of every component is in `PROJECT.json`.  Left out on purpose:

* wording of findings and reports, rendering, tracing, configuration, TLS and
  authentication (a webhook with a wrong signature is one of the invalid diffs),
  user interfaces, and the offline evaluation harness;
* the regular expressions: a pattern is a mark, and only that one of them reaches
  over a line's end is kept.  That the body of a private key is no match, in
  the code as in the model, is why a masked text may still hold one;
* the resolver's search: its result goes to the model's prompt and nowhere else;
* `PublishPending` with a row that the broker will never accept, since the
  relay's faults end (the same case is modelled at the intake);
* the in-memory publisher and cache of the development mode, and direct
  publishing without PostgreSQL: one call each, without state to get wrong;
* `MemStore` and `IdempotentPublisher`, which no command shares between callers.

## 6. Plan

Done: all modules of section 2 and the proofs of section 4.

What is left, in this order:

1. the Saga as a refinement of what `Pipeline` keeps of it, so that the order
   end to end is proved of `ProcessSubmission.Handle` itself;
2. a bound on copies along the whole path, from the three accounts;
3. `List` over a store with a truncated record;
4. the search of the resolver within an organization, once something that is
   modelled depends on it.
