------------------------------ MODULE Pipeline -------------------------------
(***************************************************************************)
(* From a caller's diff to its verdict event: the ingestion service, the   *)
(* orchestrator's replicas that consume its topic, and the outbox with one *)
(* relay.                                                                  *)
(*                                                                         *)
(* The orchestrator is reduced to what Saga shows of it for a partition:   *)
(* an owner handles the records in order, each in a transaction that       *)
(* writes one outbox row or gives up; a new owner goes back to a record    *)
(* that has been handled, while the old one may still go on.               *)
(***************************************************************************)
EXTENDS Ingestion

CONSTANTS
  Relays, None, MaxRows, OrgOf, Batch,  \* as in OutboxRelay
  MaxRelayFaults,                       \* its MaxFaults
  Owners, FirstOwner,                   \* replicas that may own the partition
  MaxTakeovers,                         \* bound on restarts and rebalances
  MaxMishaps                            \* bound on all of these together

VARIABLES
  nextId, state, earlier, marked, lock, phase, todo, claimed, sent,
              \* as in OutboxRelay
  verdicts,   \* code.verdict.v1, as rows of the outbox
  relayFaults,
  owners,     \* the replicas at work on the partition
  consumed,   \* owner -> records of the submission topic it has behind it
  row,        \* owner -> the row its transaction has inserted, or 0
  recordOf,   \* row -> the record it answers
  takeovers   \* restarts and rebalances so far

Outbox == INSTANCE OutboxRelay
            WITH topic <- verdicts, faults <- relayFaults,
                 MaxFaults <- MaxRelayFaults

ASSUME PipelineAssumption ==
  /\ Outbox!RelayAssumption
  /\ FirstOwner \in Owners
  /\ MaxTakeovers \in Nat
  /\ MaxMishaps \in Nat

sagaVars == <<owners, consumed, row, recordOf, takeovers>>
outboxVars == <<nextId, state, earlier, marked, lock, phase, todo, claimed,
                sent, verdicts, relayFaults>>
pipeVars == <<vars, sagaVars, outboxVars>>

PipeTypeOK ==
  /\ TypeOK
  /\ Outbox!TypeOK
  /\ owners \subseteq Owners
  /\ consumed \in [Owners -> 0..Len(topic)]
  /\ row \in [Owners -> 0..MaxRows]
  /\ recordOf \in [1..MaxRows -> 0..Len(topic)]
  /\ takeovers \in 0..MaxTakeovers

PipeInit ==
  /\ Init
  /\ Outbox!Init
  /\ owners = {FirstOwner}
  /\ consumed = [w \in Owners |-> 0]
  /\ row = [w \in Owners |-> 0]
  /\ recordOf = [i \in 1..MaxRows |-> 0]
  /\ takeovers = 0

\* The handler has a verdict for the next record, and its transaction inserts.
Begin(w) ==
  /\ w \in owners
  /\ row[w] = 0
  /\ consumed[w] < Len(topic)
  /\ Outbox!Insert
  /\ row' = [row EXCEPT ![w] = nextId]
  /\ recordOf' = [recordOf EXCEPT ![nextId] = consumed[w] + 1]
  /\ UNCHANGED <<owners, consumed, takeovers, vars>>

\* Variation of EndTransaction: the loop passes a record over.
EndTransactionPast(w) ==
  /\ row[w] # 0
  /\ Outbox!EndInsert(row[w])
  /\ consumed' = [consumed EXCEPT ![w] = recordOf[row[w]] + 1]
  /\ row' = [row EXCEPT ![w] = 0]
  /\ UNCHANGED <<owners, recordOf, takeovers, vars>>

\* It commits, or fails; either way the loop goes on to the next record.
EndTransaction(w) ==
  /\ row[w] # 0
  /\ Outbox!EndInsert(row[w])
  /\ consumed' = [consumed EXCEPT ![w] = recordOf[row[w]]]
  /\ row' = [row EXCEPT ![w] = 0]
  /\ UNCHANGED <<owners, recordOf, takeovers, vars>>

\* A replica becomes the owner, or comes back after a restart, and resumes at
\* the committed offset, which is no further than what has been handled.
TakeOver(w) ==
  /\ row[w] = 0
  /\ takeovers < MaxTakeovers
  /\ takeovers' = takeovers + 1
  /\ owners' = owners \cup {w}
  /\ \E v \in owners : \E n \in 0..consumed[v] :
       consumed' = [consumed EXCEPT ![w] = n]
  /\ UNCHANGED <<row, recordOf, vars, outboxVars>>

Relay ==
  /\ \E r \in Relays : Outbox!Tick(r) \/ Outbox!Fault(r)
  /\ UNCHANGED <<vars, sagaVars>>

PipeNext ==
  /\ \/ Next /\ UNCHANGED <<sagaVars, outboxVars>>
     \/ \E w \in Owners : Begin(w) \/ EndTransaction(w) \/ TakeOver(w)
     \/ Relay
  /\ faults' + relayFaults' + takeovers' <= MaxMishaps

PipeSpec == PipeInit /\ [][PipeNext]_pipeVars /\ Fairness

------------------------------------------------------------------------------

AnswerTo(i) == topic[recordOf[i]]
GivenUp == {topic[recordOf[i]] : i \in {j \in 1..MaxRows : state[j] = "aborted"}}

(* Order end to end, for a caller whose organization is one partition: its
   verdicts first appear on the verdict topic in the order it submitted the
   diffs, whatever is retried, produced twice, handled twice or shipped twice
   on the way -- but for a diff whose handler gave up with an error.
   (publisher.go:17-18: the "same per-tenant ordering guarantee as
   submissions".) *)
VerdictsInOrder ==
  \A n \in DOMAIN verdicts : \A c \in Callers : \A j \in DOMAIN Script[c] :
    AnswerTo(verdicts[n]) = Script[c][j] =>
      \A i \in 1..(j - 1) :
        Script[c][i] \in Valid \ GivenUp =>
          \E m \in 1..n : AnswerTo(verdicts[m]) = Script[c][i]

\* Why: what a handler is at is the next record, no record is passed over, and
\* when a row is inserted the rows of the records before its own are there, or
\* were given up.
Answers(i, k) == recordOf[i] = k
Ended(i) == state[i] \in {"there", "aborted"}
PipeInv ==
  /\ \A w \in Owners : row[w] # 0 =>
       /\ row[w] < nextId
       /\ state[row[w]] = "open"
       /\ Answers(row[w], consumed[w] + 1)
  /\ \A w, v \in Owners : row[w] # 0 /\ row[w] = row[v] => w = v
  /\ \A i \in 1..MaxRows : i < nextId => recordOf[i] # 0
  /\ \A w \in Owners : \A k \in 1..consumed[w] :
       \E i \in 1..MaxRows : Answers(i, k) /\ Ended(i)
  /\ \A i \in 1..MaxRows : i < nextId =>
       \A k \in 1..(recordOf[i] - 1) :
         \E j \in 1..MaxRows :
           Answers(j, k) /\ (j \in earlier[i] \/ state[j] = "aborted")
==============================================================================
