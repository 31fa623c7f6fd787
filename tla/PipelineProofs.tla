---------------------------- MODULE PipelineProofs ----------------------------
(***************************************************************************)
(* From a caller's diff to its verdict: the composition keeps what each of *)
(* its parts promises by itself, and with one relay the verdicts come in   *)
(* the order of the diffs, for any number of callers, diffs, replicas,     *)
(* restarts and faults.                                                    *)
(***************************************************************************)
EXTENDS Pipeline, IngestionProofs

\* The outbox of the pipeline, with what is proved of it.
Rows == INSTANCE OutboxRelayProofs
          WITH topic <- verdicts, faults <- relayFaults,
               MaxFaults <- MaxRelayFaults

LEMMA RowsAssumption == Rows!RelayAssumption
BY PipelineAssumption DEF Rows!RelayAssumption, Outbox!RelayAssumption,
                          Rows!IsFiniteSet, Outbox!IsFiniteSet

(* Both names of the outbox are of one thing. *)
LEMMA SameState ==
  /\ Outbox!Init <=> Rows!Init
  /\ Outbox!TypeOK <=> Rows!TypeOK
  /\ Outbox!OneRelay <=> Rows!OneRelay
BY DEF Outbox!Init, Rows!Init, Outbox!TypeOK, Rows!TypeOK, Outbox!Ids, Rows!Ids,
       Outbox!OneRelay, Rows!OneRelay

LEMMA SameInsert ==
  /\ Outbox!Insert <=> Rows!Insert
  /\ \A i : Outbox!EndInsert(i) <=> Rows!EndInsert(i)
BY DEF Outbox!Insert, Rows!Insert, Outbox!EndInsert, Rows!EndInsert,
       Outbox!There, Rows!There, Outbox!Ids, Rows!Ids, Outbox!relayVars,
       Rows!relayVars

LEMMA SameEndTick == ASSUME NEW r PROVE Outbox!EndTick(r) <=> Rows!EndTick(r)
BY DEF Outbox!EndTick, Rows!EndTick, Outbox!Ids, Rows!Ids

LEMMA SameTick == ASSUME NEW r PROVE Outbox!Tick(r) <=> Rows!Tick(r)
<1> USE SameEndTick
        DEF Outbox!Held, Rows!Held, Outbox!Scanned, Rows!Scanned,
            Outbox!IsLowest, Rows!IsLowest, Outbox!Cardinality, Rows!Cardinality
<1>1. Outbox!Begin(r) <=> Rows!Begin(r)
  BY DEF Outbox!Begin, Rows!Begin, Outbox!Pending, Rows!Pending, Outbox!There,
         Rows!There, Outbox!Ids, Rows!Ids
<1>2. Outbox!Scan(r) <=> Rows!Scan(r)
  BY DEF Outbox!Scan, Rows!Scan, Outbox!Pending, Rows!Pending, Outbox!There,
         Rows!There, Outbox!Ids, Rows!Ids
<1>3. Outbox!Nothing(r) <=> Rows!Nothing(r)
  BY DEF Outbox!Nothing, Rows!Nothing
<1>4. Outbox!Publish(r) <=> Rows!Publish(r)
  BY DEF Outbox!Publish, Rows!Publish, Outbox!NextToSend, Rows!NextToSend,
         Outbox!Ids, Rows!Ids
<1>5. /\ Outbox!Mark(r) <=> Rows!Mark(r)
      /\ Outbox!CommitTick(r) <=> Rows!CommitTick(r)
      /\ Outbox!StatementFails(r) <=> Rows!StatementFails(r)
  BY DEF Outbox!Mark, Rows!Mark, Outbox!CommitTick, Rows!CommitTick,
         Outbox!StatementFails, Rows!StatementFails
<1> QED
  BY <1>1, <1>2, <1>3, <1>4, <1>5 DEF Outbox!Tick, Rows!Tick

LEMMA SameFault == ASSUME NEW r PROVE Outbox!Fault(r) <=> Rows!Fault(r)
BY SameEndTick
   DEF Outbox!Fault, Rows!Fault, Outbox!Fail, Rows!Fail,
       Outbox!PublishUnknown, Rows!PublishUnknown, Outbox!CommitUnknown,
       Rows!CommitUnknown, Outbox!SessionLost, Rows!SessionLost,
       Outbox!NextToSend, Rows!NextToSend, Outbox!IsLowest, Rows!IsLowest,
       Outbox!Held, Rows!Held, Outbox!Scanned, Rows!Scanned, Outbox!Faulty,
       Rows!Faulty, Outbox!Ids, Rows!Ids, Outbox!Cardinality,
       Rows!Cardinality, Outbox!relayVars, Rows!relayVars

------------------------------------------------------------------------------
(***************************************************************************)
(* Each step of the pipeline is one of its parts.                          *)
(***************************************************************************)

\* What is needed of a row for its commit to be a step of the outbox.
RowType == row \in [Owners -> 0..MaxRows]

LEMMA IngestionStep == [PipeNext]_pipeVars => [Next]_vars
BY DEF PipeNext, pipeVars, Begin, EndTransaction, TakeOver, Relay

LEMMA RowsStep ==
  ASSUME RowType, [PipeNext]_pipeVars
  PROVE  [Rows!Next]_(Rows!vars)
<1>1. CASE UNCHANGED outboxVars
  BY <1>1 DEF outboxVars, Rows!vars, Rows!relayVars
<1>2. ASSUME NEW w \in Owners, Begin(w) PROVE Rows!Next
  BY <1>2, SameInsert DEF Begin, Rows!Next
<1>3. ASSUME NEW w \in Owners, EndTransaction(w) PROVE Rows!Next
  <2>1. row[w] \in Rows!Ids
    BY <1>3, RowsAssumption DEF RowType, EndTransaction, Rows!Ids,
                                Rows!RelayAssumption
  <2> QED
    BY <1>3, <2>1, SameInsert DEF EndTransaction, Rows!Next
<1>4. CASE Relay
  BY <1>4, SameTick, SameFault DEF Relay, Rows!Next
<1> QED
  BY <1>1, <1>2, <1>3, <1>4 DEF PipeNext, TakeOver, pipeVars

LEMMA RowTypeStep ==
  ASSUME RowType, Rows!TypeOK, [PipeNext]_pipeVars
  PROVE  RowType'
<1>1. ASSUME NEW w \in Owners, Begin(w) PROVE RowType'
  <2>1. nextId \in 0..MaxRows
    BY <1>1, RowsAssumption DEF Begin, Outbox!Insert, Rows!TypeOK,
                                Rows!RelayAssumption
  <2> QED
    BY <1>1, <2>1 DEF Begin, RowType
<1>2. ASSUME NEW w \in Owners, EndTransaction(w) PROVE RowType'
  <2>1. 0 \in 0..MaxRows
    BY RowsAssumption DEF Rows!RelayAssumption
  <2> QED
    BY <1>2, <2>1 DEF EndTransaction, RowType
<1>3. CASE UNCHANGED row
  BY <1>3 DEF RowType
<1> QED
  BY <1>1, <1>2, <1>3 DEF PipeNext, TakeOver, Relay, sagaVars, pipeVars

LEMMA RowTypeInit == PipeInit => RowType /\ Rows!TypeOK
<1>1. PipeInit => Rows!TypeOK
  BY Rows!TypeInit, RowsAssumption, SameState DEF PipeInit
<1>2. PipeInit => RowType
  BY RowsAssumption DEF PipeInit, RowType, Rows!RelayAssumption
<1> QED
  BY <1>1, <1>2

LEMMA RowTypeInvariant == PipeSpec => [](RowType /\ Rows!TypeOK)
<1>1. RowType /\ Rows!TypeOK /\ [PipeNext]_pipeVars => (RowType /\ Rows!TypeOK)'
  BY RowTypeStep, RowsStep, Rows!TypeStep, RowsAssumption
<1> QED
  BY <1>1, RowTypeInit, PTL DEF PipeSpec

(* The composition changes neither part: a behaviour of the pipeline is one of *)
(* the ingestion service and one of the outbox, so that what is proved of them *)
(* alone is true of them here.                                                 *)
THEOREM PipelineIsBoth == PipeSpec => Spec /\ Rows!Spec
<1>1. PipeInit => Init /\ Rows!Init
  BY SameState DEF PipeInit
<1>2. RowType /\ [PipeNext]_pipeVars => [Rows!Next]_(Rows!vars)
  BY RowsStep
<1> QED
  BY <1>1, <1>2, IngestionStep, RowTypeInvariant, PTL
     DEF PipeSpec, Spec, Rows!Spec

(* In particular the service, with all that happens downstream, still delivers *)
(* at least once what it admits.                                               *)
THEOREM PipelineImplementsIntake == PipeSpec => IntakeSpec
BY PipelineIsBoth, ImplementsIntake, PTL

(* And the outbox, whose rows the handlers write, still delivers at least once *)
(* what they commit.                                                           *)
THEOREM PipelineImplementsDelivery == PipeSpec => Rows!DeliverySpec
BY PipelineIsBoth, Rows!ImplementsDelivery, RowsAssumption, PTL

------------------------------------------------------------------------------
(***************************************************************************)
(* PipeTypeOK.                                                             *)
(***************************************************************************)

\* What both parts are known to satisfy in every state of the pipeline.
Parts == TypeOK /\ IngestInv /\ FirstCopiesInOrder /\ Rows!TypeOK /\ Rows!RelayInv

LEMMA PartsInvariant == PipeSpec => []Parts
<1>1. Spec /\ Rows!Spec => []Parts
  BY IngestInvariant, IngestOrder, Rows!TypeCorrect, Rows!RelayInvariant,
     RowsAssumption, PTL DEF Parts
<1> QED
  BY <1>1, PipelineIsBoth, PTL

LEMMA RowIds ==
  /\ MaxRows \in Nat
  /\ Rows!Ids = 1..MaxRows
  /\ Rows!There = {i \in 1..MaxRows : state[i] = "there"}
BY RowsAssumption DEF Rows!RelayAssumption, Rows!Ids, Rows!There

LEMMA TopicGrows ==
  ASSUME TypeOK, [Next]_vars
  PROVE  Len(topic) \in Nat /\ Len(topic') \in Nat /\ Len(topic) <= Len(topic')
<1>1. ASSUME NEW k \in Calls, Land(k) PROVE Len(topic') = Len(topic) + 1
  BY <1>1 DEF Land, TypeOK
<1>2. UNCHANGED topic \/ \E k \in Calls : Land(k)
  BY DEF Next, Handle, Open, HangUp, GiveUp, Receive, Refuse, Ack, Unavailable,
         Unheard, Sigterm, GrpcDrained, Stopped, Crash, Exit, Restart, vars
<1> QED
  BY <1>1, <1>2 DEF TypeOK

SagaTypeOK ==
  /\ owners \subseteq Owners
  /\ consumed \in [Owners -> 0..Len(topic)]
  /\ row \in [Owners -> 0..MaxRows]
  /\ recordOf \in [1..MaxRows -> 0..Len(topic)]
  /\ takeovers \in 0..MaxTakeovers

LEMMA SagaTypeInit == PipeInit => SagaTypeOK
<1> SUFFICES ASSUME PipeInit PROVE SagaTypeOK
  OBVIOUS
<1>1. Len(topic) = 0
  BY DEF PipeInit, Init
<1> QED
  BY <1>1, RowIds, PipelineAssumption DEF PipeInit, SagaTypeOK

LEMMA SagaTypeStep ==
  ASSUME SagaTypeOK, TypeOK, Rows!TypeOK, [PipeNext]_pipeVars
  PROVE  SagaTypeOK'
<1>0. Len(topic) \in Nat /\ MaxRows \in Nat /\ MaxTakeovers \in Nat
  BY RowIds, PipelineAssumption DEF TypeOK
<1>1. CASE Next /\ UNCHANGED sagaVars
  <2>1. Len(topic') \in Nat /\ Len(topic) <= Len(topic')
    BY <1>1, TopicGrows
  <2>2. 0..Len(topic) \subseteq 0..Len(topic')
    BY <1>0, <2>1
  <2> QED
    BY <1>1, <2>2 DEF SagaTypeOK, sagaVars
<1>2. ASSUME NEW w \in Owners, Begin(w) PROVE SagaTypeOK'
  <2>1. nextId \in 1..MaxRows
    BY <1>0, <1>2 DEF Begin, Outbox!Insert, Rows!TypeOK
  <2>2. consumed[w] + 1 \in 0..Len(topic)
    BY <1>0, <1>2 DEF Begin, SagaTypeOK
  <2> QED
    BY <1>0, <1>2, <2>1, <2>2 DEF Begin, vars, SagaTypeOK
<1>3. ASSUME NEW w \in Owners, EndTransaction(w) PROVE SagaTypeOK'
  <2>1. row[w] \in 1..MaxRows
    BY <1>0, <1>3 DEF EndTransaction, SagaTypeOK
  <2>2. recordOf[row[w]] \in 0..Len(topic) /\ 0 \in 0..MaxRows
    BY <1>0, <2>1 DEF SagaTypeOK
  <2> QED
    BY <1>3, <2>2 DEF EndTransaction, vars, SagaTypeOK
<1>4. ASSUME NEW w \in Owners, TakeOver(w) PROVE SagaTypeOK'
  <2>1. PICK v \in owners : \E n \in 0..consumed[v] :
          consumed' = [consumed EXCEPT ![w] = n]
    BY <1>4 DEF TakeOver
  <2>2. PICK n \in 0..consumed[v] : consumed' = [consumed EXCEPT ![w] = n]
    BY <2>1
  <2>3. n \in 0..Len(topic)
    BY <1>0, <2>1, <2>2 DEF SagaTypeOK
  <2>4. takeovers' \in 0..MaxTakeovers
    BY <1>0, <1>4 DEF TakeOver, SagaTypeOK
  <2> QED
    BY <1>4, <2>2, <2>3, <2>4 DEF TakeOver, vars, SagaTypeOK
<1>5. CASE Relay \/ UNCHANGED pipeVars
  BY <1>5 DEF Relay, pipeVars, sagaVars, vars, SagaTypeOK
<1> QED
  BY <1>1, <1>2, <1>3, <1>4, <1>5 DEF PipeNext

(* The types of the pipeline's state: no handler is behind more records than *)
(* there are, and a row answers a record of the topic.                       *)
THEOREM PipeTypeCorrect == PipeSpec => []PipeTypeOK
<1>1. Parts /\ SagaTypeOK /\ [PipeNext]_pipeVars => SagaTypeOK'
  BY SagaTypeStep DEF Parts
<1>2. Parts /\ SagaTypeOK => PipeTypeOK
  BY SameState DEF Parts, SagaTypeOK, PipeTypeOK
<1> QED
  BY <1>1, <1>2, SagaTypeInit, PartsInvariant, PTL DEF PipeSpec

------------------------------------------------------------------------------
(***************************************************************************)
(* PipeInv, and the order of the verdicts.                                 *)
(***************************************************************************)

LEMMA PipeInvInit == PipeInit => PipeInv
BY RowIds, PipelineAssumption DEF PipeInit, PipeInv, Outbox!Init

\* The outbox's rules that the handlers rely on.
RowsInv == Rows!TypeOK /\ Rows!RelayInv /\ Rows!OrderInv

LEMMA RelayKeeps ==
  ASSUME Relay
  PROVE  UNCHANGED <<nextId, state, earlier>>
<1>1. PICK r \in Relays : Outbox!Tick(r) \/ Outbox!Fault(r)
  BY DEF Relay
<1> QED
  BY <1>1 DEF Outbox!Tick, Outbox!Fault, Outbox!Begin, Outbox!Scan, Outbox!Nothing,
              Outbox!Publish, Outbox!Mark, Outbox!CommitTick,
              Outbox!StatementFails, Outbox!Fail, Outbox!PublishUnknown,
              Outbox!CommitUnknown, Outbox!SessionLost, Outbox!EndTick

(* The next record's row: what was behind its handler was ended before. *)
LEMMA BeginStep ==
  ASSUME SagaTypeOK, TypeOK, RowsInv, PipeInv, NEW w \in Owners, Begin(w)
  PROVE  PipeInv'
<1>1. /\ nextId \in 1..MaxRows /\ nextId' = nextId + 1 /\ MaxRows \in Nat
      /\ state' = [state EXCEPT ![nextId] = "open"]
      /\ earlier' = [earlier EXCEPT ![nextId] = Rows!There]
      /\ row' = [row EXCEPT ![w] = nextId]
      /\ recordOf' = [recordOf EXCEPT ![nextId] = consumed[w] + 1]
      /\ UNCHANGED consumed
      /\ row[w] = 0
  BY RowIds, SameInsert DEF Begin, Rows!Insert, RowsInv, Rows!TypeOK
<1>2. /\ state'[nextId] = "open" /\ earlier'[nextId] = Rows!There
      /\ recordOf'[nextId] = consumed[w] + 1 /\ row'[w] = nextId
      /\ \A i \in 1..MaxRows : i # nextId =>
           /\ state'[i] = state[i] /\ earlier'[i] = earlier[i]
           /\ recordOf'[i] = recordOf[i]
      /\ \A v \in Owners : v # w => row'[v] = row[v]
      /\ \A v \in Owners : consumed[v] \in Nat /\ row[v] \in 0..MaxRows
      /\ \A i \in 1..MaxRows : recordOf[i] \in Nat
  BY <1>1, RowIds DEF RowsInv, Rows!TypeOK, SagaTypeOK, TypeOK
<1>3. /\ state[nextId] = "absent"
      /\ \A i \in 1..MaxRows : \A j \in earlier[i] : j \in Rows!There
  BY <1>1, RowIds DEF RowsInv, Rows!RelayInv, Rows!OrderInv
<1>4. \A v \in Owners : row[v] # nextId
  BY <1>1, <1>3 DEF PipeInv
<1>5. ASSUME NEW v \in Owners, row'[v] # 0
      PROVE  /\ row'[v] < nextId'
             /\ state'[row'[v]] = "open"
             /\ recordOf'[row'[v]] = consumed'[v] + 1
  <2>1. CASE v = w
    BY <1>1, <1>2, <2>1
  <2>2. CASE v # w
    <3>1. row'[v] = row[v] /\ row[v] \in 1..MaxRows /\ row[v] # nextId
      BY <1>2, <1>4, <1>5, <2>2
    <3>2. /\ row[v] < nextId /\ state[row[v]] = "open"
          /\ recordOf[row[v]] = consumed[v] + 1
      BY <3>1 DEF PipeInv, Answers
    <3> QED
      BY <1>1, <1>2, <3>1, <3>2
  <2> QED
    BY <2>1, <2>2
<1>6. ASSUME NEW u \in Owners, NEW v \in Owners, row'[u] # 0, row'[u] = row'[v]
      PROVE  u = v
  BY <1>2, <1>4, <1>6 DEF PipeInv
<1>7. ASSUME NEW i \in 1..MaxRows, i < nextId' PROVE recordOf'[i] # 0
  BY <1>1, <1>2, <1>7 DEF PipeInv
<1>8. ASSUME NEW v \in Owners, NEW k \in 1..consumed'[v]
      PROVE  \E i \in 1..MaxRows : /\ recordOf'[i] = k
                                   /\ state'[i] \in {"there", "aborted"}
                                   /\ i \in Rows!There \/ state[i] = "aborted"
                                   /\ i # nextId
  <2>1. PICK i \in 1..MaxRows :
          recordOf[i] = k /\ state[i] \in {"there", "aborted"}
    BY <1>1 DEF PipeInv, Answers, Ended
  <2>2. i # nextId
    BY <1>3, <2>1
  <2> QED
    BY <1>2, <2>1, <2>2, RowIds
<1>9. ASSUME NEW i \in 1..MaxRows, i < nextId', NEW k \in 1..(recordOf'[i] - 1)
      PROVE  \E j \in 1..MaxRows : /\ recordOf'[j] = k
                                   /\ j \in earlier'[i] \/ state'[j] = "aborted"
  <2>1. CASE i = nextId
    <3>1. k \in 1..consumed'[w]
      BY <1>1, <1>2, <2>1
    <3>2. PICK j \in 1..MaxRows : /\ recordOf'[j] = k
                                  /\ j \in Rows!There \/ state[j] = "aborted"
                                  /\ j # nextId
      BY <1>8, <3>1
    <3> QED
      BY <1>2, <2>1, <3>2
  <2>2. CASE i # nextId
    <3>1. i < nextId /\ recordOf'[i] = recordOf[i]
      BY <1>1, <1>2, <1>9, <2>2
    <3>2. PICK j \in 1..MaxRows :
            recordOf[j] = k /\ (j \in earlier[i] \/ state[j] = "aborted")
      BY <3>1 DEF PipeInv, Answers
    <3>3. j # nextId
      BY <1>3, <3>2, RowIds
    <3> QED
      BY <1>2, <2>2, <3>2, <3>3
  <2> QED
    BY <2>1, <2>2
<1> QED
  BY <1>5, <1>6, <1>7, <1>8, <1>9 DEF PipeInv, Answers, Ended

(* The handler's row is ended, and no other row changes. *)
LEMMA EndTransactionStep ==
  ASSUME SagaTypeOK, TypeOK, RowsInv, PipeInv, NEW w \in Owners,
         EndTransaction(w)
  PROVE  PipeInv'
<1> DEFINE x == row[w]
<1>1. /\ x \in 1..MaxRows /\ MaxRows \in Nat
      /\ \E end \in {"there", "aborted"} : state' = [state EXCEPT ![x] = end]
      /\ consumed' = [consumed EXCEPT ![w] = recordOf[x]]
      /\ row' = [row EXCEPT ![w] = 0]
      /\ UNCHANGED <<nextId, earlier, recordOf>>
  BY RowIds, SameInsert DEF EndTransaction, Rows!EndInsert, SagaTypeOK
<1>2. /\ state'[x] \in {"there", "aborted"} /\ state[x] = "open"
      /\ \A i \in 1..MaxRows : i # x => state'[i] = state[i]
      /\ row'[w] = 0 /\ \A v \in Owners : v # w => row'[v] = row[v]
      /\ consumed'[w] = recordOf[x] /\ recordOf[x] = consumed[w] + 1
      /\ \A v \in Owners : v # w => consumed'[v] = consumed[v]
      /\ \A v \in Owners : consumed[v] \in Nat /\ row[v] \in 0..MaxRows
  BY <1>1, RowIds DEF RowsInv, Rows!TypeOK, SagaTypeOK, TypeOK, PipeInv, Answers
<1>3. ASSUME NEW v \in Owners, row'[v] # 0
      PROVE  /\ row'[v] < nextId'
             /\ state'[row'[v]] = "open"
             /\ recordOf'[row'[v]] = consumed'[v] + 1
  <2>1. v # w /\ row'[v] = row[v] /\ row[v] \in 1..MaxRows
    BY <1>2, <1>3
  <2>2. row[v] # x
    BY <1>1, <2>1 DEF PipeInv
  <2> QED
    BY <1>1, <1>2, <1>3, <2>1, <2>2 DEF PipeInv, Answers
<1>4. ASSUME NEW u \in Owners, NEW v \in Owners, row'[u] # 0, row'[u] = row'[v]
      PROVE  u = v
  BY <1>2, <1>4 DEF PipeInv
<1>5. ASSUME NEW v \in Owners, NEW k \in 1..consumed'[v]
      PROVE  \E i \in 1..MaxRows : /\ recordOf'[i] = k
                                   /\ state'[i] \in {"there", "aborted"}
  <2>1. CASE k \in 1..consumed[v]
    <3>1. PICK i \in 1..MaxRows :
            recordOf[i] = k /\ state[i] \in {"there", "aborted"}
      BY <2>1 DEF PipeInv, Answers, Ended
    <3> QED
      BY <1>1, <1>2, <3>1
  <2>2. CASE k \notin 1..consumed[v]
    <3>1. v = w
      BY <1>2, <2>2
    <3>2. k = recordOf[x]
      BY <1>2, <2>2, <3>1
    <3> QED
      BY <1>1, <1>2, <3>2
  <2> QED
    BY <2>1, <2>2
<1>6. ASSUME NEW i \in 1..MaxRows, i < nextId', NEW k \in 1..(recordOf'[i] - 1)
      PROVE  \E j \in 1..MaxRows : /\ recordOf'[j] = k
                                   /\ j \in earlier'[i] \/ state'[j] = "aborted"
  <2>1. PICK j \in 1..MaxRows :
          recordOf[j] = k /\ (j \in earlier[i] \/ state[j] = "aborted")
    BY <1>1, <1>6 DEF PipeInv, Answers
  <2> QED
    BY <1>1, <1>2, <2>1
<1>7. \A i \in 1..MaxRows : i < nextId' => recordOf'[i] # 0
  BY <1>1 DEF PipeInv
<1> QED
  BY <1>3, <1>4, <1>5, <1>6, <1>7 DEF PipeInv, Answers, Ended

(* Whoever takes over has no more behind it than the one it resumes from. *)
LEMMA TakeOverStep ==
  ASSUME SagaTypeOK, TypeOK, PipeInv, NEW w \in Owners, TakeOver(w)
  PROVE  PipeInv'
<1>1. PICK v \in owners : \E n \in 0..consumed[v] :
        consumed' = [consumed EXCEPT ![w] = n]
  BY DEF TakeOver
<1>2. PICK n \in 0..consumed[v] : consumed' = [consumed EXCEPT ![w] = n]
  BY <1>1
<1>3. /\ row[w] = 0 /\ v \in Owners
      /\ UNCHANGED <<nextId, state, earlier, row, recordOf>>
      /\ consumed'[w] = n /\ n \in 0..consumed[v] /\ consumed[v] \in Nat
      /\ \A u \in Owners : u # w => consumed'[u] = consumed[u]
  BY <1>1, <1>2 DEF TakeOver, outboxVars, SagaTypeOK, TypeOK
<1>4. ASSUME NEW u \in Owners, NEW k \in 1..consumed'[u]
      PROVE  \E i \in 1..MaxRows : /\ recordOf'[i] = k
                                   /\ state'[i] \in {"there", "aborted"}
  <2>1. CASE u = w
    <3>1. k \in 1..consumed[v]
      BY <1>3, <2>1
    <3> QED
      BY <1>3, <3>1 DEF PipeInv, Answers, Ended
  <2>2. CASE u # w
    BY <1>3, <2>2 DEF PipeInv, Answers, Ended
  <2> QED
    BY <2>1, <2>2
<1>5. \A u \in Owners : row'[u] # 0 =>
        /\ row'[u] < nextId'
        /\ state'[row'[u]] = "open"
        /\ recordOf'[row'[u]] = consumed'[u] + 1
  BY <1>3 DEF PipeInv, Answers
<1> QED
  BY <1>3, <1>4, <1>5 DEF PipeInv, Answers, Ended

LEMMA PipeInvStep ==
  ASSUME SagaTypeOK, TypeOK, RowsInv, PipeInv, [PipeNext]_pipeVars
  PROVE  PipeInv'
<1>1. CASE UNCHANGED <<nextId, state, earlier, consumed, row, recordOf>>
  BY <1>1 DEF PipeInv, Answers, Ended
<1> QED
  BY <1>1, BeginStep, EndTransactionStep, TakeOverStep, RelayKeeps
     DEF PipeNext, Relay, sagaVars, outboxVars, pipeVars

LEMMA PipeInvariant ==
  ASSUME Outbox!OneRelay
  PROVE  PipeSpec => [](Parts /\ SagaTypeOK /\ RowsInv /\ PipeInv)
<1>1. Rows!OneRelay
  BY SameState
<1>2. Rows!Spec => []Rows!OrderInv
  BY <1>1, Rows!OrderInvariant, RowsAssumption
<1>3. Parts /\ SagaTypeOK /\ [PipeNext]_pipeVars => SagaTypeOK'
  BY SagaTypeStep DEF Parts
<1>4. Parts /\ Rows!OrderInv => RowsInv
  BY DEF Parts, RowsInv
<1>5. Parts /\ SagaTypeOK /\ RowsInv /\ PipeInv /\ [PipeNext]_pipeVars => PipeInv'
  BY PipeInvStep DEF Parts
<1>6. PipeSpec => []Parts /\ []Rows!OrderInv
  BY <1>2, PartsInvariant, PipelineIsBoth, PTL
<1> QED
  BY <1>3, <1>4, <1>5, <1>6, SagaTypeInit, PipeInvInit, PTL DEF PipeSpec

(* End to end: when there is one relay, a caller's verdicts first appear in the *)
(* order of its diffs, but for a diff whose handler gave up.                    *)
THEOREM VerdictOrder == ASSUME Outbox!OneRelay PROVE PipeSpec => []VerdictsInOrder
<1>1. ASSUME Parts, SagaTypeOK, RowsInv, PipeInv PROVE VerdictsInOrder
  <2> USE <1>1
  <2>1. SUFFICES ASSUME NEW n \in DOMAIN verdicts, NEW c \in Callers,
                        NEW j \in DOMAIN Script[c],
                        AnswerTo(verdicts[n]) = Script[c][j],
                        NEW i \in 1..(j - 1), Script[c][i] \in Valid \ GivenUp
                 PROVE  \E m \in 1..n : AnswerTo(verdicts[m]) = Script[c][i]
    BY DEF VerdictsInOrder
  <2> DEFINE x == verdicts[n]
  <2>2. /\ x \in 1..MaxRows /\ x < nextId /\ MaxRows \in Nat
        /\ Len(topic) \in Nat /\ DOMAIN topic = 1..Len(topic)
    <3>1. x \in Rows!There
      BY <2>1 DEF RowsInv, Rows!RelayInv, Rows!OnTopic
    <3>2. x \in 1..MaxRows /\ state[x] = "there" /\ nextId \in Nat
      BY <3>1, RowIds DEF RowsInv, Rows!TypeOK
    <3>3. x < nextId
      BY <3>2, RowIds DEF RowsInv, Rows!RelayInv
    <3> QED
      BY <3>2, <3>3, RowIds DEF Parts, TypeOK
  <2>3. recordOf[x] \in 1..Len(topic)
    BY <2>2 DEF SagaTypeOK, PipeInv
  <2>4. PICK m \in 1..recordOf[x] : topic[m] = Script[c][i]
    BY <2>1, <2>2, <2>3 DEF Parts, FirstCopiesInOrder, AnswerTo
  <2>5. i \in DOMAIN Script[c] /\ i # j
    BY <2>1, IngestionAssumption
  <2>6. m # recordOf[x]
    BY <2>1, <2>4, <2>5, IngestionAssumption DEF AnswerTo
  <2>7. m \in 1..(recordOf[x] - 1)
    BY <2>2, <2>3, <2>4, <2>6
  <2>8. PICK y \in 1..MaxRows :
          recordOf[y] = m /\ (y \in earlier[x] \/ state[y] = "aborted")
    BY <2>2, <2>7 DEF PipeInv, Answers
  <2>9. state[y] # "aborted"
    BY <2>1, <2>4, <2>8 DEF GivenUp
  <2>10. PICK l \in 1..n : verdicts[l] = y
    BY <2>1, <2>8, <2>9 DEF RowsInv, Rows!OrderInv
  <2> QED
    BY <2>4, <2>8, <2>10 DEF AnswerTo
<1> QED
  BY <1>1, PipeInvariant, PTL
==============================================================================
