-------------------------- MODULE OutboxRelayProofs --------------------------
(***************************************************************************)
(* The outbox loses no verdict event, ships none that did not commit and   *)
(* implements at-least-once delivery, for any number of relays and rows.   *)
(***************************************************************************)
EXTENDS OutboxRelay, TLAPS, FiniteSetTheorems

LEMMA IdsNat == Ids \subseteq Nat \ {0}
BY RelayAssumption DEF Ids

LEMMA TypeInit == Init => TypeOK
BY RelayAssumption DEF Init, TypeOK, Ids

LEMMA FaultyType == ASSUME TypeOK, Faulty PROVE faults' \in 0..MaxFaults
BY RelayAssumption DEF TypeOK, Faulty

(* The end of a tick, however it came about. *)
LEMMA EndTickType ==
  ASSUME TypeOK, NEW r \in Relays, EndTick(r), marked' \subseteq Ids,
         topic' \in Seq(Ids), faults' \in 0..MaxFaults
  PROVE  TypeOK'
BY DEF TypeOK, EndTick

LEMMA TypeStep == TypeOK /\ [Next]_vars => TypeOK'
<1> SUFFICES ASSUME TypeOK, [Next]_vars PROVE TypeOK'
  OBVIOUS
<1> USE RelayAssumption
<1>1. CASE Insert
  BY <1>1 DEF Insert, TypeOK, relayVars, Ids, There
<1>2. ASSUME NEW i \in Ids, EndInsert(i) PROVE TypeOK'
  BY <1>2 DEF EndInsert, TypeOK, relayVars
<1>3. ASSUME NEW r \in Relays, Begin(r) PROVE TypeOK'
  BY <1>3 DEF Begin, TypeOK, Pending, There
<1>4. ASSUME NEW r \in Relays, Scan(r) PROVE TypeOK'
  <2>1. PICK i \in todo[r] :
          /\ todo' = [todo EXCEPT ![r] = @ \ {i}]
          /\ \/ /\ lock' = [lock EXCEPT ![i] = r]
                /\ claimed' = [claimed EXCEPT ![r] = @ \cup {i}]
             \/ UNCHANGED <<lock, claimed>>
    BY <1>4 DEF Scan
  <2>2. i \in Ids
    BY DEF TypeOK
  <2>3. todo' \in [Relays -> SUBSET Ids]
    BY <2>1 DEF TypeOK
  <2>4. /\ lock' \in [Ids -> Relays \cup {None}]
        /\ claimed' \in [Relays -> SUBSET Ids]
    BY <2>1, <2>2 DEF TypeOK
  <2>5. UNCHANGED <<nextId, state, earlier, marked, phase, sent, topic, faults>>
    BY <1>4 DEF Scan
  <2> QED
    BY <2>3, <2>4, <2>5 DEF TypeOK
<1>5. ASSUME NEW r \in Relays, Nothing(r) \/ StatementFails(r) PROVE TypeOK'
  BY <1>5, EndTickType DEF Nothing, StatementFails, TypeOK
<1>6. ASSUME NEW r \in Relays, Publish(r) PROVE TypeOK'
  BY <1>6 DEF Publish, TypeOK
<1>7. ASSUME NEW r \in Relays, Mark(r) PROVE TypeOK'
  BY <1>7 DEF Mark, TypeOK
<1>8. ASSUME NEW r \in Relays, CommitTick(r) PROVE TypeOK'
  BY <1>8, EndTickType DEF CommitTick, TypeOK
<1>9. ASSUME NEW r \in Relays, Fail(r) PROVE TypeOK'
  BY <1>9, EndTickType, FaultyType DEF Fail, TypeOK
<1>10. ASSUME NEW r \in Relays, PublishUnknown(r) PROVE TypeOK'
  <2>1. topic' \in Seq(Ids)
    BY <1>10 DEF PublishUnknown, TypeOK
  <2> QED
    BY <1>10, <2>1, EndTickType, FaultyType DEF PublishUnknown, TypeOK
<1>11. ASSUME NEW r \in Relays, CommitUnknown(r) PROVE TypeOK'
  BY <1>11, EndTickType, FaultyType DEF CommitUnknown, TypeOK
<1>12. ASSUME NEW r \in Relays, SessionLost(r) PROVE TypeOK'
  BY <1>12, FaultyType DEF SessionLost, TypeOK, relayVars
<1>13. CASE UNCHANGED vars
  BY <1>13 DEF vars, relayVars, TypeOK
<1> QED
  BY <1>1, <1>2, <1>3, <1>4, <1>5, <1>6, <1>7, <1>8, <1>9, <1>10, <1>11,
     <1>12, <1>13 DEF Next, Tick, Fault

THEOREM TypeCorrect == Spec => []TypeOK
BY TypeInit, TypeStep, PTL DEF Spec

------------------------------------------------------------------------------
(***************************************************************************)
(* RelayInv.                                                               *)
(***************************************************************************)

LEMMA AppendOnTopic ==
  ASSUME TypeOK, NEW i \in Ids, topic' = Append(topic, i)
  PROVE  OnTopic' = OnTopic \cup {i}
<1>1. /\ DOMAIN topic = 1..Len(topic) /\ DOMAIN topic' = 1..(Len(topic) + 1)
      /\ Len(topic) \in Nat
      /\ \A k \in 1..Len(topic) : topic'[k] = topic[k]
      /\ topic'[Len(topic) + 1] = i
  BY DEF TypeOK
<1> QED
  BY <1>1 DEF OnTopic

(* A tick that ends frees its rows; what it marked must have been sent. *)
LEMMA EndTickInv ==
  ASSUME TypeOK, RelayInv, NEW r \in Relays, EndTick(r),
         marked' = marked
           \/ (marked' = marked \cup claimed[r] /\ Held(r) /\ sent[r] = claimed[r]),
         UNCHANGED topic
           \/ (\E i \in claimed[r] : topic' = Append(topic, i) /\ marked' = marked)
  PROVE  RelayInv'
<1> USE RelayAssumption
<1>1. /\ UNCHANGED <<nextId, state>> /\ There' = There /\ Ids \subseteq Nat
      /\ \A i \in Ids : lock'[i] = IF lock[i] = r THEN None ELSE lock[i]
      /\ todo'[r] = {} /\ claimed'[r] = {} /\ sent'[r] = {}
      /\ phase'[r] = "idle"
      /\ \A q \in Relays : q # r =>
           /\ todo'[q] = todo[q] /\ claimed'[q] = claimed[q]
           /\ sent'[q] = sent[q] /\ phase'[q] = phase[q]
  BY IdsNat DEF EndTick, TypeOK, There
<1>2. /\ claimed[r] \subseteq There /\ There \subseteq Ids
      /\ OnTopic \subseteq OnTopic' /\ OnTopic' \subseteq OnTopic \cup claimed[r]
  <2>1. claimed[r] \subseteq There /\ There \subseteq Ids
    BY DEF RelayInv, There
  <2>2. CASE UNCHANGED topic
    BY <2>1, <2>2 DEF OnTopic
  <2>3. ASSUME NEW i \in claimed[r], topic' = Append(topic, i)
        PROVE  OnTopic' = OnTopic \cup {i}
    BY <2>1, <2>3, AppendOnTopic
  <2> QED
    BY <2>1, <2>2, <2>3
<1>3. marked' \subseteq OnTopic' /\ OnTopic' \subseteq There'
  BY <1>1, <1>2 DEF RelayInv
<1>4. ASSUME NEW i \in Ids, lock'[i] # None
      PROVE  i \in claimed'[lock'[i]] /\ i \notin marked'
  <2>1. lock'[i] = lock[i] /\ lock[i] # r /\ lock[i] \in Relays
    BY <1>1, <1>4 DEF TypeOK
  <2>2. i \in claimed'[lock'[i]] /\ i \notin marked
    BY <1>1, <2>1 DEF RelayInv
  <2>3. i \in claimed[r] => ~Held(r)
    BY <2>1 DEF Held
  <2> QED
    BY <2>2, <2>3
<1>5. ASSUME NEW q \in Relays
      PROVE  /\ todo'[q] \cup claimed'[q] \subseteq There'
             /\ todo'[q] \cap claimed'[q] = {}
             /\ sent'[q] \subseteq claimed'[q] \cap OnTopic'
             /\ phase'[q] = "idle" => claimed'[q] = {}
             /\ phase'[q] = "marked" => sent'[q] = claimed'[q]
             /\ Held(q)' \/ \A i \in Ids : lock'[i] # q
  <2>1. CASE q = r
    BY <1>1, <2>1 DEF Held
  <2>2. CASE q # r
    <3>1. /\ todo'[q] \cup claimed'[q] \subseteq There'
          /\ todo'[q] \cap claimed'[q] = {}
          /\ sent'[q] \subseteq claimed'[q] \cap OnTopic'
          /\ phase'[q] = "idle" => claimed'[q] = {}
          /\ phase'[q] = "marked" => sent'[q] = claimed'[q]
      <4>1. /\ todo'[q] = todo[q] /\ claimed'[q] = claimed[q]
            /\ sent'[q] = sent[q] /\ phase'[q] = phase[q]
        BY <1>1, <2>2
      <4>2. /\ todo[q] \cup claimed[q] \subseteq There
            /\ todo[q] \cap claimed[q] = {}
            /\ sent[q] \subseteq claimed[q] \cap OnTopic
            /\ phase[q] = "idle" => claimed[q] = {}
            /\ phase[q] = "marked" => sent[q] = claimed[q]
        BY DEF RelayInv
      <4> QED
        BY <1>1, <1>2, <4>1, <4>2
    <3>2. Held(q) => Held(q)'
      BY <1>1, <2>2 DEF Held, TypeOK
    <3>3. (\A i \in Ids : lock[i] # q) => \A i \in Ids : lock'[i] # q
      BY <1>1, <2>2
    <3> QED
      BY <3>1, <3>2, <3>3 DEF RelayInv
  <2> QED
    BY <2>1, <2>2
<1> QED
  BY <1>1, <1>3, <1>4, <1>5 DEF RelayInv

LEMMA RelayInvInit == Init => RelayInv
BY DEF Init, RelayInv, OnTopic, There, Held

LEMMA RelayInvStep == TypeOK /\ TypeOK' /\ RelayInv /\ [Next]_vars => RelayInv'
<1> SUFFICES ASSUME TypeOK, TypeOK', RelayInv, [Next]_vars PROVE RelayInv'
  OBVIOUS
<1> USE RelayAssumption, IdsNat
<1>1. CASE Insert
  <2>1. /\ state[nextId] = "absent" /\ nextId \in Ids
        /\ \A i \in Ids : i # nextId => state'[i] = state[i]
        /\ state'[nextId] = "open" /\ nextId' = nextId + 1
    BY <1>1 DEF Insert, RelayInv, TypeOK, Ids
  <2>2. There' = There /\ OnTopic' = OnTopic
    BY <1>1, <2>1 DEF There, OnTopic, Insert
  <2>3. \A r \in Relays : Held(r)' <=> Held(r)
    BY <1>1 DEF Insert, Held, relayVars
  <2>4. \A i \in Ids : i >= nextId' => state'[i] = "absent"
    BY <2>1 DEF RelayInv, TypeOK
  <2> QED
    BY <1>1, <2>2, <2>3, <2>4 DEF RelayInv, Insert, relayVars
<1>2. ASSUME NEW j \in Ids, EndInsert(j) PROVE RelayInv'
  <2>1. There \subseteq There' /\ OnTopic' = OnTopic
    BY <1>2 DEF EndInsert, There, OnTopic, TypeOK
  <2>2. \A i \in Ids : i >= nextId' => state'[i] = "absent"
    BY <1>2 DEF EndInsert, RelayInv, TypeOK
  <2>3. \A r \in Relays : Held(r)' <=> Held(r)
    BY <1>2 DEF EndInsert, Held, relayVars
  <2> QED
    BY <1>2, <2>1, <2>2, <2>3 DEF RelayInv, EndInsert, relayVars
<1>3. ASSUME NEW r \in Relays, Begin(r) PROVE RelayInv'
  <2>1. /\ UNCHANGED <<nextId, state, marked, lock, claimed, sent, topic>>
        /\ There' = There /\ OnTopic' = OnTopic
        /\ phase[r] = "idle" /\ phase'[r] = "tick" /\ todo'[r] = Pending
        /\ \A q \in Relays : q # r => todo'[q] = todo[q] /\ phase'[q] = phase[q]
    BY <1>3 DEF Begin, There, OnTopic, TypeOK
  <2>2. claimed[r] = {} /\ Pending \subseteq There
    BY <2>1 DEF RelayInv, Pending
  <2>3. \A q \in Relays : Held(q)' <=> Held(q)
    BY <2>1 DEF Held
  <2>4. ASSUME NEW q \in Relays
        PROVE  /\ todo'[q] \cup claimed'[q] \subseteq There'
               /\ todo'[q] \cap claimed'[q] = {}
               /\ sent'[q] \subseteq claimed'[q] \cap OnTopic'
               /\ phase'[q] = "idle" => claimed'[q] = {}
               /\ phase'[q] = "marked" => sent'[q] = claimed'[q]
    BY <2>1, <2>2 DEF RelayInv
  <2> QED
    <3>1. /\ \A i \in Ids : i >= nextId' => state'[i] = "absent"
          /\ marked' \subseteq OnTopic'
          /\ OnTopic' \subseteq There'
      BY <2>1 DEF RelayInv
    <3>2. \A i \in Ids : lock'[i] # None =>
            i \in claimed'[lock'[i]] /\ i \notin marked'
      BY <2>1 DEF RelayInv
    <3>3. \A q \in Relays : Held(q)' \/ \A i \in Ids : lock'[i] # q
      BY <2>1, <2>3 DEF RelayInv
    <3> QED
      BY <3>1, <3>2, <3>3, <2>4 DEF RelayInv
<1>4. ASSUME NEW r \in Relays, Scan(r) PROVE RelayInv'
  <2>1. PICK i \in todo[r] :
          /\ todo' = [todo EXCEPT ![r] = @ \ {i}]
          /\ IF lock[i] = None /\ i \in Pending
             THEN /\ lock' = [lock EXCEPT ![i] = r]
                  /\ claimed' = [claimed EXCEPT ![r] = @ \cup {i}]
             ELSE UNCHANGED <<lock, claimed>>
    BY <1>4 DEF Scan
  <2>2. /\ UNCHANGED <<nextId, state, marked, phase, sent, topic>>
        /\ There' = There /\ OnTopic' = OnTopic
        /\ phase[r] = "tick" /\ Held(r)
        /\ i \in There /\ i \in Ids /\ i \notin claimed[r]
        /\ todo'[r] = todo[r] \ {i}
        /\ \A q \in Relays : q # r => todo'[q] = todo[q]
    BY <1>4, <2>1 DEF Scan, There, OnTopic, TypeOK, RelayInv
  <2>3. CASE lock[i] = None /\ i \in Pending
    <3>1. /\ lock'[i] = r /\ claimed'[r] = claimed[r] \cup {i}
          /\ i \notin marked
          /\ \A q \in Relays : q # r => claimed'[q] = claimed[q]
          /\ \A j \in Ids : j # i => lock'[j] = lock[j]
      BY <2>1, <2>2, <2>3 DEF TypeOK, Pending
    <3>2. ASSUME NEW j \in Ids, lock'[j] # None
          PROVE  j \in claimed'[lock'[j]] /\ j \notin marked'
      BY <2>2, <3>1, <3>2 DEF RelayInv, TypeOK
    <3>3. ASSUME NEW q \in Relays
          PROVE  /\ todo'[q] \cup claimed'[q] \subseteq There'
                 /\ todo'[q] \cap claimed'[q] = {}
                 /\ sent'[q] \subseteq claimed'[q] \cap OnTopic'
                 /\ phase'[q] = "idle" => claimed'[q] = {}
                 /\ phase'[q] = "marked" => sent'[q] = claimed'[q]
      BY <2>2, <3>1 DEF RelayInv
    <3>4. ASSUME NEW q \in Relays
          PROVE  Held(q)' \/ \A j \in Ids : lock'[j] # q
      <4>1. CASE q = r
        <5>1. \A j \in claimed'[r] : lock'[j] = r
          BY <2>2, <3>1 DEF Held, TypeOK
        <5> QED
          BY <4>1, <5>1 DEF Held
      <4>2. CASE q # r
        <5>1. Held(q) => Held(q)'
          BY <2>2, <2>3, <3>1, <4>2 DEF Held, TypeOK
        <5>2. (\A j \in Ids : lock[j] # q) => \A j \in Ids : lock'[j] # q
          BY <3>1, <4>2
        <5> QED
          BY <5>1, <5>2 DEF RelayInv
      <4> QED
        BY <4>1, <4>2
    <3> QED
      BY <2>2, <3>2, <3>3, <3>4 DEF RelayInv
  <2>4. CASE ~(lock[i] = None /\ i \in Pending)
    <3>1. UNCHANGED <<lock, claimed>>
      BY <2>1, <2>4
    <3>2. \A q \in Relays : Held(q)' <=> Held(q)
      BY <3>1 DEF Held
    <3>3. \A q \in Relays : todo'[q] \subseteq todo[q]
      BY <2>2
    <3> QED
      BY <2>2, <3>1, <3>2, <3>3 DEF RelayInv
  <2> QED
    BY <2>3, <2>4
<1>5. ASSUME NEW r \in Relays, Nothing(r) \/ StatementFails(r) PROVE RelayInv'
  BY <1>5, EndTickInv DEF Nothing, StatementFails
<1>6. ASSUME NEW r \in Relays, Publish(r) PROVE RelayInv'
  <2>1. PICK i \in Ids :
          /\ NextToSend(r, i)
          /\ topic' = Append(topic, i)
          /\ sent' = [sent EXCEPT ![r] = @ \cup {i}]
    BY <1>6 DEF Publish
  <2>2. /\ OnTopic' = OnTopic \cup {i} /\ i \in claimed[r] /\ phase[r] = "tick"
        /\ UNCHANGED <<nextId, state, marked, lock, phase, todo, claimed>>
        /\ There' = There
    BY <1>6, <2>1, AppendOnTopic DEF Publish, NextToSend, IsLowest, There
  <2>3. /\ sent'[r] = sent[r] \cup {i}
        /\ \A q \in Relays : q # r => sent'[q] = sent[q]
    BY <2>1 DEF TypeOK
  <2>4. \A q \in Relays : Held(q)' <=> Held(q)
    BY <2>2 DEF Held
  <2>5. ASSUME NEW q \in Relays
        PROVE  /\ sent'[q] \subseteq claimed'[q] \cap OnTopic'
               /\ phase'[q] = "marked" => sent'[q] = claimed'[q]
    BY <2>2, <2>3 DEF RelayInv
  <2> QED
    BY <2>2, <2>4, <2>5 DEF RelayInv
<1>7. ASSUME NEW r \in Relays, Mark(r) PROVE RelayInv'
  <2>1. /\ UNCHANGED <<nextId, state, marked, lock, todo, claimed, sent, topic>>
        /\ There' = There /\ OnTopic' = OnTopic
        /\ sent[r] = claimed[r] /\ phase'[r] = "marked"
        /\ \A q \in Relays : q # r => phase'[q] = phase[q]
    BY <1>7 DEF Mark, There, OnTopic, TypeOK
  <2>2. \A q \in Relays : Held(q)' <=> Held(q)
    BY <2>1 DEF Held
  <2>3. ASSUME NEW q \in Relays
        PROVE  /\ phase'[q] = "idle" => claimed'[q] = {}
               /\ phase'[q] = "marked" => sent'[q] = claimed'[q]
    BY <2>1 DEF RelayInv
  <2> QED
    BY <2>1, <2>2, <2>3 DEF RelayInv
<1>8. ASSUME NEW r \in Relays, CommitTick(r) \/ CommitUnknown(r) PROVE RelayInv'
  <2>1. sent[r] = claimed[r]
    BY <1>8 DEF CommitTick, CommitUnknown, RelayInv
  <2> QED
    BY <1>8, <2>1, EndTickInv DEF CommitTick, CommitUnknown
<1>9. ASSUME NEW r \in Relays, Fail(r) PROVE RelayInv'
  BY <1>9, EndTickInv DEF Fail
<1>10. ASSUME NEW r \in Relays, PublishUnknown(r) PROVE RelayInv'
  BY <1>10, EndTickInv DEF PublishUnknown, NextToSend, IsLowest
<1>11. ASSUME NEW r \in Relays, SessionLost(r) PROVE RelayInv'
  <2>1. /\ UNCHANGED <<nextId, state, marked, phase, todo, claimed, sent, topic>>
        /\ There' = There /\ OnTopic' = OnTopic
        /\ \A i \in Ids : lock'[i] = IF lock[i] = r THEN None ELSE lock[i]
    BY <1>11 DEF SessionLost, There, OnTopic, relayVars
  <2>2. ASSUME NEW i \in Ids, lock'[i] # None
        PROVE  i \in claimed'[lock'[i]] /\ i \notin marked'
    BY <2>1, <2>2 DEF RelayInv
  <2>3. ASSUME NEW q \in Relays
        PROVE  Held(q)' \/ \A j \in Ids : lock'[j] # q
    <3>1. CASE q = r
      BY <2>1, <3>1
    <3>2. CASE q # r
      <4>1. Held(q) => Held(q)'
        BY <2>1, <3>2 DEF Held, TypeOK
      <4>2. (\A j \in Ids : lock[j] # q) => \A j \in Ids : lock'[j] # q
        BY <2>1, <3>2
      <4> QED
        BY <4>1, <4>2 DEF RelayInv
    <3> QED
      BY <3>1, <3>2
  <2> QED
    BY <2>1, <2>2, <2>3 DEF RelayInv
<1>12. CASE UNCHANGED vars
  BY <1>12 DEF vars, relayVars, RelayInv, There, OnTopic, Held
<1> QED
  BY <1>1, <1>2, <1>3, <1>4, <1>5, <1>6, <1>7, <1>8, <1>9, <1>10, <1>11,
     <1>12 DEF Next, Tick, Fault

(* The books agree, however ticks of different relays interleave and fail. *)
THEOREM RelayInvariant == Spec => []RelayInv
BY TypeCorrect, RelayInvInit, RelayInvStep, PTL DEF Spec

(* A row marked published is on the topic: no verdict event is lost. *)
THEOREM NothingLost == Spec => []MarkedIsOnTopic
<1>1. RelayInv => MarkedIsOnTopic
  BY DEF RelayInv, MarkedIsOnTopic
<1> QED
  BY <1>1, RelayInvariant, PTL

------------------------------------------------------------------------------
(***************************************************************************)
(* CopyInv: the account of the copies of each row.                         *)
(***************************************************************************)

LEMMA CopiesFinite ==
  ASSUME TypeOK, NEW i
  PROVE  /\ IsFiniteSet({k \in DOMAIN topic : topic[k] = i})
         /\ Copies(i) \in Nat
<1>1. DOMAIN topic = 1..Len(topic) /\ Len(topic) \in Nat
  BY DEF TypeOK
<1>2. IsFiniteSet(1..Len(topic))
  BY <1>1, FS_Interval
<1>3. IsFiniteSet({k \in DOMAIN topic : topic[k] = i})
  BY <1>1, <1>2, FS_Subset
<1> QED
  BY <1>3, FS_CardinalityType DEF Copies

LEMMA CopiesAppend ==
  ASSUME TypeOK, NEW i \in Ids, topic' = Append(topic, i), NEW j
  PROVE  Copies(j)' = IF j = i THEN Copies(j) + 1 ELSE Copies(j)
<1> DEFINE S == {k \in DOMAIN topic : topic[k] = j}
           n == Len(topic) + 1
<1>1. /\ DOMAIN topic = 1..Len(topic) /\ DOMAIN topic' = 1..n
      /\ Len(topic) \in Nat
      /\ \A k \in 1..Len(topic) : topic'[k] = topic[k]
      /\ topic'[n] = i
  BY DEF TypeOK
<1>2. S' = IF j = i THEN S \cup {n} ELSE S
  BY <1>1
<1>3. n \notin S
  BY <1>1
<1>4. IsFiniteSet(S)
  BY CopiesFinite
<1>5. Cardinality(S \cup {n}) = Cardinality(S) + 1
  BY <1>3, <1>4, FS_AddElement
<1> QED
  BY <1>2, <1>5 DEF Copies

LEMMA RemoveOne ==
  ASSUME NEW S, NEW x \in S, IsFiniteSet(S), NEW T, T = S \ {x}
  PROVE  Cardinality(T) = Cardinality(S) - 1
BY FS_RemoveElement

LEMMA StrayFinite ==
  ASSUME NEW i
  PROVE  IsFiniteSet(Stray(i)) /\ Cardinality(Stray(i)) \in Nat
<1>1. IsFiniteSet(Stray(i))
  BY RelayAssumption, FS_Subset DEF Stray
<1> QED
  BY <1>1, FS_CardinalityType

LEMMA StrayPrime ==
  ASSUME NEW i
  PROVE  IsFiniteSet(Stray(i)') /\ Cardinality(Stray(i)') \in Nat
<1>1. IsFiniteSet(Stray(i)')
  BY RelayAssumption, FS_Subset DEF Stray
<1> QED
  BY <1>1, FS_CardinalityType

(* A relay that is about to produce a row has an account that allows it. *)
LEMMA MayPublish ==
  ASSUME TypeOK, RelayInv, CopyInv, NEW r \in Relays, NEW i \in Ids,
         NextToSend(r, i)
  PROVE  /\ i \in claimed[r] \ sent[r]
         /\ Copies(i) <= faults
         /\ lock[i] = r => /\ ~Free(i) /\ r \notin Stray(i)
         /\ lock[i] # r => r \in Stray(i)
<1>1. i \in claimed[r] \ sent[r]
  BY DEF NextToSend, IsLowest
<1>2. /\ Copies(i) \in Nat /\ faults \in Nat /\ Cardinality(Stray(i)) \in Nat
      /\ Copies(i) + Cardinality(Stray(i)) <= faults + (IF Free(i) THEN 1 ELSE 0)
  <2>1. Copies(i) \in Nat
    BY CopiesFinite
  <2>2. Cardinality(Stray(i)) \in Nat
    BY StrayFinite
  <2> QED
    BY <2>1, <2>2, RelayAssumption DEF CopyInv, TypeOK
<1>3. CASE lock[i] = r
  <2>1. i \notin marked /\ ~Free(i) /\ r \notin Stray(i)
    BY <1>1, <1>3, RelayAssumption DEF RelayInv, Free, Stray
  <2> QED
    BY <1>1, <1>2, <1>3, <2>1
<1>4. CASE lock[i] # r
  <2>1. r \in Stray(i)
    BY <1>1, <1>4 DEF Stray
  <2>2. Cardinality(Stray(i)) # 0
    BY <2>1, StrayFinite, FS_EmptySet
  <2> QED
    BY <1>1, <1>2, <1>4, <2>1, <2>2
<1> QED
  BY <1>3, <1>4

(* The account of a row that is not produced in the step that ends a tick. *)
LEMMA EndTickCopy ==
  ASSUME TypeOK, RelayInv, CopyInv, NEW r \in Relays, EndTick(r),
         NEW i \in Ids, marked \subseteq marked', faults' \in Nat,
         faults' >= faults,
         lock[i] = r /\ i \in sent[r] => i \in marked' \/ faults' = faults + 1
  PROVE  /\ Stray(i)' = Stray(i) \ {r}
         /\ lock[i] # r /\ Free(i) => Free(i)'
         /\ Copies(i) + Cardinality(Stray(i)') <=
              faults' + (IF Free(i)' THEN 1 ELSE 0)
<1>1. /\ lock'[i] = IF lock[i] = r THEN None ELSE lock[i]
      /\ claimed'[r] = {} /\ sent'[r] = {}
      /\ \A q \in Relays : q # r =>
           claimed'[q] = claimed[q] /\ sent'[q] = sent[q]
      /\ None \notin Relays
  BY RelayAssumption DEF EndTick, TypeOK
<1>2. Stray(i)' = Stray(i) \ {r}
  BY <1>1 DEF Stray
<1>3. Cardinality(Stray(i)') <= Cardinality(Stray(i))
  BY <1>2, StrayFinite, FS_Subset
<1>4. lock[i] # r /\ Free(i) => Free(i)'
  BY <1>1 DEF Free, TypeOK
<1>5. Free(i) => Free(i)' \/ faults' = faults + 1
  BY <1>4 DEF Free
<1>6. /\ Copies(i) \in Nat /\ faults \in Nat /\ Cardinality(Stray(i)) \in Nat
      /\ Cardinality(Stray(i)') \in Nat
      /\ Copies(i) + Cardinality(Stray(i)) <= faults + (IF Free(i) THEN 1 ELSE 0)
  <2>1. Copies(i) \in Nat
    BY CopiesFinite
  <2>2. Cardinality(Stray(i)) \in Nat /\ Cardinality(Stray(i)') \in Nat
    BY StrayFinite, StrayPrime
  <2> QED
    BY <2>1, <2>2, RelayAssumption DEF CopyInv, TypeOK
<1> QED
  BY <1>2, <1>3, <1>4, <1>5, <1>6

(* A tick that ends without producing. *)
LEMMA QuietEndCopy ==
  ASSUME TypeOK, TypeOK', RelayInv, CopyInv, NEW r \in Relays, EndTick(r),
         UNCHANGED topic, marked \subseteq marked', faults' >= faults,
         \A i \in Ids : lock[i] = r /\ i \in sent[r]
                          => i \in marked' \/ faults' = faults + 1
  PROVE  CopyInv'
<1>1. faults' \in Nat /\ \A i \in Ids : Copies(i)' = Copies(i)
  BY RelayAssumption DEF TypeOK, Copies
<1> QED
  BY <1>1, EndTickCopy DEF CopyInv

LEMMA CopyInvInit == Init => CopyInv
<1> SUFFICES ASSUME Init, NEW i \in Ids
             PROVE  Copies(i) + Cardinality(Stray(i))
                      <= faults + (IF Free(i) THEN 1 ELSE 0)
  BY DEF CopyInv
<1>1. {k \in DOMAIN topic : topic[k] = i} = {} /\ Stray(i) = {} /\ faults = 0
  BY DEF Init, Stray
<1>2. Copies(i) = 0 /\ Cardinality(Stray(i)) = 0
  BY <1>1, FS_EmptySet DEF Copies
<1> QED
  BY <1>1, <1>2

LEMMA CopyInvStep ==
  TypeOK /\ TypeOK' /\ RelayInv /\ CopyInv /\ [Next]_vars => CopyInv'
<1> SUFFICES ASSUME TypeOK, TypeOK', RelayInv, CopyInv, [Next]_vars
             PROVE  CopyInv'
  OBVIOUS
<1> USE RelayAssumption
<1>0. faults \in Nat /\ faults' \in Nat
  BY DEF TypeOK
<1>1. ASSUME UNCHANGED <<topic, lock, claimed, sent, marked, faults>>
      PROVE  CopyInv'
  BY <1>1 DEF CopyInv, Copies, Stray, Free
<1>2. ASSUME NEW r \in Relays, Scan(r) PROVE CopyInv'
  <2>1. PICK i \in todo[r] :
          /\ todo' = [todo EXCEPT ![r] = @ \ {i}]
          /\ IF lock[i] = None /\ i \in Pending
             THEN /\ lock' = [lock EXCEPT ![i] = r]
                  /\ claimed' = [claimed EXCEPT ![r] = @ \cup {i}]
             ELSE UNCHANGED <<lock, claimed>>
    BY <1>2 DEF Scan
  <2>2. UNCHANGED <<marked, sent, topic, faults>> /\ i \in Ids
    BY <1>2 DEF Scan, TypeOK
  <2>3. CASE lock[i] = None /\ i \in Pending
    <3>1. /\ lock'[i] = r /\ claimed'[r] = claimed[r] \cup {i}
          /\ i \notin marked
          /\ \A q \in Relays : q # r => claimed'[q] = claimed[q]
          /\ \A j \in Ids : j # i => lock'[j] = lock[j]
      BY <2>1, <2>2, <2>3 DEF TypeOK, Pending
    <3>2. ASSUME NEW j \in Ids
          PROVE  Copies(j)' + Cardinality(Stray(j)')
                   <= faults' + (IF Free(j)' THEN 1 ELSE 0)
      <4>1. Copies(j)' = Copies(j)
        BY <2>2 DEF Copies
      <4>2. Stray(j)' \subseteq Stray(j)
        BY <2>2, <2>3, <3>1 DEF Stray
      <4>3. Free(j) => Free(j)'
        BY <2>2, <2>3, <3>1 DEF Free, TypeOK
      <4>4. Cardinality(Stray(j)') <= Cardinality(Stray(j))
        BY <4>2, StrayFinite, FS_Subset
      <4>5. /\ Copies(j) \in Nat /\ Cardinality(Stray(j)) \in Nat
            /\ Cardinality(Stray(j)') \in Nat /\ faults' = faults
        BY CopiesFinite, StrayFinite, StrayPrime, <2>2
      <4>6. Copies(j) + Cardinality(Stray(j))
              <= faults + (IF Free(j) THEN 1 ELSE 0)
        BY DEF CopyInv
      <4> QED
        BY <1>0, <4>1, <4>3, <4>4, <4>5, <4>6
    <3> QED
      BY <3>2 DEF CopyInv
  <2>4. CASE ~(lock[i] = None /\ i \in Pending)
    BY <1>1, <2>1, <2>2, <2>4
  <2> QED
    BY <2>3, <2>4
<1>3. ASSUME NEW r \in Relays, Nothing(r) PROVE CopyInv'
  <2>1. \A i \in Ids : lock[i] # r
    BY <1>3 DEF Nothing, RelayInv
  <2> QED
    BY <1>0, <1>3, <2>1, QuietEndCopy DEF Nothing
<1>4. ASSUME NEW r \in Relays, StatementFails(r) PROVE CopyInv'
  <2>1. \A i \in Ids : lock[i] # r
    BY <1>4 DEF StatementFails, RelayInv
  <2> QED
    BY <1>0, <1>4, <2>1, QuietEndCopy DEF StatementFails
<1>5. ASSUME NEW r \in Relays, CommitTick(r) PROVE CopyInv'
  <2>1. \A i \in Ids : lock[i] = r => i \in marked'
    BY <1>5 DEF CommitTick, RelayInv
  <2> QED
    BY <1>0, <1>5, <2>1, QuietEndCopy DEF CommitTick
<1>6. ASSUME NEW r \in Relays, Fail(r) \/ CommitUnknown(r) PROVE CopyInv'
  <2>1. /\ faults' = faults + 1 /\ EndTick(r) /\ UNCHANGED topic
        /\ marked \subseteq marked'
    BY <1>6 DEF Fail, CommitUnknown, Faulty
  <2> QED
    BY <1>0, <2>1, QuietEndCopy
<1>7. ASSUME NEW r \in Relays, Publish(r) PROVE CopyInv'
  <2>1. PICK i \in Ids :
          /\ NextToSend(r, i)
          /\ topic' = Append(topic, i)
          /\ sent' = [sent EXCEPT ![r] = @ \cup {i}]
    BY <1>7 DEF Publish
  <2>2. /\ sent'[r] = sent[r] \cup {i}
        /\ \A q \in Relays : q # r => sent'[q] = sent[q]
        /\ UNCHANGED <<marked, lock, claimed, faults>>
    BY <1>7, <2>1 DEF Publish, TypeOK
  <2>3. ASSUME NEW j \in Ids
        PROVE  Copies(j)' + Cardinality(Stray(j)')
                 <= faults' + (IF Free(j)' THEN 1 ELSE 0)
    <3>1. /\ Copies(j) \in Nat /\ Cardinality(Stray(j)) \in Nat
          /\ Copies(j) + Cardinality(Stray(j))
               <= faults + (IF Free(j) THEN 1 ELSE 0)
      BY CopiesFinite, StrayFinite DEF CopyInv
    <3>2. CASE j # i
      <4>1. Copies(j)' = Copies(j)
        BY <2>1, <3>2, CopiesAppend
      <4>2. Stray(j)' = Stray(j) /\ (Free(j)' <=> Free(j))
        BY <2>2, <3>2 DEF Stray, Free, TypeOK
      <4> QED
        BY <2>2, <3>1, <4>1, <4>2
    <3>3. CASE j = i
      <4>1. Copies(j)' = Copies(j) + 1
        BY <2>1, <3>3, CopiesAppend
      <4>2. Stray(j)' = Stray(j) \ {r}
        BY <2>2, <3>3 DEF Stray
      <4>3. CASE lock[i] = r
        <5>1. ~Free(j) /\ r \notin Stray(j)
          BY <2>1, <3>3, <4>3, MayPublish
        <5>2. Free(j)'
          BY <2>2, <3>3, <4>3 DEF Free
        <5>3. Stray(j)' = Stray(j)
          BY <4>2, <5>1
        <5> QED
          BY <1>0, <2>2, <3>1, <4>1, <5>1, <5>2, <5>3
      <4>4. CASE lock[i] # r
        <5>1. r \in Stray(j)
          BY <2>1, <3>3, <4>4, MayPublish
        <5>2. Cardinality(Stray(j)') = Cardinality(Stray(j)) - 1
          BY <4>2, <5>1, StrayFinite, RemoveOne
        <5>3. Free(j)' <=> Free(j)
          BY <2>2, <3>3, <4>4 DEF Free, TypeOK
        <5> QED
          BY <1>0, <2>2, <3>1, <4>1, <5>2, <5>3
      <4> QED
        BY <4>3, <4>4
    <3> QED
      BY <3>2, <3>3
  <2> QED
    BY <2>3 DEF CopyInv
<1>8. ASSUME NEW r \in Relays, PublishUnknown(r) PROVE CopyInv'
  <2>1. PICK i \in Ids : NextToSend(r, i) /\ topic' = Append(topic, i)
    BY <1>8 DEF PublishUnknown
  <2>2. faults' = faults + 1 /\ EndTick(r) /\ marked' = marked
    BY <1>8 DEF PublishUnknown, Faulty
  <2>3. ASSUME NEW j \in Ids
        PROVE  Copies(j)' + Cardinality(Stray(j)')
                 <= faults' + (IF Free(j)' THEN 1 ELSE 0)
    <3>1. /\ Stray(j)' = Stray(j) \ {r}
          /\ lock[j] # r /\ Free(j) => Free(j)'
          /\ Copies(j) + Cardinality(Stray(j)')
               <= faults' + (IF Free(j)' THEN 1 ELSE 0)
      BY <1>0, <2>2, EndTickCopy
    <3>2. /\ Copies(j) \in Nat /\ Cardinality(Stray(j)) \in Nat
          /\ Copies(j) + Cardinality(Stray(j))
               <= faults + (IF Free(j) THEN 1 ELSE 0)
      BY CopiesFinite, StrayFinite DEF CopyInv
    <3>3. CASE j # i
      <4>1. Copies(j)' = Copies(j)
        BY <2>1, <3>3, CopiesAppend
      <4> QED
        BY <3>1, <4>1
    <3>4. CASE j = i
      <4>1. Copies(j)' = Copies(j) + 1
        BY <2>1, <3>4, CopiesAppend
      <4>2. CASE lock[j] = r
        <5>1. ~Free(j) /\ Stray(j)' = Stray(j)
          BY <2>1, <3>1, <3>4, <4>2, MayPublish
        <5> QED
          BY <1>0, <2>2, <3>2, <4>1, <5>1
      <4>3. CASE lock[j] # r
        <5>1. r \in Stray(j)
          BY <2>1, <3>4, <4>3, MayPublish
        <5>2. Cardinality(Stray(j)') = Cardinality(Stray(j)) - 1
          BY <3>1, <5>1, StrayFinite, RemoveOne
        <5> QED
          BY <1>0, <2>2, <3>1, <3>2, <4>1, <4>3, <5>2
      <4> QED
        BY <4>2, <4>3
    <3> QED
      BY <3>3, <3>4
  <2> QED
    BY <2>3 DEF CopyInv
<1>9. ASSUME NEW r \in Relays, SessionLost(r) PROVE CopyInv'
  <2>1. /\ UNCHANGED <<marked, claimed, sent, topic>> /\ faults' = faults + 1
        /\ \A i \in Ids : lock'[i] = IF lock[i] = r THEN None ELSE lock[i]
    BY <1>9 DEF SessionLost, Faulty, relayVars
  <2>2. ASSUME NEW j \in Ids
        PROVE  Copies(j)' + Cardinality(Stray(j)')
                 <= faults' + (IF Free(j)' THEN 1 ELSE 0)
    <3>1. /\ Copies(j) \in Nat /\ Cardinality(Stray(j)) \in Nat
          /\ Copies(j) + Cardinality(Stray(j))
               <= faults + (IF Free(j) THEN 1 ELSE 0)
          /\ Copies(j)' = Copies(j)
      BY <2>1, CopiesFinite, StrayFinite DEF CopyInv, Copies
    <3>2. CASE lock[j] = r /\ j \notin sent[r]
      <4>1. ~Free(j) /\ r \notin Stray(j)
        BY <3>2 DEF RelayInv, Free, Stray
      <4>2. Stray(j)' = Stray(j) \cup {r}
        BY <2>1, <3>2 DEF Stray, RelayInv
      <4>3. Cardinality(Stray(j)') = Cardinality(Stray(j)) + 1
        BY <4>1, <4>2, StrayFinite, FS_AddElement
      <4> QED
        BY <1>0, <2>1, <3>1, <4>1, <4>3
    <3>3. CASE lock[j] = r /\ j \in sent[r]
      <4>1. Stray(j)' = Stray(j)
        BY <2>1, <3>3 DEF Stray
      <4> QED
        BY <1>0, <2>1, <3>1, <4>1
    <3>4. CASE lock[j] # r
      <4>1. Stray(j)' = Stray(j) /\ (Free(j)' <=> Free(j))
        BY <2>1, <3>4 DEF Stray, Free
      <4> QED
        BY <1>0, <2>1, <3>1, <4>1
    <3> QED
      BY <3>2, <3>3, <3>4
  <2> QED
    BY <2>2 DEF CopyInv
<1> QED
  BY <1>1, <1>2, <1>3, <1>4, <1>5, <1>6, <1>7, <1>8, <1>9
     DEF Next, Tick, Fault, Insert, EndInsert, Begin, Mark, vars, relayVars

(* The account of every row always balances. *)
THEOREM CopyInvariant == Spec => []CopyInv
BY TypeCorrect, RelayInvariant, CopyInvInit, CopyInvStep, PTL DEF Spec

(* Extra copies of an event are paid for by failed ticks, with any number of *)
(* relays ticking at once.                                                   *)
THEOREM CopiesPaidFor == Spec => []DuplicateNeedsFault
<1>1. TypeOK /\ CopyInv => DuplicateNeedsFault
  <2> SUFFICES ASSUME TypeOK, CopyInv, NEW i \in Ids
               PROVE  Copies(i) <= 1 + faults
    BY DEF DuplicateNeedsFault
  <2>1. Copies(i) \in Nat
    BY CopiesFinite
  <2>2. Cardinality(Stray(i)) \in Nat /\ faults \in Nat
    BY StrayFinite, RelayAssumption DEF TypeOK
  <2>3. Copies(i) + Cardinality(Stray(i)) <= faults + (IF Free(i) THEN 1 ELSE 0)
    BY DEF CopyInv
  <2> QED
    BY <2>1, <2>2, <2>3
<1> QED
  BY <1>1, TypeCorrect, CopyInvariant, PTL

------------------------------------------------------------------------------
(***************************************************************************)
(* The relays implement VerdictDelivery: a committed insert is a promise,  *)
(* a produce a delivery, a committed tick settles the rows it claimed, and *)
(* a failed tick is a mishap.                                              *)
(***************************************************************************)

LEMMA DeliveryInit == Init => Delivery!Init
BY DEF Init, Delivery!Init, There

(* The abstract account of an event is the concrete one. *)
LEMMA SameCopies ==
  /\ \A i : Delivery!Copies(i) = Copies(i)
  /\ \A i : Delivery!Delivered(i) <=> i \in OnTopic
<1>1. ASSUME NEW i PROVE Delivery!Copies(i) = Copies(i)
  BY DEF Delivery!Copies, Copies, Delivery!Cardinality, Cardinality
<1>2. ASSUME NEW i PROVE Delivery!Delivered(i) <=> i \in OnTopic
  BY DEF Delivery!Delivered, OnTopic
<1> QED
  BY <1>1, <1>2

LEMMA DeliveryStep ==
  TypeOK /\ RelayInv /\ CopyInv /\ [Next]_vars => [Delivery!Next]_(Delivery!vars)
<1> SUFFICES ASSUME TypeOK, RelayInv, CopyInv, [Next]_vars
             PROVE  Delivery!Next \/ UNCHANGED Delivery!vars
  OBVIOUS
<1> USE RelayAssumption
<1>0. ASSUME There' = There, UNCHANGED <<topic, marked, faults>>
      PROVE  UNCHANGED Delivery!vars
  BY <1>0 DEF Delivery!vars
<1>1. CASE Insert
  <2>1. state[nextId] = "absent" /\ nextId \in Ids
    BY <1>1 DEF Insert, RelayInv, TypeOK, Ids
  <2>2. There' = There
    BY <1>1, <2>1 DEF Insert, There, TypeOK
  <2> QED
    BY <1>0, <1>1, <2>2 DEF Insert
<1>2. ASSUME NEW i \in Ids, EndInsert(i)
      PROVE  Delivery!Next \/ UNCHANGED Delivery!vars
  <2>1. UNCHANGED <<topic, marked, faults>> /\ i \notin There
    BY <1>2 DEF EndInsert, There
  <2>2. CASE state' = [state EXCEPT ![i] = "aborted"]
    <3>1. There' = There
      BY <1>2, <2>2 DEF EndInsert, There, TypeOK
    <3> QED
      BY <1>0, <2>1, <3>1
  <2>3. CASE state' = [state EXCEPT ![i] = "there"]
    <3>1. There' = There \cup {i}
      BY <2>3 DEF There, TypeOK
    <3>2. Delivery!Promise(i)
      BY <2>1, <3>1 DEF Delivery!Promise
    <3> QED
      BY <3>2 DEF Delivery!Next
  <2> QED
    BY <1>2, <2>2, <2>3 DEF EndInsert
<1>3. ASSUME NEW r \in Relays,
             Begin(r) \/ Scan(r) \/ Nothing(r) \/ Mark(r) \/ StatementFails(r)
      PROVE  UNCHANGED Delivery!vars
  <2>1. There' = There /\ UNCHANGED <<topic, marked, faults>>
    BY <1>3 DEF Begin, Scan, Nothing, Mark, StatementFails, EndTick, There
  <2> QED
    BY <1>0, <2>1
<1>4. ASSUME NEW r \in Relays, Publish(r) PROVE Delivery!Next
  <2>1. PICK i \in Ids : NextToSend(r, i) /\ topic' = Append(topic, i)
    BY <1>4 DEF Publish
  <2>2. There' = There /\ UNCHANGED <<marked, faults>>
    BY <1>4 DEF Publish, There
  <2>3. i \in There /\ Copies(i) <= faults
    BY <2>1, MayPublish DEF RelayInv
  <2>4. Delivery!Deliver(i)
    BY <2>1, <2>2, <2>3, SameCopies DEF Delivery!Deliver
  <2> QED
    BY <2>4 DEF Delivery!Next
<1>5. ASSUME NEW r \in Relays, sent[r] = claimed[r]
      PROVE  /\ claimed[r] \in SUBSET Ids
             /\ \A i \in claimed[r] : i \in There /\ Delivery!Delivered(i)
  BY <1>5, SameCopies DEF RelayInv, TypeOK
<1>6. ASSUME NEW r \in Relays, CommitTick(r) PROVE Delivery!Next
  <2>1. sent[r] = claimed[r] /\ There' = There
        /\ marked' = marked \cup claimed[r] /\ UNCHANGED <<topic, faults>>
    BY <1>6 DEF CommitTick, EndTick, There, RelayInv
  <2>2. Delivery!Settle(claimed[r])
    BY <1>5, <2>1 DEF Delivery!Settle
  <2> QED
    BY <1>5, <2>1, <2>2 DEF Delivery!Next
<1>7. ASSUME NEW r \in Relays, Fail(r) \/ SessionLost(r) PROVE Delivery!Next
  <2>1. There' = There /\ UNCHANGED <<marked, topic>> /\ faults' = faults + 1
    BY <1>7 DEF Fail, SessionLost, EndTick, There, Faulty
  <2>2. Delivery!Mishap
    BY <2>1 DEF Delivery!Mishap
  <2> QED
    BY <2>2 DEF Delivery!Next
<1>8. ASSUME NEW r \in Relays, PublishUnknown(r) PROVE Delivery!Next
  <2>1. PICK i \in Ids : NextToSend(r, i) /\ topic' = Append(topic, i)
    BY <1>8 DEF PublishUnknown
  <2>2. There' = There /\ marked' = marked /\ faults' = faults + 1
    BY <1>8 DEF PublishUnknown, EndTick, There, Faulty
  <2>3. i \in There /\ Delivery!Copies(i) <= faults
    BY <2>1, MayPublish, SameCopies DEF RelayInv
  <2>4. Delivery!Mishap
    BY <2>1, <2>2, <2>3 DEF Delivery!Mishap
  <2> QED
    BY <2>4 DEF Delivery!Next
<1>9. ASSUME NEW r \in Relays, CommitUnknown(r) PROVE Delivery!Next
  <2>1. /\ sent[r] = claimed[r] /\ There' = There
        /\ marked' = marked \cup claimed[r] /\ UNCHANGED topic
        /\ faults' = faults + 1
    BY <1>9 DEF CommitUnknown, EndTick, There, RelayInv, Faulty
  <2>2. claimed[r] \in SUBSET There
    BY <1>5, <2>1
  <2>3. Delivery!Mishap
    BY <1>5, <2>1, <2>2 DEF Delivery!Mishap
  <2> QED
    BY <2>3 DEF Delivery!Next
<1>10. CASE UNCHANGED vars
  <2>1. There' = There /\ UNCHANGED <<topic, marked, faults>>
    BY <1>10 DEF vars, There
  <2> QED
    BY <1>0, <2>1
<1> QED
  BY <1>1, <1>2, <1>3, <1>4, <1>6, <1>7, <1>8, <1>9, <1>10
     DEF Next, Tick, Fault

(* Any number of relays together deliver at least once what was committed,  *)
(* and pay for every copy.                                                  *)
THEOREM ImplementsDelivery == Spec => DeliverySpec
<1>1. Spec => Delivery!Spec
  BY TypeCorrect, RelayInvariant, CopyInvariant, DeliveryInit, DeliveryStep, PTL
     DEF Spec, Delivery!Spec
<1> QED
  BY <1>1 DEF DeliverySpec

------------------------------------------------------------------------------
(***************************************************************************)
(* The order of the verdicts, with one relay: OrderInv.                    *)
(***************************************************************************)

LEMMA OrderInvInit == Init => OrderInv
BY DEF Init, OrderInv

(* A record appended to the topic keeps the order if the rows it must follow *)
(* are there already.                                                        *)
LEMMA AppendInOrder ==
  ASSUME TypeOK, OrderInv, NEW i \in Ids, topic' = Append(topic, i),
         earlier' = earlier, earlier[i] \subseteq OnTopic
  PROVE  \A k \in DOMAIN topic' : \A j \in earlier'[topic'[k]] :
           \E l \in 1..k : topic'[l] = j
<1>1. /\ DOMAIN topic = 1..Len(topic) /\ DOMAIN topic' = 1..(Len(topic) + 1)
      /\ Len(topic) \in Nat
      /\ \A k \in 1..Len(topic) : topic'[k] = topic[k]
      /\ topic'[Len(topic) + 1] = i
  BY DEF TypeOK
<1> SUFFICES ASSUME NEW k \in DOMAIN topic', NEW j \in earlier[topic'[k]]
             PROVE  \E l \in 1..k : topic'[l] = j
  OBVIOUS
<1>2. CASE k \in 1..Len(topic)
  <2>1. PICK l \in 1..k : topic[l] = j
    BY <1>1, <1>2 DEF OrderInv
  <2>2. l \in 1..Len(topic)
    BY <1>1, <1>2
  <2> QED
    BY <1>1, <2>1, <2>2
<1>3. CASE k = Len(topic) + 1
  <2>1. PICK l \in DOMAIN topic : topic[l] = j
    BY <1>1, <1>3 DEF OnTopic
  <2>2. l \in 1..k
    BY <1>1, <1>3
  <2> QED
    BY <1>1, <2>1, <2>2
<1> QED
  BY <1>1, <1>2, <1>3

(* What a relay is about to produce comes after all it must follow. *)
LEMMA NextInOrder ==
  ASSUME TypeOK, RelayInv, OrderInv, NEW r \in Relays, NEW i \in Ids,
         NextToSend(r, i)
  PROVE  earlier[i] \subseteq OnTopic
<1> SUFFICES ASSUME NEW j \in earlier[i] PROVE j \in OnTopic
  OBVIOUS
<1>1. /\ i \in claimed[r] /\ i \notin todo[r]
      /\ \A k \in claimed[r] \ sent[r] : i <= k
  BY DEF NextToSend, IsLowest, RelayInv
<1>2. j \in Nat /\ i \in Nat /\ j < i
  BY IdsNat DEF OrderInv, TypeOK
<1>3. j \in OnTopic \cup claimed[r]
  BY <1>1 DEF OrderInv
<1>4. j \notin claimed[r] \ sent[r]
  BY <1>1, <1>2
<1> QED
  BY <1>3, <1>4 DEF RelayInv

(* The end of a tick leaves nothing to produce. *)
LEMMA EndTickOrder ==
  ASSUME TypeOK, OrderInv, NEW r \in Relays, EndTick(r), UNCHANGED topic
  PROVE  OrderInv'
<1>1. /\ There' = There /\ OnTopic' = OnTopic /\ UNCHANGED <<earlier, topic>>
      /\ todo'[r] = {} /\ claimed'[r] = {}
      /\ \A q \in Relays : q # r =>
           todo'[q] = todo[q] /\ claimed'[q] = claimed[q]
  BY DEF EndTick, There, OnTopic, TypeOK
<1> QED
  BY <1>1 DEF OrderInv

LEMMA OrderInvStep ==
  ASSUME OneRelay, TypeOK, TypeOK', RelayInv, OrderInv, [Next]_vars
  PROVE  OrderInv'
<1> USE RelayAssumption, IdsNat
<1>1. CASE Insert
  <2>1. /\ state[nextId] = "absent" /\ nextId \in Ids
        /\ \A i \in Ids : state[i] # "absent" => i < nextId
    BY <1>1 DEF Insert, RelayInv, TypeOK, Ids
  <2>2. /\ There' = There /\ OnTopic' = OnTopic
        /\ earlier'[nextId] = There
        /\ \A i \in Ids : i # nextId => earlier'[i] = earlier[i]
        /\ UNCHANGED <<todo, claimed, topic>>
    BY <1>1, <2>1 DEF Insert, There, OnTopic, TypeOK, relayVars
  <2>3. nextId \notin There /\ \A j \in There : j \in Ids /\ j < nextId
    BY <2>1 DEF There
  <2>4. \A r \in Relays : nextId \notin todo[r] \cup claimed[r]
    BY <2>3 DEF RelayInv
  <2>5. \A k \in DOMAIN topic : topic[k] # nextId /\ topic[k] \in Ids
    BY <2>3 DEF RelayInv, OnTopic, There
  <2>6. \A i \in Ids : \A j \in earlier'[i] : j < i /\ j \in There'
    BY <2>2, <2>3 DEF OrderInv
  <2>7. ASSUME NEW r \in Relays, NEW i \in todo'[r] \cup claimed'[r],
               NEW j \in earlier'[i]
        PROVE  \/ j \in OnTopic' \cup claimed'[r]
               \/ i \in todo'[r] /\ j \in todo'[r]
    <3>1. i \in Ids /\ i # nextId /\ i \in todo[r] \cup claimed[r]
      BY <2>2, <2>4 DEF TypeOK
    <3> QED
      BY <2>2, <3>1 DEF OrderInv
  <2>8. \A k \in DOMAIN topic' : \A j \in earlier'[topic'[k]] :
          \E l \in 1..k : topic'[l] = j
    <3>1. \A k \in DOMAIN topic : earlier'[topic[k]] = earlier[topic[k]]
      BY <2>2, <2>5
    <3>2. topic' = topic
      BY <2>2
    <3>3. \A k \in DOMAIN topic : \A j \in earlier[topic[k]] :
            \E l \in 1..k : topic[l] = j
      BY DEF OrderInv
    <3> QED
      BY ONLY <3>1, <3>2, <3>3
  <2> QED
    BY <2>6, <2>7, <2>8 DEF OrderInv
<1>2. ASSUME NEW i \in Ids, EndInsert(i) PROVE OrderInv'
  <2>1. There \subseteq There' /\ OnTopic' = OnTopic
    BY <1>2 DEF EndInsert, There, OnTopic, TypeOK
  <2>2. UNCHANGED <<earlier, todo, claimed, topic>>
    BY <1>2 DEF EndInsert, relayVars
  <2> QED
    BY <2>1, <2>2 DEF OrderInv
<1>3. ASSUME NEW r \in Relays, Begin(r) PROVE OrderInv'
  <2>1. /\ There' = There /\ OnTopic' = OnTopic
        /\ UNCHANGED <<earlier, claimed, topic>>
        /\ todo'[r] = There \ marked
        /\ \A q \in Relays : q # r => todo'[q] = todo[q]
    BY <1>3 DEF Begin, Pending, There, OnTopic, TypeOK
  <2>2. claimed[r] = {} /\ marked \subseteq OnTopic /\ There \subseteq Ids
    BY <1>3 DEF Begin, RelayInv, There
  <2>3. \A i \in Ids : \A j \in earlier[i] : j < i /\ j \in There
    BY DEF OrderInv
  <2>4. ASSUME NEW q \in Relays, NEW i \in todo'[q] \cup claimed'[q],
               NEW j \in earlier'[i]
        PROVE  \/ j \in OnTopic' \cup claimed'[q]
               \/ i \in todo'[q] /\ j \in todo'[q]
    BY <2>1, <2>2, <2>3, <2>4 DEF OrderInv
  <2> QED
    BY <2>1, <2>4 DEF OrderInv
<1>4. ASSUME NEW r \in Relays, Scan(r) PROVE OrderInv'
  <2>1. PICK i \in todo[r] :
          /\ IsLowest(i, todo[r])
          /\ todo' = [todo EXCEPT ![r] = @ \ {i}]
          /\ IF lock[i] = None /\ i \in Pending
             THEN /\ lock' = [lock EXCEPT ![i] = r]
                  /\ claimed' = [claimed EXCEPT ![r] = @ \cup {i}]
             ELSE UNCHANGED <<lock, claimed>>
    BY <1>4 DEF Scan
  <2>2. /\ There' = There /\ OnTopic' = OnTopic /\ UNCHANGED <<earlier, topic>>
        /\ todo'[r] = todo[r] \ {i} /\ i \in Ids /\ i \in There
        /\ \A q \in Relays : q = r
    BY <1>4, <2>1 DEF Scan, There, OnTopic, TypeOK, RelayInv, OneRelay
  <2>3. i \in OnTopic \cup claimed'[r] /\ claimed[r] \subseteq claimed'[r]
    <3>1. CASE lock[i] = None /\ i \in Pending
      BY <2>1, <3>1 DEF TypeOK
    <3>2. CASE ~(lock[i] = None /\ i \in Pending)
      <4>1. lock[i] = None
        BY <2>1, <2>2 DEF TypeOK, RelayInv
      <4>2. i \in marked
        BY <2>2, <3>2, <4>1 DEF Pending
      <4> QED
        BY <2>1, <3>2, <4>2 DEF RelayInv
    <3> QED
      BY <3>1, <3>2
  <2>4. \A j \in earlier[i] : j \in OnTopic \cup claimed[r]
    <3> SUFFICES ASSUME NEW j \in earlier[i], j \in todo[r]
                 PROVE  FALSE
      BY DEF OrderInv
    <3>1. i \in Nat /\ j \in Nat /\ j < i /\ i <= j
      BY <2>1, <2>2 DEF OrderInv, IsLowest, TypeOK
    <3> QED
      BY <3>1
  <2>5. claimed'[r] \subseteq claimed[r] \cup {i}
    BY <2>1 DEF TypeOK
  <2>6. ASSUME NEW k \in todo'[r] \cup claimed'[r], NEW j \in earlier'[k]
        PROVE  \/ j \in OnTopic' \cup claimed'[r]
               \/ k \in todo'[r] /\ j \in todo'[r]
    <3>1. CASE k = i
      BY <2>2, <2>3, <2>4, <3>1
    <3>2. CASE k # i
      <4>1. k \in todo[r] \cup claimed[r] /\ j \in earlier[k]
        BY <2>2, <2>5, <3>2
      <4>2. \/ j \in OnTopic \cup claimed[r]
            \/ k \in todo[r] /\ j \in todo[r]
        BY <4>1 DEF OrderInv
      <4> QED
        BY <2>2, <2>3, <3>2, <4>2
    <3> QED
      BY <3>1, <3>2
  <2> QED
    BY <2>2, <2>6 DEF OrderInv
<1>5. ASSUME NEW r \in Relays, Publish(r) PROVE OrderInv'
  <2>1. PICK i \in Ids : NextToSend(r, i) /\ topic' = Append(topic, i)
    BY <1>5 DEF Publish
  <2>2. /\ UNCHANGED <<state, earlier, todo, claimed>> /\ There' = There
        /\ OnTopic \subseteq OnTopic'
    BY <1>5, <2>1, AppendOnTopic DEF Publish, There
  <2>3. \A k \in DOMAIN topic' : \A j \in earlier'[topic'[k]] :
          \E l \in 1..k : topic'[l] = j
    BY <2>1, <2>2, NextInOrder, AppendInOrder
  <2> QED
    BY <2>2, <2>3 DEF OrderInv
<1>6. ASSUME NEW r \in Relays, PublishUnknown(r) PROVE OrderInv'
  <2>1. PICK i \in Ids : NextToSend(r, i) /\ topic' = Append(topic, i)
    BY <1>6 DEF PublishUnknown
  <2>2. /\ UNCHANGED <<state, earlier>> /\ There' = There
        /\ todo'[r] = {} /\ claimed'[r] = {}
        /\ \A q \in Relays : q # r =>
             todo'[q] = todo[q] /\ claimed'[q] = claimed[q]
        /\ OnTopic \subseteq OnTopic'
    BY <1>6, <2>1, AppendOnTopic DEF PublishUnknown, EndTick, There, TypeOK
  <2>3. \A k \in DOMAIN topic' : \A j \in earlier'[topic'[k]] :
          \E l \in 1..k : topic'[l] = j
    BY <2>1, <2>2, NextInOrder, AppendInOrder
  <2> QED
    BY <2>2, <2>3 DEF OrderInv
<1>7. ASSUME NEW r \in Relays,
             \/ Nothing(r) \/ CommitTick(r) \/ StatementFails(r) \/ Fail(r)
             \/ CommitUnknown(r)
      PROVE  OrderInv'
  BY <1>7, EndTickOrder DEF Nothing, CommitTick, StatementFails, Fail,
                            CommitUnknown
<1>8. CASE UNCHANGED <<state, earlier, todo, claimed, topic>>
  BY <1>8 DEF OrderInv, There, OnTopic
<1> QED
  BY <1>1, <1>2, <1>3, <1>4, <1>5, <1>6, <1>7, <1>8
     DEF Next, Tick, Fault, Mark, SessionLost, vars, relayVars

(* One relay ships every row behind the rows that were there before it. *)
THEOREM OrderInvariant == ASSUME OneRelay PROVE Spec => []OrderInv
<1>1. TypeOK /\ TypeOK' /\ RelayInv /\ OrderInv /\ [Next]_vars => OrderInv'
  BY OrderInvStep
<1> QED
  BY <1>1, TypeCorrect, RelayInvariant, OrderInvInit, PTL DEF Spec

(* With one relay the verdicts of an organization are on the topic in the   *)
(* order of their transactions, as publisher.go:17-18 has it; with two they *)
(* need not be.                                                             *)
THEOREM OrderOfOneRelay == ASSUME OneRelay PROVE Spec => []TenantOrder
<1>1. OrderInv => TenantOrder
  BY DEF OrderInv, TenantOrder
<1> QED
  BY <1>1, OrderInvariant, PTL

------------------------------------------------------------------------------
(***************************************************************************)
(* What is overtaken is in hand.                                           *)
(***************************************************************************)

\* Nobody ships around j.
Covered(j) == j \in OnTopic \/ InHand(j)

\* r passes over nothing that is not covered.
Careful(r) ==
  /\ Held(r)
  /\ \A i \in todo[r] \cup claimed[r] : \A j \in earlier[i] :
       Covered(j) \/ (i \in todo[r] /\ j \in todo[r])

TopicCovered == \A k \in DOMAIN topic : \A j \in earlier[topic[k]] : Covered(j)

Backward == \A i \in Ids : \A j \in earlier[i] : j < i /\ j \in There

HandInv ==
  /\ Backward
  /\ faults = 0 => TopicCovered /\ \A r \in Relays : Careful(r)

LEMMA HandInvSplit == HandInv <=> OvertakingInv /\ OvertakenIsInHand
BY DEF HandInv, OvertakingInv, OvertakenIsInHand, Careful, TopicCovered, Covered,
       Backward

LEMMA HandInvInit == Init => HandInv
BY DEF Init, HandInv, Backward, TopicCovered, Careful, Held

(* What a row follows is fixed at its insert, before anybody knows of it. *)
LEMMA BackwardStep ==
  ASSUME TypeOK, RelayInv, Backward, [Next]_vars
  PROVE  Backward'
<1> USE IdsNat
<1>1. ASSUME UNCHANGED <<state, earlier>> PROVE Backward'
  BY <1>1 DEF Backward, There
<1>2. CASE Insert
  <2>1. /\ state[nextId] = "absent" /\ nextId \in Ids
        /\ \A j \in There : j < nextId
    BY <1>2 DEF Insert, RelayInv, TypeOK, Ids, There
  <2>2. /\ There' = There /\ earlier'[nextId] = There
        /\ \A i \in Ids : i # nextId => earlier'[i] = earlier[i]
    BY <1>2, <2>1 DEF Insert, There, TypeOK
  <2> QED
    BY <2>1, <2>2 DEF Backward
<1>3. ASSUME NEW i \in Ids, EndInsert(i) PROVE Backward'
  <2>1. There \subseteq There' /\ earlier' = earlier
    BY <1>3 DEF EndInsert, There, TypeOK
  <2> QED
    BY <2>1 DEF Backward
<1> QED
  BY <1>1, <1>2, <1>3
     DEF Next, Tick, Fault, Begin, Scan, Nothing, Publish, Mark, CommitTick, Fail,
         PublishUnknown, CommitUnknown, SessionLost, StatementFails, EndTick, vars

(* A tick that ends with all of its claims on the topic uncovers nothing. *)
LEMMA EndTickHand ==
  ASSUME TypeOK, NEW r \in Relays, EndTick(r), UNCHANGED topic,
         claimed[r] \subseteq OnTopic,
         TopicCovered, \A q \in Relays : Careful(q)
  PROVE  TopicCovered' /\ \A q \in Relays : Careful(q)'
<1>1. /\ OnTopic' = OnTopic /\ UNCHANGED <<earlier, topic>>
      /\ todo'[r] = {} /\ claimed'[r] = {}
      /\ \A q \in Relays : q # r =>
           todo'[q] = todo[q] /\ claimed'[q] = claimed[q]
      /\ \A i \in Ids : lock'[i] = IF lock[i] = r THEN None ELSE lock[i]
  BY DEF EndTick, OnTopic, TypeOK
<1>2. \A j : Covered(j) => Covered(j)'
  <2> SUFFICES ASSUME NEW j, Covered(j) PROVE j \in OnTopic' \/ InHand(j)'
    BY DEF Covered
  <2>1. CASE j \in OnTopic
    BY <1>1, <2>1
  <2>2. CASE InHand(j)
    <3>1. PICK q \in Relays : j \in claimed[q]
      BY <2>2 DEF InHand
    <3> QED
      BY <1>1, <3>1 DEF InHand
  <2> QED
    BY <2>1, <2>2 DEF Covered
<1>3. TopicCovered'
  BY <1>1, <1>2 DEF TopicCovered
<1>4. ASSUME NEW q \in Relays PROVE Careful(q)'
  <2>1. Held(q)'
    BY <1>1 DEF Held, Careful, TypeOK
  <2>2. ASSUME NEW i \in todo'[q] \cup claimed'[q], NEW j \in earlier'[i]
        PROVE  Covered(j)' \/ (i \in todo'[q] /\ j \in todo'[q])
    <3>1. q # r /\ i \in todo[q] \cup claimed[q] /\ j \in earlier[i]
      BY <1>1
    <3>2. Covered(j) \/ (i \in todo[q] /\ j \in todo[q])
      BY <3>1 DEF Careful
    <3> QED
      BY <1>1, <1>2, <3>1, <3>2
  <2> QED
    BY <2>1, <2>2 DEF Careful
<1> QED
  BY <1>3, <1>4

(* The steps of a run in which nothing has failed. *)
LEMMA CarefulStep ==
  ASSUME TypeOK, TypeOK', RelayInv, HandInv, [Next]_vars, faults' = 0
  PROVE  TopicCovered' /\ \A r \in Relays : Careful(r)'
<1> USE RelayAssumption, IdsNat
<1> DEFINE Goal == TopicCovered' /\ \A r \in Relays : Careful(r)'
<1>0. Backward /\ faults \in Nat
  BY DEF HandInv, TypeOK
<1>1. ASSUME UNCHANGED <<earlier, lock, todo, claimed, topic, faults>> PROVE Goal
  BY <1>1 DEF HandInv, TopicCovered, Careful, Covered, InHand, OnTopic, Held
<1>2. CASE Insert
  <2>1. /\ state[nextId] = "absent" /\ nextId \in Ids /\ nextId \notin There
    BY <1>2 DEF Insert, RelayInv, TypeOK, Ids, There
  <2>2. /\ UNCHANGED <<lock, todo, claimed, topic, faults>>
        /\ \A i \in Ids : i # nextId => earlier'[i] = earlier[i]
    BY <1>2, <2>1 DEF Insert, TypeOK, relayVars
  <2>3. /\ \A r \in Relays : todo[r] \cup claimed[r] \subseteq There
        /\ \A k \in DOMAIN topic : topic[k] \in There
        /\ \A i \in There : i \in Ids /\ i # nextId
    BY <2>1 DEF RelayInv, OnTopic, There
  <2>4. \A j : Covered(j) => Covered(j)'
    BY <2>2 DEF Covered, OnTopic, InHand
  <2>5. TopicCovered'
    <3>1. \A k \in DOMAIN topic : earlier'[topic[k]] = earlier[topic[k]]
      BY <2>2, <2>3
    <3> QED
      BY <2>2, <2>4, <3>1 DEF HandInv, TopicCovered
  <2>6. ASSUME NEW r \in Relays PROVE Careful(r)'
    <3>1. Careful(r)
      BY <2>2 DEF HandInv
    <3>2. Held(r)'
      BY <2>2, <3>1 DEF Careful, Held
    <3>3. \A i \in todo[r] \cup claimed[r] : earlier'[i] = earlier[i]
      BY <2>2, <2>3
    <3> QED
      BY <2>2, <2>4, <3>1, <3>2, <3>3 DEF Careful
  <2> QED
    BY <2>5, <2>6
<1>3. ASSUME NEW i \in Ids, EndInsert(i) PROVE Goal
  BY <1>1, <1>3 DEF EndInsert, relayVars
<1>4. ASSUME NEW r \in Relays, Begin(r) PROVE Goal
  <2>1. /\ UNCHANGED <<earlier, lock, claimed, topic, faults>>
        /\ todo'[r] = There \ marked
        /\ \A q \in Relays : q # r => todo'[q] = todo[q]
    BY <1>4 DEF Begin, Pending, TypeOK
  <2>2. claimed[r] = {} /\ marked \subseteq OnTopic /\ There \subseteq Ids
    BY <1>4 DEF Begin, RelayInv, There
  <2>3. \A j : Covered(j) => Covered(j)'
    BY <2>1 DEF Covered, OnTopic, InHand
  <2>4. TopicCovered'
    BY <2>1, <2>3 DEF HandInv, TopicCovered
  <2>5. ASSUME NEW q \in Relays PROVE Careful(q)'
    <3>1. Held(q)'
      BY <2>1 DEF HandInv, Careful, Held
    <3>2. ASSUME NEW i \in todo'[q] \cup claimed'[q], NEW j \in earlier'[i]
          PROVE  Covered(j)' \/ (i \in todo'[q] /\ j \in todo'[q])
      <4>1. CASE q = r
        <5>1. i \in There /\ j \in There
          BY <2>1, <2>2, <3>2, <4>1, <1>0 DEF Backward
        <5>2. j \in marked => Covered(j)
          BY <2>2 DEF Covered
        <5> QED
          BY <2>1, <2>2, <2>3, <3>2, <4>1, <5>1, <5>2
      <4>2. CASE q # r
        BY <2>1, <2>3, <3>2, <4>2 DEF HandInv, Careful
      <4> QED
        BY <4>1, <4>2
    <3> QED
      BY <3>1, <3>2 DEF Careful
  <2> QED
    BY <2>4, <2>5
<1>5. ASSUME NEW r \in Relays, Scan(r) PROVE Goal
  <2>1. PICK i \in todo[r] :
          /\ IsLowest(i, todo[r])
          /\ todo' = [todo EXCEPT ![r] = @ \ {i}]
          /\ IF lock[i] = None /\ i \in Pending
             THEN /\ lock' = [lock EXCEPT ![i] = r]
                  /\ claimed' = [claimed EXCEPT ![r] = @ \cup {i}]
             ELSE UNCHANGED <<lock, claimed>>
    BY <1>5 DEF Scan
  <2>2. /\ UNCHANGED <<earlier, topic, faults>> /\ OnTopic' = OnTopic
        /\ i \in Ids /\ i \in There
        /\ todo'[r] = todo[r] \ {i}
        /\ \A q \in Relays : q # r =>
             todo'[q] = todo[q] /\ claimed'[q] = claimed[q]
        /\ claimed[r] \subseteq claimed'[r] /\ claimed'[r] \subseteq claimed[r] \cup {i}
    BY <1>5, <2>1 DEF Scan, OnTopic, TypeOK, RelayInv
  <2>3. \A j : Covered(j) => Covered(j)'
    <3>1. \A q \in Relays : claimed[q] \subseteq claimed'[q]
      BY <2>2
    <3> QED
      BY <2>2, <3>1 DEF Covered, InHand
  <2>4. Covered(i)'
    <3>1. CASE lock[i] = None /\ i \in Pending
      <4>1. i \in claimed'[r]
        BY <2>1, <3>1 DEF TypeOK
      <4> QED
        BY <4>1 DEF Covered, InHand
    <3>2. CASE lock[i] # None
      <4>1. lock[i] \in Relays /\ i \in claimed[lock[i]]
        BY <2>2, <3>2 DEF TypeOK, RelayInv
      <4>2. Covered(i)
        BY <4>1 DEF Covered, InHand
      <4> QED
        BY <2>3, <4>2
    <3>3. CASE i \notin Pending
      <4>1. i \in OnTopic
        BY <2>2, <3>3 DEF Pending, RelayInv
      <4> QED
        BY <2>2, <4>1 DEF Covered
    <3> QED
      BY <3>1, <3>2, <3>3
  <2>5. \A j \in earlier[i] : Covered(j)
    <3> SUFFICES ASSUME NEW j \in earlier[i], j \in todo[r] PROVE FALSE
      BY <2>2 DEF HandInv, Careful
    <3>1. i \in Nat /\ j \in Nat /\ j < i /\ i <= j
      BY <1>0, <2>1, <2>2 DEF Backward, IsLowest, TypeOK
    <3> QED
      BY <3>1
  <2>6. TopicCovered'
    BY <2>2, <2>3 DEF HandInv, TopicCovered
  <2>7. ASSUME NEW q \in Relays PROVE Careful(q)'
    <3>1. Held(q)
      BY <2>2 DEF HandInv, Careful
    <3>2. Held(q)'
      <4>1. CASE q = r
        <5>1. CASE lock[i] = None /\ i \in Pending
          <6>1. \A k \in Ids : lock'[k] = IF k = i THEN r ELSE lock[k]
            BY <2>1, <5>1 DEF TypeOK
          <6>2. claimed[r] \subseteq Ids
            BY DEF TypeOK
          <6> QED
            BY <2>2, <3>1, <4>1, <6>1, <6>2 DEF Held
        <5>2. CASE ~(lock[i] = None /\ i \in Pending)
          BY <2>1, <3>1, <4>1, <5>2 DEF Held
        <5> QED
          BY <5>1, <5>2
      <4>2. CASE q # r
        <5>1. \A k \in claimed[q] : k \in Ids /\ lock[k] = q
          BY <3>1 DEF Held, TypeOK
        <5>2. \A k \in Ids : lock[k] = q => lock'[k] = q
          BY <2>1 DEF TypeOK
        <5> QED
          BY <2>2, <4>2, <5>1, <5>2 DEF Held
      <4> QED
        BY <4>1, <4>2
    <3>3. ASSUME NEW k \in todo'[q] \cup claimed'[q], NEW j \in earlier'[k]
          PROVE  Covered(j)' \/ (k \in todo'[q] /\ j \in todo'[q])
      <4>1. CASE q = r /\ k = i
        BY <2>2, <2>3, <2>5, <3>3, <4>1
      <4>2. CASE ~(q = r /\ k = i)
        <5>1. k \in todo[q] \cup claimed[q] /\ j \in earlier[k]
          BY <2>2, <3>3, <4>2
        <5>2. Covered(j) \/ (k \in todo[q] /\ j \in todo[q])
          BY <2>2, <5>1 DEF HandInv, Careful
        <5>3. j = i => Covered(j)'
          BY <2>4
        <5> QED
          BY <2>2, <2>3, <4>2, <5>2, <5>3
      <4> QED
        BY <4>1, <4>2
    <3> QED
      BY <3>2, <3>3 DEF Careful
  <2> QED
    BY <2>6, <2>7
<1>6. ASSUME NEW r \in Relays, Publish(r) PROVE Goal
  <2>1. PICK i \in Ids : NextToSend(r, i) /\ topic' = Append(topic, i)
    BY <1>6 DEF Publish
  <2>2. /\ UNCHANGED <<earlier, lock, todo, claimed, faults>>
        /\ OnTopic' = OnTopic \cup {i}
    BY <1>6, <2>1, AppendOnTopic DEF Publish
  <2>3. \A j : Covered(j) => Covered(j)'
    BY <2>2 DEF Covered, InHand
  <2>4. \A j \in earlier[i] : Covered(j)
    <3>1. i \in claimed[r] /\ i \notin todo[r]
      BY <2>1 DEF NextToSend, IsLowest, RelayInv
    <3> QED
      BY <2>2, <3>1 DEF HandInv, Careful
  <2>5. TopicCovered'
    <3>1. /\ DOMAIN topic = 1..Len(topic) /\ DOMAIN topic' = 1..(Len(topic) + 1)
          /\ Len(topic) \in Nat
          /\ \A k \in 1..Len(topic) : topic'[k] = topic[k]
          /\ topic'[Len(topic) + 1] = i
      BY <2>1 DEF TypeOK
    <3>2. \A k \in DOMAIN topic' : k \in DOMAIN topic \/ topic'[k] = i
      BY <3>1
    <3>3. \A k \in DOMAIN topic : topic'[k] = topic[k]
      BY <3>1
    <3> QED
      BY <2>2, <2>3, <2>4, <3>2, <3>3 DEF HandInv, TopicCovered
  <2>6. ASSUME NEW q \in Relays PROVE Careful(q)'
    BY <2>2, <2>3 DEF HandInv, Careful, Held
  <2> QED
    BY <2>5, <2>6
<1>7. ASSUME NEW r \in Relays, Nothing(r) \/ CommitTick(r) PROVE Goal
  <2>1. /\ EndTick(r) /\ UNCHANGED <<topic, faults>>
        /\ claimed[r] \subseteq OnTopic
    BY <1>7 DEF Nothing, CommitTick, RelayInv
  <2> QED
    BY <2>1, EndTickHand DEF HandInv
<1>8. ASSUME NEW r \in Relays, StatementFails(r) PROVE Goal
  BY <1>8 DEF StatementFails, HandInv, Careful
<1>9. ASSUME NEW r \in Relays, Fault(r) PROVE Goal
  BY <1>0, <1>9 DEF Fault, Fail, PublishUnknown, CommitUnknown, SessionLost, Faulty
<1>10. ASSUME NEW r \in Relays, Mark(r) PROVE Goal
  BY <1>1, <1>10 DEF Mark
<1>11. CASE UNCHANGED vars
  BY <1>1, <1>11 DEF vars, relayVars
<1> QED
  BY <1>2, <1>3, <1>4, <1>5, <1>6, <1>7, <1>8, <1>9, <1>10, <1>11 DEF Next, Tick

(* However many relays skip each other's locks: while nothing fails, an event *)
(* is ahead only of earlier ones that a relay has claimed and will ship.      *)
THEOREM OvertakenAreInHand == Spec => []OvertakenIsInHand
<1>1. TypeOK /\ TypeOK' /\ RelayInv /\ HandInv /\ [Next]_vars => HandInv'
  BY BackwardStep, CarefulStep DEF HandInv
<1>2. HandInv => OvertakenIsInHand
  BY HandInvSplit
<1> QED
  BY <1>1, <1>2, HandInvInit, TypeCorrect, RelayInvariant, PTL DEF Spec
==============================================================================
