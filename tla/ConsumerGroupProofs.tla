------------------------- MODULE ConsumerGroupProofs -------------------------
(***************************************************************************)
(* Type correctness of the consumer group and its main safety property:    *)
(* the committed offset never passes a record nobody has dealt with.       *)
(***************************************************************************)
EXTENDS ConsumerGroup, TLAPS, FiniteSetTheorems

(* A record is a partition and one of its offsets. *)
LEMMA RecordShape ==
  ASSUME NEW rec \in Records
  PROVE  /\ rec[1] \in Partitions
         /\ rec[2] \in Nat \ {0}
         /\ rec[2] <= TopicLen[rec[1]]
         /\ rec = <<rec[1], rec[2]>>
BY GroupAssumption DEF Records

LEMMA OffsetsAreNat == Offsets \subseteq Nat
BY GroupAssumption DEF Offsets

(* What a poll returns are records of the topic. *)
LEMMA FetchedAreRecords ==
  ASSUME NEW r, NEW upto PROVE FetchedUpTo(r, upto) \subseteq Records
BY DEF FetchedUpTo

(* The state of the consumer group stays within its types. *)
LEMMA GroupTypeInit == GroupInit => GroupTypeOK
BY GroupAssumption DEF GroupInit, GroupTypeOK

LEMMA FaultyType ==
  ASSUME GroupTypeOK, Faulty PROVE faults' \in 0..MaxFaults
BY GroupAssumption DEF GroupTypeOK, Faulty

LEMMA GroupTypeStep ==
  ASSUME GroupTypeOK, [GroupNext]_groupVars
  PROVE  GroupTypeOK'
<1> USE GroupAssumption
<1>1. ASSUME NEW r \in Replicas, NEW upto \in [Partitions -> Offsets],
             PollFetches(r, upto)
      PROVE  /\ owner' \in [Partitions -> Replicas \cup {None}]
             /\ position' \in [Partitions -> Nat]
             /\ head' \in [Partitions -> Nat]
             /\ committed' \in [Partitions -> Nat]
             /\ mode' \in [Replicas -> {"up", "stopping", "down"}]
  BY <1>1, OffsetsAreNat DEF GroupTypeOK, PollFetches, HeadAfterPoll
<1>2. ASSUME NEW r \in Replicas, Fetch(r) PROVE GroupTypeOK'
  BY <1>1, <1>2, FetchedAreRecords DEF GroupTypeOK, Fetch
<1>3. ASSUME NEW r \in Replicas, FetchError(r) PROVE GroupTypeOK'
  BY <1>1, <1>3, FetchedAreRecords, FaultyType DEF GroupTypeOK, FetchError
<1>4. ASSUME NEW r \in Replicas, LastPoll(r) PROVE GroupTypeOK'
  BY <1>4 DEF GroupTypeOK, LastPoll, HeadAfterPoll
<1>5. ASSUME NEW r \in Replicas, NEW rec \in Records, Return(r, rec),
             UNCHANGED faults \/ Faulty
      PROVE  GroupTypeOK'
  BY <1>5, FaultyType DEF GroupTypeOK, Return
<1>6. ASSUME NEW r \in Replicas, NEW p \in Partitions, Assign(p, r)
      PROVE  GroupTypeOK'
  BY <1>6, FaultyType DEF GroupTypeOK, Assign
<1>7. ASSUME NEW p \in Partitions, AutoCommit(p) PROVE GroupTypeOK'
  BY <1>7 DEF GroupTypeOK, AutoCommit
<1>8. ASSUME NEW r \in Replicas, NEW c \in [Partitions -> Nat], Leave(r, c),
             faults' \in 0..MaxFaults
      PROVE  GroupTypeOK'
  BY <1>8 DEF GroupTypeOK, Leave
<1>9. ASSUME NEW r \in Replicas, Crash(r) PROVE GroupTypeOK'
  BY <1>8, <1>9, FaultyType DEF GroupTypeOK, Crash
<1>10. ASSUME NEW r \in Replicas, Terminate(r) PROVE GroupTypeOK'
  BY <1>8, <1>10 DEF GroupTypeOK, Terminate
<1>11. ASSUME NEW r \in Replicas, Stop(r) PROVE GroupTypeOK'
  BY <1>11, FaultyType DEF GroupTypeOK, Stop
<1>12. ASSUME NEW r \in Replicas, Restart(r) PROVE GroupTypeOK'
  BY <1>12 DEF GroupTypeOK, Restart
<1>13. CASE UNCHANGED groupVars
  BY <1>13 DEF GroupTypeOK, groupVars
<1>14. CASE HandlerFault
  BY <1>14, FaultyType DEF GroupTypeOK, HandlerFault
<1>15. QED
  BY <1>2, <1>3, <1>4, <1>5, <1>6, <1>7, <1>9, <1>10, <1>11, <1>12, <1>13, <1>14
     DEF GroupNext

THEOREM GroupTypeCorrect == GroupSpec => []GroupTypeOK
BY GroupTypeInit, GroupTypeStep, PTL DEF GroupSpec

------------------------------------------------------------------------------
(***************************************************************************)
(* GroupInv is inductive.  The heart of it is the poll: it may make        *)
(* committable all it returned before only because none of that is still   *)
(* in flight.                                                              *)
(***************************************************************************)

LEMMA GroupInvInit == GroupInit => GroupInv
<1> SUFFICES ASSUME GroupInit PROVE GroupInv
  OBVIOUS
<1>1. \A p \in Partitions : TopicLen[p] \in Nat
  BY GroupAssumption
<1> QED
  BY <1>1, RecordShape DEF GroupInit, GroupInv

(* Offsets of a poll: behind the new positions are the records that were    *)
(* behind the old ones and the records fetched.                             *)
LEMMA PollCovers ==
  ASSUME GroupTypeOK, GroupInv, NEW r \in Replicas,
         NEW upto \in [Partitions -> Offsets], PollFetches(r, upto),
         NEW rec \in Records
  PROVE  /\ rec[2] <= head'[rec[1]] => rec \in Settled
         /\ rec[2] <= position'[rec[1]] =>
              \/ rec \in Settled
              \/ rec \in FetchedUpTo(r, upto)
              \/ owner[rec[1]] # None /\ owner[rec[1]] # r
                   /\ rec \in inflight[owner[rec[1]]]
<1> DEFINE p == rec[1]
<1>1. /\ p \in Partitions /\ rec[2] \in Nat \ {0}
      /\ position[p] \in Nat /\ upto[p] \in Nat /\ head[p] \in Nat
  BY RecordShape, OffsetsAreNat DEF GroupTypeOK
<1>2. r # None
  BY GroupAssumption
<1>3. CASE owner[p] = r
  <2>1. head'[p] = position[p] /\ position'[p] = upto[p]
    BY <1>1, <1>3 DEF PollFetches, HeadAfterPoll
  <2>2. rec[2] <= position[p] => rec \in Settled
    BY <1>3 DEF PollFetches, GroupInv
  <2>3. ~(rec[2] <= position[p]) /\ rec[2] <= upto[p]
          => rec \in FetchedUpTo(r, upto)
    BY <1>1, <1>3 DEF FetchedUpTo
  <2> QED
    BY <2>1, <2>2, <2>3
<1>4. CASE owner[p] # r
  <2>1. head'[p] = head[p] /\ position'[p] = position[p]
    BY <1>1, <1>4 DEF PollFetches, HeadAfterPoll
  <2> QED
    BY <2>1, <1>4 DEF GroupInv
<1> QED
  BY <1>3, <1>4

(* The order of the offsets survives a poll. *)
LEMMA PollOrder ==
  ASSUME GroupTypeOK, GroupInv, NEW r \in Replicas,
         NEW upto \in [Partitions -> Offsets], PollFetches(r, upto),
         NEW p \in Partitions
  PROVE  /\ committed'[p] <= head'[p]
         /\ head'[p] <= position'[p]
         /\ position'[p] <= TopicLen[p]
         /\ owner'[p] = None => position'[p] = committed'[p]
<1>1. /\ position[p] \in Nat /\ head[p] \in Nat /\ committed[p] \in Nat
      /\ upto[p] \in Nat /\ TopicLen[p] \in Nat
  BY OffsetsAreNat, GroupAssumption DEF GroupTypeOK
<1>2. r # None
  BY GroupAssumption
<1>3. /\ head'[p] = IF owner[p] = r THEN position[p] ELSE head[p]
      /\ position'[p] = upto[p] /\ committed'[p] = committed[p]
      /\ owner'[p] = owner[p]
      /\ position[p] <= upto[p] /\ upto[p] <= TopicLen[p]
      /\ owner[p] # r => upto[p] = position[p]
  BY DEF PollFetches, HeadAfterPoll
<1> QED
  BY <1>1, <1>2, <1>3 DEF GroupInv

LEMMA GroupInvStep ==
  ASSUME GroupTypeOK, GroupTypeOK', GroupInv, [GroupNext]_groupVars
  PROVE  GroupInv'
<1> USE GroupAssumption
<1>1. \A rec \in Records : rec[1] \in Partitions /\ rec[2] \in Nat \ {0}
  BY RecordShape
<1>2. ASSUME NEW r \in Replicas, Fetch(r) PROVE GroupInv'
  <2>1. PICK upto \in [Partitions -> Offsets] :
          /\ PollFetches(r, upto)
          /\ inflight' = [inflight EXCEPT ![r] = FetchedUpTo(r, upto)]
    BY <1>2 DEF Fetch
  <2>2. UNCHANGED Settled /\ owner' = owner
    BY <1>2, <2>1 DEF Fetch, Settled, PollFetches
  <2>3. ASSUME NEW rec \in Records
        PROVE  /\ rec[2] <= head'[rec[1]] => rec \in Settled'
               /\ rec[2] <= position'[rec[1]] =>
                    \/ rec \in Settled'
                    \/ /\ owner'[rec[1]] # None
                       /\ rec \in inflight'[owner'[rec[1]]]
    <3>1. rec \in FetchedUpTo(r, upto) => owner[rec[1]] = r
      BY DEF FetchedUpTo
    <3>2. owner[rec[1]] # None => owner[rec[1]] \in Replicas
      BY <1>1 DEF GroupTypeOK
    <3>3. inflight'[r] = FetchedUpTo(r, upto)
      BY <2>1 DEF GroupTypeOK
    <3>4. owner[rec[1]] # None /\ owner[rec[1]] # r
            => inflight'[owner[rec[1]]] = inflight[owner[rec[1]]]
      BY <2>1, <3>2 DEF GroupTypeOK
    <3> QED
      BY <2>1, <2>2, <3>1, <3>3, <3>4, PollCovers
  <2> QED
    BY <2>1, <2>3, PollOrder DEF GroupInv
<1>3. ASSUME NEW r \in Replicas, FetchError(r) PROVE GroupInv'
  <2>1. PICK upto \in [Partitions -> Offsets] :
          /\ PollFetches(r, upto)
          /\ dropped' = dropped \cup FetchedUpTo(r, upto)
    BY <1>3 DEF FetchError
  <2>2. /\ Settled' = Settled \cup FetchedUpTo(r, upto)
        /\ owner' = owner /\ inflight' = inflight
    BY <1>3, <2>1 DEF FetchError, Settled, PollFetches
  <2> QED
    BY <2>1, <2>2, PollCovers, PollOrder DEF GroupInv
<1>4. ASSUME NEW r \in Replicas, LastPoll(r) PROVE GroupInv'
  <2>1. r # None /\ inflight[r] = {}
    BY <1>4 DEF LastPoll
  <2>2. \A p \in Partitions :
          head'[p] = IF owner[p] = r THEN position[p] ELSE head[p]
    BY <1>4 DEF LastPoll, HeadAfterPoll
  <2>3. /\ UNCHANGED <<owner, position, committed, inflight>>
        /\ Settled' = Settled
    BY <1>4 DEF LastPoll, Settled
  <2> QED
    BY <1>1, <2>1, <2>2, <2>3 DEF GroupInv, GroupTypeOK
<1>5. ASSUME NEW r \in Replicas, NEW rec \in Records, Return(r, rec)
      PROVE  GroupInv'
  <2>1. /\ UNCHANGED <<owner, position, head, committed>>
        /\ Settled' = Settled \cup {rec}
        /\ \A q \in Replicas : inflight[q] \ {rec} \subseteq inflight'[q]
    BY <1>5 DEF Return, Settled, GroupTypeOK
  <2>2. \A x \in Records : owner[x[1]] # None => owner[x[1]] \in Replicas
    BY <1>1 DEF GroupTypeOK
  <2> QED
    BY <2>1, <2>2 DEF GroupInv
<1>6. ASSUME NEW r \in Replicas, NEW p \in Partitions, Assign(p, r)
      PROVE  GroupInv'
  <2>1. PICK c \in {committed[p], head[p]} :
          /\ committed' = [committed EXCEPT ![p] = c]
          /\ head' = [head EXCEPT ![p] = c]
          /\ position' = [position EXCEPT ![p] = c]
    BY <1>6 DEF Assign
  <2>2. /\ owner' = [owner EXCEPT ![p] = r] /\ inflight' = inflight
        /\ Settled' = Settled /\ r # None
    BY <1>6 DEF Assign, Settled
  <2>3. /\ c \in Nat /\ c <= head[p] /\ c <= TopicLen[p]
        /\ TopicLen[p] \in Nat
    BY <2>1 DEF GroupInv, GroupTypeOK
  <2>4. ASSUME NEW q \in Partitions
        PROVE  /\ committed'[q] <= head'[q]
               /\ head'[q] <= position'[q]
               /\ position'[q] <= TopicLen[q]
               /\ owner'[q] = None => position'[q] = committed'[q]
    BY <2>1, <2>2, <2>3 DEF GroupInv, GroupTypeOK
  <2>5. ASSUME NEW rec \in Records
        PROVE  /\ rec[2] <= head'[rec[1]] => rec \in Settled'
               /\ rec[2] <= position'[rec[1]] =>
                    \/ rec \in Settled'
                    \/ /\ owner'[rec[1]] # None
                       /\ rec \in inflight'[owner'[rec[1]]]
    <3>1. CASE rec[1] = p
      <4>1. head'[rec[1]] = c /\ position'[rec[1]] = c
        BY <2>1, <3>1 DEF GroupTypeOK
      <4>2. rec[2] <= c => rec[2] <= head[rec[1]]
        BY <1>1, <2>3, <3>1 DEF GroupTypeOK
      <4> QED
        BY <4>1, <4>2, <2>2 DEF GroupInv
    <3>2. CASE rec[1] # p
      <4>1. /\ head'[rec[1]] = head[rec[1]]
            /\ position'[rec[1]] = position[rec[1]]
            /\ owner'[rec[1]] = owner[rec[1]]
        BY <1>1, <2>1, <2>2, <3>2 DEF GroupTypeOK
      <4> QED
        BY <4>1, <2>2 DEF GroupInv
    <3> QED
      BY <3>1, <3>2
  <2> QED
    BY <2>4, <2>5 DEF GroupInv
<1>7. ASSUME NEW p \in Partitions, AutoCommit(p) PROVE GroupInv'
  <2>1. /\ UNCHANGED <<owner, position, head, inflight>> /\ Settled' = Settled
        /\ owner[p] # None
        /\ committed' = [committed EXCEPT ![p] = head[p]]
    BY <1>7 DEF AutoCommit, Settled
  <2> QED
    BY <2>1, <1>1 DEF GroupInv, GroupTypeOK
<1>8. ASSUME NEW r \in Replicas, NEW c \in [Partitions -> Nat], Leave(r, c),
             \A p \in Partitions :
               c[p] = committed[p] \/ (owner[p] = r /\ c[p] = head[p])
      PROVE  GroupInv'
  <2>1. /\ Settled' = Settled /\ committed' = c /\ r # None
        /\ \A p \in Partitions :
             owner'[p] = IF owner[p] = r THEN None ELSE owner[p]
        /\ \A p \in Partitions :
             head'[p] = IF owner[p] = r THEN c[p] ELSE head[p]
        /\ \A p \in Partitions :
             position'[p] = IF owner[p] = r THEN c[p] ELSE position[p]
        /\ \A q \in Replicas : q # r => inflight'[q] = inflight[q]
    BY <1>8 DEF Leave, Settled, GroupTypeOK
  <2>2. ASSUME NEW p \in Partitions
        PROVE  /\ committed'[p] <= head'[p]
               /\ head'[p] <= position'[p]
               /\ position'[p] <= TopicLen[p]
               /\ owner'[p] = None => position'[p] = committed'[p]
    <3>1. /\ c[p] \in Nat /\ head[p] \in Nat /\ position[p] \in Nat
          /\ TopicLen[p] \in Nat /\ committed[p] \in Nat
      BY DEF GroupTypeOK
    <3> QED
      BY <1>8, <2>1, <3>1 DEF GroupInv
  <2>3. ASSUME NEW rec \in Records
        PROVE  /\ rec[2] <= head'[rec[1]] => rec \in Settled'
               /\ rec[2] <= position'[rec[1]] =>
                    \/ rec \in Settled'
                    \/ /\ owner'[rec[1]] # None
                       /\ rec \in inflight'[owner'[rec[1]]]
    <3> DEFINE p == rec[1]
    <3>1. /\ p \in Partitions /\ rec[2] \in Nat /\ c[p] \in Nat
          /\ head[p] \in Nat /\ committed[p] \in Nat
          /\ owner[p] # None => owner[p] \in Replicas
      BY <1>1 DEF GroupTypeOK
    <3>2. CASE owner[p] = r
      <4>1. rec[2] <= c[p] => rec[2] <= head[p]
        BY <1>8, <3>1 DEF GroupInv
      <4> QED
        BY <2>1, <3>1, <3>2, <4>1 DEF GroupInv
    <3>3. CASE owner[p] # r
      BY <2>1, <3>1, <3>3 DEF GroupInv
    <3> QED
      BY <3>2, <3>3
  <2> QED
    BY <2>2, <2>3 DEF GroupInv
<1>9. ASSUME NEW r \in Replicas, Crash(r) PROVE GroupInv'
  <2> DEFINE c == committed
  <2>1. c \in [Partitions -> Nat] /\ Leave(r, c)
    BY <1>9 DEF Crash, GroupTypeOK
  <2>2. \A p \in Partitions :
          c[p] = committed[p] \/ (owner[p] = r /\ c[p] = head[p])
    OBVIOUS
  <2> HIDE DEF c
  <2> QED
    BY <1>8, <2>1, <2>2
<1>10. ASSUME NEW r \in Replicas, Terminate(r) PROVE GroupInv'
  <2> DEFINE c == [p \in Partitions |-> IF owner[p] = r THEN head[p]
                                                       ELSE committed[p]]
  <2>1. c \in [Partitions -> Nat] /\ Leave(r, c)
    BY <1>10 DEF Terminate, GroupTypeOK
  <2>2. \A p \in Partitions :
          c[p] = committed[p] \/ (owner[p] = r /\ c[p] = head[p])
    OBVIOUS
  <2> HIDE DEF c
  <2> QED
    BY <1>8, <2>1, <2>2
<1>11. ASSUME NEW r \in Replicas, Stop(r) \/ Restart(r) PROVE GroupInv'
  BY <1>11 DEF Stop, Restart, GroupInv, Settled
<1>12. CASE UNCHANGED groupVars \/ HandlerFault
  BY <1>12 DEF groupVars, HandlerFault, GroupInv, Settled
<1>13. QED
  BY <1>2, <1>3, <1>4, <1>5, <1>6, <1>7, <1>9, <1>10, <1>11, <1>12
     DEF GroupNext

THEOREM GroupInvariant == GroupSpec => []GroupInv
BY GroupTypeCorrect, GroupInvInit, GroupInvStep, PTL DEF GroupSpec

LEMMA GroupInvSafe == GroupTypeOK /\ GroupInv => CommittedSettled
<1> SUFFICES ASSUME GroupTypeOK, GroupInv, NEW rec \in Records,
                    rec[2] <= committed[rec[1]]
             PROVE  rec \in Settled
  BY DEF CommittedSettled
<1>1. rec[1] \in Partitions /\ rec[2] \in Nat
  BY RecordShape
<1>2. rec[2] <= head[rec[1]]
  BY <1>1 DEF GroupInv, GroupTypeOK
<1> QED
  BY <1>2 DEF GroupInv

(* However crashes, shutdowns, rebalances and autocommits interleave, no    *)
(* record falls behind the committed offset before it was dealt with.       *)
THEOREM CommittedOnlySettled == GroupSpec => []CommittedSettled
BY GroupTypeCorrect, GroupInvariant, GroupInvSafe, PTL

(* Records are worked off in their order: what precedes a record in hand is *)
(* in hand too, or settled.                                                 *)
LEMMA InOrderInit == GroupInit => InOrder
BY DEF GroupInit, InOrder

LEMMA InOrderStep ==
  ASSUME GroupTypeOK, GroupInv, InOrder, [GroupNext]_groupVars
  PROVE  InOrder'
<1>1. ASSUME \A r \in Replicas : inflight'[r] \subseteq inflight[r],
             \A r \in Replicas : \A x \in inflight'[r] : \A old \in inflight[r] :
               old \in inflight'[r] \cup Settled',
             Settled \subseteq Settled'
      PROVE  InOrder'
  BY <1>1 DEF InOrder
<1>2. ASSUME UNCHANGED inflight, handled \subseteq handled', dropped \subseteq dropped'
      PROVE  InOrder'
  BY <1>1, <1>2 DEF Settled
<1>3. ASSUME NEW r \in Replicas, Fetch(r) PROVE InOrder'
  <2>1. PICK upto \in [Partitions -> Offsets] :
          /\ PollFetches(r, upto)
          /\ inflight' = [inflight EXCEPT ![r] = FetchedUpTo(r, upto)]
    BY <1>3 DEF Fetch
  <2>2. inflight[r] = {} /\ Settled' = Settled
    BY <1>3, <2>1 DEF Fetch, PollFetches, Settled
  <2>3. /\ inflight'[r] = FetchedUpTo(r, upto)
        /\ \A q \in Replicas \ {r} : inflight'[q] = inflight[q]
    BY <2>1 DEF GroupTypeOK
  <2>4. ASSUME NEW rec \in FetchedUpTo(r, upto), NEW old \in Records,
               old[1] = rec[1], old[2] < rec[2]
        PROVE  old \in FetchedUpTo(r, upto) \cup Settled
    <3>1. /\ rec \in Records /\ owner[rec[1]] = r /\ rec[2] <= upto[rec[1]]
          /\ upto[rec[1]] \in Nat /\ position[rec[1]] \in Nat
          /\ rec[2] \in Nat /\ old[2] \in Nat
      BY RecordShape, OffsetsAreNat DEF FetchedUpTo, GroupTypeOK
    <3>2. CASE old[2] <= position[old[1]]
      BY <2>2, <2>4, <3>1, <3>2 DEF GroupInv
    <3>3. CASE ~(old[2] <= position[old[1]])
      BY <2>4, <3>1, <3>3 DEF FetchedUpTo
    <3> QED
      BY <3>2, <3>3
  <2> QED
    BY <2>2, <2>3, <2>4 DEF InOrder
<1>4. ASSUME NEW r \in Replicas, NEW rec \in Records, Return(r, rec)
      PROVE  InOrder'
  <2>1. /\ Settled' = Settled \cup {rec}
        /\ \A q \in Replicas : /\ inflight'[q] \subseteq inflight[q]
                               /\ inflight[q] \ {rec} \subseteq inflight'[q]
    BY <1>4 DEF Return, Settled, GroupTypeOK
  <2> QED
    BY <1>1, <2>1
<1>5. ASSUME NEW r \in Replicas, Crash(r) \/ Terminate(r) PROVE InOrder'
  <2>1. /\ Settled' = Settled /\ inflight'[r] = {}
        /\ \A q \in Replicas \ {r} : inflight'[q] = inflight[q]
    BY <1>5 DEF Crash, Terminate, Leave, Settled, GroupTypeOK
  <2> QED
    BY <2>1 DEF InOrder
<1> QED
  BY <1>2, <1>3, <1>4, <1>5
     DEF GroupNext, groupVars, FetchError, PollFetches, LastPoll, Stop, Restart,
         Assign, AutoCommit, HandlerFault

THEOREM GroupInOrder == GroupSpec => []InOrder
BY GroupTypeCorrect, GroupInvariant, InOrderInit, InOrderStep, PTL DEF GroupSpec

------------------------------------------------------------------------------
(***************************************************************************)
(* What a further turn costs: a step of the group that gives a replica a   *)
(* record, or a partition, either uses up the turn that was due or is paid *)
(* for by a fault.                                                         *)
(***************************************************************************)

LEMMA CardOneMore ==
  ASSUME NEW S, IsFiniteSet(S), NEW x, NEW T, T \subseteq S \cup {x}
  PROVE  /\ IsFiniteSet(T) /\ Cardinality(S) \in Nat /\ Cardinality(T) \in Nat
         /\ Cardinality(T) <= Cardinality(S) + 1
<1>0. Cardinality(S) \in Nat
  BY FS_CardinalityType
<1>1. /\ IsFiniteSet(S \cup {x}) /\ Cardinality(S) \in Nat
      /\ Cardinality(S \cup {x}) <= Cardinality(S) + 1
  BY <1>0, FS_AddElement
<1>2. /\ IsFiniteSet(T) /\ Cardinality(T) \in Nat
      /\ Cardinality(T) <= Cardinality(S \cup {x})
  BY <1>1, FS_Subset, FS_CardinalityType
<1>3. Cardinality(S \cup {x}) \in Nat
  BY <1>1, FS_CardinalityType
<1> QED
  BY <1>1, <1>2, <1>3

LEMMA CardNoMore ==
  ASSUME NEW S, IsFiniteSet(S), NEW T, T \subseteq S
  PROVE  /\ IsFiniteSet(T) /\ Cardinality(S) \in Nat /\ Cardinality(T) \in Nat
         /\ Cardinality(T) <= Cardinality(S)
BY FS_Subset, FS_CardinalityType

LEMMA CardOneLess ==
  ASSUME NEW S, IsFiniteSet(S), NEW x \in S, NEW T, T \subseteq S \ {x}
  PROVE  /\ IsFiniteSet(T) /\ Cardinality(S) \in Nat /\ Cardinality(T) \in Nat
         /\ Cardinality(T) + 1 <= Cardinality(S)
<1>1. /\ IsFiniteSet(S \ {x}) /\ Cardinality(S) \in Nat
      /\ Cardinality(S \ {x}) = Cardinality(S) - 1
  BY FS_RemoveElement, FS_CardinalityType
<1>2. /\ IsFiniteSet(T) /\ Cardinality(T) \in Nat
      /\ Cardinality(T) <= Cardinality(S \ {x})
  BY <1>1, CardNoMore
<1> QED
  BY <1>1, <1>2

\* No step takes faults back.
LEMMA FaultsGrow ==
  ASSUME GroupTypeOK, [GroupNext]_groupVars
  PROVE  /\ faults \in Nat /\ faults' \in Nat
         /\ faults' = faults \/ faults' = faults + 1
<1>1. faults \in Nat
  BY GroupAssumption DEF GroupTypeOK
<1>2. faults' = faults \/ faults' = faults + 1
  BY DEF GroupNext, groupVars, Fetch, FetchError, LastPoll, Crash, Stop,
         Terminate, Restart, Return, Assign, AutoCommit, HandlerFault, Faulty
<1> QED
  BY <1>1, <1>2

\* The turns a set of replicas has and the one that is due.
NoMoreTurns(Turns, due) ==
  Turns' \subseteq Turns /\ due' + faults <= due + faults'
OneMoreTurn(Turns, due) ==
  \E r \in Replicas : /\ Turns' \subseteq Turns \cup {r}
                      /\ due' + 1 + faults <= due + faults'

(* A record comes into one more pair of hands only in its turn or by a fault. *)
LEMMA TurnStep ==
  ASSUME GroupTypeOK, [GroupNext]_groupVars, NEW rec \in Records
  PROVE  \/ NoMoreTurns(Holders(rec), Due(rec))
         \/ OneMoreTurn(Holders(rec), Due(rec))
<1> DEFINE p == rec[1]
<1> USE GroupAssumption DEF NoMoreTurns, OneMoreTurn
<1>1. /\ p \in Partitions /\ rec[2] \in Nat /\ position[p] \in Nat
      /\ faults \in Nat /\ owner[p] \in Replicas \cup {None}
      /\ None \notin Replicas
  BY RecordShape DEF GroupTypeOK
<1>2. Due(rec) \in {0, 1} /\ Due(rec)' \in {0, 1}
  BY DEF Due
<1>3. ASSUME NEW r \in Replicas, Fetch(r)
      PROVE  \/ NoMoreTurns(Holders(rec), Due(rec))
             \/ OneMoreTurn(Holders(rec), Due(rec))
  <2>1. PICK upto \in [Partitions -> Offsets] :
          /\ PollFetches(r, upto)
          /\ inflight' = [inflight EXCEPT ![r] = FetchedUpTo(r, upto)]
    BY <1>3 DEF Fetch
  <2>2. /\ mode' = mode /\ owner' = owner /\ position' = upto /\ faults' = faults
        /\ mode[r] = "up" /\ position[p] <= upto[p] /\ upto[p] \in Nat
        /\ inflight[r] = {}
    BY <1>1, <1>3, <2>1, OffsetsAreNat DEF Fetch, PollFetches
  <2>3. CASE rec \in FetchedUpTo(r, upto)
    <3>1. Due(rec) = 1 /\ Due(rec)' = 0
      BY <1>1, <2>2, <2>3 DEF FetchedUpTo, Due, Settles
    <3>2. Holders(rec)' \subseteq Holders(rec) \cup {r}
      BY <2>1 DEF Holders, GroupTypeOK
    <3> QED
      BY <1>1, <2>2, <3>1, <3>2
  <2>4. CASE rec \notin FetchedUpTo(r, upto)
    <3>1. Holders(rec)' \subseteq Holders(rec)
      BY <2>1, <2>4 DEF Holders, GroupTypeOK
    <3>2. Due(rec)' <= Due(rec)
      BY <1>1, <2>2 DEF Due, Settles
    <3> QED
      BY <1>1, <1>2, <2>2, <3>1, <3>2
  <2> QED
    BY <2>3, <2>4
<1>4. ASSUME NEW r \in Replicas, FetchError(r)
      PROVE  NoMoreTurns(Holders(rec), Due(rec))
  BY <1>1, <1>2, <1>4 DEF FetchError, Faulty, Holders
<1>5. ASSUME NEW r \in Replicas, LastPoll(r)
      PROVE  NoMoreTurns(Holders(rec), Due(rec))
  BY <1>1, <1>2, <1>5 DEF LastPoll, Holders, Due, Settles
<1>6. ASSUME NEW r \in Replicas, NEW x \in Records, Return(r, x),
             UNCHANGED faults \/ Faulty
      PROVE  NoMoreTurns(Holders(rec), Due(rec))
  <2>1. Holders(rec)' \subseteq Holders(rec) /\ Due(rec)' = Due(rec)
    BY <1>6 DEF Return, Holders, Due, Settles, GroupTypeOK
  <2> QED
    BY <1>1, <1>2, <1>6, <2>1 DEF Faulty
<1>7. ASSUME NEW r \in Replicas, NEW q \in Partitions, Assign(q, r)
      PROVE  NoMoreTurns(Holders(rec), Due(rec))
  <2>1. Holders(rec)' = Holders(rec)
    BY <1>7 DEF Assign, Holders
  <2>2. CASE q = p /\ owner[p] # None
    BY <1>1, <1>2, <1>7, <2>1, <2>2 DEF Assign, Faulty
  <2>3. CASE q = p /\ owner[p] = None
    <3>1. Due(rec) = 1
      BY <1>1, <2>3 DEF Due, Settles
    <3> QED
      BY <1>1, <1>2, <1>7, <2>1, <2>3, <3>1 DEF Assign
  <2>4. CASE q # p
    <3>1. /\ owner'[p] = owner[p] /\ position'[p] = position[p] /\ mode' = mode
          /\ faults' = faults \/ faults' = faults + 1
      BY <1>1, <1>7, <2>4 DEF Assign, Faulty, GroupTypeOK
    <3>2. Due(rec)' = Due(rec)
      BY <3>1 DEF Due, Settles
    <3> QED
      BY <1>1, <1>2, <2>1, <3>1, <3>2
  <2> QED
    BY <2>2, <2>3, <2>4
<1>8. ASSUME NEW q \in Partitions, AutoCommit(q)
      PROVE  NoMoreTurns(Holders(rec), Due(rec))
  BY <1>1, <1>2, <1>8 DEF AutoCommit, Holders, Due, Settles
<1>9. ASSUME NEW r \in Replicas, Crash(r)
      PROVE  NoMoreTurns(Holders(rec), Due(rec))
  <2>1. Holders(rec)' \subseteq Holders(rec)
    BY <1>9 DEF Crash, Leave, Holders, GroupTypeOK
  <2> QED
    BY <1>1, <1>2, <1>9, <2>1 DEF Crash, Faulty
<1>10. ASSUME NEW r \in Replicas, Terminate(r)
       PROVE  NoMoreTurns(Holders(rec), Due(rec))
  <2>1. /\ Holders(rec)' \subseteq Holders(rec)
        /\ faults' = faults /\ mode[r] = "stopping"
    BY <1>10 DEF Terminate, Leave, Holders, GroupTypeOK
  <2>2. CASE owner[p] = r
    <3>1. Due(rec) = 1
      BY <2>1, <2>2 DEF Due, Settles
    <3> QED
      BY <1>1, <1>2, <2>1, <3>1
  <2>3. CASE owner[p] # r
    <3>1. /\ owner'[p] = owner[p] /\ position'[p] = position[p]
          /\ \A x \in Replicas \ {r} : mode'[x] = mode[x]
      BY <1>1, <1>10, <2>3 DEF Terminate, Leave, GroupTypeOK
    <3>2. Due(rec)' = Due(rec)
      BY <1>1, <2>3, <3>1 DEF Due, Settles
    <3> QED
      BY <1>1, <1>2, <2>1, <3>2
  <2> QED
    BY <2>2, <2>3
<1>11. ASSUME NEW r \in Replicas, Stop(r)
       PROVE  NoMoreTurns(Holders(rec), Due(rec))
  BY <1>1, <1>2, <1>11 DEF Stop, Faulty, Holders
<1>12. ASSUME NEW r \in Replicas, Restart(r)
       PROVE  NoMoreTurns(Holders(rec), Due(rec))
  <2>1. Holders(rec)' = Holders(rec) /\ faults' = faults
    BY <1>12 DEF Restart, Holders
  <2>2. Due(rec)' = Due(rec)
    BY <1>1, <1>12 DEF Restart, Due, Settles, GroupTypeOK
  <2> QED
    BY <1>1, <1>2, <2>1, <2>2
<1>13. CASE HandlerFault
  BY <1>1, <1>2, <1>13 DEF HandlerFault, Faulty, Holders, Due, Settles
<1>14. CASE UNCHANGED groupVars
  BY <1>1, <1>2, <1>14 DEF groupVars, Holders, Due, Settles
<1> QED
  BY <1>3, <1>4, <1>5, <1>6, <1>7, <1>8, <1>9, <1>10, <1>11, <1>12, <1>13, <1>14
     DEF GroupNext

(* A handler that returns has the record no more. *)
LEMMA ReturnTurn ==
  ASSUME GroupTypeOK, NEW r \in Replicas, NEW rec \in Records, Return(r, rec)
  PROVE  /\ r \in Holders(rec) /\ Holders(rec)' \subseteq Holders(rec) \ {r}
         /\ Due(rec)' = Due(rec)
BY DEF Return, Holders, Due, Settles, GroupTypeOK

(* A replica comes to serve a partition only when the partition is due, or by *)
(* a fault.                                                                   *)
LEMMA ServeStep ==
  ASSUME GroupTypeOK, [GroupNext]_groupVars, NEW p \in Partitions
  PROVE  \/ NoMoreTurns(Serving(p), Loose(p))
         \/ OneMoreTurn(Serving(p), Loose(p))
<1> USE GroupAssumption DEF NoMoreTurns, OneMoreTurn
<1>1. /\ faults \in Nat /\ owner[p] \in Replicas \cup {None}
      /\ None \notin Replicas
  BY DEF GroupTypeOK
<1>2. Loose(p) \in {0, 1} /\ Loose(p)' \in {0, 1}
  BY DEF Loose
<1>3. ASSUME UNCHANGED <<owner, mode, faults>>,
             \A r \in Replicas : \A x \in inflight'[r] :
               x \in inflight[r] \/ owner[x[1]] = r
      PROVE  NoMoreTurns(Serving(p), Loose(p))
  <2>1. Serving(p)' \subseteq Serving(p)
    BY <1>3 DEF Serving, Serves
  <2>2. Loose(p)' = Loose(p)
    BY <1>3 DEF Loose, Settles
  <2> QED
    BY <1>1, <1>2, <1>3, <2>1, <2>2
<1>4. ASSUME NEW r \in Replicas, Fetch(r) \/ LastPoll(r)
      PROVE  NoMoreTurns(Serving(p), Loose(p))
  BY <1>3, <1>4 DEF Fetch, LastPoll, PollFetches, FetchedUpTo, GroupTypeOK
<1>5. ASSUME NEW r \in Replicas, FetchError(r)
      PROVE  NoMoreTurns(Serving(p), Loose(p))
  <2>1. UNCHANGED <<owner, mode, inflight>> /\ faults' = faults + 1
    BY <1>5 DEF FetchError, PollFetches, Faulty
  <2>2. Serving(p)' = Serving(p) /\ Loose(p)' = Loose(p)
    BY <2>1 DEF Serving, Serves, Loose, Settles
  <2> QED
    BY <1>1, <1>2, <2>1, <2>2
<1>6. ASSUME NEW r \in Replicas, NEW x \in Records, Return(r, x),
             UNCHANGED faults \/ Faulty
      PROVE  NoMoreTurns(Serving(p), Loose(p))
  <2>1. /\ UNCHANGED <<owner, mode>>
        /\ faults' = faults \/ faults' = faults + 1
        /\ \A q \in Replicas : inflight'[q] \subseteq inflight[q]
    BY <1>6 DEF Return, Faulty, GroupTypeOK
  <2>2. Serving(p)' \subseteq Serving(p) /\ Loose(p)' = Loose(p)
    BY <2>1 DEF Serving, Serves, Loose, Settles
  <2> QED
    BY <1>1, <1>2, <2>1, <2>2
<1>7. ASSUME NEW r \in Replicas, NEW q \in Partitions, Assign(q, r)
      PROVE  \/ NoMoreTurns(Serving(p), Loose(p))
             \/ OneMoreTurn(Serving(p), Loose(p))
  <2>1. /\ owner' = [owner EXCEPT ![q] = r] /\ mode' = mode /\ mode[r] = "up"
        /\ inflight' = inflight
    BY <1>7 DEF Assign
  <2>2. CASE q = p
    <3>1. Serving(p)' \subseteq Serving(p) \cup {r}
      BY <2>1, <2>2 DEF Serving, Serves, GroupTypeOK
    <3>2. Loose(p)' = 0
      BY <2>1, <2>2 DEF Loose, Settles, GroupTypeOK
    <3>3. CASE owner[p] = None
      <4>1. Loose(p) = 1 /\ faults' = faults
        BY <1>1, <1>7, <2>2, <3>3 DEF Loose, Settles, Assign
      <4> QED
        BY <1>1, <3>1, <3>2, <4>1
    <3>4. CASE owner[p] # None
      <4>1. faults' = faults + 1
        BY <1>7, <2>2, <3>4 DEF Assign, Faulty
      <4> QED
        BY <1>1, <1>2, <3>1, <3>2, <4>1
    <3> QED
      BY <3>3, <3>4
  <2>3. CASE q # p
    <3>1. owner'[p] = owner[p] /\ (faults' = faults \/ faults' = faults + 1)
      BY <1>7, <2>1, <2>3 DEF Assign, Faulty, GroupTypeOK
    <3>2. Serving(p)' = Serving(p) /\ Loose(p)' = Loose(p)
      BY <2>1, <3>1 DEF Serving, Serves, Loose, Settles
    <3> QED
      BY <1>1, <1>2, <3>1, <3>2
  <2> QED
    BY <2>2, <2>3
<1>8. ASSUME NEW q \in Partitions, AutoCommit(q)
      PROVE  NoMoreTurns(Serving(p), Loose(p))
  BY <1>3, <1>8 DEF AutoCommit
<1>9. ASSUME NEW r \in Replicas, NEW c, Leave(r, c)
      PROVE  /\ Serving(p)' \subseteq Serving(p)
             /\ Loose(p)' = Loose(p) \/ owner[p] = r
  <2>1. /\ owner'[p] = IF owner[p] = r THEN None ELSE owner[p]
        /\ \A q \in Replicas \ {r} : mode'[q] = mode[q] /\ inflight'[q] = inflight[q]
        /\ inflight'[r] = {}
    BY <1>9 DEF Leave, GroupTypeOK
  <2>2. ~Serves(r, p)'
    BY <1>1, <2>1 DEF Serves
  <2> QED
    BY <1>1, <2>1, <2>2 DEF Serving, Serves, Loose, Settles
<1>10. ASSUME NEW r \in Replicas, Crash(r)
       PROVE  NoMoreTurns(Serving(p), Loose(p))
  BY <1>1, <1>2, <1>9, <1>10 DEF Crash, Faulty
<1>11. ASSUME NEW r \in Replicas, Terminate(r)
       PROVE  NoMoreTurns(Serving(p), Loose(p))
  <2>1. owner[p] = r => Loose(p) = 1
    BY <1>11 DEF Terminate, Loose, Settles
  <2>2. faults' = faults /\ Serving(p)' \subseteq Serving(p)
        /\ (Loose(p)' = Loose(p) \/ owner[p] = r)
    BY <1>9, <1>11 DEF Terminate
  <2> QED
    BY <1>1, <1>2, <2>1, <2>2
<1>12. ASSUME NEW r \in Replicas, Stop(r)
       PROVE  NoMoreTurns(Serving(p), Loose(p))
  <2>1. Serving(p)' \subseteq Serving(p) /\ faults' = faults + 1
    BY <1>12 DEF Stop, Faulty, Serving, Serves, GroupTypeOK
  <2> QED
    BY <1>1, <1>2, <2>1
<1>13. ASSUME NEW r \in Replicas, Restart(r)
       PROVE  NoMoreTurns(Serving(p), Loose(p))
  <2>1. /\ Serving(p)' \subseteq Serving(p) /\ faults' = faults
        /\ Loose(p)' = Loose(p)
    BY <1>13 DEF Restart, Serving, Serves, Loose, Settles, GroupTypeOK
  <2> QED
    BY <1>1, <1>2, <2>1
<1>14. CASE HandlerFault
  <2>1. UNCHANGED <<owner, mode, inflight>> /\ faults' = faults + 1
    BY <1>14 DEF HandlerFault, Faulty
  <2>2. Serving(p)' = Serving(p) /\ Loose(p)' = Loose(p)
    BY <2>1 DEF Serving, Serves, Loose, Settles
  <2> QED
    BY <1>1, <1>2, <2>1, <2>2
<1>15. CASE UNCHANGED groupVars
  BY <1>3, <1>15 DEF groupVars
<1> QED
  BY <1>4, <1>5, <1>6, <1>7, <1>8, <1>10, <1>11, <1>12, <1>13, <1>14, <1>15
     DEF GroupNext
==============================================================================
