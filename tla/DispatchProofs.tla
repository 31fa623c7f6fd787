--------------------------- MODULE DispatchProofs ---------------------------
(***************************************************************************)
(* The reporter consumes as the consumer group prescribes, a mark in a     *)
(* delivery log stands for what it is meant to, and no destination misses  *)
(* a verdict but for a failed call of its own.                             *)
(***************************************************************************)
EXTENDS Dispatch, ConsumerGroupProofs

Labels == {"loop", "claim", "notify", "unmark"}
Claiming == {"notify", "unmark"}

\* The key a handler is at with record rec and notifier n.
KeyAt(rec, n) == <<Content[rec].id, Notifiers[n]>>

\* The step leaves the handlers of all replicas but r alone.
OthersStay(r) ==
  \A q \in Replicas \ {r} :
    pc'[q] = pc[q] /\ cur'[q] = cur[q] /\ next'[q] = next[q]

\* Deliveries, refusals and orphans are remembered.
Grows ==
  /\ \A k \in Keys : posts[k] > 0 => posts'[k] > 0
  /\ refused \subseteq refused'
  /\ orphans \subseteq orphans'

\* r still holds its key after the step, or the key's fate is known.
HandsOver(r) ==
  Holds(r) =>
    \/ posts'[Key(r)] > 0
    \/ Key(r) \in refused' \cup orphans'
    \/ pc'[r] \in Claiming /\ cur'[r] = cur[r] /\ next'[r] = next[r]

(* Keys are well formed. *)
LEMMA KeyType ==
  ASSUME NEW rec \in Records, Content[rec] # Poison,
         NEW n \in 1..Len(Notifiers)
  PROVE  KeyAt(rec, n) \in Keys /\ Content[rec].decision \in Decisions
BY DispatchAssumption DEF KeyAt, Keys, Names

LEMMA LenIsNat == Len(Notifiers) \in Nat
BY DispatchAssumption

(* What is accounted for stays so. *)
LEMMA AccountedStays ==
  ASSUME NEW r \in Replicas, OthersStay(r), Grows, HandsOver(r),
         NEW k \in Keys, Accounted(k)
  PROVE  Accounted(k)'
<1>1. CASE posts[k] > 0 \/ k \in refused \cup orphans
  BY <1>1 DEF Accounted, Grows
<1>2. CASE InProgress(k)
  <2>1. PICK q \in Replicas : Holds(q) /\ Key(q) = k
    BY <1>2 DEF InProgress
  <2>2. CASE q = r
    BY <2>1, <2>2 DEF HandsOver, Accounted, InProgress, Holds, Key, Claiming
  <2>3. CASE q # r
    BY <2>1, <2>3 DEF OthersStay, Accounted, InProgress, Holds, Key
  <2> QED
    BY <2>2, <2>3
<1> QED
  BY <1>1, <1>2 DEF Accounted

LEMMA DispatchInit ==
  Init => DispatchTypeOK /\ DispatchInv
<1> SUFFICES ASSUME Init PROVE DispatchTypeOK /\ DispatchInv
  OBVIOUS
<1>1. DispatchTypeOK
  BY LenIsNat DEF Init, DispatchTypeOK
<1>2. HandlerInv
  BY DEF Init, HandlerInv, Holds
<1>3. MarksInv
  BY DEF Init, MarksInv
<1>4. NoSilentLoss
  BY DEF Init, GroupInit, NoSilentLoss
<1> QED
  BY <1>1, <1>2, <1>3, <1>4 DEF DispatchInv

(***************************************************************************)
(* What has to be shown of a step of replica r that leaves it at label l   *)
(* with record c and notifier n.                                           *)
(***************************************************************************)
StepShape(r, l, c, n) ==
  /\ pc' = [pc EXCEPT ![r] = l]
  /\ cur' = [cur EXCEPT ![r] = c]
  /\ next' = [next EXCEPT ![r] = n]
  /\ LogOf' = LogOf

\* Marks are only made by r where it now claims, or orphaned, and the mark
\* under r's claim goes only where it may.
MarksMove(r) ==
  /\ \A s \in Stores : \A k \in marks'[s] :
       \/ k \in marks[s]
       \/ s = LogOf[r] /\ pc'[r] \in Claiming /\ k = KeyAt(cur'[r], next'[r])
       \/ s \notin Volatile /\ k \in orphans'
  /\ Holds(r) =>
       \/ Key(r) \notin marks'[LogOf[r]]
       \/ posts'[Key(r)] > 0
       \/ pc'[r] \in Claiming /\ cur'[r] = cur[r] /\ next'[r] = next[r]
       \/ LogOf[r] \notin Volatile /\ Key(r) \in orphans'

LabelFits(l, c, n) ==
  /\ l = "loop" => n = 1
  /\ l # "loop" => c \in Records /\ Content[c] # Poison
  /\ l \in Claiming => n <= Len(Notifiers)

LEMMA HandlerStep ==
  ASSUME DispatchTypeOK, DispatchInv,
         NEW r \in Replicas, NEW l \in Labels, NEW c \in Records \cup {None},
         NEW n \in 1..(Len(Notifiers) + 1),
         StepShape(r, l, c, n), LabelFits(l, c, n),
         Grows, HandsOver(r), MarksMove(r),
         bad' \in [Replicas -> BOOLEAN],
         marks' \in [Stores -> SUBSET Keys],
         posts' \in [Keys -> Nat],
         shown' \in [Keys -> Outcomes \cup {None}],
         skipped' \cup refused' \cup orphans' \cup expired' \subseteq Keys,
         failed' \subseteq Records,
         l # "loop" => \A i \in 1..(n - 1) : Accounted(KeyAt(c, i))',
         l = "unmark" => KeyAt(c, n) \in refused',
         \A rec \in handled' :
           \/ rec \in handled
           \/ Content[rec] = Poison
           \/ \A m \in Names : Accounted(<<Content[rec].id, m>>)',
         handled \subseteq Records
  PROVE  DispatchTypeOK' /\ DispatchInv'
<1>1. DispatchTypeOK'
  BY DEF DispatchTypeOK, StepShape, Labels
<1>2. /\ pc'[r] = l /\ cur'[r] = c /\ next'[r] = n /\ LogOf' = LogOf
      /\ OthersStay(r)
  BY DEF DispatchTypeOK, StepShape, OthersStay
<1>3. \A k \in Keys : Accounted(k) => Accounted(k)'
  BY <1>2, AccountedStays
<1>4. HandlerInv'
  <2> SUFFICES ASSUME NEW q \in Replicas
               PROVE  /\ pc'[q] = "loop" => next'[q] = 1
                      /\ pc'[q] # "loop" =>
                           /\ cur'[q] \in Records
                           /\ Content[cur'[q]] # Poison
                           /\ \A i \in 1..(next'[q] - 1) :
                                Accounted(KeyAt(cur[q], i))'
                      /\ pc'[q] \in Claiming => next'[q] <= Len(Notifiers)
                      /\ pc'[q] = "unmark" =>
                           KeyAt(cur'[q], next'[q]) \in refused'
    BY DEF HandlerInv, KeyAt, Key, Holds, Claiming
  <2>1. CASE q = r
    BY <1>2, <2>1 DEF LabelFits
  <2>2. CASE q # r
    <3>1. pc'[q] = pc[q] /\ cur'[q] = cur[q] /\ next'[q] = next[q]
      BY <1>2, <2>2 DEF OthersStay
    <3>2. /\ pc[q] = "loop" => next[q] = 1
          /\ pc[q] # "loop" =>
               /\ cur[q] \in Records
               /\ Content[cur[q]] # Poison
               /\ \A i \in 1..(next[q] - 1) : Accounted(KeyAt(cur[q], i))
          /\ pc[q] \in Claiming => next[q] <= Len(Notifiers)
          /\ pc[q] = "unmark" => KeyAt(cur[q], next[q]) \in refused
      BY DEF DispatchInv, HandlerInv, KeyAt, Key, Holds, Claiming
    <3>3. next[q] - 1 \in 0..Len(Notifiers)
      BY LenIsNat DEF DispatchTypeOK
    <3>4. ASSUME pc[q] # "loop", NEW i \in 1..(next[q] - 1)
          PROVE  \A k : k = KeyAt(cur[q], i) => Accounted(k)'
      <4>1. i \in 1..Len(Notifiers)
        BY <3>3, LenIsNat
      <4>2. KeyAt(cur[q], i) \in Keys
        BY <3>2, <3>4, <4>1, KeyType
      <4>3. Accounted(KeyAt(cur[q], i))
        BY <3>2, <3>4
      <4> QED
        BY <4>2, <4>3, <1>3
    <3>5. ASSUME pc[q] # "loop", NEW i \in 1..(next[q] - 1)
          PROVE  Accounted(KeyAt(cur[q], i))'
      <4> PICK k : k = KeyAt(cur[q], i)
        OBVIOUS
      <4>1. k = KeyAt(cur[q], i)'
        BY <3>1 DEF KeyAt
      <4>2. Accounted(k)'
        BY <3>4, <3>5
      <4> QED
        BY <4>1, <4>2 DEF Accounted, InProgress
    <3> QED
      BY <3>1, <3>2, <3>4, <3>5 DEF Grows
  <2> QED
    BY <2>1, <2>2
<1>5. MarksInv'
  <2> SUFFICES ASSUME NEW s \in Stores, NEW k \in marks'[s]
               PROVE  \/ posts'[k] > 0
                      \/ ClaimedIn(s, k)'
                      \/ k \in orphans' /\ s \notin Volatile
    BY DEF MarksInv
  <2>1. k \in Keys
    OBVIOUS
  <2>2. CASE s = LogOf[r] /\ pc'[r] \in Claiming /\ k = KeyAt(cur'[r], next'[r])
    BY <1>2, <2>2 DEF ClaimedIn, Holds, Key, KeyAt, Claiming
  <2>3. CASE k \in marks[s]
    <3>1. \/ posts[k] > 0
          \/ ClaimedIn(s, k)
          \/ k \in orphans /\ s \notin Volatile
      BY <2>3 DEF DispatchInv, MarksInv
    <3>2. CASE posts[k] > 0 \/ (k \in orphans /\ s \notin Volatile)
      BY <2>1, <3>2 DEF Grows
    <3>3. CASE ClaimedIn(s, k)
      <4>1. PICK q \in Replicas : LogOf[q] = s /\ Holds(q) /\ Key(q) = k
        BY <3>3 DEF ClaimedIn
      <4>2. CASE q # r
        BY <1>2, <4>1, <4>2 DEF OthersStay, ClaimedIn, Holds, Key
      <4>3. CASE q = r
        BY <1>2, <4>1, <4>3 DEF MarksMove, ClaimedIn, Holds, Key, Claiming
      <4> QED
        BY <4>2, <4>3
    <3> QED
      BY <3>1, <3>2, <3>3
  <2> QED
    BY <2>2, <2>3 DEF MarksMove
<1>6. NoSilentLoss'
  <2> SUFFICES ASSUME NEW rec \in handled', Content[rec] # Poison,
                      NEW m \in Names
               PROVE  Accounted(<<Content[rec].id, m>>)'
    BY DEF NoSilentLoss
  <2>1. CASE rec \in handled
    <3>1. rec \in Records /\ Accounted(<<Content[rec].id, m>>)
      BY <2>1 DEF DispatchInv, NoSilentLoss
    <3>2. <<Content[rec].id, m>> \in Keys
      BY <3>1, DispatchAssumption DEF Keys
    <3> QED
      BY <3>1, <3>2, <1>3
  <2> QED
    BY <2>1
<1> QED
  BY <1>1, <1>4, <1>5, <1>6 DEF DispatchInv

------------------------------------------------------------------------------
(* The steps. *)

(* What r has in hand, and its key. *)
LEMMA InHand ==
  ASSUME DispatchTypeOK, DispatchInv, NEW r \in Replicas, pc[r] # "loop"
  PROVE  /\ cur[r] \in Records /\ Content[cur[r]] # Poison
         /\ next[r] \in 1..(Len(Notifiers) + 1)
         /\ Holds(r) => next[r] <= Len(Notifiers)
         /\ next[r] <= Len(Notifiers) =>
              /\ next[r] \in 1..Len(Notifiers)
              /\ next[r] + 1 \in 1..(Len(Notifiers) + 1)
              /\ Key(r) \in Keys /\ Key(r) = KeyAt(cur[r], next[r])
              /\ Content[cur[r]].decision \in Decisions
<1>1. /\ cur[r] \in Records /\ Content[cur[r]] # Poison
      /\ Holds(r) => next[r] <= Len(Notifiers)
      /\ next[r] \in 1..(Len(Notifiers) + 1)
  BY DEF DispatchInv, HandlerInv, DispatchTypeOK
<1>2. next[r] <= Len(Notifiers) =>
        /\ next[r] \in 1..Len(Notifiers)
        /\ next[r] + 1 \in 1..(Len(Notifiers) + 1)
  BY <1>1, LenIsNat
<1>3. Key(r) = KeyAt(cur[r], next[r])
  BY DEF Key, KeyAt
<1> QED
  BY <1>1, <1>2, <1>3, KeyType

(* The notifiers behind r stay accounted for. *)
LEMMA ProgressStays ==
  ASSUME DispatchTypeOK, DispatchInv, NEW r \in Replicas, pc[r] # "loop",
         OthersStay(r), Grows, HandsOver(r)
  PROVE  \A c, i : c = cur[r] /\ i \in 1..(next[r] - 1) =>
           Accounted(KeyAt(c, i))'
<1> SUFFICES ASSUME NEW c, c = cur[r], NEW i \in 1..(next[r] - 1)
             PROVE  Accounted(KeyAt(c, i))'
  OBVIOUS
<1>1. /\ cur[r] \in Records /\ Content[cur[r]] # Poison
      /\ next[r] \in 1..(Len(Notifiers) + 1)
  BY InHand
<1>2. i \in 1..Len(Notifiers)
  BY <1>1, LenIsNat
<1>3. KeyAt(c, i) \in Keys
  BY <1>1, <1>2, KeyType
<1>4. Accounted(KeyAt(c, i))
  BY DEF DispatchInv, HandlerInv, KeyAt
<1> QED
  BY <1>3, <1>4, AccountedStays

(* A step to the next notifier is sound when the key it leaves behind is     *)
(* accounted for.                                                            *)
LEMMA AdvanceStep ==
  ASSUME DispatchTypeOK, DispatchInv, handled \subseteq Records,
         NEW r \in Replicas, pc[r] # "loop", next[r] <= Len(Notifiers),
         Advance(r), LogOf' = LogOf, handled' = handled,
         Grows, MarksMove(r),
         \/ ~Holds(r) /\ Accounted(Key(r))
         \/ posts'[Key(r)] > 0
         \/ Key(r) \in refused' \cup orphans',
         bad' \in [Replicas -> BOOLEAN],
         marks' \in [Stores -> SUBSET Keys],
         posts' \in [Keys -> Nat],
         shown' \in [Keys -> Outcomes \cup {None}],
         skipped' \cup refused' \cup orphans' \cup expired' \subseteq Keys,
         failed' \subseteq Records
  PROVE  DispatchTypeOK' /\ DispatchInv'
<1>1. /\ cur[r] \in Records /\ Content[cur[r]] # Poison
      /\ next[r] \in 1..Len(Notifiers)
      /\ next[r] + 1 \in 1..(Len(Notifiers) + 1)
      /\ Key(r) \in Keys /\ Key(r) = KeyAt(cur[r], next[r])
  BY InHand
<1> PICK c \in Records, n \in 1..(Len(Notifiers) + 1) :
      c = cur[r] /\ n = next[r] + 1
  BY <1>1
<1> DEFINE l == "claim"
<1>2. StepShape(r, l, c, n)
  BY DEF StepShape, Advance, DispatchTypeOK
<1>3. LabelFits(l, c, n) /\ l \in Labels
  BY <1>1 DEF LabelFits, Claiming, Labels
<1>4. OthersStay(r)
  BY <1>2 DEF StepShape, OthersStay, DispatchTypeOK
<1>5. HandsOver(r)
  BY DEF HandsOver
<1>6. \A k : k = Key(r) => Accounted(k)'
  <2> SUFFICES ASSUME NEW k, k = Key(r) PROVE Accounted(k)'
    OBVIOUS
  <2>1. CASE Accounted(k)
    BY <1>1, <1>4, <1>5, <2>1, AccountedStays
  <2>2. CASE posts'[k] > 0 \/ k \in refused' \cup orphans'
    BY <2>2 DEF Accounted
  <2> QED
    BY <2>1, <2>2
<1>7. \A i \in 1..(n - 1) : Accounted(KeyAt(c, i))'
  <2> SUFFICES ASSUME NEW i \in 1..next[r] PROVE Accounted(KeyAt(c, i))'
    BY <1>1
  <2>1. CASE i = next[r]
    BY <1>1, <1>6, <2>1
  <2>2. CASE i # next[r]
    <3>1. i \in 1..(next[r] - 1)
      BY <1>1, <2>2
    <3> QED
      BY <1>4, <1>5, <3>1, ProgressStays
  <2> QED
    BY <2>1, <2>2
<1>8. l # "unmark" /\ l # "loop" /\ c \in Records \cup {None}
  BY <1>1
<1> HIDE DEF l
<1> QED
  BY <1>1, <1>2, <1>3, <1>5, <1>7, <1>8, HandlerStep

(* Steps at which r stays with its record or goes back to the loop. *)
LEMMA TakeStep ==
  ASSUME TypeOK, DispatchInv, NEW r \in Replicas, Take(r)
  PROVE  DispatchTypeOK' /\ DispatchInv'
<1> PICK c \in inflight[r] : Content[c] # Poison /\ cur' = [cur EXCEPT ![r] = c]
  BY DEF Take
<1> DEFINE l == "claim"
           n == 1
<1>1. DispatchTypeOK /\ handled \subseteq Records /\ c \in Records
  BY DEF TypeOK, GroupTypeOK
<1>2. /\ pc[r] = "loop" /\ next[r] = 1
      /\ UNCHANGED <<LogOf, next, bad, marks, posts, shown, historyVars, handled>>
      /\ pc' = [pc EXCEPT ![r] = l]
  BY DEF Take, groupVars, DispatchInv, HandlerInv
<1>3. n \in 1..(Len(Notifiers) + 1) /\ c \in Records \cup {None} /\ l \in Labels
  BY <1>1, LenIsNat DEF Labels
<1>4. StepShape(r, l, c, n)
  BY <1>1, <1>2 DEF StepShape, DispatchTypeOK
<1>5. LabelFits(l, c, n)
  BY <1>1 DEF LabelFits, Claiming
<1>6. Grows /\ HandsOver(r) /\ MarksMove(r)
  BY <1>2 DEF Grows, HandsOver, MarksMove, Holds, historyVars
<1>7. /\ bad' \in [Replicas -> BOOLEAN]
      /\ marks' \in [Stores -> SUBSET Keys]
      /\ posts' \in [Keys -> Nat]
      /\ shown' \in [Keys -> Outcomes \cup {None}]
      /\ skipped' \cup refused' \cup orphans' \cup expired' \subseteq Keys
      /\ failed' \subseteq Records
  BY <1>1, <1>2 DEF DispatchTypeOK, historyVars
<1>8. /\ l # "loop" => \A i \in 1..(n - 1) : Accounted(KeyAt(c, i))'
      /\ l = "unmark" => KeyAt(c, n) \in refused'
      /\ \A rec \in handled' : rec \in handled
  BY <1>2
<1> HIDE DEF l, n
<1> QED
  BY <1>1, <1>3, <1>4, <1>5, <1>6, <1>7, <1>8, HandlerStep

\* A step of r that keeps its record and its notifier.
StaysPut(r, l) ==
  pc' = [pc EXCEPT ![r] = l] /\ UNCHANGED <<cur, next, LogOf>>

LEMMA StayStep ==
  ASSUME DispatchTypeOK, DispatchInv, handled \subseteq Records,
         NEW r \in Replicas, pc[r] # "loop", next[r] <= Len(Notifiers),
         NEW l \in Claiming, StaysPut(r, l), handled' = handled, Grows,
         \A s \in Stores : \A k \in marks'[s] :
           k \in marks[s] \/ (s = LogOf[r] /\ k = Key(r)),
         l = "unmark" => Key(r) \in refused',
         bad' \in [Replicas -> BOOLEAN],
         marks' \in [Stores -> SUBSET Keys],
         posts' \in [Keys -> Nat],
         shown' \in [Keys -> Outcomes \cup {None}],
         skipped' \cup refused' \cup orphans' \cup expired' \subseteq Keys,
         failed' \subseteq Records
  PROVE  DispatchTypeOK' /\ DispatchInv'
<1>1. /\ cur[r] \in Records /\ Content[cur[r]] # Poison
      /\ next[r] \in 1..(Len(Notifiers) + 1)
      /\ Key(r) = KeyAt(cur[r], next[r])
  BY InHand
<1> PICK c \in Records, n \in 1..(Len(Notifiers) + 1) : c = cur[r] /\ n = next[r]
  BY <1>1
<1>2. StepShape(r, l, c, n) /\ pc'[r] = l /\ cur'[r] = c /\ next'[r] = n
  BY DEF StepShape, StaysPut, DispatchTypeOK
<1>3. LabelFits(l, c, n) /\ l \in Labels /\ l # "loop"
  BY <1>1 DEF LabelFits, Claiming, Labels
<1>4. OthersStay(r)
  BY <1>2 DEF StepShape, OthersStay, DispatchTypeOK
<1>5. HandsOver(r)
  BY <1>2 DEF HandsOver
<1>6. MarksMove(r)
  BY <1>1, <1>2 DEF MarksMove
<1>7. \A i \in 1..(n - 1) : Accounted(KeyAt(c, i))'
  BY <1>4, <1>5, ProgressStays
<1>8. l = "unmark" => KeyAt(c, n) \in refused'
  BY <1>1
<1>9. c \in Records \cup {None} /\ \A rec \in handled' : rec \in handled
  OBVIOUS
<1> QED
  BY <1>2, <1>3, <1>5, <1>6, <1>7, <1>8, <1>9, HandlerStep

\* A step of r that ends its handler call.
GoesBack(r) ==
  /\ pc' = [pc EXCEPT ![r] = "loop"]
  /\ cur' = [cur EXCEPT ![r] = None]
  /\ next' = [next EXCEPT ![r] = 1]
  /\ bad' = [bad EXCEPT ![r] = FALSE]
  /\ LogOf' = LogOf

LEMMA BackStep ==
  ASSUME DispatchTypeOK, DispatchInv, handled \subseteq Records,
         NEW r \in Replicas, GoesBack(r), Grows, HandsOver(r), MarksMove(r),
         \A rec \in handled' :
           \/ rec \in handled
           \/ Content[rec] = Poison
           \/ \A m \in Names : Accounted(<<Content[rec].id, m>>)',
         marks' \in [Stores -> SUBSET Keys],
         UNCHANGED <<posts, shown, skipped>>,
         refused' \cup orphans' \cup expired' \subseteq Keys,
         failed' \subseteq Records
  PROVE  DispatchTypeOK' /\ DispatchInv'
<1> DEFINE l == "loop"
           c == None
           n == 1
<1>1. n \in 1..(Len(Notifiers) + 1) /\ c \in Records \cup {None} /\ l \in Labels
  BY LenIsNat DEF Labels
<1>2. StepShape(r, l, c, n) /\ bad' \in [Replicas -> BOOLEAN]
  BY DEF StepShape, GoesBack, DispatchTypeOK
<1>3. LabelFits(l, c, n)
  BY DEF LabelFits, Claiming
<1>4. /\ posts' \in [Keys -> Nat]
      /\ shown' \in [Keys -> Outcomes \cup {None}]
      /\ skipped' \cup refused' \cup orphans' \cup expired' \subseteq Keys
  BY DEF DispatchTypeOK
<1>5. /\ l # "loop" => \A i \in 1..(n - 1) : Accounted(KeyAt(c, i))'
      /\ l = "unmark" => KeyAt(c, n) \in refused'
  OBVIOUS
<1> HIDE DEF l, c, n
<1> QED
  BY <1>1, <1>2, <1>3, <1>4, <1>5, HandlerStep

------------------------------------------------------------------------------

LEMMA OutcomeType == ASSUME NEW d \in Decisions PROVE Outcome(d) \in Outcomes
BY DEF Outcome, Outcomes

(* A notification that gets through is a delivery. *)
LEMMA PostGood ==
  ASSUME DispatchTypeOK, DispatchInv, NEW r \in Replicas, Holds(r), Post(r)
  PROVE  /\ posts' \in [Keys -> Nat]
         /\ \A k \in Keys : posts[k] > 0 => posts'[k] > 0
         /\ posts'[Key(r)] > 0
         /\ shown' \in [Keys -> Outcomes \cup {None}]
 <1> PICK d : d = Content[cur[r]].decision
  OBVIOUS
<1>0. pc[r] # "loop"
  BY DEF Holds
<1>1. /\ Key(r) \in Keys /\ Key(r)[1] = Content[cur[r]].id
      /\ cur[r] \in Records /\ Content[cur[r]] # Poison
      /\ d \in Decisions
  BY <1>0, InHand DEF Key
<1>2. /\ posts' = [posts EXCEPT ![Key(r)] = @ + 1]
      /\ shown' = [shown EXCEPT ![Key(r)] = Outcome(d)]
  BY DEF Post
<1>3. posts \in [Keys -> Nat] /\ shown \in [Keys -> Outcomes \cup {None}]
  BY DEF DispatchTypeOK
<1>4. Outcome(d) \in Outcomes
  BY <1>1, OutcomeType
<1> QED
  BY <1>1, <1>2, <1>3, <1>4

(* The invariant is kept by every step. *)
LEMMA DispatchStep ==
  ASSUME TypeOK, DispatchInv, [Next]_vars
  PROVE  DispatchTypeOK' /\ DispatchInv'
<1>1. ASSUME UNCHANGED dispatchVars,
             \A rec \in handled' : rec \in handled \/ Content[rec] = Poison
      PROVE  DispatchTypeOK' /\ DispatchInv'
  <2>1. UNCHANGED <<LogOf, pc, cur, next, bad, marks, posts, shown, skipped,
                    refused, orphans, expired, failed>>
    BY <1>1 DEF dispatchVars, handlerVars, historyVars
  <2>2. DispatchTypeOK'
    BY <2>1 DEF TypeOK, DispatchTypeOK
  <2>3. HandlerInv'
    BY <2>1 DEF DispatchInv, HandlerInv, Accounted, InProgress, Holds, Key
  <2>4. MarksInv'
    BY <2>1 DEF DispatchInv, MarksInv, ClaimedIn, Holds, Key
  <2>5. NoSilentLoss'
    BY <1>1, <2>1 DEF DispatchInv, NoSilentLoss, Accounted, InProgress, Holds, Key
  <2> QED
    BY <2>2, <2>3, <2>4, <2>5 DEF DispatchInv
<1>2. /\ DispatchTypeOK /\ handled \subseteq Records
      /\ bad \in [Replicas -> BOOLEAN]
      /\ marks \in [Stores -> SUBSET Keys]
      /\ posts \in [Keys -> Nat]
      /\ shown \in [Keys -> Outcomes \cup {None}]
      /\ skipped \subseteq Keys /\ refused \subseteq Keys /\ orphans \subseteq Keys
      /\ expired \subseteq Keys
      /\ failed \subseteq Records
      /\ LogOf \in [Replicas -> Stores]
  BY DispatchAssumption DEF TypeOK, GroupTypeOK, DispatchTypeOK
<1>3. ASSUME NEW r \in Replicas, SkipPoison(r)
      PROVE  DispatchTypeOK' /\ DispatchInv'
  BY <1>1, <1>3 DEF SkipPoison, Return
<1>4. ASSUME NEW r \in Replicas, MarkNew(r)
      PROVE  DispatchTypeOK' /\ DispatchInv'
  <2>1. /\ pc[r] # "loop" /\ next[r] <= Len(Notifiers) /\ ~Holds(r)
        /\ UNCHANGED <<LogOf, cur, next, posts, shown, skipped, orphans, expired, failed>>
        /\ handled' = handled
        /\ marks' = [marks EXCEPT ![LogOf[r]] = @ \cup {Key(r)}]
    BY <1>4 DEF MarkNew, AtNotifier, groupVars, Holds
  <2>2. Key(r) \in Keys
    BY <1>2, <2>1, InHand
  <2>3. PICK l \in Claiming :
          /\ pc' = [pc EXCEPT ![r] = l]
          /\ bad' \in [Replicas -> BOOLEAN]
          /\ refused \subseteq refused' /\ refused' \subseteq Keys
          /\ l = "unmark" => Key(r) \in refused'
    BY <1>2, <1>4, <2>2 DEF MarkNew, Claiming
  <2>4. StaysPut(r, l) /\ Grows
    BY <2>1, <2>3 DEF StaysPut, Grows
  <2>5. /\ marks' \in [Stores -> SUBSET Keys]
        /\ \A s \in Stores : \A k \in marks'[s] :
             k \in marks[s] \/ (s = LogOf[r] /\ k = Key(r))
    BY <1>2, <2>1, <2>2
  <2>6. /\ posts' \in [Keys -> Nat]
        /\ shown' \in [Keys -> Outcomes \cup {None}]
        /\ skipped' \cup refused' \cup orphans' \cup expired' \subseteq Keys
        /\ failed' \subseteq Records
    BY <1>2, <2>1, <2>3
  <2> QED
    BY <1>2, <2>1, <2>3, <2>4, <2>5, <2>6, StayStep
<1>5. ASSUME NEW r \in Replicas, MarkSeen(r)
      PROVE  DispatchTypeOK' /\ DispatchInv'
  <2>1. /\ pc[r] # "loop" /\ next[r] <= Len(Notifiers) /\ ~Holds(r) /\ Advance(r)
        /\ UNCHANGED <<LogOf, bad, marks, posts, shown, refused, orphans, expired, failed>>
        /\ handled' = handled
        /\ skipped' = skipped \cup {Key(r)}
        /\ Key(r) \in marks[LogOf[r]]
    BY <1>5 DEF MarkSeen, AtNotifier, groupVars, Holds, Marked
  <2>2. Key(r) \in Keys
    BY <1>2, <2>1, InHand
  <2>3. Accounted(Key(r))
    BY <1>2, <2>1 DEF DispatchInv, MarksInv, ClaimedIn, Accounted, InProgress
  <2>4. Grows /\ MarksMove(r)
    BY <2>1 DEF Grows, MarksMove
  <2>5. /\ bad' \in [Replicas -> BOOLEAN]
        /\ marks' \in [Stores -> SUBSET Keys]
        /\ posts' \in [Keys -> Nat]
        /\ shown' \in [Keys -> Outcomes \cup {None}]
        /\ skipped' \cup refused' \cup orphans' \cup expired' \subseteq Keys
        /\ failed' \subseteq Records
    BY <1>2, <2>1, <2>2
  <2> QED
    BY <1>2, <2>1, <2>3, <2>4, <2>5, AdvanceStep
<1>6. ASSUME NEW r \in Replicas, MarkFails(r)
      PROVE  DispatchTypeOK' /\ DispatchInv'
  <2>1. /\ pc[r] # "loop" /\ next[r] <= Len(Notifiers) /\ ~Holds(r) /\ Advance(r)
        /\ UNCHANGED <<LogOf, posts, shown, skipped, expired, failed>>
        /\ handled' = handled
        /\ LogOf[r] \notin Volatile
        /\ refused' = refused \cup {Key(r)}
        /\ bad' = [bad EXCEPT ![r] = TRUE]
        /\ \/ /\ marks' = [marks EXCEPT ![LogOf[r]] = @ \cup {Key(r)}]
              /\ orphans' = orphans \cup {Key(r)}
           \/ UNCHANGED <<marks, orphans>>
    BY <1>6 DEF MarkFails, AtNotifier, UnchangedGroup, Holds
  <2>2. Key(r) \in Keys
    BY <1>2, <2>1, InHand
  <2>3. Grows
    BY <2>1 DEF Grows
  <2>4. MarksMove(r)
    BY <1>2, <2>1 DEF MarksMove
  <2>5. /\ bad' \in [Replicas -> BOOLEAN]
        /\ marks' \in [Stores -> SUBSET Keys]
        /\ posts' \in [Keys -> Nat]
        /\ shown' \in [Keys -> Outcomes \cup {None}]
        /\ skipped' \cup refused' \cup orphans' \cup expired' \subseteq Keys
        /\ failed' \subseteq Records
    BY <1>2, <2>1, <2>2
  <2>7. Key(r) \in refused' \cup orphans'
    BY <2>1
  <2> QED
    BY <1>2, <2>1, <2>3, <2>4, <2>5, <2>7, AdvanceStep
<1>7. ASSUME NEW r \in Replicas, Notify(r)
      PROVE  DispatchTypeOK' /\ DispatchInv'
  <2>1. /\ Holds(r) /\ pc[r] # "loop" /\ Advance(r) /\ Post(r)
        /\ UNCHANGED <<LogOf, bad, marks, skipped, refused, orphans, expired, failed>>
        /\ handled' = handled
    BY <1>7 DEF Notify, groupVars, historyVars, Holds
  <2>2. next[r] <= Len(Notifiers) /\ Key(r) \in Keys
    BY <1>2, <2>1, InHand
  <2>3. /\ posts' \in [Keys -> Nat]
        /\ \A k \in Keys : posts[k] > 0 => posts'[k] > 0
        /\ posts'[Key(r)] > 0
        /\ shown' \in [Keys -> Outcomes \cup {None}]
    BY <1>2, <2>1, PostGood
  <2>4. Grows /\ MarksMove(r)
    BY <2>1, <2>3 DEF Grows, MarksMove
  <2>5. /\ bad' \in [Replicas -> BOOLEAN]
        /\ marks' \in [Stores -> SUBSET Keys]
        /\ skipped' \cup refused' \cup orphans' \cup expired' \subseteq Keys
        /\ failed' \subseteq Records
    BY <1>2, <2>1
  <2> QED
    BY <1>2, <2>1, <2>2, <2>3, <2>4, <2>5, AdvanceStep
<1>8. ASSUME NEW r \in Replicas, NotifyFails(r)
      PROVE  DispatchTypeOK' /\ DispatchInv'
  <2> DEFINE l == "unmark"
  <2>1. /\ Holds(r) /\ pc[r] # "loop" /\ StaysPut(r, l)
        /\ UNCHANGED <<marks, skipped, orphans, expired, failed>>
        /\ handled' = handled
        /\ refused' = refused \cup {Key(r)}
        /\ bad' = [bad EXCEPT ![r] = TRUE]
    BY <1>8 DEF NotifyFails, UnchangedGroup, Holds, StaysPut
  <2>2. next[r] <= Len(Notifiers) /\ Key(r) \in Keys
    BY <1>2, <2>1, InHand
  <2>3. /\ posts' \in [Keys -> Nat]
        /\ \A k \in Keys : posts[k] > 0 => posts'[k] > 0
        /\ shown' \in [Keys -> Outcomes \cup {None}]
    <3>1. CASE Post(r)
      BY <1>2, <2>1, <3>1, PostGood
    <3>2. CASE UNCHANGED <<posts, shown>>
      BY <1>2, <3>2
    <3> QED
      BY <1>8, <3>1, <3>2 DEF NotifyFails
  <2>4. Grows
    BY <2>1, <2>3 DEF Grows
  <2>5. /\ bad' \in [Replicas -> BOOLEAN]
        /\ marks' \in [Stores -> SUBSET Keys]
        /\ skipped' \cup refused' \cup orphans' \cup expired' \subseteq Keys
        /\ failed' \subseteq Records
    BY <1>2, <2>1, <2>2
  <2>6. /\ l \in Claiming /\ (l = "unmark" => Key(r) \in refused')
        /\ \A s \in Stores : \A k \in marks'[s] :
             k \in marks[s] \/ (s = LogOf[r] /\ k = Key(r))
    BY <2>1 DEF Claiming
  <2> HIDE DEF l
  <2> QED
    BY <1>2, <2>1, <2>2, <2>3, <2>4, <2>5, <2>6, StayStep
<1>9. ASSUME NEW r \in Replicas, Unmark(r)
      PROVE  DispatchTypeOK' /\ DispatchInv'
  <2>1. /\ pc[r] = "unmark" /\ Holds(r) /\ pc[r] # "loop" /\ Advance(r)
        /\ UNCHANGED <<LogOf, bad, posts, shown, skipped, refused, orphans, expired, failed>>
        /\ handled' = handled
        /\ marks' = [marks EXCEPT ![LogOf[r]] = @ \ {Key(r)}]
    BY <1>9 DEF Unmark, groupVars, historyVars, Holds
  <2>2. next[r] <= Len(Notifiers) /\ Key(r) \in refused' \cup orphans'
    BY <1>2, <2>1, InHand DEF DispatchInv, HandlerInv
  <2>3. Grows /\ MarksMove(r)
    BY <1>2, <2>1 DEF Grows, MarksMove
  <2>4. /\ bad' \in [Replicas -> BOOLEAN]
        /\ marks' \in [Stores -> SUBSET Keys]
        /\ posts' \in [Keys -> Nat]
        /\ shown' \in [Keys -> Outcomes \cup {None}]
        /\ skipped' \cup refused' \cup orphans' \cup expired' \subseteq Keys
        /\ failed' \subseteq Records
    BY <1>2, <2>1
  <2> QED
    BY <1>2, <2>1, <2>2, <2>3, <2>4, AdvanceStep
<1>10. ASSUME NEW r \in Replicas, UnmarkFails(r)
       PROVE  DispatchTypeOK' /\ DispatchInv'
  <2>1. /\ Holds(r) /\ pc[r] # "loop" /\ Advance(r) /\ LogOf[r] \notin Volatile
        /\ UNCHANGED <<LogOf, bad, posts, shown, skipped, refused, expired, failed>>
        /\ handled' = handled
        /\ \/ marks' = [marks EXCEPT ![LogOf[r]] = @ \ {Key(r)}]
           \/ UNCHANGED marks
        /\ orphans' = orphans \cup {Key(r)}
    BY <1>10 DEF UnmarkFails, UnchangedGroup, Holds
  <2>2. next[r] <= Len(Notifiers) /\ Key(r) \in Keys
    BY <1>2, <2>1, InHand
  <2>3. Grows /\ MarksMove(r)
    BY <1>2, <2>1 DEF Grows, MarksMove
  <2>4. /\ bad' \in [Replicas -> BOOLEAN]
        /\ marks' \in [Stores -> SUBSET Keys]
        /\ posts' \in [Keys -> Nat]
        /\ shown' \in [Keys -> Outcomes \cup {None}]
        /\ skipped' \cup refused' \cup orphans' \cup expired' \subseteq Keys
        /\ failed' \subseteq Records
        /\ Key(r) \in refused' \cup orphans'
    BY <1>2, <2>1, <2>2
  <2> QED
    BY <1>2, <2>1, <2>2, <2>3, <2>4, AdvanceStep
<1>11. ASSUME NEW r \in Replicas, Finish(r)
       PROVE  DispatchTypeOK' /\ DispatchInv'
  <2>1. /\ pc[r] = "claim" /\ pc[r] # "loop" /\ ~Holds(r) /\ GoesBack(r)
        /\ next[r] > Len(Notifiers)
        /\ UNCHANGED <<marks, posts, shown, skipped, refused, orphans, expired>>
        /\ handled' = handled \cup {cur[r]}
    BY <1>11 DEF Finish, Return, Holds, GoesBack
  <2>2. /\ cur[r] \in Records /\ Content[cur[r]] # Poison
        /\ next[r] - 1 = Len(Notifiers)
    BY <1>2, <2>1, InHand, LenIsNat
  <2>3. Grows /\ HandsOver(r) /\ MarksMove(r) /\ OthersStay(r)
    BY <1>2, <2>1 DEF Grows, HandsOver, MarksMove, OthersStay, GoesBack,
                      DispatchTypeOK
  <2>4. ASSUME NEW rec, rec = cur[r], NEW m \in Names
        PROVE  Accounted(<<Content[rec].id, m>>)'
    <3>1. PICK i \in 1..Len(Notifiers) : m = Notifiers[i]
      BY DEF Names
    <3>2. Accounted(KeyAt(rec, i))'
      BY <1>2, <2>1, <2>2, <2>3, <2>4, ProgressStays
    <3> QED
      BY <3>1, <3>2 DEF KeyAt
  <2>5. \A rec \in handled' :
          \/ rec \in handled
          \/ Content[rec] = Poison
          \/ \A m \in Names : Accounted(<<Content[rec].id, m>>)'
    BY <2>1, <2>4
  <2>6. /\ failed' \subseteq Records
        /\ marks' \in [Stores -> SUBSET Keys]
        /\ refused' \cup orphans' \cup expired' \subseteq Keys
    BY <1>2, <1>11, <2>1, <2>2 DEF Finish, DispatchTypeOK
  <2> QED
    BY <1>2, <2>1, <2>3, <2>5, <2>6, BackStep
<1>12. ASSUME NEW r \in Replicas, Die(r)
       PROVE  DispatchTypeOK' /\ DispatchInv'
  <2>1. /\ GoesBack(r)
        /\ UNCHANGED <<posts, shown, skipped, refused, expired, failed>>
        /\ handled' = handled
        /\ marks' = [s \in Stores |->
                       IF s = LogOf[r] /\ s \in Volatile THEN {} ELSE marks[s]]
        /\ orphans' = IF Holds(r) THEN orphans \cup {Key(r)} ELSE orphans
    BY <1>12 DEF Die, Crash, Terminate, Leave, GoesBack, Holds
  <2>2. Holds(r) => pc[r] # "loop"
    BY DEF Holds
  <2>3. Holds(r) => Key(r) \in Keys
    BY <1>2, <2>2, InHand
  <2>4. Grows /\ HandsOver(r) /\ MarksMove(r)
    BY <1>2, <2>1 DEF Grows, HandsOver, MarksMove
  <2>5. /\ marks' \in [Stores -> SUBSET Keys]
        /\ refused' \cup orphans' \cup expired' \subseteq Keys
        /\ failed' \subseteq Records
    BY <1>2, <2>1, <2>3
  <2> QED
    BY <1>2, <2>1, <2>4, <2>5, BackStep
<1>13. ASSUME Expire PROVE DispatchTypeOK' /\ DispatchInv'
  <2>1. /\ UNCHANGED <<LogOf, pc, cur, next, bad, posts, shown, skipped,
                       refused, orphans, failed, handled>>
        /\ marks' \in [Stores -> SUBSET Keys]
        /\ \A s \in Stores : marks'[s] \subseteq marks[s]
        /\ expired' \subseteq Keys
    BY <1>2, <1>13 DEF Expire, UnchangedGroup, handlerVars, DispatchTypeOK
  <2>2. DispatchTypeOK'
    BY <1>2, <2>1 DEF DispatchTypeOK
  <2>3. HandlerInv'
    BY <2>1 DEF DispatchInv, HandlerInv, Accounted, InProgress, Holds, Key
  <2>4. MarksInv'
    BY <2>1 DEF DispatchInv, MarksInv, ClaimedIn, Holds, Key
  <2>5. NoSilentLoss'
    BY <2>1 DEF DispatchInv, NoSilentLoss, Accounted, InProgress, Holds, Key
  <2> QED
    BY <2>2, <2>3, <2>4, <2>5 DEF DispatchInv
<1>14. ASSUME NEW r \in Replicas, Poll(r)
       PROVE  DispatchTypeOK' /\ DispatchInv'
  BY <1>1, <1>14 DEF Poll, Fetch, FetchError, LastPoll
<1>15. CASE Group
  BY <1>1, <1>15 DEF Group, Stop, Restart, Assign, AutoCommit
<1>16. CASE UNCHANGED vars
  BY <1>1, <1>16 DEF vars, groupVars
<1> QED
  BY <1>3, <1>4, <1>5, <1>6, <1>7, <1>8, <1>9, <1>10, <1>11, <1>12, <1>13,
     <1>14, <1>15, <1>16, TakeStep DEF Next, Handle

(* Every step of the reporter is a step of the consumer group, or none of it. *)
LEMMA GroupStep ==
  ASSUME TypeOK, [Next]_vars
  PROVE  [GroupNext]_groupVars
<1>1. ASSUME NEW r \in Replicas, NEW rec \in inflight[r], Return(r, rec),
             UNCHANGED faults
      PROVE  GroupNext
  BY <1>1 DEF GroupNext, TypeOK, GroupTypeOK
<1>2. ASSUME NEW r \in Replicas, SkipPoison(r) \/ Finish(r) PROVE GroupNext
  BY <1>1, <1>2 DEF SkipPoison, Finish, Return
<1>3. ASSUME NEW r \in Replicas,
             Take(r) \/ MarkNew(r) \/ MarkSeen(r) \/ Notify(r) \/ Unmark(r)
      PROVE  UNCHANGED groupVars
  BY <1>3 DEF Take, MarkNew, MarkSeen, Notify, Unmark
<1>4. ASSUME NEW r \in Replicas, MarkFails(r) \/ NotifyFails(r) \/ UnmarkFails(r)
      PROVE  GroupNext \/ UNCHANGED groupVars
  BY <1>4 DEF MarkFails, NotifyFails, UnmarkFails, CallFails, UnchangedGroup,
              GroupNext, HandlerFault, groupVars
<1>5. CASE Expire
  BY <1>5 DEF Expire, UnchangedGroup, GroupNext, HandlerFault
<1>6. ASSUME NEW r \in Replicas, Poll(r) \/ Die(r) PROVE GroupNext
  BY <1>6 DEF Poll, Die, GroupNext
<1>7. CASE Group
  BY <1>7 DEF Group, GroupNext
<1>8. CASE UNCHANGED vars
  BY <1>8 DEF vars
<1> QED
  BY <1>2, <1>3, <1>4, <1>5, <1>6, <1>7, <1>8 DEF Next, Handle

LEMMA InvInit == Init => TypeOK /\ DispatchInv
BY GroupTypeInit, DispatchInit DEF Init, TypeOK

LEMMA InvStep == TypeOK /\ DispatchInv /\ [Next]_vars => TypeOK' /\ DispatchInv'
<1> SUFFICES ASSUME TypeOK, DispatchInv, [Next]_vars
             PROVE  TypeOK' /\ DispatchInv'
  OBVIOUS
<1>1. DispatchTypeOK' /\ DispatchInv'
  BY DispatchStep
<1>2. GroupTypeOK'
  BY GroupStep, GroupTypeStep DEF TypeOK
<1> QED
  BY <1>1, <1>2 DEF TypeOK

(* The reporter's state stays within its types; handlers have accounted for  *)
(* the notifiers behind them, and marks stand for deliveries, claims of users *)
(* of the same log, or orphans.                                              *)
THEOREM DispatchInvariant == Spec => [](TypeOK /\ DispatchInv)
BY InvInit, InvStep, PTL DEF Spec

THEOREM DispatchTypeCorrect == Spec => []TypeOK
BY DispatchInvariant, PTL

(* The reporter consumes as the consumer group prescribes. *)
THEOREM DispatchImplementsGroup == Spec => GroupSpec
<1>1. Init => GroupInit
  BY DEF Init
<1> QED
  BY <1>1, GroupStep, DispatchTypeCorrect, PTL DEF Spec, GroupSpec

(* No verdict falls behind the committed offset before a handler returned    *)
(* for it or its fetch was discarded.                                        *)
THEOREM DispatchCommitsSettled == Spec => []CommittedSettled
BY DispatchImplementsGroup, CommittedOnlySettled, PTL

(* However many replicas, copies and faults: what a log holds was delivered, *)
(* is being delivered, or is a claim that may have outlived its claimant.    *)
THEOREM DispatchMarks == Spec => []MarkMeansDelivered
<1>1. DispatchInv => MarkMeansDelivered
  BY DEF DispatchInv, MarksInv, ClaimedIn, MarkMeansDelivered, InProgress
<1> QED
  BY <1>1, DispatchInvariant, PTL

(* A log in memory never holds an orphan: it dies with the claimants. *)
THEOREM DispatchMemory == Spec => []NoOrphanInMemory
<1>1. DispatchTypeOK /\ DispatchInv => NoOrphanInMemory
  BY DispatchAssumption
     DEF DispatchInv, MarksInv, ClaimedIn, NoOrphanInMemory, InProgress
<1> QED
  BY <1>1, DispatchInvariant, PTL DEF TypeOK

(* A destination of a handled verdict has it, is getting it, or had a call   *)
(* of its own fail.                                                          *)
THEOREM DispatchLosesNothing == Spec => []NoSilentLoss
<1>1. DispatchInv => NoSilentLoss
  BY DEF DispatchInv
<1> QED
  BY <1>1, DispatchInvariant, PTL

------------------------------------------------------------------------------
(***************************************************************************)
(* Duplicates.  A post uses up a claim, a claim uses up a free log, and a  *)
(* log is free again, or another one within reach, only when a claim is    *)
(* given back or a fault was paid for it.                                  *)
(***************************************************************************)

\* B has at most d elements more than A.
CardBy(A, B, d) ==
  \/ d = 1 /\ \E x : B \subseteq A \cup {x}
  \/ d = 0 /\ B \subseteq A
  \/ d = -1 /\ \E x \in A : B \subseteq A \ {x}

LEMMA CardChange ==
  ASSUME NEW A, IsFiniteSet(A), NEW B, NEW d \in {-1, 0, 1}, CardBy(A, B, d)
  PROVE  /\ IsFiniteSet(B) /\ Cardinality(A) \in Nat /\ Cardinality(B) \in Nat
         /\ Cardinality(B) <= Cardinality(A) + d
<1>1. CASE d = 1
  <2>1. PICK x : B \subseteq A \cup {x}
    BY <1>1 DEF CardBy
  <2> QED
    BY <1>1, <2>1, CardOneMore
<1>2. CASE d = 0
  <2>1. B \subseteq A
    BY <1>2 DEF CardBy
  <2> QED
    BY <1>2, <2>1, CardNoMore
<1>3. CASE d = -1
  <2>1. PICK x \in A : B \subseteq A \ {x}
    BY <1>3 DEF CardBy
  <2>2. /\ IsFiniteSet(B) /\ Cardinality(A) \in Nat /\ Cardinality(B) \in Nat
        /\ Cardinality(B) + 1 <= Cardinality(A)
    BY <2>1, CardOneLess
  <2> QED
    BY <1>3, <2>2
<1> QED
  BY <1>1, <1>2, <1>3

MemoryChange(p, k) ==
  \E da, db \in {-1, 0, 1} :
    /\ CardBy(Posting(k), Posting(k)', da)
    /\ CardBy(MayClaim(p, k), MayClaim(p, k)', db)
    /\ posts'[k] + da + db + Loose(p)' + faults <= posts[k] + Loose(p) + faults'

SharedChange(s, k) ==
  \E da, db \in {-1, 0, 1} :
    /\ CardBy(Claimants(k), Claimants(k)', da)
    /\ CardBy(Hasty(k), Hasty(k)', db)
    /\ posts'[k] + da + db + Free(s, k)' + faults <= posts[k] + Free(s, k) + faults'

LEMMA MemoryKept ==
  ASSUME TypeOK, TypeOK', NEW p, NEW k \in Keys,
         MemoryAccount(p, k), MemoryChange(p, k)
  PROVE  MemoryAccount(p, k)'
<1>1. PICK da \in {-1, 0, 1}, db \in {-1, 0, 1} :
        /\ CardBy(Posting(k), Posting(k)', da)
        /\ CardBy(MayClaim(p, k), MayClaim(p, k)', db)
        /\ posts'[k] + da + db + Loose(p)' + faults <= posts[k] + Loose(p) + faults'
  BY DEF MemoryChange
<1>2. /\ posts[k] \in Nat /\ posts'[k] \in Nat /\ faults \in Nat /\ faults' \in Nat
      /\ Loose(p) \in Nat /\ Loose(p)' \in Nat
  BY GroupAssumption DEF TypeOK, GroupTypeOK, DispatchTypeOK, Loose
<1>3. /\ IsFiniteSet(Posting(k)) /\ IsFiniteSet(MayClaim(p, k))
      /\ posts[k] + Cardinality(Posting(k)) + Cardinality(MayClaim(p, k)) + Loose(p)
           <= 1 + faults
  BY DEF MemoryAccount
<1>4. /\ IsFiniteSet(Posting(k)') /\ Cardinality(Posting(k)) \in Nat
      /\ Cardinality(Posting(k)') \in Nat
      /\ Cardinality(Posting(k)') <= Cardinality(Posting(k)) + da
  BY <1>1, <1>3, CardChange
<1>5. /\ IsFiniteSet(MayClaim(p, k)') /\ Cardinality(MayClaim(p, k)) \in Nat
      /\ Cardinality(MayClaim(p, k)') \in Nat
      /\ Cardinality(MayClaim(p, k)') <= Cardinality(MayClaim(p, k)) + db
  BY <1>1, <1>3, CardChange
<1>6. posts'[k] + Cardinality(Posting(k)') + Cardinality(MayClaim(p, k)') + Loose(p)'
        <= 1 + faults'
  BY <1>1, <1>2, <1>3, <1>4, <1>5
<1> QED
  BY <1>4, <1>5, <1>6 DEF MemoryAccount

LEMMA SharedKept ==
  ASSUME TypeOK, TypeOK', NEW s, NEW k \in Keys,
         SharedAccount(s, k), SharedChange(s, k)
  PROVE  SharedAccount(s, k)'
<1>1. PICK da \in {-1, 0, 1}, db \in {-1, 0, 1} :
        /\ CardBy(Claimants(k), Claimants(k)', da)
        /\ CardBy(Hasty(k), Hasty(k)', db)
        /\ posts'[k] + da + db + Free(s, k)' + faults
              <= posts[k] + Free(s, k) + faults'
  BY DEF SharedChange
<1>2. /\ posts[k] \in Nat /\ posts'[k] \in Nat /\ faults \in Nat /\ faults' \in Nat
      /\ Free(s, k) \in Nat /\ Free(s, k)' \in Nat
  BY GroupAssumption DEF TypeOK, GroupTypeOK, DispatchTypeOK, Free
<1>3. Hasty(k) \subseteq Claimants(k)
  BY DEF Hasty
<1>4. IsFiniteSet(Claimants(k)) /\ IsFiniteSet(Hasty(k))
  BY <1>3, CardNoMore DEF SharedAccount
<1>5. /\ IsFiniteSet(Claimants(k)') /\ Cardinality(Claimants(k)) \in Nat
      /\ Cardinality(Claimants(k)') \in Nat
      /\ Cardinality(Claimants(k)') <= Cardinality(Claimants(k)) + da
  BY <1>1, <1>4, CardChange
<1>6. /\ Cardinality(Hasty(k)) \in Nat /\ Cardinality(Hasty(k)') \in Nat
      /\ Cardinality(Hasty(k)') <= Cardinality(Hasty(k)) + db
  BY <1>1, <1>4, CardChange
<1>7. posts[k] + Cardinality(Claimants(k)) + Cardinality(Hasty(k)) + Free(s, k)
        <= 1 + faults
  BY DEF SharedAccount
<1>8. posts'[k] + Cardinality(Claimants(k)') + Cardinality(Hasty(k)') + Free(s, k)'
        <= 1 + faults'
  BY <1>1, <1>2, <1>5, <1>6, <1>7
<1> QED
  BY <1>5, <1>8 DEF SharedAccount

LEMMA OneElement ==
  ASSUME NEW A, NEW B, NEW r, B \ {r} \subseteq A
  PROVE  /\ CardBy(A, B, 1)
         /\ r \notin B \/ r \in A => CardBy(A, B, 0)
         /\ r \notin B /\ r \in A => CardBy(A, B, -1)
BY DEF CardBy

\* The step is r's handler's: it leaves the group, the other handlers and the
\* other logs alone.
Inside(r) ==
  /\ OthersStay(r)
  /\ UNCHANGED <<LogOf, owner, mode, inflight>>
  /\ \A s \in Stores : s # LogOf[r] => marks'[s] = marks[s]

LEMMA LogFacts ==
  ASSUME DispatchTypeOK, NEW r \in Replicas
  PROVE  /\ LogOf[r] \in Stores
         /\ LogOf[r] \in Volatile =>
              \A q \in Replicas : LogOf[q] = LogOf[r] => q = r
BY DispatchAssumption DEF DispatchTypeOK

(* What a handler step may change in the memory account: r's own entries. *)
LEMMA MemoryInside ==
  ASSUME TypeOK, OwnMemories, NEW r \in Replicas, Inside(r), NEW p, NEW k
  PROVE  /\ Loose(p)' = Loose(p)
         /\ Posting(k)' \ {r} \subseteq Posting(k)
         /\ MayClaim(p, k)' \ {r} \subseteq MayClaim(p, k)
         /\ r \in Posting(k)' <=>
              /\ pc'[r] = "notify" \/ (pc'[r] = "unmark" /\ mode[r] # "stopping")
              /\ Key(r)' = k
         /\ r \in Posting(k) <=>
              /\ pc[r] = "notify" \/ (pc[r] = "unmark" /\ mode[r] # "stopping")
              /\ Key(r) = k
         /\ r \in MayClaim(p, k)' <=>
              mode[r] # "stopping" /\ Serves(r, p) /\ k \notin marks'[LogOf[r]]
         /\ r \in MayClaim(p, k) <=>
              mode[r] # "stopping" /\ Serves(r, p) /\ k \notin marks[LogOf[r]]
<1>1. Loose(p)' = Loose(p)
  BY DEF Inside, Loose, Settles
<1>2. \A q \in Replicas : Serves(q, p)' <=> Serves(q, p)
  BY DEF Inside, Serves
<1>3. \A q \in Replicas \ {r} :
        /\ Holds(q)' <=> Holds(q)
        /\ Key(q)' = Key(q) /\ pc'[q] = pc[q] /\ mode'[q] = mode[q]
        /\ marks'[LogOf'[q]] = marks[LogOf[q]]
  BY LogFacts DEF Inside, OthersStay, Holds, Key, OwnMemories, TypeOK
<1>4. Posting(k)' \ {r} \subseteq Posting(k)
  BY <1>3 DEF Posting, Claimants
<1>5. MayClaim(p, k)' \ {r} \subseteq MayClaim(p, k)
  BY <1>2, <1>3 DEF MayClaim, Marked, Serving
<1>6. mode' = mode /\ LogOf' = LogOf
  BY DEF Inside
<1>7. /\ r \in Posting(k)' <=>
            /\ pc'[r] = "notify" \/ (pc'[r] = "unmark" /\ mode[r] # "stopping")
            /\ Key(r)' = k
      /\ r \in Posting(k) <=>
            /\ pc[r] = "notify" \/ (pc[r] = "unmark" /\ mode[r] # "stopping")
            /\ Key(r) = k
  BY <1>6 DEF Posting, Claimants, Holds
<1>8. /\ r \in MayClaim(p, k)' <=>
            mode[r] # "stopping" /\ Serves(r, p) /\ k \notin marks'[LogOf[r]]
      /\ r \in MayClaim(p, k) <=>
            mode[r] # "stopping" /\ Serves(r, p) /\ k \notin marks[LogOf[r]]
  BY <1>2, <1>6 DEF MayClaim, Marked, Serving
<1> QED
  BY <1>1, <1>4, <1>5, <1>7, <1>8

LEMMA MemoryBy ==
  ASSUME TypeOK, OwnMemories, NEW r \in Replicas, Inside(r), NEW p, NEW k \in Keys,
         NEW da \in {-1, 0, 1}, NEW db \in {-1, 0, 1},
         da = 1 \/ r \notin Posting(k)' \/ (da = 0 /\ r \in Posting(k)),
         da = -1 => r \in Posting(k),
         db = 1 \/ r \notin MayClaim(p, k)' \/ (db = 0 /\ r \in MayClaim(p, k)),
         db = -1 => r \in MayClaim(p, k),
         posts'[k] + da + db + faults <= posts[k] + faults',
         posts[k] \in Nat, posts'[k] \in Nat, faults \in Nat, faults' \in Nat
  PROVE  MemoryChange(p, k)
<1>1. /\ Loose(p)' = Loose(p) /\ Loose(p) \in Nat
      /\ Posting(k)' \ {r} \subseteq Posting(k)
      /\ MayClaim(p, k)' \ {r} \subseteq MayClaim(p, k)
  BY MemoryInside DEF Loose
<1>2. CardBy(Posting(k), Posting(k)', da)
  BY <1>1, OneElement
<1>3. CardBy(MayClaim(p, k), MayClaim(p, k)', db)
  BY <1>1, OneElement
<1>4. posts'[k] + da + db + Loose(p)' + faults <= posts[k] + Loose(p) + faults'
  BY <1>1
<1> QED
  BY <1>2, <1>3, <1>4 DEF MemoryChange

\* The handlers that are at k have in flight a record of p.
AtHome(p, k) ==
  \A r \in Replicas :
    pc[r] # "loop" /\ Key(r) = k => cur[r] \in inflight[r] /\ cur[r][1] = p

(* The steps of a handler that come between Take and Finish. *)
LEMMA MemoryHandle ==
  ASSUME TypeOK, TypeOK', DispatchInv, OwnMemories,
         NEW p \in Partitions, NEW k \in Keys, AtHome(p, k), NEW r \in Replicas,
         \/ Take(r) \/ MarkNew(r) \/ MarkSeen(r) \/ MarkFails(r) \/ Notify(r)
         \/ NotifyFails(r) \/ Unmark(r) \/ UnmarkFails(r)
  PROVE  MemoryChange(p, k)
<1>0. faults \in 0..MaxFaults /\ faults' \in 0..MaxFaults /\ MaxFaults \in Nat
  BY GroupAssumption DEF TypeOK, GroupTypeOK
<1>1. /\ posts[k] \in Nat /\ posts'[k] \in Nat /\ faults \in Nat /\ faults' \in Nat
      /\ LogOf[r] \in Stores /\ LogOf[r] \in Volatile
  BY <1>0, LogFacts DEF TypeOK, DispatchTypeOK, OwnMemories
<1>2. ASSUME NEW l, NEW c, NEW n,
             pc' = [pc EXCEPT ![r] = l], cur' = [cur EXCEPT ![r] = c],
             next' = [next EXCEPT ![r] = n], UNCHANGED <<LogOf, owner, mode, inflight>>,
             NEW m, marks' = [marks EXCEPT ![LogOf[r]] = m] \/ marks' = marks
      PROVE  Inside(r) /\ pc'[r] = l /\ cur'[r] = c /\ next'[r] = n
  BY <1>2 DEF Inside, OthersStay, TypeOK, DispatchTypeOK
<1>3. /\ cur = [cur EXCEPT ![r] = cur[r]] /\ next = [next EXCEPT ![r] = next[r]]
  BY DEF TypeOK, DispatchTypeOK
<1>4. CASE Take(r)
  <2>1. PICK c : /\ pc[r] = "loop" /\ pc' = [pc EXCEPT ![r] = "claim"]
                 /\ cur' = [cur EXCEPT ![r] = c]
                 /\ UNCHANGED <<LogOf, owner, mode, inflight, next, marks, posts, faults>>
    BY <1>4 DEF Take, groupVars
  <2>2. Inside(r) /\ pc'[r] = "claim"
    BY <1>2, <1>3, <2>1
  <2>3. r \notin Posting(k)' /\ (r \in MayClaim(p, k)' => r \in MayClaim(p, k))
    BY <2>1, <2>2, MemoryInside
  <2> QED
    BY <1>1, <2>1, <2>2, <2>3, MemoryBy
<1>5. CASE MarkNew(r)
  <2>1. /\ pc[r] = "claim" /\ next[r] <= Len(Notifiers) /\ Key(r) \notin marks[LogOf[r]]
        /\ marks' = [marks EXCEPT ![LogOf[r]] = marks[LogOf[r]] \cup {Key(r)}]
        /\ UNCHANGED <<LogOf, owner, mode, inflight, cur, next, posts, faults>>
        /\ pc' = [pc EXCEPT ![r] = IF mode[r] = "up" THEN "notify" ELSE "unmark"]
    BY <1>5 DEF MarkNew, groupVars, AtNotifier, Marked
  <2>2. /\ Inside(r) /\ pc'[r] = (IF mode[r] = "up" THEN "notify" ELSE "unmark")
        /\ Key(r)' = Key(r)
    BY <1>2, <1>3, <2>1 DEF Key
  <2>3. marks'[LogOf[r]] = marks[LogOf[r]] \cup {Key(r)}
    BY <1>1, <2>1 DEF TypeOK, DispatchTypeOK
  <2>4. CASE Key(r) = k /\ mode[r] # "stopping"
    <3>1. cur[r] \in inflight[r] /\ cur[r][1] = p
      BY <2>1, <2>4 DEF AtHome
    <3>2. r \in MayClaim(p, k) /\ r \notin MayClaim(p, k)'
      BY <2>1, <2>2, <2>3, <2>4, <3>1, MemoryInside DEF Serves
    <3> QED
      BY <1>1, <2>1, <2>2, <3>2, MemoryBy
  <2>5. CASE Key(r) # k \/ mode[r] = "stopping"
    <3>1. r \notin Posting(k)'
      <4>1. r \in Posting(k)' =>
              /\ pc'[r] = "notify" \/ (pc'[r] = "unmark" /\ mode[r] # "stopping")
              /\ Key(r)' = k
        BY <2>2, MemoryInside
      <4> QED
        BY <2>2, <2>5, <4>1
    <3>2. r \in MayClaim(p, k)' => r \in MayClaim(p, k)
      BY <2>1, <2>2, <2>3, <2>5, MemoryInside
    <3> QED
      BY <1>1, <2>1, <2>2, <3>1, <3>2, MemoryBy
  <2> QED
    BY <2>4, <2>5
<1>6. CASE MarkSeen(r)
  <2>1. /\ pc' = [pc EXCEPT ![r] = "claim"] /\ next' = [next EXCEPT ![r] = next[r] + 1]
        /\ UNCHANGED <<LogOf, owner, mode, inflight, cur, marks, posts, faults>>
    BY <1>6 DEF MarkSeen, Advance, groupVars
  <2>2. Inside(r) /\ pc'[r] = "claim"
    BY <1>2, <1>3, <2>1
  <2>3. r \notin Posting(k)' /\ (r \in MayClaim(p, k)' => r \in MayClaim(p, k))
    BY <2>1, <2>2, MemoryInside
  <2> QED
    BY <1>1, <2>1, <2>2, <2>3, MemoryBy
<1>7. CASE MarkFails(r) \/ UnmarkFails(r)
  BY <1>1, <1>7 DEF MarkFails, UnmarkFails
<1>8. ASSUME NEW l \in {"claim", "unmark"}, NEW n,
             pc[r] = "notify", pc' = [pc EXCEPT ![r] = l],
             next' = [next EXCEPT ![r] = n],
             l = "unmark" => n = next[r],
             UNCHANGED <<LogOf, owner, mode, inflight, cur, marks>>,
             posts' = [posts EXCEPT ![Key(r)] = @ + 1] \/ posts' = posts,
             \/ faults' = faults + 1
             \/ faults' = faults /\ (l = "claim" \/ mode[r] = "stopping")
      PROVE  MemoryChange(p, k)
  <2>1. /\ Inside(r) /\ pc'[r] = l
    BY <1>2, <1>3, <1>8
  <2>2. r \in MayClaim(p, k)' => r \in MayClaim(p, k)
    BY <1>8, <2>1, MemoryInside
  <2>3. CASE Key(r) = k
    <3>1. r \in Posting(k) /\ posts'[k] <= posts[k] + 1
      <4>1. r \in Posting(k)
        BY <1>8, <2>1, <2>3, MemoryInside
      <4>2. posts'[k] <= posts[k] + 1
        BY <1>1, <1>8, <2>3 DEF TypeOK, DispatchTypeOK
      <4> QED
        BY <4>1, <4>2
    <3>2. CASE faults' = faults + 1
      BY <1>1, <2>1, <2>2, <3>1, <3>2, MemoryBy
    <3>3. CASE faults' = faults /\ (l = "claim" \/ mode[r] = "stopping")
      <4>1. r \notin Posting(k)'
        BY <2>1, <3>3, MemoryInside
      <4> QED
        BY <1>1, <2>1, <2>2, <3>1, <3>3, <4>1, MemoryBy
    <3> QED
      BY <1>8, <3>2, <3>3
  <2>4. CASE Key(r) # k
    <3>1. r \notin Posting(k)' /\ posts'[k] = posts[k]
      <4>1. l = "unmark" => Key(r)' = Key(r)
        BY <1>3, <1>8 DEF Key, TypeOK, DispatchTypeOK
      <4>2. r \notin Posting(k)'
        BY <2>1, <2>4, <4>1, MemoryInside
      <4> QED
        BY <1>8, <2>4, <4>2 DEF TypeOK, DispatchTypeOK
    <3> QED
      BY <1>1, <1>8, <2>1, <2>2, <3>1, MemoryBy
  <2> QED
    BY <2>3, <2>4
<1>9. CASE Notify(r)
  <2>1. /\ pc[r] = "notify" /\ pc' = [pc EXCEPT ![r] = "claim"]
        /\ next' = [next EXCEPT ![r] = next[r] + 1]
        /\ UNCHANGED <<LogOf, owner, mode, inflight, cur, marks, faults>>
        /\ posts' = [posts EXCEPT ![Key(r)] = @ + 1]
    BY <1>9 DEF Notify, Post, Advance, groupVars
  <2> QED
    BY <1>8, <2>1
<1>10. CASE NotifyFails(r)
  <2>1. /\ pc[r] = "notify" /\ pc' = [pc EXCEPT ![r] = "unmark"]
        /\ next' = [next EXCEPT ![r] = next[r]]
        /\ UNCHANGED <<LogOf, owner, mode, inflight, cur, marks>>
        /\ posts' = [posts EXCEPT ![Key(r)] = @ + 1] \/ posts' = posts
        /\ faults' = faults + 1 \/ (faults' = faults /\ mode[r] = "stopping")
    BY <1>3, <1>10 DEF NotifyFails, Post, CallFails, Faulty, UnchangedGroup
  <2> QED
    BY <1>8, <2>1
<1>11. CASE Unmark(r)
  <2>1. /\ pc[r] = "unmark" /\ pc' = [pc EXCEPT ![r] = "claim"]
        /\ next' = [next EXCEPT ![r] = next[r] + 1]
        /\ marks' = [marks EXCEPT ![LogOf[r]] = marks[LogOf[r]] \ {Key(r)}]
        /\ UNCHANGED <<LogOf, owner, mode, inflight, cur, posts, faults>>
    BY <1>11 DEF Unmark, Advance, groupVars
  <2>0. Inside(r) /\ pc'[r] = "claim"
    BY <1>2, <1>3, <2>1
  <2>2. Inside(r) /\ pc'[r] = "claim" /\ r \notin Posting(k)'
    BY <2>0, MemoryInside
  <2>3. marks'[LogOf[r]] = marks[LogOf[r]] \ {Key(r)}
    BY <1>1, <2>1 DEF TypeOK, DispatchTypeOK
  <2>4. CASE Key(r) = k /\ mode[r] # "stopping"
    <3>1. r \in Posting(k)
      BY <2>1, <2>2, <2>4, MemoryInside
    <3> QED
      BY <1>1, <2>1, <2>2, <3>1, MemoryBy
  <2>5. CASE Key(r) # k \/ mode[r] = "stopping"
    <3>1. r \in MayClaim(p, k)' => r \in MayClaim(p, k)
      BY <2>1, <2>2, <2>3, <2>5, MemoryInside
    <3> QED
      BY <1>1, <2>1, <2>2, <3>1, MemoryBy
  <2> QED
    BY <2>4, <2>5
<1> QED
  BY <1>4, <1>5, <1>6, <1>7, <1>9, <1>10, <1>11

(* Steps of the group, and of replicas on their way back to the loop. *)
LEMMA MemoryGroup ==
  ASSUME TypeOK, TypeOK', [GroupNext]_groupVars,
         NEW p \in Partitions, NEW k \in Keys,
         posts'[k] = posts[k], Posting(k)' \subseteq Posting(k),
         \A q \in Serving(p)' : Marked(q)' = Marked(q)
  PROVE  MemoryChange(p, k)
<1>1. /\ posts[k] \in Nat /\ faults \in Nat /\ faults' \in Nat
      /\ Loose(p) \in Nat /\ Loose(p)' \in Nat
  BY FaultsGrow DEF TypeOK, DispatchTypeOK, Loose
<1>2. CardBy(Posting(k), Posting(k)', 0)
  BY DEF CardBy
<1>3. MayClaim(p, k)' \subseteq Serving(p)' /\ \A q \in MayClaim(p, k)' : k \notin Marked(q)
  BY DEF MayClaim
<1>4. CASE NoMoreTurns(Serving(p), Loose(p))
  <2>1. MayClaim(p, k)' \subseteq MayClaim(p, k)
    BY <1>3, <1>4 DEF NoMoreTurns, MayClaim
  <2>2. CardBy(MayClaim(p, k), MayClaim(p, k)', 0)
    BY <2>1 DEF CardBy
  <2>3. posts'[k] + 0 + 0 + Loose(p)' + faults <= posts[k] + Loose(p) + faults'
    BY <1>1, <1>4 DEF NoMoreTurns
  <2> QED
    BY <1>2, <2>2, <2>3 DEF MemoryChange
<1>5. CASE OneMoreTurn(Serving(p), Loose(p))
  <2>1. PICK r \in Replicas : /\ Serving(p)' \subseteq Serving(p) \cup {r}
                              /\ Loose(p)' + 1 + faults <= Loose(p) + faults'
    BY <1>5 DEF OneMoreTurn
  <2>2. MayClaim(p, k)' \subseteq MayClaim(p, k) \cup {r}
    BY <1>3, <2>1 DEF MayClaim
  <2>3. CardBy(MayClaim(p, k), MayClaim(p, k)', 1)
    BY <2>2 DEF CardBy
  <2>4. posts'[k] + 0 + 1 + Loose(p)' + faults <= posts[k] + Loose(p) + faults'
    BY <1>1, <2>1
  <2> QED
    BY <1>2, <2>3, <2>4 DEF MemoryChange
<1> QED
  BY <1>4, <1>5, ServeStep DEF TypeOK

(* Polling and returning leave the life of the replicas alone. *)
LEMMA PollKeepsMode ==
  ASSUME TypeOK, NEW r \in Replicas, Poll(r) \/ SkipPoison(r) \/ Finish(r)
  PROVE  mode' = mode
BY DEF Poll, SkipPoison, Finish, Return, Fetch, FetchError, LastPoll, PollFetches

LEMMA MemoryStep ==
  ASSUME TypeOK, TypeOK', DispatchInv, OwnMemories,
         NEW p \in Partitions, NEW k \in Keys, AtHome(p, k), [Next]_vars
  PROVE  MemoryChange(p, k)
<1>1. [GroupNext]_groupVars
  BY GroupStep
<1>2. ASSUME UNCHANGED dispatchVars,
             \A q \in Replicas : mode'[q] # "stopping" => mode[q] # "stopping"
      PROVE  MemoryChange(p, k)
  <2>1. UNCHANGED <<pc, cur, next, LogOf, marks, posts>>
    BY <1>2 DEF dispatchVars, handlerVars
  <2>2. Posting(k)' \subseteq Posting(k)
    BY <1>2, <2>1 DEF Posting, Claimants, Holds, Key
  <2>3. \A q : Marked(q)' = Marked(q)
    BY <2>1 DEF Marked
  <2> QED
    BY <1>1, <2>1, <2>2, <2>3, MemoryGroup
<1>3. ASSUME NEW r \in Replicas, Poll(r) \/ SkipPoison(r)
      PROVE  MemoryChange(p, k)
  BY <1>2, <1>3, PollKeepsMode DEF Poll, SkipPoison
<1>4. CASE Group
  BY <1>2, <1>4 DEF Group, Stop, Restart, Assign, AutoCommit, TypeOK, GroupTypeOK
<1>5. CASE UNCHANGED vars
  BY <1>2, <1>5 DEF vars, groupVars
<1>6. ASSUME NEW r \in Replicas, GoesBack(r), posts' = posts,
             \A q \in Replicas \ {r} : mode'[q] = mode[q],
             \A q \in Replicas \ {r} : Marked(q)' = Marked(q),
             r \in Serving(p)' => Marked(r)' = Marked(r)
      PROVE  MemoryChange(p, k)
  <2>1. pc'[r] = "loop" /\ OthersStay(r)
    BY <1>6 DEF GoesBack, OthersStay, TypeOK, DispatchTypeOK
  <2>2. Posting(k)' \subseteq Posting(k)
    BY <1>6, <2>1 DEF OthersStay, Posting, Claimants, Holds, Key
  <2>3. \A q \in Serving(p)' : Marked(q)' = Marked(q)
    BY <1>6 DEF Serving
  <2> QED
    BY <1>1, <1>6, <2>2, <2>3, MemoryGroup
<1>7. ASSUME NEW r \in Replicas, Finish(r) PROVE MemoryChange(p, k)
  <2>1. GoesBack(r) /\ UNCHANGED <<posts, marks, LogOf>>
    BY <1>7 DEF Finish, GoesBack
  <2> QED
    BY <1>6, <1>7, <2>1, PollKeepsMode DEF Marked
<1>8. ASSUME NEW r \in Replicas, Die(r) PROVE MemoryChange(p, k)
  <2>1. /\ GoesBack(r) /\ UNCHANGED <<posts, LogOf>>
        /\ marks' = [s \in Stores |->
                       IF s = LogOf[r] /\ s \in Volatile THEN {} ELSE marks[s]]
    BY <1>8 DEF Die, GoesBack
  <2>2. PICK c : Leave(r, c)
    BY <1>8 DEF Die, Crash, Terminate
  <2>3. /\ \A q \in Replicas \ {r} : mode'[q] = mode[q]
        /\ ~Serves(r, p)'
    BY <2>2, GroupAssumption DEF Leave, Serves, TypeOK, GroupTypeOK
  <2>4. \A q \in Replicas \ {r} : Marked(q)' = Marked(q)
    BY <2>1, LogFacts DEF Marked, OwnMemories, TypeOK
  <2> QED
    BY <1>6, <2>1, <2>3, <2>4 DEF Serving
<1>9. CASE Expire
  <2>1. /\ UNCHANGED <<pc, cur, next, LogOf, posts, mode>>
        /\ \A s \in Volatile : marks'[s] = marks[s]
    BY <1>9, DispatchAssumption
       DEF Expire, UnchangedGroup, handlerVars, TypeOK, DispatchTypeOK
  <2>2. Posting(k)' = Posting(k)
    BY <2>1 DEF Posting, Claimants, Holds, Key
  <2>3. \A q \in Replicas : Marked(q)' = Marked(q)
    BY <2>1 DEF Marked, OwnMemories
  <2>4. Serving(p)' \subseteq Replicas
    BY DEF Serving
  <2> QED
    BY <1>1, <2>1, <2>2, <2>3, <2>4, MemoryGroup
<1> QED
  BY <1>3, <1>4, <1>5, <1>7, <1>8, <1>9, MemoryHandle DEF Next, Handle

(* The account of a log that all replicas share. *)
LEMMA SharedInside ==
  ASSUME NEW r \in Replicas, OthersStay(r), mode' = mode, NEW k
  PROVE  /\ Claimants(k)' \ {r} \subseteq Claimants(k)
         /\ Hasty(k)' \ {r} \subseteq Hasty(k)
         /\ r \in Claimants(k)' <=> Holds(r)' /\ Key(r)' = k
         /\ r \in Claimants(k) <=> Holds(r) /\ Key(r) = k
         /\ r \in Hasty(k)' <=>
              pc'[r] = "notify" /\ mode[r] = "stopping" /\ Key(r)' = k
         /\ r \in Hasty(k) <=>
              pc[r] = "notify" /\ mode[r] = "stopping" /\ Key(r) = k
<1>1. \A q \in Replicas \ {r} :
        /\ Holds(q)' <=> Holds(q)
        /\ Key(q)' = Key(q) /\ pc'[q] = pc[q]
  BY DEF OthersStay, Holds, Key
<1>2. Claimants(k)' \ {r} \subseteq Claimants(k)
  BY <1>1 DEF Claimants
<1>3. Hasty(k)' \ {r} \subseteq Hasty(k)
  <2>1. Claimants(k)' \subseteq Replicas
    BY DEF Claimants
  <2> QED
    BY <1>1, <1>2, <2>1 DEF Hasty
<1>4. /\ r \in Claimants(k)' <=> Holds(r)' /\ Key(r)' = k
      /\ r \in Claimants(k) <=> Holds(r) /\ Key(r) = k
  BY DEF Claimants
<1>5. /\ pc'[r] = "notify" => Holds(r)'
      /\ pc[r] = "notify" => Holds(r)
  BY DEF Holds
<1>6. /\ r \in Hasty(k)' <=>
              pc'[r] = "notify" /\ mode[r] = "stopping" /\ Key(r)' = k
      /\ r \in Hasty(k) <=>
              pc[r] = "notify" /\ mode[r] = "stopping" /\ Key(r) = k
  BY <1>4, <1>5 DEF Hasty
<1> QED
  BY <1>2, <1>3, <1>4, <1>6

LEMMA SharedBy ==
  ASSUME TypeOK, NEW r \in Replicas, OthersStay(r), mode' = mode,
         NEW s, NEW k \in Keys,
         NEW da \in {-1, 0, 1}, NEW db \in {-1, 0, 1},
         da = 1 \/ r \notin Claimants(k)' \/ (da = 0 /\ r \in Claimants(k)),
         da = -1 => r \in Claimants(k),
         db = 1 \/ r \notin Hasty(k)' \/ (db = 0 /\ r \in Hasty(k)),
         db = -1 => r \in Hasty(k),
         posts'[k] + da + db + Free(s, k)' + faults <= posts[k] + Free(s, k) + faults'
  PROVE  SharedChange(s, k)
<1>1. /\ Claimants(k)' \ {r} \subseteq Claimants(k)
      /\ Hasty(k)' \ {r} \subseteq Hasty(k)
  BY SharedInside
<1>2. CardBy(Claimants(k), Claimants(k)', da)
  BY <1>1, OneElement
<1>3. CardBy(Hasty(k), Hasty(k)', db)
  BY <1>1, OneElement
<1> QED
  BY <1>2, <1>3 DEF SharedChange

LEMMA SharedHandle ==
  ASSUME TypeOK, TypeOK', NEW s \in Stores, SharedLog(s),
         NEW k \in Keys, NEW r \in Replicas,
         \/ Take(r) \/ MarkNew(r) \/ MarkSeen(r) \/ MarkFails(r) \/ Notify(r)
         \/ NotifyFails(r) \/ Unmark(r) \/ UnmarkFails(r)
  PROVE  SharedChange(s, k)
<1>1. /\ posts[k] \in Nat /\ posts'[k] \in Nat /\ faults \in Nat /\ faults' \in Nat
      /\ Free(s, k) \in {0, 1} /\ Free(s, k)' \in {0, 1} /\ LogOf[r] = s
  BY GroupAssumption DEF TypeOK, GroupTypeOK, DispatchTypeOK, Free, SharedLog
<1>2. ASSUME NEW l, NEW c, NEW n,
             pc' = [pc EXCEPT ![r] = l], cur' = [cur EXCEPT ![r] = c],
             next' = [next EXCEPT ![r] = n]
      PROVE  OthersStay(r) /\ pc'[r] = l /\ cur'[r] = c /\ next'[r] = n
  BY <1>2 DEF OthersStay, TypeOK, DispatchTypeOK
<1>3. /\ cur = [cur EXCEPT ![r] = cur[r]] /\ next = [next EXCEPT ![r] = next[r]]
  BY DEF TypeOK, DispatchTypeOK
\* A step at the end of which r claims nothing, and the mark of k is as it was
\* or set.
<1>4. ASSUME OthersStay(r), mode' = mode, pc'[r] = "claim",
             posts' = posts, Free(s, k)' <= Free(s, k),
             faults' = faults \/ faults' = faults + 1
      PROVE  SharedChange(s, k)
  <2>1. ~Holds(r)' /\ pc'[r] # "notify"
    BY <1>4 DEF Holds
  <2>2. r \notin Claimants(k)' /\ r \notin Hasty(k)'
    BY <1>4, <2>1, SharedInside
  <2> QED
    BY <1>1, <1>4, <2>2, SharedBy
<1>5. CASE Take(r)
  <2>1. PICK c : /\ pc' = [pc EXCEPT ![r] = "claim"] /\ cur' = [cur EXCEPT ![r] = c]
                 /\ UNCHANGED <<mode, next, marks, posts, faults>>
    BY <1>5 DEF Take, groupVars
  <2>2. Free(s, k)' = Free(s, k)
    BY <2>1 DEF Free
  <2>3. OthersStay(r) /\ pc'[r] = "claim"
    BY <1>2, <1>3, <2>1
  <2> QED
    BY <1>1, <1>4, <2>1, <2>2, <2>3
<1>6. CASE MarkNew(r)
  <2>1. /\ pc[r] = "claim" /\ Key(r) \notin marks[s]
        /\ marks' = [marks EXCEPT ![s] = marks[s] \cup {Key(r)}]
        /\ UNCHANGED <<mode, cur, next, posts, faults>>
        /\ pc' = [pc EXCEPT ![r] = IF mode[r] = "up" THEN "notify" ELSE "unmark"]
    BY <1>1, <1>6 DEF MarkNew, groupVars, AtNotifier, Marked
  <2>2. /\ OthersStay(r) /\ pc'[r] = (IF mode[r] = "up" THEN "notify" ELSE "unmark")
        /\ Key(r)' = Key(r)
    BY <1>2, <1>3, <2>1 DEF Key
  <2>3. marks'[s] = marks[s] \cup {Key(r)}
    BY <2>1 DEF TypeOK, DispatchTypeOK
  <2>4. r \notin Hasty(k)'
    <3>1. ~(pc'[r] = "notify" /\ mode[r] = "stopping")
      BY <2>2
    <3> QED
      BY <2>1, <2>2, <3>1, SharedInside
  <2>5. CASE Key(r) = k
    <3>1. Free(s, k) = 1 /\ Free(s, k)' = 0
      BY <2>1, <2>3, <2>5 DEF Free
    <3> QED
      BY <1>1, <2>1, <2>2, <2>4, <3>1, SharedBy
  <2>6. CASE Key(r) # k
    <3>1. r \notin Claimants(k)'
      BY <2>1, <2>2, <2>6, SharedInside
    <3>2. Free(s, k)' = Free(s, k)
      BY <2>3, <2>6 DEF Free
    <3> QED
      BY <1>1, <2>1, <2>2, <2>4, <3>1, <3>2, SharedBy
  <2> QED
    BY <2>5, <2>6
<1>7. CASE MarkSeen(r)
  <2>1. /\ pc' = [pc EXCEPT ![r] = "claim"] /\ next' = [next EXCEPT ![r] = next[r] + 1]
        /\ UNCHANGED <<mode, cur, marks, posts, faults>>
    BY <1>7 DEF MarkSeen, Advance, groupVars
  <2>2. Free(s, k)' = Free(s, k)
    BY <2>1 DEF Free
  <2>3. OthersStay(r) /\ pc'[r] = "claim"
    BY <1>2, <1>3, <2>1
  <2> QED
    BY <1>1, <1>4, <2>1, <2>2, <2>3
<1>8. CASE MarkFails(r)
  <2>1. /\ pc' = [pc EXCEPT ![r] = "claim"] /\ next' = [next EXCEPT ![r] = next[r] + 1]
        /\ UNCHANGED <<mode, cur, posts>>
        /\ faults' = faults \/ faults' = faults + 1
        /\ \/ marks' = [marks EXCEPT ![s] = marks[s] \cup {Key(r)}]
           \/ marks' = marks
    BY <1>1, <1>8 DEF MarkFails, Advance, CallFails, Faulty, UnchangedGroup
  <2>2. marks[s] \subseteq marks'[s]
    BY <2>1 DEF TypeOK, DispatchTypeOK
  <2>3. Free(s, k)' <= Free(s, k)
    BY <2>2 DEF Free
  <2> QED
    BY <1>1, <1>2, <1>3, <1>4, <2>1, <2>3
<1>9. ASSUME Unmark(r) \/ UnmarkFails(r) PROVE SharedChange(s, k)
  <2>1. /\ pc[r] = "unmark" /\ pc' = [pc EXCEPT ![r] = "claim"]
        /\ next' = [next EXCEPT ![r] = next[r] + 1]
        /\ \/ marks' = [marks EXCEPT ![s] = marks[s] \ {Key(r)}]
           \/ marks' = marks
        /\ UNCHANGED <<mode, cur, posts>>
        /\ faults' = faults \/ faults' = faults + 1
    BY <1>1, <1>9 DEF Unmark, UnmarkFails, Advance, CallFails, Faulty,
                      UnchangedGroup, groupVars
  <2>2. OthersStay(r) /\ pc'[r] = "claim"
    BY <1>2, <1>3, <2>1
  <2>3. marks'[s] = marks[s] \ {Key(r)} \/ marks'[s] = marks[s]
    BY <2>1 DEF TypeOK, DispatchTypeOK
  <2>4. CASE Key(r) = k
    <3>1. Holds(r) /\ ~Holds(r)' /\ pc'[r] # "notify"
      BY <2>1, <2>2 DEF Holds
    <3>2. r \in Claimants(k) /\ r \notin Claimants(k)' /\ r \notin Hasty(k)'
      BY <2>1, <2>2, <2>4, <3>1, SharedInside
    <3> QED
      BY <1>1, <2>1, <2>2, <3>2, SharedBy
  <2>5. CASE Key(r) # k
    <3>1. Free(s, k)' = Free(s, k)
      BY <2>3, <2>5 DEF Free
    <3> QED
      BY <1>1, <1>4, <2>1, <2>2, <3>1
  <2> QED
    BY <2>4, <2>5
<1>10. ASSUME NEW l \in {"claim", "unmark"}, NEW n,
              pc[r] = "notify", pc' = [pc EXCEPT ![r] = l],
              next' = [next EXCEPT ![r] = n],
              l = "unmark" => n = next[r],
              UNCHANGED <<mode, cur, marks>>,
              posts' = [posts EXCEPT ![Key(r)] = @ + 1] \/ posts' = posts,
              \/ faults' = faults + 1
              \/ faults' = faults /\ (l = "claim" \/ mode[r] = "stopping")
       PROVE  SharedChange(s, k)
  <2>1. OthersStay(r) /\ pc'[r] = l /\ l # "notify"
    BY <1>2, <1>3, <1>10
  <2>2. Free(s, k)' = Free(s, k) /\ Holds(r)
    BY <1>10 DEF Free, Holds
  <2>3. r \notin Hasty(k)'
    BY <1>10, <2>1, SharedInside
  <2>4. CASE Key(r) = k
    <3>1. posts'[k] <= posts[k] + 1
      BY <1>1, <1>10, <2>4 DEF TypeOK, DispatchTypeOK
    <3>2. r \in Claimants(k)
      BY <1>10, <2>1, <2>2, <2>4, SharedInside
    <3>3. CASE faults' = faults + 1
      BY <1>1, <1>10, <2>1, <2>2, <2>3, <3>1, <3>2, <3>3, SharedBy
    <3>4. CASE faults' = faults /\ l = "claim"
      <4>1. ~Holds(r)'
        BY <2>1, <3>4 DEF Holds
      <4>2. r \notin Claimants(k)'
        BY <1>10, <2>1, <4>1, SharedInside
      <4> QED
        BY <1>1, <1>10, <2>1, <2>2, <2>3, <3>1, <3>2, <3>4, <4>2, SharedBy
    <3>5. CASE faults' = faults /\ mode[r] = "stopping"
      <4>1. r \in Hasty(k)
        BY <1>10, <2>1, <2>4, <3>5, SharedInside
      <4> QED
        BY <1>1, <1>10, <2>1, <2>2, <2>3, <3>1, <3>2, <3>5, <4>1, SharedBy
    <3> QED
      BY <1>10, <3>3, <3>4, <3>5
  <2>5. CASE Key(r) # k
    <3>1. l = "unmark" => Key(r)' = Key(r)
      BY <1>3, <1>10 DEF Key, TypeOK, DispatchTypeOK
    <3>2. l = "claim" => ~Holds(r)'
      BY <2>1 DEF Holds
    <3>3. r \notin Claimants(k)'
      BY <1>10, <2>1, <2>5, <3>1, <3>2, SharedInside
    <3>4. posts'[k] = posts[k]
      BY <1>10, <2>5 DEF TypeOK, DispatchTypeOK
    <3> QED
      BY <1>1, <1>10, <2>1, <2>2, <2>3, <3>3, <3>4, SharedBy
  <2> QED
    BY <2>4, <2>5
<1>11. CASE Notify(r)
  <2>1. /\ pc[r] = "notify" /\ pc' = [pc EXCEPT ![r] = "claim"]
        /\ next' = [next EXCEPT ![r] = next[r] + 1]
        /\ UNCHANGED <<mode, cur, marks, faults>>
        /\ posts' = [posts EXCEPT ![Key(r)] = @ + 1]
    BY <1>11 DEF Notify, Post, Advance, groupVars
  <2> QED
    BY <1>10, <2>1
<1>12. CASE NotifyFails(r)
  <2>1. /\ pc[r] = "notify" /\ pc' = [pc EXCEPT ![r] = "unmark"]
        /\ next' = [next EXCEPT ![r] = next[r]]
        /\ UNCHANGED <<mode, cur, marks>>
        /\ posts' = [posts EXCEPT ![Key(r)] = @ + 1] \/ posts' = posts
        /\ faults' = faults + 1 \/ (faults' = faults /\ mode[r] = "stopping")
    BY <1>3, <1>12 DEF NotifyFails, Post, CallFails, Faulty, UnchangedGroup
  <2> QED
    BY <1>10, <2>1
<1> QED
  BY <1>5, <1>6, <1>7, <1>8, <1>9, <1>11, <1>12

LEMMA SharedStep ==
  ASSUME TypeOK, TypeOK', NEW s \in Stores, SharedLog(s), NEW k \in Keys, [Next]_vars
  PROVE  SharedChange(s, k)
<1>1. /\ posts[k] \in Nat /\ faults \in Nat /\ faults' \in Nat
      /\ Free(s, k) \in {0, 1} /\ Free(s, k)' \in {0, 1}
      /\ faults' = faults \/ faults' = faults + 1
  BY FaultsGrow, GroupStep DEF TypeOK, DispatchTypeOK, Free
<1>2. ASSUME Claimants(k)' \subseteq Claimants(k), Hasty(k)' \subseteq Hasty(k),
             posts'[k] = posts[k],
             Free(s, k)' = Free(s, k) \/ faults' = faults + 1
      PROVE  SharedChange(s, k)
  <2>1. CardBy(Claimants(k), Claimants(k)', 0) /\ CardBy(Hasty(k), Hasty(k)', 0)
    BY <1>2 DEF CardBy
  <2>2. posts'[k] + 0 + 0 + Free(s, k)' + faults <= posts[k] + Free(s, k) + faults'
    BY <1>1, <1>2
  <2> QED
    BY <2>1, <2>2 DEF SharedChange
<1>3. ASSUME UNCHANGED dispatchVars
      PROVE  /\ Claimants(k)' = Claimants(k) /\ posts' = posts
             /\ Free(s, k)' = Free(s, k) /\ pc' = pc
  <2>1. UNCHANGED <<pc, cur, next, LogOf, marks, posts>>
    BY <1>3 DEF dispatchVars, handlerVars
  <2> QED
    BY <2>1 DEF Claimants, Holds, Key, Free
<1>4. ASSUME UNCHANGED dispatchVars,
             \A q \in Replicas : mode'[q] = "stopping" => mode[q] = "stopping"
      PROVE  SharedChange(s, k)
  <2>1. Hasty(k)' \subseteq Hasty(k)
    BY <1>3, <1>4 DEF Hasty, Claimants
  <2> QED
    BY <1>2, <1>3, <1>4, <2>1
<1>5. ASSUME NEW r \in Replicas, Stop(r), UNCHANGED dispatchVars
      PROVE  SharedChange(s, k)
  <2>1. /\ \A q \in Replicas \ {r} : mode'[q] = mode[q]
        /\ faults' = faults + 1
    BY <1>5 DEF Stop, Faulty, TypeOK, GroupTypeOK
  <2>2. Hasty(k)' \subseteq Hasty(k) \cup {r}
    BY <1>3, <1>5, <2>1 DEF Hasty, Claimants
  <2>3. CardBy(Claimants(k), Claimants(k)', 0) /\ CardBy(Hasty(k), Hasty(k)', 1)
    BY <1>3, <1>5, <2>2 DEF CardBy
  <2>4. posts'[k] + 0 + 1 + Free(s, k)' + faults <= posts[k] + Free(s, k) + faults'
    BY <1>1, <1>3, <1>5, <2>1
  <2> QED
    BY <2>3, <2>4 DEF SharedChange
<1>6. ASSUME NEW r \in Replicas, Poll(r) \/ SkipPoison(r)
      PROVE  SharedChange(s, k)
  BY <1>4, <1>6, PollKeepsMode DEF Poll, SkipPoison
<1>7. CASE Group
  <2>1. ASSUME NEW r \in Replicas, Restart(r) \/ \E p \in Partitions : Assign(p, r)
        PROVE  \A q \in Replicas : mode'[q] = "stopping" => mode[q] = "stopping"
    BY <2>1 DEF Restart, Assign, TypeOK, GroupTypeOK
  <2>2. ASSUME NEW p \in Partitions, AutoCommit(p) PROVE mode' = mode
    BY <2>2 DEF AutoCommit
  <2> QED
    BY <1>4, <1>5, <1>7, <2>1, <2>2 DEF Group
<1>8. CASE UNCHANGED vars
  BY <1>4, <1>8 DEF vars, groupVars
<1>9. ASSUME NEW r \in Replicas, GoesBack(r), posts' = posts,
             \A q \in Replicas \ {r} : mode'[q] = mode[q], marks'[s] = marks[s]
      PROVE  SharedChange(s, k)
  <2>1. pc'[r] = "loop" /\ OthersStay(r)
    BY <1>9 DEF GoesBack, OthersStay, TypeOK, DispatchTypeOK
  <2>2. Claimants(k)' \subseteq Claimants(k) \ {r}
    BY <2>1 DEF OthersStay, Claimants, Holds, Key
  <2>3. Claimants(k)' \subseteq Replicas
    BY DEF Claimants
  <2>4. Hasty(k)' \subseteq Hasty(k)
    BY <1>9, <2>1, <2>2, <2>3 DEF OthersStay, Hasty
  <2>5. Free(s, k)' = Free(s, k)
    BY <1>9 DEF Free
  <2> QED
    BY <1>2, <1>9, <2>2, <2>4, <2>5
<1>10. ASSUME NEW r \in Replicas, Finish(r) PROVE SharedChange(s, k)
  <2>1. GoesBack(r) /\ UNCHANGED <<posts, marks>>
    BY <1>10 DEF Finish, GoesBack
  <2> QED
    BY <1>9, <1>10, <2>1, PollKeepsMode
<1>11. ASSUME NEW r \in Replicas, Die(r) PROVE SharedChange(s, k)
  <2>1. /\ GoesBack(r) /\ posts' = posts /\ marks'[s] = marks[s]
    BY <1>11 DEF Die, GoesBack, SharedLog
  <2>2. \A q \in Replicas \ {r} : mode'[q] = mode[q]
    BY <1>11 DEF Die, Crash, Terminate, Leave, TypeOK, GroupTypeOK
  <2> QED
    BY <1>9, <2>1, <2>2
<1>12. CASE Expire
  <2>1. UNCHANGED <<pc, cur, next, posts, mode>> /\ faults' = faults + 1
    BY <1>12 DEF Expire, UnchangedGroup, handlerVars, Faulty
  <2>2. Claimants(k)' = Claimants(k) /\ Hasty(k)' = Hasty(k)
    BY <2>1 DEF Claimants, Hasty, Holds, Key
  <2> QED
    BY <1>2, <2>1, <2>2
<1> QED
  BY <1>6, <1>7, <1>8, <1>10, <1>11, <1>12, SharedHandle DEF Next, Handle

(* The record of a busy handler is in flight. *)
InFlight == \A r \in Replicas : pc[r] # "loop" => cur[r] \in inflight[r]

LEMMA InFlightStep ==
  ASSUME TypeOK, InFlight, [Next]_vars PROVE InFlight'
<1>1. ASSUME UNCHANGED <<pc, cur, inflight>> PROVE InFlight'
  BY <1>1 DEF InFlight
<1>2. ASSUME NEW r \in Replicas, OthersStay(r),
             \A q \in Replicas \ {r} : inflight'[q] = inflight[q],
             pc'[r] # "loop" => cur'[r] \in inflight'[r]
      PROVE  InFlight'
  BY <1>2 DEF InFlight, OthersStay
<1>3. ASSUME NEW r \in Replicas, Take(r) PROVE InFlight'
  BY <1>2, <1>3 DEF Take, groupVars, OthersStay, TypeOK, DispatchTypeOK
<1>4. ASSUME NEW r \in Replicas, pc[r] # "loop", NEW l, pc' = [pc EXCEPT ![r] = l],
             cur' = cur, inflight' = inflight
      PROVE  InFlight'
  BY <1>4 DEF InFlight, TypeOK, DispatchTypeOK
<1>5. ASSUME NEW r \in Replicas,
             \/ MarkNew(r) \/ MarkSeen(r) \/ MarkFails(r) \/ Notify(r)
             \/ NotifyFails(r) \/ Unmark(r) \/ UnmarkFails(r)
      PROVE  InFlight'
  <2>1. /\ pc[r] # "loop" /\ \E l : pc' = [pc EXCEPT ![r] = l]
        /\ cur' = cur /\ inflight' = inflight
    BY <1>5 DEF MarkNew, MarkSeen, MarkFails, Notify, NotifyFails, Unmark,
                UnmarkFails, AtNotifier, Advance, UnchangedGroup, groupVars
  <2> QED
    BY <1>4, <2>1
<1>6. ASSUME NEW r \in Replicas, Finish(r) \/ Die(r) PROVE InFlight'
  <2>1. OthersStay(r) /\ pc'[r] = "loop"
    BY <1>6 DEF Finish, Die, OthersStay, TypeOK, DispatchTypeOK
  <2>2. \A q \in Replicas \ {r} : inflight'[q] = inflight[q]
    BY <1>6 DEF Finish, Die, Return, Crash, Terminate, Leave, TypeOK, GroupTypeOK
  <2> QED
    BY <1>2, <2>1, <2>2
<1>7. ASSUME NEW r \in Replicas, Poll(r) \/ SkipPoison(r) PROVE InFlight'
  <2>1. pc[r] = "loop" /\ UNCHANGED <<pc, cur, next>>
    BY <1>7 DEF Poll, SkipPoison, dispatchVars, handlerVars
  <2>2. \A q \in Replicas \ {r} : inflight'[q] = inflight[q]
    BY <1>7 DEF Poll, SkipPoison, Return, Fetch, FetchError, LastPoll, TypeOK,
                GroupTypeOK
  <2> QED
    BY <1>2, <2>1, <2>2 DEF OthersStay
<1>8. CASE Group \/ Expire \/ UNCHANGED vars
  BY <1>1, <1>8 DEF Group, Stop, Restart, Assign, AutoCommit, Expire, UnchangedGroup,
                    vars, groupVars, dispatchVars, handlerVars
<1> QED
  BY <1>3, <1>5, <1>6, <1>7, <1>8 DEF Next, Handle

LEMMA AccountInit == Init => AccountInv
<1> SUFFICES ASSUME Init PROVE AccountInv
  OBVIOUS
<1>1. IsFiniteSet({}) /\ Cardinality({}) = 0
  BY FS_EmptySet
<1>2. /\ \A r \in Replicas : pc[r] = "loop" /\ inflight[r] = {}
      /\ \A p \in Partitions : owner[p] = None
      /\ \A k \in Keys : posts[k] = 0
      /\ faults = 0 /\ None \notin Replicas
  BY GroupAssumption DEF Init, GroupInit
<1>3. \A k : Claimants(k) = {} /\ Hasty(k) = {} /\ Posting(k) = {}
  BY <1>2 DEF Claimants, Hasty, Posting, Holds
<1>4. \A k, s : Free(s, k) \in {0, 1}
  BY DEF Free
<1>5. \A p \in Partitions, k \in Keys : MayClaim(p, k) = {} /\ Loose(p) = 1
  BY <1>2 DEF MayClaim, Serving, Serves, Loose, Settles
<1>6. \A s \in Stores, k \in Keys : SharedAccount(s, k)
  BY <1>1, <1>2, <1>3, <1>4 DEF SharedAccount
<1>7. \A p \in Partitions, k \in Keys : MemoryAccount(p, k)
  BY <1>1, <1>2, <1>3, <1>5 DEF MemoryAccount
<1> QED
  BY <1>2, <1>6, <1>7 DEF AccountInv

LEMMA AccountStep ==
  TypeOK /\ TypeOK' /\ DispatchInv /\ AccountInv /\ [Next]_vars => AccountInv'
<1> SUFFICES ASSUME TypeOK, TypeOK', DispatchInv, AccountInv, [Next]_vars
             PROVE  AccountInv'
  OBVIOUS
<1>1. LogOf' = LogOf
  BY DEF Next, vars, dispatchVars, Group, Expire, Poll, Die, Handle, SkipPoison, Take,
         MarkNew, MarkSeen, MarkFails, Notify, NotifyFails, Unmark, UnmarkFails, Finish
<1>2. InFlight /\ InFlight'
  BY InFlightStep DEF AccountInv, InFlight
<1>3. ASSUME NEW s \in Stores, NEW k \in Keys, SharedLog(s)'
      PROVE  SharedAccount(s, k)'
  <2>1. SharedLog(s)
    BY <1>1, <1>3 DEF SharedLog
  <2> QED
    BY <2>1, SharedStep, SharedKept DEF AccountInv
<1>4. ASSUME NEW p \in Partitions, NEW k \in Keys, OwnMemories', Home(p, k[1])
      PROVE  MemoryAccount(p, k)'
  <2>1. OwnMemories
    BY <1>1, <1>4 DEF OwnMemories
  <2>2. AtHome(p, k)
    BY <1>2, <1>4 DEF AtHome, Home, Key, InFlight, DispatchInv, HandlerInv
  <2>3. MemoryChange(p, k)
    BY <2>1, <2>2, MemoryStep
  <2> QED
    BY <1>4, <2>1, <2>3, MemoryKept DEF AccountInv
<1> QED
  BY <1>2, <1>3, <1>4 DEF AccountInv, InFlight

(* Whether the replicas share a log that outlives them or each remembers for *)
(* itself, a destination gets a submission's verdict once, and each further  *)
(* time has been paid for by a fault.                                        *)
THEOREM DispatchDuplicates ==
  ASSUME Uniform PROVE Spec => []DuplicateNeedsFault
<1>1. TypeOK /\ AccountInv => DuplicateNeedsFault
  <2> SUFFICES ASSUME TypeOK, AccountInv, NEW k \in Keys PROVE posts[k] <= 1 + faults
    BY DEF DuplicateNeedsFault
  <2>1. posts[k] \in Nat /\ faults \in Nat /\ k[1] \in Ids /\ LogOf \in Deployments
    BY GroupAssumption DEF TypeOK, GroupTypeOK, DispatchTypeOK, Keys
  <2>2. CASE \E s \in Stores \ Volatile : \A r \in Replicas : LogOf[r] = s
    <3>1. PICK s \in Stores : SharedLog(s)
      BY <2>2 DEF SharedLog
    <3>2. SharedAccount(s, k)
      BY <3>1 DEF AccountInv
    <3>3. /\ IsFiniteSet(Claimants(k)) /\ Hasty(k) \subseteq Claimants(k)
      BY <3>2 DEF SharedAccount, Hasty
    <3>4. Cardinality(Claimants(k)) \in Nat /\ Cardinality(Hasty(k)) \in Nat
      BY <3>3, CardNoMore
    <3>5. Free(s, k) \in {0, 1}
      BY DEF Free
    <3> QED
      BY <2>1, <3>2, <3>4, <3>5 DEF SharedAccount
  <2>3. CASE OnePartition /\ \A r \in Replicas : LogOf[r] \in Volatile
    <3>1. PICK p \in Partitions : Home(p, k[1])
      BY <2>1, <2>3 DEF OnePartition
    <3>2. MemoryAccount(p, k)
      BY <2>3, <3>1 DEF AccountInv, OwnMemories
    <3>3. Cardinality(Posting(k)) \in Nat /\ Cardinality(MayClaim(p, k)) \in Nat
      BY <3>2, FS_CardinalityType DEF MemoryAccount
    <3>4. Loose(p) \in {0, 1}
      BY DEF Loose
    <3> QED
      BY <2>1, <3>2, <3>3, <3>4 DEF MemoryAccount
  <2> QED
    BY <2>1, <2>2, <2>3 DEF Uniform
<1>2. Spec => []AccountInv
  <2>1. TypeOK /\ DispatchInv /\ AccountInv /\ [Next]_vars => AccountInv'
    BY InvStep, AccountStep
  <2> QED
    BY <2>1, AccountInit, DispatchInvariant, PTL DEF Spec
<1> QED
  BY <1>1, <1>2, DispatchInvariant, PTL

------------------------------------------------------------------------------
(***************************************************************************)
(* The first verdict stands.  A claim on a key that is in nobody's account *)
(* is for the first of its verdicts: the group hands out records in order, *)
(* so what precedes the claimant's record has been settled, and had it     *)
(* been handled the key would be in the account.                           *)
(***************************************************************************)

(* A busy handler is at the next of the records in its hands. *)
AtNext == \A r \in Replicas : pc[r] # "loop" => NextInFlight(r, cur[r])

LEMMA AtNextStep ==
  ASSUME TypeOK, AtNext, [Next]_vars PROVE AtNext'
<1>1. ASSUME UNCHANGED <<pc, cur, inflight>> PROVE AtNext'
  BY <1>1 DEF AtNext, NextInFlight
<1>2. ASSUME NEW r \in Replicas, OthersStay(r),
             \A q \in Replicas \ {r} : inflight'[q] = inflight[q],
             pc'[r] # "loop" => NextInFlight(r, cur[r])'
      PROVE  AtNext'
  BY <1>2 DEF AtNext, OthersStay, NextInFlight
<1>3. ASSUME NEW r \in Replicas, Take(r) PROVE AtNext'
  <2>1. PICK rec \in inflight[r] :
          NextInFlight(r, rec) /\ cur' = [cur EXCEPT ![r] = rec]
    BY <1>3 DEF Take
  <2>2. inflight' = inflight /\ cur'[r] = rec /\ OthersStay(r)
    BY <1>3, <2>1 DEF Take, groupVars, OthersStay, TypeOK, DispatchTypeOK
  <2> QED
    BY <1>2, <2>1, <2>2 DEF NextInFlight
<1>4. ASSUME NEW r \in Replicas, pc[r] # "loop", NEW l, pc' = [pc EXCEPT ![r] = l],
             cur' = cur, inflight' = inflight
      PROVE  AtNext'
  BY <1>4 DEF AtNext, NextInFlight, TypeOK, DispatchTypeOK
<1>5. ASSUME NEW r \in Replicas,
             \/ MarkNew(r) \/ MarkSeen(r) \/ MarkFails(r) \/ Notify(r)
             \/ NotifyFails(r) \/ Unmark(r) \/ UnmarkFails(r)
      PROVE  AtNext'
  <2>1. /\ pc[r] # "loop" /\ \E l : pc' = [pc EXCEPT ![r] = l]
        /\ cur' = cur /\ inflight' = inflight
    BY <1>5 DEF MarkNew, MarkSeen, MarkFails, Notify, NotifyFails, Unmark,
                UnmarkFails, AtNotifier, Advance, UnchangedGroup, groupVars
  <2> QED
    BY <1>4, <2>1
<1>6. ASSUME NEW r \in Replicas, Finish(r) \/ Die(r) PROVE AtNext'
  <2>1. OthersStay(r) /\ pc'[r] = "loop"
    BY <1>6 DEF Finish, Die, OthersStay, TypeOK, DispatchTypeOK
  <2>2. \A q \in Replicas \ {r} : inflight'[q] = inflight[q]
    BY <1>6 DEF Finish, Die, Return, Crash, Terminate, Leave, TypeOK, GroupTypeOK
  <2> QED
    BY <1>2, <2>1, <2>2
<1>7. ASSUME NEW r \in Replicas, Poll(r) \/ SkipPoison(r) PROVE AtNext'
  <2>1. pc[r] = "loop" /\ UNCHANGED <<pc, cur, next>>
    BY <1>7 DEF Poll, SkipPoison, dispatchVars, handlerVars
  <2>2. \A q \in Replicas \ {r} : inflight'[q] = inflight[q]
    BY <1>7 DEF Poll, SkipPoison, Return, Fetch, FetchError, LastPoll, TypeOK,
                GroupTypeOK
  <2> QED
    BY <1>2, <2>1, <2>2 DEF OthersStay
<1>8. CASE Group \/ Expire \/ UNCHANGED vars
  BY <1>1, <1>8 DEF Group, Stop, Restart, Assign, AutoCommit, Expire, UnchangedGroup,
                    vars, groupVars, dispatchVars, handlerVars
<1> QED
  BY <1>3, <1>5, <1>6, <1>7, <1>8 DEF Next, Handle

\* The step leaves key k alone: no new claim on it, and no mark of it taken back.
Quiet(s, k) ==
  /\ posts'[k] = posts[k] /\ shown'[k] = shown[k]
  /\ dropped \subseteq dropped'
  /\ k \in marks[s] => k \in marks'[s]
  /\ k \in orphans' => k \in orphans \/ InProgress(k)
  /\ \A r \in Claimants(k)' : r \in Claimants(k) /\ cur'[r] = cur[r]

LEMMA QuietKeeps ==
  ASSUME NEW s, NEW k, StandsIn(s, k), Clean(k)', Quiet(s, k)
  PROVE  StandsIn(s, k)'
<1>1. InProgress(k)' => InProgress(k)
  BY DEF Quiet, InProgress, Claimants
<1>2. Accounted(k)' => Accounted(k)
  BY <1>1 DEF Quiet, Clean, Accounted
<1>3. Accounted(k)' => k \in marks'[s]
  BY <1>2 DEF Quiet, StandsIn
<1>4. \A rec : Shows(k, rec) => Shows(k, rec)'
  BY DEF Quiet, Shows
<1>5. posts'[k] > 0 => posts'[k] = 1 /\ \E rec \in Valid(k[1]) : Shows(k, rec)'
  BY <1>4 DEF Quiet, StandsIn
<1>6. ASSUME NEW r \in Claimants(k)'
      PROVE  /\ posts'[k] = 0
             /\ Claimants(k)' = {r}
             /\ Before(cur'[r]) \subseteq dropped'
  <2>1. /\ Claimants(k)' \subseteq Claimants(k)
        /\ r \in Claimants(k) /\ cur'[r] = cur[r]
    BY <1>6 DEF Quiet
  <2>2. posts[k] = 0 /\ Claimants(k) = {r} /\ Before(cur[r]) \subseteq dropped
    BY <2>1 DEF StandsIn
  <2> QED
    BY <1>6, <2>1, <2>2 DEF Quiet
<1> QED
  BY <1>3, <1>5, <1>6 DEF StandsIn

(* Steps of the handlers at their notifiers, and of the loop, that leave a    *)
(* key's claims to the others.                                                *)
LEMMA QuietBy ==
  ASSUME NEW r \in Replicas, OthersStay(r), NEW s, NEW k,
         ~Holds(r)' \/ Key(r)' # k,
         posts'[k] = posts[k], shown'[k] = shown[k], dropped \subseteq dropped',
         k \in marks[s] => k \in marks'[s],
         k \in orphans' => k \in orphans \/ InProgress(k)
  PROVE  Quiet(s, k)
<1>1. r \notin Claimants(k)'
  BY DEF Claimants
<1>2. \A q \in Replicas \ {r} :
        /\ q \in Claimants(k)' => q \in Claimants(k)
        /\ cur'[q] = cur[q]
  BY DEF OthersStay, Claimants, Holds, Key
<1>3. Claimants(k)' \subseteq Replicas
  BY DEF Claimants
<1> QED
  BY <1>1, <1>2, <1>3 DEF Quiet

(* What precedes the record of a claimant of an unaccounted key was discarded. *)
LEMMA ClaimsFirst ==
  ASSUME TypeOK, DispatchInv, InOrder, AtNext,
         NEW r \in Replicas, AtNotifier(r), ~Accounted(Key(r))
  PROVE  Before(cur[r]) \subseteq dropped
<1>1. pc[r] # "loop" /\ next[r] <= Len(Notifiers)
  BY DEF AtNotifier
<1>2. cur[r] \in Records /\ next[r] \in 1..Len(Notifiers)
  BY <1>1, InHand DEF TypeOK
<1>3. cur[r] \in inflight[r]
  BY <1>1 DEF AtNext, NextInFlight
<1> SUFFICES ASSUME NEW old \in Before(cur[r]) PROVE old \in dropped
  OBVIOUS
<1>4. /\ old \in Records /\ Content[old] # Poison
      /\ Content[old].id = Content[cur[r]].id
      /\ old[1] = cur[r][1] /\ old[2] < cur[r][2]
  BY DEF Before, Valid
<1>5. old[2] \in Nat /\ cur[r][2] \in Nat
  BY <1>2, <1>4, RecordShape
<1>6. old \notin inflight[r]
  BY <1>1, <1>4, <1>5 DEF AtNext, NextInFlight
<1>7. old \in handled \cup dropped
  BY <1>3, <1>4, <1>6 DEF InOrder, Settled
<1>8. old \notin handled
  <2>1. Notifiers[next[r]] \in Names
    BY <1>2 DEF Names
  <2>2. old \in handled => Accounted(<<Content[old].id, Notifiers[next[r]]>>)
    BY <1>4, <2>1 DEF DispatchInv, NoSilentLoss
  <2>3. Key(r) = <<Content[old].id, Notifiers[next[r]]>>
    BY <1>4 DEF Key
  <2> QED
    BY <2>2, <2>3
<1> QED
  BY <1>7, <1>8

(* The two steps that touch a key that is clean. *)
LEMMA ClaimStands ==
  ASSUME TypeOK, DispatchInv, InOrder, AtNext,
         NEW s \in Stores, SharedLog(s), NEW k \in Keys, StandsIn(s, k), Clean(k)',
         NEW r \in Replicas, MarkNew(r), Key(r) = k
  PROVE  StandsIn(s, k)'
<1>1. /\ AtNotifier(r) /\ k \notin marks[s] /\ LogOf[r] = s
      /\ marks' = [marks EXCEPT ![s] = @ \cup {k}]
      /\ UNCHANGED <<posts, cur, next, dropped, orphans>>
  BY DEF MarkNew, Marked, SharedLog, groupVars
<1>2. /\ pc' = [pc EXCEPT ![r] = "notify"] \/ pc' = [pc EXCEPT ![r] = "unmark"]
      /\ OthersStay(r) /\ pc'[r] # "loop" /\ Holds(r)'
  <2>1. pc' = [pc EXCEPT ![r] = "notify"] \/ pc' = [pc EXCEPT ![r] = "unmark"]
    BY DEF MarkNew
  <2> QED
    BY <1>1, <2>1 DEF OthersStay, Holds, TypeOK, DispatchTypeOK
<1>3. k \in marks'[s]
  BY <1>1 DEF TypeOK, DispatchTypeOK
<1>4. ~Accounted(k)
  BY <1>1 DEF StandsIn
<1>5. posts[k] = 0 /\ Claimants(k) = {}
  BY <1>4 DEF Accounted, InProgress, Claimants, TypeOK, DispatchTypeOK
<1>6. Before(cur[r]) \subseteq dropped
  BY <1>1, <1>4, ClaimsFirst
<1>7. Claimants(k)' \subseteq {r}
  BY <1>2, <1>5 DEF OthersStay, Claimants, Holds, Key
<1>8. \A q \in Claimants(k)' :
        /\ posts'[k] = 0
        /\ Claimants(k)' = {q}
        /\ Before(cur'[q]) \subseteq dropped'
  BY <1>1, <1>5, <1>6, <1>7
<1>9. ~(posts'[k] > 0)
  BY <1>1, <1>5
<1> QED
  BY <1>3, <1>8, <1>9 DEF StandsIn

LEMMA PostStands ==
  ASSUME TypeOK, DispatchInv,
         NEW s \in Stores, NEW k \in Keys, StandsIn(s, k),
         NEW r \in Replicas, Notify(r), Key(r) = k
  PROVE  StandsIn(s, k)'
<1>1. /\ pc[r] = "notify" /\ pc' = [pc EXCEPT ![r] = "claim"]
      /\ posts' = [posts EXCEPT ![k] = @ + 1]
      /\ shown' = [shown EXCEPT ![k] = Outcome(Content[cur[r]].decision)]
      /\ next' = [next EXCEPT ![r] = next[r] + 1]
      /\ UNCHANGED <<cur, marks, dropped>>
  BY DEF Notify, Post, Advance, groupVars
<1>2. Holds(r) /\ r \in Claimants(k)
  BY <1>1 DEF Holds, Claimants
<1>3. posts[k] = 0 /\ Claimants(k) = {r} /\ Before(cur[r]) \subseteq dropped
  BY <1>2 DEF StandsIn
<1>4. posts'[k] = 1 /\ shown'[k] = Outcome(Content[cur[r]].decision)
  BY <1>1, <1>3 DEF TypeOK, DispatchTypeOK
<1>5. OthersStay(r) /\ pc'[r] = "claim"
  BY <1>1 DEF OthersStay, TypeOK, DispatchTypeOK
<1>6. Claimants(k)' = {}
  BY <1>3, <1>5 DEF OthersStay, Claimants, Holds, Key
<1>7. k \in marks[s]
  BY <1>2 DEF StandsIn, Accounted, InProgress
<1>8. cur[r] \in Valid(k[1]) /\ Shows(k, cur[r])'
  <2>1. cur[r] \in Records /\ Content[cur[r]] # Poison
    BY <1>1, InHand DEF TypeOK
  <2>2. k[1] = Content[cur[r]].id
    BY DEF Key
  <2>3. Before(cur[r]) \subseteq dropped' /\ cur'[r] = cur[r]
    BY <1>1, <1>3
  <2> QED
    BY <1>4, <2>1, <2>2, <2>3 DEF Valid, Shows
<1>9. \E rec \in Valid(k[1]) : Shows(k, rec)'
  <2>1. PICK c : c = cur[r]
    OBVIOUS
  <2>2. Before(c) \subseteq dropped' /\ shown'[k] = Outcome(Content[c].decision)
    BY <1>1, <1>3, <1>4, <2>1
  <2>3. c \in Valid(k[1])
    BY <1>8, <2>1
  <2> QED
    BY <2>2, <2>3 DEF Shows
<1> QED
  BY <1>1, <1>4, <1>6, <1>7, <1>9 DEF StandsIn

(* Every other step leaves it alone. *)
LEMMA OthersQuiet ==
  ASSUME TypeOK, DispatchInv, NEW s \in Stores, SharedLog(s),
         NEW k \in Keys, Clean(k)', [Next]_vars,
         \A r \in Replicas : Key(r) = k => ~MarkNew(r) /\ ~Notify(r)
  PROVE  Quiet(s, k)
<1>1. k \notin refused' /\ k \notin expired'
  BY DEF Clean
<1>2. ASSUME UNCHANGED dispatchVars, dropped \subseteq dropped' PROVE Quiet(s, k)
  BY <1>2 DEF Quiet, dispatchVars, handlerVars, historyVars, Claimants, Holds, Key
<1>3. ASSUME NEW r \in Replicas, Advance(r) \/ GoesBack(r)
      PROVE  OthersStay(r) /\ ~Holds(r)'
  BY <1>3 DEF Advance, GoesBack, OthersStay, Holds, TypeOK, DispatchTypeOK
<1>4. ASSUME NEW r \in Replicas, NEW l, pc' = [pc EXCEPT ![r] = l],
             UNCHANGED <<cur, next>>
      PROVE  OthersStay(r) /\ Key(r)' = Key(r)
  BY <1>4 DEF OthersStay, Key, TypeOK, DispatchTypeOK
<1>5. ASSUME NEW r \in Replicas, Take(r) PROVE Quiet(s, k)
  <2>1. UNCHANGED <<marks, posts, shown, dropped, orphans>>
    BY <1>5 DEF Take, groupVars, historyVars
  <2>2. OthersStay(r) /\ ~Holds(r)'
    BY <1>5 DEF Take, OthersStay, Holds, TypeOK, DispatchTypeOK
  <2> QED
    BY <2>1, <2>2, QuietBy
<1>6. ASSUME NEW r \in Replicas, MarkNew(r) PROVE Quiet(s, k)
  <2>1. /\ marks' = [marks EXCEPT ![LogOf[r]] = @ \cup {Key(r)}]
        /\ pc' = [pc EXCEPT ![r] = "notify"] \/ pc' = [pc EXCEPT ![r] = "unmark"]
        /\ UNCHANGED <<cur, next, posts, shown, dropped, orphans>>
    BY <1>6 DEF MarkNew, groupVars
  <2>2. OthersStay(r) /\ Key(r)' = Key(r) /\ Key(r) # k
    BY <1>4, <1>6, <2>1
  <2>3. k \in marks[s] => k \in marks'[s]
    BY <2>1 DEF TypeOK, DispatchTypeOK
  <2> QED
    BY <2>1, <2>2, <2>3, QuietBy
<1>7. ASSUME NEW r \in Replicas, MarkSeen(r) PROVE Quiet(s, k)
  <2>1. UNCHANGED <<marks, posts, shown, dropped, orphans>>
    BY <1>7 DEF MarkSeen, groupVars
  <2>2. OthersStay(r) /\ ~Holds(r)'
    BY <1>3, <1>7 DEF MarkSeen
  <2> QED
    BY <2>1, <2>2, QuietBy
<1>8. ASSUME NEW r \in Replicas, MarkFails(r) PROVE Quiet(s, k)
  <2>1. OthersStay(r) /\ ~Holds(r)'
    BY <1>3, <1>8 DEF MarkFails
  <2>2. /\ UNCHANGED <<posts, shown, dropped>>
        /\ \/ marks' = [marks EXCEPT ![LogOf[r]] = @ \cup {Key(r)}]
           \/ marks' = marks
        /\ orphans' \subseteq orphans \cup {Key(r)}
        /\ Key(r) \in refused'
    BY <1>8 DEF MarkFails, UnchangedGroup
  <2>3. k \in marks[s] => k \in marks'[s]
    BY <2>2 DEF TypeOK, DispatchTypeOK
  <2>4. k \in orphans' => k \in orphans
    BY <1>1, <2>2
  <2>5. posts'[k] = posts[k] /\ shown'[k] = shown[k] /\ dropped \subseteq dropped'
    BY <2>2
  <2> QED
    BY <2>1, <2>3, <2>4, <2>5, QuietBy
<1>9. ASSUME NEW r \in Replicas, Notify(r) PROVE Quiet(s, k)
  <2>1. /\ UNCHANGED <<marks, dropped, orphans>>
        /\ posts'[k] = posts[k] /\ shown'[k] = shown[k]
    BY <1>9 DEF Notify, Post, groupVars, historyVars, TypeOK, DispatchTypeOK
  <2>2. OthersStay(r) /\ ~Holds(r)'
    BY <1>3, <1>9 DEF Notify
  <2> QED
    BY <2>1, <2>2, QuietBy
<1>10. ASSUME NEW r \in Replicas, NotifyFails(r) PROVE Quiet(s, k)
  <2>1. /\ pc' = [pc EXCEPT ![r] = "unmark"]
        /\ UNCHANGED <<cur, next, marks, dropped, orphans>>
        /\ Key(r) # k
    BY <1>1, <1>10 DEF NotifyFails, UnchangedGroup
  <2>2. posts'[k] = posts[k] /\ shown'[k] = shown[k]
    BY <1>10, <2>1 DEF NotifyFails, Post, TypeOK, DispatchTypeOK
  <2>3. OthersStay(r) /\ Key(r)' = Key(r)
    BY <1>4, <2>1
  <2> QED
    BY <2>1, <2>2, <2>3, QuietBy
<1>11. ASSUME NEW r \in Replicas, Unmark(r) \/ UnmarkFails(r) PROVE Quiet(s, k)
  <2>1. /\ UNCHANGED <<posts, shown, dropped, refused>>
        /\ \/ marks' = [marks EXCEPT ![LogOf[r]] = @ \ {Key(r)}]
           \/ marks' = marks
        /\ orphans' \subseteq orphans \cup {Key(r)}
        /\ pc[r] = "unmark"
    BY <1>11 DEF Unmark, UnmarkFails, UnchangedGroup, groupVars, historyVars
  <2>2. Key(r) # k
    BY <1>1, <2>1 DEF DispatchInv, HandlerInv
  <2>3. OthersStay(r) /\ ~Holds(r)'
    BY <1>3, <1>11 DEF Unmark, UnmarkFails
  <2>4. k \in marks[s] => k \in marks'[s]
    BY <2>1, <2>2 DEF TypeOK, DispatchTypeOK
  <2> QED
    BY <2>1, <2>2, <2>3, <2>4, QuietBy
<1>12. ASSUME NEW r \in Replicas, Finish(r) PROVE Quiet(s, k)
  <2>1. GoesBack(r) /\ UNCHANGED <<marks, posts, shown, dropped, orphans>>
    BY <1>12 DEF Finish, Return, GoesBack
  <2>2. OthersStay(r) /\ ~Holds(r)'
    BY <1>3, <2>1
  <2> QED
    BY <2>1, <2>2, QuietBy
<1>13. ASSUME NEW r \in Replicas, Die(r) PROVE Quiet(s, k)
  <2>1. GoesBack(r) /\ UNCHANGED <<posts, shown, dropped>> /\ marks'[s] = marks[s]
    BY <1>13 DEF Die, Crash, Terminate, Leave, SharedLog, GoesBack
  <2>2. k \in orphans' => k \in orphans \/ InProgress(k)
    BY <1>13 DEF Die, InProgress, Holds
  <2>3. OthersStay(r) /\ ~Holds(r)'
    BY <1>3, <2>1
  <2> QED
    BY <2>1, <2>2, <2>3, QuietBy
<1>14. CASE Expire
  <2>1. /\ UNCHANGED <<pc, cur, next, posts, shown, dropped, orphans>>
        /\ \E t \in Stores : \E x \in expired' :
             marks' = [marks EXCEPT ![t] = @ \ {x}]
    BY <1>14 DEF Expire, UnchangedGroup, handlerVars
  <2>2. k \in marks[s] => k \in marks'[s]
    BY <1>1, <2>1 DEF TypeOK, DispatchTypeOK
  <2> QED
    BY <2>1, <2>2 DEF Quiet, Claimants, Holds, Key
<1>15. ASSUME NEW r \in Replicas, Poll(r) \/ SkipPoison(r) PROVE Quiet(s, k)
  BY <1>2, <1>15 DEF Poll, SkipPoison, Return, Fetch, FetchError, LastPoll
<1>16. CASE Group \/ UNCHANGED vars
  BY <1>2, <1>16 DEF Group, Stop, Restart, Assign, AutoCommit, vars, groupVars
<1> QED
  BY <1>5, <1>6, <1>7, <1>8, <1>9, <1>10, <1>11, <1>12, <1>13, <1>14, <1>15, <1>16
     DEF Next, Handle

LEMMA CleanWas ==
  ASSUME NEW k, [Next]_vars, Clean(k)' PROVE Clean(k)
<1>1. refused \subseteq refused' /\ expired \subseteq expired'
  BY DEF Next, vars, dispatchVars, historyVars, Group, Expire, Poll, Die, Handle,
         SkipPoison, Take, MarkNew, MarkSeen, MarkFails, Notify, NotifyFails, Unmark,
         UnmarkFails, Finish
<1> QED
  BY <1>1 DEF Clean

LEMMA FirstInit == Init => FirstInv
<1> SUFFICES ASSUME Init PROVE FirstInv
  OBVIOUS
<1>1. InOrder
  BY InOrderInit DEF Init
<1>2. /\ \A r \in Replicas : pc[r] = "loop"
      /\ \A k \in Keys : posts[k] = 0 /\ k \notin refused \cup orphans
  BY DEF Init
<1>3. \A k : Claimants(k) = {} /\ ~InProgress(k)
  BY <1>2 DEF Claimants, InProgress, Holds
<1>4. \A s \in Stores, k \in Keys : StandsIn(s, k)
  BY <1>2, <1>3 DEF StandsIn, Accounted
<1> QED
  BY <1>1, <1>2, <1>4 DEF FirstInv

LEMMA FirstStep ==
  TypeOK /\ DispatchInv /\ GroupInv /\ FirstInv /\ [Next]_vars => FirstInv'
<1> SUFFICES ASSUME TypeOK, DispatchInv, GroupInv, FirstInv, [Next]_vars
             PROVE  FirstInv'
  OBVIOUS
<1>1. InOrder /\ InOrder'
  BY GroupStep, InOrderStep DEF FirstInv, TypeOK
<1>2. AtNext /\ AtNext'
  BY AtNextStep DEF FirstInv, AtNext
<1>3. LogOf' = LogOf
  BY DEF Next, vars, dispatchVars, Group, Expire, Poll, Die, Handle, SkipPoison, Take,
         MarkNew, MarkSeen, MarkFails, Notify, NotifyFails, Unmark, UnmarkFails, Finish
<1>4. ASSUME NEW s \in Stores, NEW k \in Keys, SharedLog(s)', Clean(k)'
      PROVE  StandsIn(s, k)'
  <2>1. SharedLog(s) /\ Clean(k)
    BY <1>3, <1>4, CleanWas DEF SharedLog
  <2>2. StandsIn(s, k)
    BY <2>1 DEF FirstInv
  <2>3. CASE \E r \in Replicas : Key(r) = k /\ MarkNew(r)
    BY <1>1, <1>2, <1>4, <2>1, <2>2, <2>3, ClaimStands
  <2>4. CASE \E r \in Replicas : Key(r) = k /\ Notify(r)
    BY <2>2, <2>4, PostStands
  <2>5. CASE \A r \in Replicas : Key(r) = k => ~MarkNew(r) /\ ~Notify(r)
    <3>1. Quiet(s, k)
      BY <1>4, <2>1, <2>5, OthersQuiet
    <3> QED
      BY <1>4, <2>2, <3>1, QuietKeeps
  <2> QED
    BY <2>3, <2>4, <2>5
<1> QED
  BY <1>1, <1>2, <1>4 DEF FirstInv, AtNext

(* Whatever crashes, rebalances and copies do, a destination that had no     *)
(* failed call of its own has been shown one verdict of a submission, the    *)
(* first that was not discarded.                                             *)
THEOREM DispatchFirstStands == Spec => []FirstVerdictStands
<1>1. TypeOK /\ FirstInv => FirstVerdictStands
  BY DEF FirstInv, StandsIn, Clean, FirstVerdictStands
<1>2. Spec => []GroupInv
  BY DispatchImplementsGroup, GroupInvariant, PTL
<1>3. Spec => []FirstInv
  BY FirstInit, FirstStep, DispatchInvariant, <1>2, PTL DEF Spec
<1> QED
  BY <1>1, <1>3, DispatchInvariant, PTL
==============================================================================
