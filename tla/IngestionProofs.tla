--------------------------- MODULE IngestionProofs ---------------------------
(***************************************************************************)
(* A caller's diffs reach the topic in its order, what is acknowledged is  *)
(* there, and each further copy of a diff has a fault to answer for it: for *)
(* any number of callers, diffs, calls and faults.                         *)
(***************************************************************************)
EXTENDS Ingestion, TLAPS, FiniteSetTheorems

LEMMA TypeInit == Init => TypeOK
BY IngestionAssumption DEF Init, TypeOK, Active

LEMMA FaultyType == ASSUME TypeOK, Faulty PROVE faults' \in 0..MaxFaults
BY IngestionAssumption DEF TypeOK, Faulty

(* The end of a call: the other calls are left alone. *)
LEMMA EndFacts ==
  ASSUME TypeOK, NEW k \in Calls, End(k)
  PROVE  /\ Active' = Active \ {k} /\ here' = here \ {k}
         /\ \A l \in Calls : l # k =>
              step'[l] = step[l] /\ caller'[l] = caller[l] /\ at'[l] = at[l]
         /\ step' \in [Calls -> {"free", "recv", "produce", "landed"}]
         /\ caller' \in [Calls -> Callers \cup {Nobody}]
         /\ at' \in [Calls -> Nat]
BY DEF End, TypeOK, Active

LEMMA ExitFacts ==
  ASSUME Exit
  PROVE  /\ Active' = {} /\ here' = {} /\ mode' = "down"
         /\ step' \in [Calls -> {"free", "recv", "produce", "landed"}]
         /\ caller' \in [Calls -> Callers \cup {Nobody}]
         /\ at' \in [Calls -> Nat]
BY DEF Exit, Active

(* A call whose caller is there stands at a diff of its caller's script. *)
LEMMA ItemType ==
  ASSUME TypeOK, NEW k \in Calls, caller[k] \in Callers, HasItem(k)
  PROVE  Item(k) \in Items /\ at[k] \in 1..Len(Script[caller[k]])
BY IngestionAssumption DEF HasItem, Item, TypeOK

LEMMA AnsweredType ==
  ASSUME TypeOK, NEW k \in Active, caller[k] \in Callers, Answered(k)
  PROVE  /\ step' \in [Calls -> {"free", "recv", "produce", "landed"}]
         /\ caller' \in [Calls -> Callers \cup {Nobody}]
         /\ at' \in [Calls -> Nat]
         /\ here' \subseteq Active'
         /\ next' \in [Callers -> Nat \ {0}]
<1>1. next' \in [Callers -> Nat \ {0}] /\ k \in Calls
  BY DEF Answered, TypeOK, Active
<1>2. CASE caller[k] \in Streaming
  BY <1>1, <1>2 DEF Answered, TypeOK, Active
<1>3. CASE caller[k] \notin Streaming
  BY <1>1, <1>3, EndFacts DEF Answered, TypeOK
<1> QED
  BY <1>1, <1>2, <1>3

LEMMA TypeStep == TypeOK /\ IngestInv /\ [Next]_vars => TypeOK'
<1> SUFFICES ASSUME TypeOK, IngestInv, [Next]_vars PROVE TypeOK'
  OBVIOUS
<1> USE IngestionAssumption
<1>0. ASSUME NEW k \in Calls, step[k] # "free"
      PROVE  k \in Active /\ CallInv(k) /\ caller[k] \in Callers
  BY <1>0 DEF Active, IngestInv, CallInv
<1>1. ASSUME NEW c \in Callers, Open(c) PROVE TypeOK'
  <2>1. PICK k \in Calls \ Active :
          /\ step' = [step EXCEPT ![k] = "recv"]
          /\ caller' = [caller EXCEPT ![k] = c]
          /\ at' = [at EXCEPT ![k] = next[c]]
          /\ here' = here \cup {k}
    BY <1>1 DEF Open
  <2>2. here' \subseteq Active'
    BY <2>1 DEF TypeOK, Active
  <2> QED
    BY <1>1, <2>1, <2>2 DEF Open, TypeOK
<1>2. ASSUME NEW k \in Calls, HangUp(k) \/ Unheard(k) PROVE TypeOK'
  BY <1>2, EndFacts DEF HangUp, Unheard, TypeOK
<1>3. ASSUME NEW k \in Calls, GiveUp(k) PROVE TypeOK'
  <2>1. CASE End(k)
    BY <1>3, <2>1, EndFacts, FaultyType DEF GiveUp, TypeOK
  <2>2. CASE here' = here \ {k} /\ UNCHANGED <<step, caller, at>>
    BY <1>3, <2>2, FaultyType DEF GiveUp, TypeOK, Active
  <2> QED
    BY <1>3, <2>1, <2>2 DEF GiveUp
<1>4. ASSUME NEW k \in Calls, Receive(k) PROVE TypeOK'
  BY <1>4 DEF Receive, TypeOK, Active
<1>5. ASSUME NEW k \in Calls, Refuse(k) PROVE TypeOK'
  <2>1. Item(k) \in Items /\ caller[k] \in Callers
    BY <1>0, <1>5, ItemType DEF Refuse
  <2>2. next' \in [Callers -> Nat \ {0}] /\ End(k)
    BY <1>5, <2>1 DEF Refuse, TypeOK
  <2> QED
    BY <1>5, <2>1, <2>2, EndFacts DEF Refuse, TypeOK
<1>6. ASSUME NEW k \in Calls, Land(k) PROVE TypeOK'
  <2>1. Item(k) \in Items
    BY <1>6 DEF Land
  <2>2. topic' \in Seq(Items)
    BY <1>6, <2>1 DEF Land, TypeOK
  <2> QED
    BY <1>6, <2>2 DEF Land, TypeOK, Active
<1>7. ASSUME NEW k \in Calls, Ack(k) PROVE TypeOK'
  <2>1. Item(k) \in Items /\ k \in Active /\ caller[k] \in Callers
    BY <1>0, <1>7, ItemType DEF Ack, CallInv
  <2> QED
    BY <1>7, <2>1, AnsweredType DEF Ack, TypeOK
<1>8. ASSUME NEW k \in Calls, Unavailable(k) PROVE TypeOK'
  <2>1. faults' \in 0..MaxFaults
    BY <1>8, FaultyType DEF Unavailable, TypeOK
  <2> QED
    BY <1>8, <2>1, EndFacts DEF Unavailable, TypeOK
<1>9. CASE Sigterm \/ GrpcDrained \/ Restart
  <2>1. faults' \in 0..MaxFaults
    BY <1>9, FaultyType DEF Sigterm, GrpcDrained, Restart, TypeOK
  <2> QED
    BY <1>9, <2>1 DEF Sigterm, GrpcDrained, Restart, TypeOK, callVars, Active
<1>10. CASE Stopped \/ Crash
  <2>1. faults' \in 0..MaxFaults /\ Exit
    BY <1>10, FaultyType DEF Stopped, Crash, TypeOK
  <2>2. UNCHANGED <<next, admitted, acked, refused, topic>>
    BY <2>1 DEF Exit
  <2> QED
    BY <2>1, <2>2, ExitFacts DEF TypeOK
<1>11. CASE UNCHANGED vars
  BY <1>11 DEF vars, callVars, TypeOK, Active
<1> QED
  BY <1>1, <1>2, <1>3, <1>4, <1>5, <1>6, <1>7, <1>8, <1>9, <1>10, <1>11
     DEF Next, Handle

------------------------------------------------------------------------------
(***************************************************************************)
(* IngestInv.                                                              *)
(***************************************************************************)

LEMMA InvInit == Init => IngestInv
<1> SUFFICES ASSUME Init PROVE IngestInv
  OBVIOUS
<1>1. Active = {} /\ here = {} /\ acked = {} /\ OnTopic = {}
  BY DEF Init, Active, OnTopic
<1>2. \A c \in Callers : next[c] = 1
  BY DEF Init
<1> QED
  BY <1>1, <1>2 DEF IngestInv

LEMMA AppendOnTopic ==
  ASSUME TypeOK, NEW i, topic' = Append(topic, i)
  PROVE  OnTopic' = OnTopic \cup {i}
<1>1. /\ DOMAIN topic = 1..Len(topic) /\ DOMAIN topic' = 1..(Len(topic) + 1)
      /\ Len(topic) \in Nat
      /\ \A k \in 1..Len(topic) : topic'[k] = topic[k]
      /\ topic'[Len(topic) + 1] = i
  BY DEF TypeOK
<1> QED
  BY <1>1 DEF OnTopic

(* A call that a step leaves alone, while the books grow. *)
LEMMA CallKept ==
  ASSUME NEW k, CallInv(k),
         step'[k] = step[k], caller'[k] = caller[k], at'[k] = at[k],
         next[caller[k]] <= next'[caller[k]],
         next[caller[k]] \in Nat, next'[caller[k]] \in Nat, at[k] \in Nat,
         k \in here' => k \in here /\ next'[caller[k]] = next[caller[k]],
         step[k] = "recv" => k \in here',
         admitted \subseteq admitted', OnTopic \subseteq OnTopic'
  PROVE  CallInv(k)'
BY DEF CallInv, HasItem, Item

(* A step that moves no caller on: the parts that are not about calls. *)
LEMMA BooksKept ==
  ASSUME TypeOK, IngestInv, UNCHANGED next, OnTopic \subseteq OnTopic',
         acked' \subseteq OnTopic', OnTopic' \subseteq admitted',
         \A k \in Active' : CallInv(k)',
         \A k, l \in here' : caller'[k] = caller'[l] => k = l
  PROVE  IngestInv'
BY DEF IngestInv

(* Calls that a step leaves alone when next and topic stay. *)
LEMMA OthersKept ==
  ASSUME TypeOK, TypeOK', IngestInv, UNCHANGED next, admitted \subseteq admitted',
         OnTopic \subseteq OnTopic', here' \subseteq here,
         NEW l \in Active, step'[l] = step[l], caller'[l] = caller[l],
         at'[l] = at[l], step[l] = "recv" => l \in here'
  PROVE  CallInv(l)'
<1>1. CallInv(l) /\ caller[l] \in Callers /\ l \in Calls
  BY DEF IngestInv, CallInv, Active
<1>2. next[caller[l]] \in Nat /\ at[l] \in Nat
  BY <1>1 DEF TypeOK
<1> QED
  BY <1>1, <1>2, CallKept

(* A call that ends without an answer. *)
LEMMA QuietEnd ==
  ASSUME TypeOK, TypeOK', IngestInv, NEW k \in Calls, End(k),
         UNCHANGED <<next, admitted, acked, topic>>
  PROVE  IngestInv'
<1>1. OnTopic' = OnTopic
  BY DEF OnTopic
<1>2. ASSUME NEW l \in Active' PROVE CallInv(l)'
  <2>1. l \in Active /\ l # k /\ l \in Calls
    BY <1>2, EndFacts DEF Active
  <2>2. step[l] = "recv" => l \in here'
    BY <2>1, EndFacts DEF IngestInv, CallInv
  <2> QED
    BY <1>1, <2>1, <2>2, EndFacts, OthersKept
<1>3. ASSUME NEW l \in here', NEW m \in here', caller'[l] = caller'[m]
      PROVE  l = m
  <2>1. l \in here /\ m \in here /\ caller[l] = caller[m]
    BY <1>3, EndFacts DEF TypeOK, Active
  <2> QED
    BY <2>1 DEF IngestInv
<1> QED
  BY <1>1, <1>2, <1>3, BooksKept DEF IngestInv

(* A diff that is settled is settled for good: its caller moves on. *)
LEMMA MoveOn ==
  ASSUME TypeOK, TypeOK', IngestInv, NEW k \in Calls, k \in here,
         HasItem(k), next' = [next EXCEPT ![caller[k]] = at[k] + 1],
         OnTopic' = OnTopic, admitted' = admitted,
         Item(k) \in Valid => Item(k) \in OnTopic,
         acked' \subseteq OnTopic,
         here' \subseteq here,
         \A l \in Active' \ {k} :
           /\ l \in Active
           /\ step'[l] = step[l] /\ caller'[l] = caller[l] /\ at'[l] = at[l]
           /\ step[l] = "recv" => l \in here',
         k \in Active' => CallInv(k)' /\ caller'[k] = caller[k]
  PROVE  IngestInv'
<1> USE IngestionAssumption
<1>1. /\ k \in Active /\ caller[k] \in Callers /\ at[k] = next[caller[k]]
      /\ at[k] \in DOMAIN Script[caller[k]] /\ at[k] \in Nat \ {0}
      /\ \A c \in Callers : next[c] \in Nat \ {0}
      /\ \A c \in Callers : next'[c] = IF c = caller[k] THEN next[c] + 1 ELSE next[c]
  BY DEF TypeOK, IngestInv, CallInv, HasItem
<1>2. ASSUME NEW l \in Active' PROVE CallInv(l)'
  <2>1. CASE l = k
    BY <1>2, <2>1
  <2>2. CASE l # k
    <3>1. /\ l \in Active /\ CallInv(l) /\ caller[l] \in Callers /\ l \in Calls
      BY <1>2, <2>2 DEF IngestInv, CallInv, Active
    <3>2. l \in here' => l \in here /\ caller[l] # caller[k]
      BY <2>2 DEF IngestInv
    <3>3. /\ next[caller[l]] \in Nat /\ next'[caller[l]] \in Nat /\ at[l] \in Nat
          /\ next[caller[l]] <= next'[caller[l]]
          /\ l \in here' => next'[caller[l]] = next[caller[l]]
      BY <1>1, <3>1, <3>2 DEF TypeOK
    <3> QED
      BY <1>2, <2>2, <3>1, <3>2, <3>3, CallKept
  <2> QED
    BY <2>1, <2>2
<1>3. ASSUME NEW l \in here', NEW m \in here', caller'[l] = caller'[m]
      PROVE  l = m
  <2>1. l \in Active' /\ m \in Active'
    BY DEF TypeOK
  <2>2. l \in here /\ m \in here /\ caller[l] = caller[m]
    BY <1>3, <2>1
  <2> QED
    BY <2>2 DEF IngestInv
<1>4. ASSUME NEW c \in Callers, NEW i \in 1..(next'[c] - 1)
      PROVE  /\ i \in DOMAIN Script[c]
             /\ Script[c][i] \in Valid => Script[c][i] \in OnTopic'
  <2>1. CASE c = caller[k] /\ i = at[k]
    BY <1>1, <2>1 DEF Item
  <2>2. CASE ~(c = caller[k] /\ i = at[k])
    <3>1. i \in 1..(next[c] - 1)
      BY <1>1, <1>4, <2>2
    <3> QED
      BY <3>1 DEF IngestInv
  <2> QED
    BY <2>1, <2>2
<1>5. acked' \subseteq OnTopic' /\ OnTopic' \subseteq admitted'
  BY DEF IngestInv
<1> QED
  BY <1>2, <1>3, <1>4, <1>5 DEF IngestInv

LEMMA InvStep == TypeOK /\ TypeOK' /\ IngestInv /\ [Next]_vars => IngestInv'
<1> SUFFICES ASSUME TypeOK, TypeOK', IngestInv, [Next]_vars PROVE IngestInv'
  OBVIOUS
<1> USE IngestionAssumption
<1>1. ASSUME NEW c \in Callers, Open(c) PROVE IngestInv'
  <2>1. PICK k \in Calls \ Active :
          /\ step' = [step EXCEPT ![k] = "recv"]
          /\ caller' = [caller EXCEPT ![k] = c]
          /\ at' = [at EXCEPT ![k] = next[c]]
          /\ here' = here \cup {k}
    BY <1>1 DEF Open
  <2>2. /\ UNCHANGED <<mode, next, admitted, acked, refused, topic, faults>>
        /\ \A l \in here : caller[l] # c
        /\ here \subseteq Active /\ Active \subseteq Calls
        /\ next[c] \in Nat
    BY <1>1 DEF Open, TypeOK, Active
  <2>3. /\ step'[k] = "recv" /\ caller'[k] = c /\ at'[k] = next[c]
        /\ \A l \in Calls : l # k =>
             step'[l] = step[l] /\ caller'[l] = caller[l] /\ at'[l] = at[l]
    BY <2>1 DEF TypeOK
  <2>4. Active' = Active \cup {k} /\ OnTopic' = OnTopic
    BY <2>2, <2>3 DEF Active, OnTopic
  <2>5. ASSUME NEW l \in Active' PROVE CallInv(l)'
    <3>1. CASE l = k
      BY <2>1, <2>2, <2>3, <3>1 DEF CallInv
    <3>2. CASE l # k
      <4>1. l \in Active /\ CallInv(l) /\ caller[l] \in Callers /\ l \in Calls
        BY <2>2, <2>4, <3>2 DEF IngestInv, CallInv
      <4>2. next[caller[l]] \in Nat /\ at[l] \in Nat
        BY <4>1 DEF TypeOK
      <4>3. step[l] = "recv" => l \in here'
        BY <2>1, <4>1 DEF CallInv
      <4>4. /\ step'[l] = step[l] /\ caller'[l] = caller[l] /\ at'[l] = at[l]
            /\ UNCHANGED <<next, admitted>> /\ OnTopic \subseteq OnTopic'
            /\ l \in here' => l \in here
        BY <2>1, <2>2, <2>3, <2>4, <3>2, <4>1
      <4>5. /\ next'[caller[l]] = next[caller[l]]
            /\ next[caller[l]] <= next'[caller[l]]
            /\ admitted \subseteq admitted'
        BY <4>2, <4>4
      <4> QED
        BY <4>1, <4>2, <4>3, <4>4, <4>5, CallKept
    <3> QED
      BY <3>1, <3>2
  <2>6. ASSUME NEW l \in here', NEW m \in here', caller'[l] = caller'[m]
        PROVE  l = m
    <3>1. (l = k \/ l \in here) /\ (m = k \/ m \in here) /\ k \notin here
      BY <2>1, <2>2
    <3>2. \A n \in here : n # k /\ caller'[n] = caller[n]
      BY <2>2, <2>3, <3>1
    <3>3. CASE l \in here /\ m \in here
      BY <2>6, <3>2, <3>3 DEF IngestInv
    <3> QED
      BY <2>2, <2>3, <2>6, <3>1, <3>2, <3>3
  <2> QED
    BY <2>2, <2>4, <2>5, <2>6, BooksKept DEF IngestInv
<1>2. ASSUME NEW k \in Calls, HangUp(k) \/ Unheard(k) \/ Unavailable(k)
      PROVE  IngestInv'
  BY <1>2, QuietEnd DEF HangUp, Unheard, Unavailable
<1>3. ASSUME NEW k \in Calls, GiveUp(k) PROVE IngestInv'
  <2>1. CASE End(k)
    BY <1>3, <2>1, QuietEnd DEF GiveUp
  <2>2. CASE step[k] # "recv" /\ here' = here \ {k} /\ UNCHANGED <<step, caller, at>>
    <3>1. /\ UNCHANGED <<next, admitted, acked, topic>> /\ Active' = Active
          /\ OnTopic' = OnTopic /\ here' \subseteq here
      BY <1>3, <2>2 DEF GiveUp, Active, OnTopic
    <3>2. ASSUME NEW l \in Active' PROVE CallInv(l)'
      <4>1. step[l] = "recv" => l \in here'
        BY <2>2, <3>1 DEF IngestInv, CallInv
      <4> QED
        BY <2>2, <3>1, <4>1, OthersKept
    <3> QED
      BY <2>2, <3>1, <3>2, BooksKept DEF IngestInv
  <2> QED
    BY <1>3, <2>1, <2>2 DEF GiveUp
<1>4. ASSUME NEW k \in Calls, Receive(k) PROVE IngestInv'
  <2>1. /\ step'[k] = "produce" /\ step[k] = "recv" /\ k \in here /\ HasItem(k)
        /\ Item(k) \in Valid /\ admitted' = admitted \cup {Item(k)}
        /\ UNCHANGED <<caller, at, here, next, acked, topic>>
        /\ \A l \in Calls : l # k => step'[l] = step[l]
    BY <1>4 DEF Receive, TypeOK
  <2>2. Active' = Active /\ OnTopic' = OnTopic /\ k \in Active
        /\ Active \subseteq Calls
    <3>1. \A l \in Calls : step'[l] # "free" <=> step[l] # "free"
      BY <2>1
    <3>2. Active' = Active
      BY <3>1 DEF Active
    <3>3. k \in Active /\ Active \subseteq Calls
      BY <2>1 DEF Active
    <3> QED
      BY <2>1, <3>2, <3>3 DEF OnTopic
  <2>3. ASSUME NEW l \in Active' PROVE CallInv(l)'
    <3>1. CASE l = k
      <4>1. CallInv(k)
        BY <2>2 DEF IngestInv
      <4> QED
        BY <2>1, <3>1, <4>1 DEF CallInv, HasItem, Item
    <3>2. CASE l # k
      <4>1. step[l] = "recv" => l \in here'
        BY <2>1, <2>2 DEF IngestInv, CallInv
      <4> QED
        BY <2>1, <2>2, <3>2, <4>1, OthersKept
    <3> QED
      BY <3>1, <3>2
  <2> QED
    BY <2>1, <2>2, <2>3, BooksKept DEF IngestInv
<1>5. ASSUME NEW k \in Calls, Refuse(k) PROVE IngestInv'
  <2>1. /\ k \in here /\ HasItem(k) /\ Item(k) \notin Valid /\ End(k)
        /\ next' = [next EXCEPT ![caller[k]] = at[k] + 1]
        /\ UNCHANGED <<admitted, acked, topic>>
    BY <1>5 DEF Refuse
  <2>2. OnTopic' = OnTopic /\ acked' \subseteq OnTopic
    BY <2>1 DEF OnTopic, IngestInv
  <2>3. ASSUME NEW l \in Active' \ {k}
        PROVE  /\ l \in Active
               /\ step'[l] = step[l] /\ caller'[l] = caller[l] /\ at'[l] = at[l]
               /\ step[l] = "recv" => l \in here'
    BY <2>1, EndFacts DEF Active, IngestInv, CallInv
  <2>4. k \notin Active' /\ here' \subseteq here
    BY <2>1, EndFacts
  <2> QED
    BY <2>1, <2>2, <2>3, <2>4, MoveOn
<1>6. ASSUME NEW k \in Calls, Land(k) PROVE IngestInv'
  <2>1. /\ step'[k] = "landed" /\ step[k] = "produce"
        /\ topic' = Append(topic, Item(k))
        /\ UNCHANGED <<caller, at, here, next, admitted, acked>>
        /\ \A l \in Calls : l # k => step'[l] = step[l]
    BY <1>6 DEF Land, TypeOK
  <2>2. Active' = Active /\ k \in Active /\ Active \subseteq Calls
    <3>1. \A l \in Calls : step'[l] # "free" <=> step[l] # "free"
      BY <2>1
    <3> QED
      BY <2>1, <3>1 DEF Active
  <2>3. CallInv(k)
    BY <2>2 DEF IngestInv
  <2>4. PICK i \in Items : i = Item(k)
    BY <2>1, <2>3, ItemType DEF CallInv
  <2>5. OnTopic' = OnTopic \cup {i}
    BY <2>1, <2>4, AppendOnTopic
  <2>6. ASSUME NEW l \in Active' PROVE CallInv(l)'
    <3>1. CASE l = k
      <4>1. Item(k)' = i
        BY <2>1, <2>4 DEF Item
      <4> QED
        BY <2>1, <2>3, <2>4, <2>5, <3>1, <4>1 DEF CallInv, HasItem
    <3>2. CASE l # k
      <4>1. step[l] = "recv" => l \in here'
        BY <2>1, <2>2 DEF IngestInv, CallInv
      <4> QED
        BY <2>1, <2>2, <2>5, <3>2, <4>1, OthersKept
    <3> QED
      BY <3>1, <3>2
  <2>7. i \in admitted
    BY <2>1, <2>3, <2>4 DEF CallInv
  <2> QED
    BY <2>1, <2>5, <2>6, <2>7, BooksKept DEF IngestInv
<1>7. ASSUME NEW k \in Calls, Ack(k) PROVE IngestInv'
  <2>1. /\ step[k] = "landed" /\ k \in here /\ Answered(k)
        /\ acked' = acked \cup {Item(k)} /\ UNCHANGED <<admitted, topic>>
        /\ k \in Active
    BY <1>7 DEF Ack, Active
  <2>2. /\ HasItem(k) /\ Item(k) \in OnTopic /\ caller[k] \in Callers
        /\ at[k] = next[caller[k]] /\ at[k] \in Nat
    BY <2>1 DEF IngestInv, CallInv, TypeOK
  <2>3. OnTopic' = OnTopic /\ acked' \subseteq OnTopic
    BY <2>1, <2>2 DEF OnTopic, IngestInv
  <2>4. next' = [next EXCEPT ![caller[k]] = at[k] + 1]
    BY <2>1 DEF Answered
  <2>5. CASE caller[k] \in Streaming
    <3>1. /\ step'[k] = "recv" /\ at'[k] = at[k] + 1
          /\ UNCHANGED <<caller, here>>
          /\ \A l \in Calls : l # k => step'[l] = step[l] /\ at'[l] = at[l]
      BY <2>1, <2>5 DEF Answered, TypeOK
    <3>2. Active' = Active
      BY <2>1, <3>1 DEF Active
    <3>3. next'[caller[k]] = at[k] + 1
      BY <2>2, <2>4 DEF TypeOK
    <3>4. CallInv(k)'
      BY <2>1, <2>2, <3>1, <3>3 DEF CallInv
    <3>5. ASSUME NEW l \in Active' \ {k}
          PROVE  /\ l \in Active
                 /\ step'[l] = step[l] /\ caller'[l] = caller[l] /\ at'[l] = at[l]
                 /\ step[l] = "recv" => l \in here'
      BY <3>1, <3>2 DEF Active, IngestInv, CallInv
    <3> QED
      BY <2>1, <2>2, <2>3, <2>4, <3>1, <3>4, <3>5, MoveOn
  <2>6. CASE caller[k] \notin Streaming
    <3>1. End(k)
      BY <2>1, <2>6 DEF Answered
    <3>2. ASSUME NEW l \in Active' \ {k}
          PROVE  /\ l \in Active
                 /\ step'[l] = step[l] /\ caller'[l] = caller[l] /\ at'[l] = at[l]
                 /\ step[l] = "recv" => l \in here'
      BY <3>1, EndFacts DEF Active, IngestInv, CallInv
    <3>3. k \notin Active' /\ here' \subseteq here
      BY <3>1, EndFacts
    <3> QED
      BY <2>1, <2>2, <2>3, <2>4, <3>2, <3>3, MoveOn
  <2> QED
    BY <2>5, <2>6
<1>8. CASE Sigterm \/ GrpcDrained \/ Restart \/ UNCHANGED vars
  <2>1. UNCHANGED <<callVars, next, admitted, acked, topic>>
    BY <1>8 DEF Sigterm, GrpcDrained, Restart, vars
  <2> QED
    BY <2>1 DEF IngestInv, CallInv, HasItem, Item, OnTopic, Active, callVars
<1>9. CASE Stopped \/ Crash
  <2>1. Exit /\ UNCHANGED <<next, admitted, acked, topic>>
    BY <1>9 DEF Stopped, Crash, Exit
  <2>2. Active' = {} /\ here' = {} /\ OnTopic' = OnTopic
    BY <2>1, ExitFacts DEF OnTopic
  <2> QED
    BY <2>1, <2>2, BooksKept DEF IngestInv
<1> QED
  BY <1>1, <1>2, <1>3, <1>4, <1>5, <1>6, <1>7, <1>8, <1>9 DEF Next, Handle

(* A call serves the next unsettled diff of its caller or one behind it, and
   what is settled and valid is on the topic: inductive, with the types. *)
THEOREM IngestInvariant == Spec => [](TypeOK /\ IngestInv)
BY TypeInit, TypeStep, InvInit, InvStep, PTL DEF Spec

(* The types of the service's state, in every state it can reach. *)
THEOREM IngestTypeCorrect == Spec => []TypeOK
BY IngestInvariant, PTL

------------------------------------------------------------------------------
(***************************************************************************)
(* Order.                                                                  *)
(***************************************************************************)

LEMMA OrderStep ==
  TypeOK /\ IngestInv /\ FirstCopiesInOrder /\ [Next]_vars => FirstCopiesInOrder'
<1> SUFFICES ASSUME TypeOK, IngestInv, FirstCopiesInOrder, [Next]_vars
             PROVE  FirstCopiesInOrder'
  OBVIOUS
<1> USE IngestionAssumption
<1>1. CASE UNCHANGED topic
  BY <1>1 DEF FirstCopiesInOrder
<1>2. ASSUME NEW k \in Calls, Land(k) PROVE FirstCopiesInOrder'
  <2>1. step[k] = "produce" /\ topic' = Append(topic, Item(k)) /\ k \in Active
    BY <1>2 DEF Land, Active
  <2>2. /\ caller[k] \in Callers /\ at[k] <= next[caller[k]] /\ HasItem(k)
        /\ at[k] \in Nat /\ next[caller[k]] \in Nat
    BY <2>1 DEF IngestInv, CallInv, TypeOK
  <2>3. /\ DOMAIN topic = 1..Len(topic) /\ Len(topic) \in Nat
        /\ DOMAIN topic' = 1..(Len(topic) + 1)
        /\ \A n \in 1..Len(topic) : topic'[n] = topic[n]
        /\ topic'[Len(topic) + 1] = Item(k)
    BY <2>1 DEF TypeOK
  <2>4. SUFFICES ASSUME NEW n \in DOMAIN topic', NEW c \in Callers,
                        NEW j \in DOMAIN Script[c], topic'[n] = Script[c][j],
                        NEW i \in 1..(j - 1), Script[c][i] \in Valid
                 PROVE  \E m \in 1..n : topic'[m] = Script[c][i]
    BY DEF FirstCopiesInOrder
  <2>5. CASE n \in DOMAIN topic
    <3>1. PICK m \in 1..n : topic[m] = Script[c][i]
      BY <2>3, <2>4, <2>5 DEF FirstCopiesInOrder
    <3> QED
      BY <2>3, <2>5, <3>1
  <2>6. CASE n = Len(topic) + 1
    <3>1. c = caller[k] /\ j = at[k]
      BY <2>2, <2>3, <2>4, <2>6 DEF HasItem, Item
    <3>2. i \in 1..(next[c] - 1)
      BY <2>2, <3>1
    <3>3. Script[c][i] \in OnTopic
      BY <2>4, <3>2 DEF IngestInv
    <3>4. PICK m \in DOMAIN topic : topic[m] = Script[c][i]
      BY <3>3 DEF OnTopic
    <3> QED
      BY <2>3, <2>6, <3>4
  <2> QED
    BY <2>3, <2>5, <2>6
<1>3. UNCHANGED topic \/ \E k \in Calls : Land(k)
  BY DEF Next, Handle, Open, HangUp, GiveUp, Receive, Refuse, Ack, Unavailable,
         Unheard, Sigterm, GrpcDrained, Stopped, Crash, Exit, Restart, vars
<1> QED
  BY <1>1, <1>2, <1>3

(* A caller's diffs first appear on the topic in the order it submits them:
   a handler may only be behind its caller, and what is behind the caller and
   valid is on the topic. *)
THEOREM IngestOrder == Spec => []FirstCopiesInOrder
<1>1. Init => FirstCopiesInOrder
  BY DEF Init, FirstCopiesInOrder
<1> QED
  BY <1>1, OrderStep, IngestInvariant, PTL DEF Spec

------------------------------------------------------------------------------
(***************************************************************************)
(* Copies.                                                                 *)
(***************************************************************************)

LEMMA CopiesFinite ==
  ASSUME TypeOK, NEW i
  PROVE  IsFiniteSet({n \in DOMAIN topic : topic[n] = i}) /\ Copies(i) \in Nat
<1>1. DOMAIN topic = 1..Len(topic) /\ Len(topic) \in Nat
  BY DEF TypeOK
<1>2. IsFiniteSet(DOMAIN topic)
  BY <1>1, FS_Interval
<1>3. IsFiniteSet({n \in DOMAIN topic : topic[n] = i})
  BY <1>2, FS_Subset
<1> QED
  BY <1>3, FS_CardinalityType DEF Copies

LEMMA CopiesAppend ==
  ASSUME TypeOK, NEW i, topic' = Append(topic, i), NEW j
  PROVE  Copies(j)' = IF j = i THEN Copies(j) + 1 ELSE Copies(j)
<1> DEFINE S == {k \in DOMAIN topic : topic[k] = j}
           n == Len(topic) + 1
<1>1. /\ DOMAIN topic = 1..Len(topic) /\ DOMAIN topic' = 1..n
      /\ Len(topic) \in Nat
      /\ \A k \in 1..Len(topic) : topic'[k] = topic[k]
      /\ topic'[n] = i
  BY DEF TypeOK
<1>2. S' = IF j = i THEN S \cup {n} ELSE S
  BY <1>1
<1>3. n \notin S
  BY <1>1
<1>4. IsFiniteSet(S)
  BY CopiesFinite
<1>5. Cardinality(S \cup {n}) = Cardinality(S) + 1
  BY <1>3, <1>4, FS_AddElement
<1> QED
  BY <1>2, <1>5 DEF Copies

LEMMA SubsetOfCalls ==
  ASSUME NEW S, S \subseteq Calls
  PROVE  IsFiniteSet(S) /\ Cardinality(S) \in Nat
<1>1. IsFiniteSet(S)
  BY IngestionAssumption, FS_Subset
<1> QED
  BY <1>1, FS_CardinalityType

LEMMA FewerCalls ==
  ASSUME NEW S, NEW T, S \subseteq Calls, T \subseteq S
  PROVE  Cardinality(T) <= Cardinality(S)
BY SubsetOfCalls, FS_Subset

LEMMA OneCallLess ==
  ASSUME NEW S, NEW T, S \subseteq Calls, NEW k \in S, T = S \ {k}
  PROVE  Cardinality(T) = Cardinality(S) - 1
BY SubsetOfCalls, FS_RemoveElement

LEMMA OneCallMore ==
  ASSUME NEW S, NEW T, S \subseteq Calls, NEW k \in Calls, T \subseteq S \cup {k}
  PROVE  Cardinality(T) <= Cardinality(S) + 1
<1>1. Cardinality(T) <= Cardinality(S \cup {k})
  BY FewerCalls
<1>2. Cardinality(S \cup {k}) <= Cardinality(S) + 1
  BY SubsetOfCalls, FS_AddElement
<1>3. /\ Cardinality(S) \in Nat /\ Cardinality(T) \in Nat
      /\ Cardinality(S \cup {k}) \in Nat
  BY SubsetOfCalls
<1> QED
  BY <1>1, <1>2, <1>3

LEMMA StrayCalls == \A i : Stray(i) \subseteq Calls /\ (Stray(i) \subseteq Calls)'
BY DEF Stray, Active

LEMMA Numbers ==
  ASSUME TypeOK, TypeOK', NEW i
  PROVE  /\ Copies(i) \in Nat /\ Copies(i)' \in Nat
         /\ Cardinality(Stray(i)) \in Nat /\ Cardinality(Stray(i)') \in Nat
         /\ faults \in Nat /\ faults' \in Nat
         /\ Stopping \in {0, 1} /\ Stopping' \in {0, 1}
<1>1. Copies(i) \in Nat
  BY CopiesFinite
<1>2. Copies(i)' \in Nat
  <2>1. DOMAIN topic' = 1..Len(topic') /\ Len(topic') \in Nat
    BY DEF TypeOK
  <2>2. IsFiniteSet(DOMAIN topic')
    BY <2>1, FS_Interval
  <2>3. IsFiniteSet({n \in DOMAIN topic' : topic'[n] = i})
    BY <2>2, FS_Subset
  <2> QED
    BY <2>3, FS_CardinalityType DEF Copies
<1>3. Cardinality(Stray(i)) \in Nat
  BY StrayCalls, SubsetOfCalls
<1>4. Cardinality(Stray(i)') \in Nat
  BY StrayCalls, SubsetOfCalls
<1>5. faults \in Nat /\ faults' \in Nat
  BY IngestionAssumption DEF TypeOK
<1> QED
  BY <1>1, <1>2, <1>3, <1>4, <1>5 DEF Stopping

(* A step that costs nothing and takes nothing from what is free. *)
LEMMA CopyQuiet ==
  ASSUME TypeOK, TypeOK', CopyInv, UNCHANGED topic, faults' = faults,
         Stopping' = Stopping, NEW i \in Items,
         Stray(i)' \subseteq Stray(i), Free(i) => Free(i)'
  PROVE  Copies(i)' + Cardinality(Stray(i)') + Stopping'
           <= faults' + (IF Free(i)' THEN 1 ELSE 0)
<1>1. Copies(i)' = Copies(i)
  BY DEF Copies
<1>2. Cardinality(Stray(i)') <= Cardinality(Stray(i))
  BY StrayCalls, FewerCalls
<1>3. Copies(i) + Cardinality(Stray(i)) + Stopping
        <= faults + (IF Free(i) THEN 1 ELSE 0)
  BY DEF CopyInv
<1> QED
  BY <1>1, <1>2, <1>3, Numbers

(* A step that costs a fault. *)
LEMMA CopyMishap ==
  ASSUME TypeOK, TypeOK', CopyInv, UNCHANGED topic, faults' = faults + 1,
         Stopping' <= Stopping, NEW i \in Items, Stray(i)' \subseteq Stray(i)
  PROVE  Copies(i)' + Cardinality(Stray(i)') + Stopping'
           <= faults' + (IF Free(i)' THEN 1 ELSE 0)
<1>1. Copies(i)' = Copies(i)
  BY DEF Copies
<1>2. Cardinality(Stray(i)') <= Cardinality(Stray(i))
  BY StrayCalls, FewerCalls
<1>3. Copies(i) + Cardinality(Stray(i)) + Stopping
        <= faults + (IF Free(i) THEN 1 ELSE 0)
  BY DEF CopyInv
<1> QED
  BY <1>1, <1>2, <1>3, Numbers

(* The calls that a call's end leaves behind. *)
LEMMA EndStray ==
  ASSUME TypeOK, NEW k \in Calls, End(k), NEW i
  PROVE  Stray(i)' \subseteq Stray(i)
BY EndFacts DEF Stray, Item, Active

LEMMA EndFree ==
  ASSUME TypeOK, NEW k \in Calls, End(k), UNCHANGED next, NEW i,
         k \notin here \/ step[k] # "landed", Free(i)
  PROVE  Free(i)'
<1>1. CASE \E c \in Callers : \E j \in 1..(next[c] - 1) : Script[c][j] = i
  BY <1>1 DEF Free
<1>2. ASSUME NEW l \in here, step[l] = "landed", Item(l) = i PROVE Free(i)'
  <2>1. l # k /\ l \in Calls /\ l \in here'
    BY <1>2, EndFacts DEF TypeOK, Active
  <2> QED
    BY <1>2, <2>1, EndFacts DEF Free, Item
<1> QED
  BY <1>1, <1>2 DEF Free

LEMMA CopyInvInit == Init => CopyInv
<1> SUFFICES ASSUME Init, NEW i \in Items
             PROVE  Copies(i) + Cardinality(Stray(i)) + Stopping
                      <= faults + (IF Free(i) THEN 1 ELSE 0)
  BY DEF CopyInv
<1>1. /\ {n \in DOMAIN topic : topic[n] = i} = {} /\ Stray(i) = {}
      /\ Stopping = 0 /\ faults = 0
  BY DEF Init, Stray, Active, Stopping
<1>2. Copies(i) = 0 /\ Cardinality(Stray(i)) = 0
  BY <1>1, FS_EmptySet DEF Copies
<1> QED
  BY <1>1, <1>2

(* A diff is in one place of one script. *)
LEMMA OnePlace ==
  ASSUME NEW c \in Callers, NEW m \in DOMAIN Script[c],
         NEW d \in Callers, NEW n \in DOMAIN Script[d],
         Script[c][m] = Script[d][n]
  PROVE  c = d /\ m = n
BY IngestionAssumption

(* The diff that a call with its caller there is producing is not behind any
   caller, and no other call has it. *)
LEMMA AheadIsNotFree ==
  ASSUME TypeOK, IngestInv, NEW k \in Active, k \in here, step[k] = "produce",
         NEW i \in Items, i = Item(k)
  PROVE  ~Free(i)
<1> USE IngestionAssumption
<1>1. /\ caller[k] \in Callers /\ at[k] = next[caller[k]]
      /\ at[k] \in DOMAIN Script[caller[k]]
      /\ i = Script[caller[k]][at[k]]
  BY DEF IngestInv, CallInv, HasItem, Item
<1>2. ASSUME NEW c \in Callers, NEW j \in 1..(next[c] - 1), Script[c][j] = i
      PROVE  FALSE
  <2>1. j \in DOMAIN Script[c] /\ next[c] \in Nat
    BY DEF IngestInv, TypeOK
  <2>2. c = caller[k] /\ j = at[k]
    BY <1>1, <1>2, <2>1
  <2> QED
    BY <1>1, <2>1, <2>2
<1>3. ASSUME NEW l \in here, step[l] = "landed", Item(l) = i PROVE FALSE
  <2>1. l \in Active /\ CallInv(l)
    BY <1>3 DEF TypeOK, IngestInv
  <2>2. /\ caller[l] \in Callers /\ at[l] \in DOMAIN Script[caller[l]]
        /\ i = Script[caller[l]][at[l]]
    BY <1>3, <2>1 DEF CallInv, HasItem, Item
  <2>3. Script[caller[l]][at[l]] = Script[caller[k]][at[k]]
    BY <1>1, <2>2
  <2>4. caller[l] = caller[k]
    BY <1>1, <2>2, <2>3, OnePlace
  <2>5. l = k
    BY <2>4 DEF IngestInv
  <2> QED
    BY <1>3, <2>5
<1> QED
  BY <1>2, <1>3 DEF Free

LEMMA LandCopy ==
  ASSUME TypeOK, TypeOK', IngestInv, CopyInv, NEW k \in Calls, Land(k),
         NEW i \in Items
  PROVE  Copies(i)' + Cardinality(Stray(i)') + Stopping'
           <= faults' + (IF Free(i)' THEN 1 ELSE 0)
<1> USE IngestionAssumption
<1>1. /\ step[k] = "produce" /\ step'[k] = "landed" /\ k \in Active
      /\ UNCHANGED <<mode, caller, at, here, next, faults>>
      /\ \A l \in Calls : l # k => step'[l] = step[l]
      /\ here \subseteq Calls
  BY DEF Land, TypeOK, Active
<1>2. CallInv(k)
  BY <1>1 DEF IngestInv
<1>3. PICK x \in Items : x = Item(k)
  BY <1>1, <1>2, ItemType DEF CallInv
<1>4. topic' = Append(topic, x)
  BY <1>3 DEF Land
<1>5. Stray(i)' = Stray(i) \ {k}
  <2>1. Active' = Active
    <3>1. \A l \in Calls : step'[l] # "free" <=> step[l] # "free"
      BY <1>1
    <3> QED
      BY <3>1 DEF Active
  <2>2. \A l \in Calls : Item(l)' = Item(l)
    BY <1>1 DEF Item
  <2>3. \A l \in Active : step'[l] = "produce" <=> step[l] = "produce" /\ l # k
    BY <1>1 DEF Active
  <2>4. Active \subseteq Calls /\ here' = here
    BY <1>1 DEF Active
  <2> QED
    BY <2>1, <2>2, <2>3, <2>4 DEF Stray
<1>6. Free(i) => Free(i)'
  <2>1. CASE \E c \in Callers : \E j \in 1..(next[c] - 1) : Script[c][j] = i
    BY <1>1, <2>1 DEF Free
  <2>2. ASSUME NEW l \in here, step[l] = "landed", Item(l) = i PROVE Free(i)'
    BY <1>1, <2>2 DEF Free, Item
  <2> QED
    BY <2>1, <2>2 DEF Free
<1>7. Stopping' = Stopping /\ faults' = faults
  BY <1>1 DEF Stopping
<1>8. Copies(i) + Cardinality(Stray(i)) + Stopping
        <= faults + (IF Free(i) THEN 1 ELSE 0)
  BY DEF CopyInv
<1>9. CASE i # x
  <2>1. Copies(i)' = Copies(i)
    BY <1>4, <1>9, CopiesAppend
  <2>2. Cardinality(Stray(i)') <= Cardinality(Stray(i))
    BY <1>5, StrayCalls, FewerCalls
  <2> QED
    BY <1>6, <1>7, <1>8, <2>1, <2>2, Numbers
<1>10. CASE i = x /\ k \notin here
  <2>1. Copies(i)' = Copies(i) + 1
    BY <1>4, <1>10, CopiesAppend
  <2>2. k \in Stray(i)
    BY <1>1, <1>3, <1>10 DEF Stray
  <2>3. Cardinality(Stray(i)') = Cardinality(Stray(i)) - 1
    BY <1>5, <2>2, StrayCalls, OneCallLess
  <2>4. Copies(i)' + Cardinality(Stray(i)') = Copies(i) + Cardinality(Stray(i))
    BY <2>1, <2>3, Numbers
  <2> QED
    BY <1>6, <1>7, <1>8, <2>4, Numbers
<1>11. CASE i = x /\ k \in here
  <2>1. Copies(i)' = Copies(i) + 1
    BY <1>4, <1>11, CopiesAppend
  <2>2. Cardinality(Stray(i)') <= Cardinality(Stray(i))
    BY <1>5, StrayCalls, FewerCalls
  <2>3. Free(i)'
    BY <1>1, <1>3, <1>11 DEF Free, Item
  <2>4. ~Free(i)
    BY <1>1, <1>3, <1>11, AheadIsNotFree
  <2> QED
    BY <1>7, <1>8, <2>1, <2>2, <2>3, <2>4, Numbers
<1> QED
  BY <1>9, <1>10, <1>11

LEMMA CopyInvStep ==
  TypeOK /\ TypeOK' /\ IngestInv /\ CopyInv /\ [Next]_vars => CopyInv'
<1> SUFFICES ASSUME TypeOK, TypeOK', IngestInv, CopyInv, [Next]_vars,
                    NEW i \in Items
             PROVE  Copies(i)' + Cardinality(Stray(i)') + Stopping'
                      <= faults' + (IF Free(i)' THEN 1 ELSE 0)
  BY DEF CopyInv
<1> DEFINE Goal == Copies(i)' + Cardinality(Stray(i)') + Stopping'
                     <= faults' + (IF Free(i)' THEN 1 ELSE 0)
<1> USE IngestionAssumption
<1>0. here \subseteq Active /\ Active \subseteq Calls
  BY DEF TypeOK, Active
<1>1. ASSUME NEW c \in Callers, Open(c) PROVE Goal
  <2>1. PICK k \in Calls \ Active :
          /\ step' = [step EXCEPT ![k] = "recv"]
          /\ caller' = [caller EXCEPT ![k] = c]
          /\ at' = [at EXCEPT ![k] = next[c]]
          /\ here' = here \cup {k}
    BY <1>1 DEF Open
  <2>2. /\ UNCHANGED <<mode, next, topic, faults>>
        /\ step'[k] = "recv"
        /\ \A l \in Calls : l # k =>
             step'[l] = step[l] /\ caller'[l] = caller[l] /\ at'[l] = at[l]
    BY <1>1, <2>1 DEF Open, TypeOK
  <2>3. Stray(i)' \subseteq Stray(i)
    BY <2>1, <2>2 DEF Stray, Active, Item
  <2>4. Free(i) => Free(i)'
    <3>1. CASE \E d \in Callers : \E j \in 1..(next[d] - 1) : Script[d][j] = i
      BY <2>2, <3>1 DEF Free
    <3>2. ASSUME NEW l \in here, step[l] = "landed", Item(l) = i PROVE Free(i)'
      BY <1>0, <2>1, <2>2, <3>2 DEF Free, Item
    <3> QED
      BY <3>1, <3>2 DEF Free
  <2>5. Stopping' = Stopping
    BY <2>2 DEF Stopping
  <2> QED
    BY <2>2, <2>3, <2>4, <2>5, CopyQuiet
<1>2. ASSUME NEW k \in Calls, HangUp(k) \/ Unheard(k) PROVE Goal
  <2>1. /\ End(k) /\ UNCHANGED <<mode, next, topic, faults>>
        /\ k \notin here \/ step[k] # "landed"
    BY <1>2 DEF HangUp, Unheard
  <2>2. Stopping' = Stopping
    BY <2>1 DEF Stopping
  <2> QED
    BY <2>1, <2>2, EndStray, EndFree, CopyQuiet
<1>3. ASSUME NEW k \in Calls, GiveUp(k) PROVE Goal
  <2>1. /\ UNCHANGED <<mode, next, topic>> /\ faults' = faults + 1
        /\ Stopping' = Stopping
    BY <1>3 DEF GiveUp, Faulty, Stopping
  <2>2. CASE End(k)
    BY <2>1, <2>2, EndStray, CopyMishap, Numbers
  <2>3. CASE here' = here \ {k} /\ UNCHANGED <<step, caller, at>>
    <3>1. Active' = Active /\ \A l \in Calls : Item(l)' = Item(l)
      BY <2>3 DEF Active, Item
    <3>2. CASE step[k] # "produce"
      <4>1. Stray(i)' \subseteq Stray(i)
        BY <1>0, <2>3, <3>1, <3>2 DEF Stray
      <4> QED
        BY <2>1, <4>1, CopyMishap, Numbers
    <3>3. CASE step[k] = "produce"
      <4>1. Stray(i)' \subseteq Stray(i) \cup {k}
        BY <1>0, <2>3, <3>1 DEF Stray
      <4>2. Free(i) => Free(i)'
        <5>1. CASE \E c \in Callers : \E j \in 1..(next[c] - 1) : Script[c][j] = i
          BY <2>1, <5>1 DEF Free
        <5>2. ASSUME NEW l \in here, step[l] = "landed", Item(l) = i
              PROVE  Free(i)'
          BY <2>3, <3>3, <5>2 DEF Free, Item
        <5> QED
          BY <5>1, <5>2 DEF Free
      <4>3. Copies(i)' = Copies(i)
        BY <2>1 DEF Copies
      <4>4. Cardinality(Stray(i)') <= Cardinality(Stray(i)) + 1
        BY <4>1, StrayCalls, OneCallMore
      <4>5. Copies(i) + Cardinality(Stray(i)) + Stopping
              <= faults + (IF Free(i) THEN 1 ELSE 0)
        BY DEF CopyInv
      <4> QED
        BY <2>1, <4>2, <4>3, <4>4, <4>5, Numbers
    <3> QED
      BY <3>2, <3>3
  <2> QED
    BY <1>3, <2>2, <2>3 DEF GiveUp
<1>4. ASSUME NEW k \in Calls, Receive(k) PROVE Goal
  <2>1. /\ step[k] = "recv" /\ k \in here
        /\ UNCHANGED <<mode, caller, at, here, next, topic, faults>>
        /\ \A l \in Calls : l # k => step'[l] = step[l]
    BY <1>4 DEF Receive, TypeOK
  <2>2. Stray(i)' \subseteq Stray(i)
    BY <2>1 DEF Stray, Active, Item
  <2>3. Free(i) => Free(i)'
    <3>1. CASE \E c \in Callers : \E j \in 1..(next[c] - 1) : Script[c][j] = i
      BY <2>1, <3>1 DEF Free
    <3>2. ASSUME NEW l \in here, step[l] = "landed", Item(l) = i PROVE Free(i)'
      BY <1>0, <2>1, <3>2 DEF Free, Item
    <3> QED
      BY <3>1, <3>2 DEF Free
  <2>4. Stopping' = Stopping
    BY <2>1 DEF Stopping
  <2> QED
    BY <2>1, <2>2, <2>3, <2>4, CopyQuiet
<1>5. ASSUME NEW k \in Calls, Refuse(k) PROVE Goal
  <2>1. /\ End(k) /\ UNCHANGED <<mode, topic, faults>> /\ k \in Active
        /\ step[k] = "recv" /\ k \in here
        /\ next' = [next EXCEPT ![caller[k]] = at[k] + 1]
    BY <1>5 DEF Refuse, Active
  <2>2. /\ \A c \in Callers : next[c] \in Nat /\ next'[c] \in Nat
        /\ \A c \in Callers : next[c] <= next'[c]
    BY <2>1 DEF IngestInv, CallInv, TypeOK
  <2>3. Free(i) => Free(i)'
    <3>1. CASE \E c \in Callers : \E j \in 1..(next[c] - 1) : Script[c][j] = i
      <4>1. PICK c \in Callers : \E j \in 1..(next[c] - 1) : Script[c][j] = i
        BY <3>1
      <4>2. 1..(next[c] - 1) \subseteq 1..(next'[c] - 1)
        BY <2>2
      <4> QED
        BY <4>1, <4>2 DEF Free
    <3>2. ASSUME NEW l \in here, step[l] = "landed", Item(l) = i PROVE Free(i)'
      <4>1. l # k /\ l \in Calls /\ l \in here'
        BY <1>0, <2>1, <3>2, EndFacts
      <4> QED
        BY <2>1, <3>2, <4>1, EndFacts DEF Free, Item
    <3> QED
      BY <3>1, <3>2 DEF Free
  <2>4. Stopping' = Stopping
    BY <2>1 DEF Stopping
  <2> QED
    BY <2>1, <2>3, <2>4, EndStray, CopyQuiet
<1>6. ASSUME NEW k \in Calls, Land(k) PROVE Goal
  BY <1>6, LandCopy
<1>7. ASSUME NEW k \in Calls, Ack(k) PROVE Goal
  <2>1. /\ step[k] = "landed" /\ k \in here /\ Answered(k) /\ k \in Active
        /\ UNCHANGED <<mode, topic, faults>>
        /\ next' = [next EXCEPT ![caller[k]] = at[k] + 1]
    BY <1>7 DEF Ack, Answered, Active
  <2>2. /\ caller[k] \in Callers /\ at[k] = next[caller[k]]
        /\ at[k] \in Nat \ {0}
        /\ \A c \in Callers : next[c] \in Nat /\ next'[c] \in Nat
        /\ \A c \in Callers : next[c] <= next'[c]
        /\ next'[caller[k]] = at[k] + 1
    BY <2>1 DEF IngestInv, CallInv, TypeOK
  <2>3. /\ \A l \in Calls : l # k =>
             step'[l] = step[l] /\ caller'[l] = caller[l] /\ at'[l] = at[l]
        /\ here \ {k} \subseteq here' /\ here' \subseteq here
        /\ k \in Active' => step'[k] = "recv"
    <3>1. CASE caller[k] \in Streaming
      BY <1>0, <2>1, <3>1 DEF Answered, TypeOK
    <3>2. CASE caller[k] \notin Streaming
      BY <1>0, <2>1, <3>2, EndFacts DEF Answered
    <3> QED
      BY <3>1, <3>2
  <2>4. Stray(i)' \subseteq Stray(i)
    BY <2>1, <2>3 DEF Stray, Active, Item
  <2>5. Free(i) => Free(i)'
    <3>1. CASE \E c \in Callers : \E j \in 1..(next[c] - 1) : Script[c][j] = i
      <4>1. PICK c \in Callers : \E j \in 1..(next[c] - 1) : Script[c][j] = i
        BY <3>1
      <4>2. 1..(next[c] - 1) \subseteq 1..(next'[c] - 1)
        BY <2>2
      <4> QED
        BY <4>1, <4>2 DEF Free
    <3>2. ASSUME NEW l \in here, step[l] = "landed", Item(l) = i PROVE Free(i)'
      <4>1. CASE l = k
        <5>1. at[k] \in 1..(next'[caller[k]] - 1) /\ Script[caller[k]][at[k]] = i
          BY <2>2, <3>2, <4>1 DEF Item
        <5> QED
          BY <2>2, <5>1 DEF Free
      <4>2. CASE l # k
        BY <1>0, <2>3, <3>2, <4>2 DEF Free, Item
      <4> QED
        BY <4>1, <4>2
    <3> QED
      BY <3>1, <3>2 DEF Free
  <2>6. Stopping' = Stopping
    BY <2>1 DEF Stopping
  <2> QED
    BY <2>1, <2>4, <2>5, <2>6, CopyQuiet
<1>8. ASSUME NEW k \in Calls, Unavailable(k) PROVE Goal
  <2>1. End(k) /\ UNCHANGED <<mode, next, topic>>
    BY <1>8 DEF Unavailable
  <2>2. Stopping' = Stopping
    BY <2>1 DEF Stopping
  <2>3. CASE faults' = faults /\ step[k] = "produce"
    BY <2>1, <2>2, <2>3, EndStray, EndFree, CopyQuiet
  <2>4. CASE faults' = faults + 1
    BY <2>1, <2>2, <2>4, EndStray, CopyMishap, Numbers
  <2> QED
    BY <1>8, <2>3, <2>4 DEF Unavailable, Faulty
<1>9. CASE UNCHANGED vars \/ GrpcDrained \/ Restart
  <2>1. UNCHANGED <<callVars, next, topic, faults>> /\ Stopping' = Stopping
    BY <1>9 DEF vars, GrpcDrained, Restart, Stopping
  <2>2. Stray(i)' = Stray(i) /\ (Free(i)' <=> Free(i))
    BY <2>1 DEF Stray, Free, Active, Item, callVars
  <2> QED
    BY <2>1, <2>2, CopyQuiet
<1>10. CASE Sigterm
  <2>1. /\ UNCHANGED <<callVars, next, topic>> /\ faults' = faults + 1
        /\ Stopping = 0 /\ Stopping' = 1
    BY <1>10 DEF Sigterm, Faulty, Stopping
  <2>2. Stray(i)' = Stray(i) /\ (Free(i)' <=> Free(i)) /\ Copies(i)' = Copies(i)
    BY <2>1 DEF Stray, Free, Active, Item, callVars, Copies
  <2>3. Copies(i) + Cardinality(Stray(i)) + Stopping
          <= faults + (IF Free(i) THEN 1 ELSE 0)
    BY DEF CopyInv
  <2>4. Cardinality(Stray(i)') = Cardinality(Stray(i))
    BY <2>2
  <2> QED
    BY <2>1, <2>2, <2>3, <2>4, Numbers
<1>11. CASE Stopped \/ Crash
  <2>1. /\ Exit /\ UNCHANGED topic
        /\ (faults' = faults /\ Stopping = 1) \/ faults' = faults + 1
    BY <1>11 DEF Stopped, Crash, Exit, Faulty, Stopping
  <2>2. Stray(i)' = {} /\ Stopping' = 0 /\ Copies(i)' = Copies(i)
    BY <2>1, ExitFacts DEF Stray, Stopping, Copies
  <2>3. Cardinality(Stray(i)') = 0
    BY <2>2, FS_EmptySet
  <2>4. Copies(i) + Cardinality(Stray(i)) + Stopping
          <= faults + (IF Free(i) THEN 1 ELSE 0)
    BY DEF CopyInv
  <2> QED
    BY <2>1, <2>2, <2>3, <2>4, Numbers
<1> QED
  BY <1>1, <1>2, <1>3, <1>4, <1>5, <1>6, <1>7, <1>8, <1>9, <1>10, <1>11
     DEF Next, Handle

(* The account of every diff always balances. *)
THEOREM IngestCopies == Spec => []CopyInv
BY IngestInvariant, CopyInvInit, CopyInvStep, PTL DEF Spec

------------------------------------------------------------------------------
(***************************************************************************)
(* The service implements the promise.                                     *)
(***************************************************************************)

LEMMA IntakeInit == Init => Intake!Init
BY DEF Init, Intake!Init

LEMMA SameCopies == ASSUME NEW i PROVE Intake!Copies(i) = Copies(i)
BY DEF Intake!Copies, Copies, Intake!Cardinality, Cardinality

LEMMA IntakeStep ==
  TypeOK /\ IngestInv /\ CopyInv /\ [Next]_vars => [Intake!Next]_(Intake!vars)
<1> SUFFICES ASSUME TypeOK, IngestInv, CopyInv, [Next]_vars
             PROVE  Intake!Next \/ UNCHANGED Intake!vars
  BY DEF Intake!vars
<1> USE IngestionAssumption
<1>1. ASSUME UNCHANGED <<admitted, topic, acked, faults>>
      PROVE  UNCHANGED Intake!vars
  BY <1>1 DEF Intake!vars
<1>2. ASSUME UNCHANGED <<admitted, topic, acked>>, faults' = faults + 1
      PROVE  Intake!Next
  BY <1>2 DEF Intake!Next, Intake!Mishap
<1>3. ASSUME NEW k \in Calls, Receive(k)
      PROVE  Intake!Next \/ UNCHANGED Intake!vars
  <2>1. PICK i \in Items : i = Item(k)
    BY <1>3 DEF Receive
  <2>2. admitted' = admitted \cup {i} /\ UNCHANGED <<topic, acked, faults>>
    BY <1>3, <2>1 DEF Receive
  <2>3. CASE i \in admitted
    BY <1>1, <2>2, <2>3
  <2>4. CASE i \notin admitted
    <3>1. Intake!Promise(i)
      BY <2>2, <2>4 DEF Intake!Promise
    <3> QED
      BY <3>1 DEF Intake!Next
  <2> QED
    BY <2>3, <2>4
<1>4. ASSUME NEW k \in Calls, Land(k) PROVE Intake!Next
  <2>1. /\ step[k] = "produce" /\ k \in Active
        /\ UNCHANGED <<admitted, acked, faults>>
    BY <1>4 DEF Land, Active
  <2>2. CallInv(k)
    BY <2>1 DEF IngestInv
  <2>3. PICK i \in Items : i = Item(k)
    BY <2>1, <2>2, ItemType DEF CallInv
  <2>4. i \in admitted /\ topic' = Append(topic, i)
    BY <1>4, <2>1, <2>2, <2>3 DEF CallInv, Land
  <2>5. Copies(i) <= faults
    <3>1. Copies(i) + Cardinality(Stray(i)) + Stopping
            <= faults + (IF Free(i) THEN 1 ELSE 0)
      BY DEF CopyInv
    <3>2. /\ Copies(i) \in Nat /\ Cardinality(Stray(i)) \in Nat
          /\ faults \in Nat /\ Stopping \in {0, 1}
      <4>1. Copies(i) \in Nat
        BY CopiesFinite
      <4>2. Cardinality(Stray(i)) \in Nat
        BY StrayCalls, SubsetOfCalls
      <4> QED
        BY <4>1, <4>2 DEF Stopping, TypeOK
    <3>3. CASE k \in here
      <4>1. ~Free(i)
        BY <2>1, <2>3, <3>3, AheadIsNotFree
      <4> QED
        BY <3>1, <3>2, <4>1
    <3>4. CASE k \notin here
      <4>1. k \in Stray(i)
        BY <2>1, <2>3, <3>4 DEF Stray
      <4>2. IsFiniteSet(Stray(i))
        BY StrayCalls, SubsetOfCalls
      <4>3. Cardinality(Stray(i)) # 0
        BY <4>1, <4>2, FS_EmptySet
      <4> QED
        BY <3>1, <3>2, <4>3
    <3> QED
      BY <3>3, <3>4
  <2>6. Intake!Copies(i) <= faults
    BY <2>5, SameCopies
  <2>7. Intake!Deliver(i)
    BY <2>1, <2>4, <2>6 DEF Intake!Deliver
  <2> QED
    BY <2>7 DEF Intake!Next
<1>5. ASSUME NEW k \in Calls, Ack(k) PROVE Intake!Next
  <2>1. /\ step[k] = "landed" /\ k \in Active
        /\ acked' = acked \cup {Item(k)} /\ UNCHANGED <<admitted, topic, faults>>
    BY <1>5 DEF Ack, Active
  <2>2. CallInv(k)
    BY <2>1 DEF IngestInv
  <2>3. PICK i \in Items : i = Item(k)
    BY <2>1, <2>2, ItemType DEF CallInv
  <2>4. i \in admitted /\ i \in OnTopic
    BY <2>1, <2>2, <2>3 DEF CallInv
  <2>5. Intake!Delivered(i)
    BY <2>4 DEF OnTopic, Intake!Delivered
  <2>6. Intake!Settle({i})
    BY <2>1, <2>3, <2>4, <2>5 DEF Intake!Settle
  <2> QED
    BY <2>6 DEF Intake!Next
<1>6. \/ UNCHANGED <<admitted, topic, acked, faults>>
      \/ UNCHANGED <<admitted, topic, acked>> /\ faults' = faults + 1
      \/ \E k \in Calls : Receive(k) \/ Land(k) \/ Ack(k)
  BY DEF Next, Handle, Open, HangUp, GiveUp, Refuse, Unavailable, Unheard,
         Sigterm, GrpcDrained, Stopped, Crash, Exit, Restart, vars, Faulty
<1> QED
  BY <1>1, <1>2, <1>3, <1>4, <1>5, <1>6

(* The service implements at-least-once delivery, step by step and copy by
   copy: an acknowledged diff has its record on the topic, and a record beyond
   the first has a fault of its own. *)
THEOREM ImplementsIntake == Spec => IntakeSpec
<1>1. Spec => Intake!Spec
  BY IngestInvariant, IngestCopies, IntakeInit, IntakeStep, PTL
     DEF Spec, Intake!Spec
<1> QED
  BY <1>1 DEF IntakeSpec
==============================================================================
