--------------------------- MODULE VerdictDelivery ---------------------------
(***************************************************************************)
(* What the transactional outbox promises: every verdict event whose       *)
(* transaction committed reaches the topic at least once, no other event   *)
(* does, and an event is struck off the books only after it got there.     *)
(* Extra copies are allowed, one more for every fault.                     *)
(***************************************************************************)
EXTENDS Naturals, Sequences, FiniteSets

CONSTANT Events

VARIABLES
  promised,  \* events whose transaction committed
  topic,     \* the events on the topic, in order, copies included
  settled,   \* events struck off
  mishaps    \* faults so far

vars == <<promised, topic, settled, mishaps>>

Copies(e) == Cardinality({k \in DOMAIN topic : topic[k] = e})
Delivered(e) == \E k \in DOMAIN topic : topic[k] = e

Init ==
  /\ promised = {}
  /\ topic = <<>>
  /\ settled = {}
  /\ mishaps = 0

Promise(e) ==
  /\ e \notin promised
  /\ promised' = promised \cup {e}
  /\ UNCHANGED <<topic, settled, mishaps>>

Deliver(e) ==
  /\ e \in promised
  /\ Copies(e) <= mishaps
  /\ topic' = Append(topic, e)
  /\ UNCHANGED <<promised, settled, mishaps>>

Settle(es) ==
  /\ \A e \in es : e \in promised /\ Delivered(e)
  /\ settled' = settled \cup es
  /\ UNCHANGED <<promised, topic, mishaps>>

\* A fault; an event may get to the topic, and events be struck off, in the
\* very step that fails.
Mishap ==
  /\ mishaps' = mishaps + 1
  /\ \/ UNCHANGED <<promised, topic, settled>>
     \/ \E e \in promised :
          /\ Copies(e) <= mishaps
          /\ topic' = Append(topic, e)
          /\ UNCHANGED <<promised, settled>>
     \/ \E es \in SUBSET promised :
          /\ \A e \in es : Delivered(e)
          /\ settled' = settled \cup es
          /\ UNCHANGED <<promised, topic>>

Next ==
  \/ \E e \in Events : Promise(e) \/ Deliver(e)
  \/ \E es \in SUBSET Events : Settle(es)
  \/ Mishap

Spec == Init /\ [][Next]_vars

AllSettled == \A e \in Events : e \in promised ~> e \in settled

FairSpec == Spec /\ AllSettled
==============================================================================
