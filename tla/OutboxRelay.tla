----------------------------- MODULE OutboxRelay -----------------------------
(***************************************************************************)
(* The outbox table and the relays that ship it.  Every orchestrator       *)
(* replica runs a relay; a tick of it is one transaction that claims the   *)
(* lowest pending rows FOR UPDATE SKIP LOCKED, produces each to the        *)
(* verdict topic, marks them published and commits.                        *)
(*                                                                         *)
(* The writer of a row is Saga's transaction: it draws the id when it      *)
(* inserts, and the row becomes visible when it commits, if it does, so    *)
(* that ids may become visible out of order.                               *)
(*                                                                         *)
(* PostgreSQL and Kafka are external.  Rows are locked one by one as the   *)
(* SELECT runs over its snapshot, and a locked row is checked again.       *)
(***************************************************************************)
EXTENDS Naturals, Sequences, FiniteSets

CONSTANTS
  Relays,    \* orchestrator replicas
  None,      \* no relay
  MaxRows,   \* bound on the rows ever inserted
  OrgOf,     \* row -> its organization, the partition key
  Batch,     \* OUTBOX_BATCH
  MaxFaults  \* bound on failed ticks

ASSUME RelayAssumption ==
  /\ IsFiniteSet(Relays)
  /\ None \notin Relays
  /\ MaxRows \in Nat
  /\ DOMAIN OrgOf = 1..MaxRows
  /\ Batch \in Nat \ {0}
  /\ MaxFaults \in Nat

VARIABLES
  nextId,   \* the identity sequence
  state,    \* row -> "absent", "open" (not committed), "there" or "aborted"
  earlier,  \* history: row -> the rows that were there when its id was drawn
  marked,   \* rows with published_at set
  lock,     \* row -> the relay whose transaction locks it
  phase,    \* relay -> "idle", "tick" or "marked" (UPDATE done)
  todo,     \* relay -> rows of the SELECT's snapshot it has not come to
  claimed,  \* relay -> rows its SELECT returned
  sent,     \* relay -> claimed rows it has produced
  topic,    \* rows on the verdict topic, in order, copies included
  faults    \* faults so far

relayVars == <<phase, todo, claimed, sent>>
vars == <<nextId, state, earlier, marked, lock, relayVars, topic, faults>>

Ids == 1..MaxRows
There == {i \in Ids : state[i] = "there"}
OnTopic == {topic[k] : k \in DOMAIN topic}
Faulty == faults < MaxFaults /\ faults' = faults + 1

TypeOK ==
  /\ nextId \in 1..(MaxRows + 1)
  /\ state \in [Ids -> {"absent", "open", "there", "aborted"}]
  /\ earlier \in [Ids -> SUBSET Ids]
  /\ marked \subseteq Ids
  /\ lock \in [Ids -> Relays \cup {None}]
  /\ phase \in [Relays -> {"idle", "tick", "marked"}]
  /\ todo \in [Relays -> SUBSET Ids]
  /\ claimed \in [Relays -> SUBSET Ids]
  /\ sent \in [Relays -> SUBSET Ids]
  /\ topic \in Seq(Ids)
  /\ faults \in 0..MaxFaults

Init ==
  /\ nextId = 1
  /\ state = [i \in Ids |-> "absent"]
  /\ earlier = [i \in Ids |-> {}]
  /\ marked = {}
  /\ lock = [i \in Ids |-> None]
  /\ phase = [r \in Relays |-> "idle"]
  /\ todo = [r \in Relays |-> {}]
  /\ claimed = [r \in Relays |-> {}]
  /\ sent = [r \in Relays |-> {}]
  /\ topic = <<>>
  /\ faults = 0

------------------------------------------------------------------------------
(* The Saga's transactions. *)

Insert ==
  /\ nextId <= MaxRows
  /\ nextId' = nextId + 1
  /\ state' = [state EXCEPT ![nextId] = "open"]
  /\ earlier' = [earlier EXCEPT ![nextId] = There]
  /\ UNCHANGED <<marked, lock, relayVars, topic, faults>>

EndInsert(i) ==
  /\ state[i] = "open"
  /\ \E end \in {"there", "aborted"} : state' = [state EXCEPT ![i] = end]
  /\ UNCHANGED <<nextId, earlier, marked, lock, relayVars, topic, faults>>

------------------------------------------------------------------------------
(* A tick. *)

Pending == There \ marked
\* Variation of IsLowest: no ORDER BY.
IsAny(i, S) == i \in S
IsLowest(i, S) == i \in S /\ \A j \in S : i <= j
Held(r) == \A i \in claimed[r] : lock[i] = r
Scanned(r) == todo[r] = {} \/ Cardinality(claimed[r]) = Batch

\* Variation of EndTick: the locks stay.
EndTickLocked(r) ==
  /\ phase' = [phase EXCEPT ![r] = "idle"]
  /\ todo' = [todo EXCEPT ![r] = {}]
  /\ claimed' = [claimed EXCEPT ![r] = {}]
  /\ sent' = [sent EXCEPT ![r] = {}]
  /\ UNCHANGED <<nextId, state, earlier, lock>>

\* The transaction of r is over: its locks go, and the tick's variables.
EndTick(r) ==
  /\ lock' = [i \in Ids |-> IF lock[i] = r THEN None ELSE lock[i]]
  /\ phase' = [phase EXCEPT ![r] = "idle"]
  /\ todo' = [todo EXCEPT ![r] = {}]
  /\ claimed' = [claimed EXCEPT ![r] = {}]
  /\ sent' = [sent EXCEPT ![r] = {}]
  /\ UNCHANGED <<nextId, state, earlier>>

Begin(r) ==
  /\ phase[r] = "idle"
  /\ phase' = [phase EXCEPT ![r] = "tick"]
  /\ todo' = [todo EXCEPT ![r] = Pending]
  /\ UNCHANGED <<nextId, state, earlier, marked, lock, claimed, sent, topic,
                 faults>>

\* Variation of Scan: the rows others have locked are returned as well.
ScanLocked(r) ==
  /\ phase[r] = "tick"
  /\ ~Scanned(r)
  /\ \E i \in todo[r] :
       /\ IsLowest(i, todo[r])
       /\ todo' = [todo EXCEPT ![r] = @ \ {i}]
       /\ claimed' = [claimed EXCEPT ![r] = @ \cup {i}]
       /\ lock' = [lock EXCEPT ![i] = IF @ = None THEN r ELSE @]
  /\ UNCHANGED <<nextId, state, earlier, marked, phase, sent, topic, faults>>

\* The SELECT comes to its next row: skipped when locked, or marked by now.
Scan(r) ==
  /\ phase[r] = "tick"
  /\ ~Scanned(r)
  /\ Held(r)
  /\ \E i \in todo[r] :
       /\ IsLowest(i, todo[r])
       /\ todo' = [todo EXCEPT ![r] = @ \ {i}]
       /\ IF lock[i] = None /\ i \in Pending
          THEN /\ lock' = [lock EXCEPT ![i] = r]
               /\ claimed' = [claimed EXCEPT ![r] = @ \cup {i}]
          ELSE UNCHANGED <<lock, claimed>>
  /\ UNCHANGED <<nextId, state, earlier, marked, phase, sent, topic, faults>>

\* Variation of Nothing: the transaction is left open.
NothingOpen(r) ==
  /\ phase[r] = "tick"
  /\ Scanned(r)
  /\ claimed[r] = {}
  /\ UNCHANGED vars

\* Nothing claimed: the transaction commits, with no effect.
Nothing(r) ==
  /\ phase[r] = "tick"
  /\ Scanned(r)
  /\ claimed[r] = {}
  /\ EndTick(r)
  /\ UNCHANGED <<marked, topic, faults>>

NextToSend(r, i) ==
  /\ phase[r] = "tick"
  /\ Scanned(r)
  /\ IsLowest(i, claimed[r] \ sent[r])

Publish(r) ==
  /\ \E i \in Ids :
       /\ NextToSend(r, i)
       /\ topic' = Append(topic, i)
       /\ sent' = [sent EXCEPT ![r] = @ \cup {i}]
  /\ UNCHANGED <<nextId, state, earlier, marked, lock, phase, todo, claimed,
                 faults>>

\* Variation of Mark: the rows are marked before they are all sent.
MarkEarly(r) ==
  /\ phase[r] = "tick"
  /\ Scanned(r)
  /\ claimed[r] # {}
  /\ Held(r)
  /\ phase' = [phase EXCEPT ![r] = "marked"]
  /\ UNCHANGED <<nextId, state, earlier, marked, lock, todo, claimed, sent,
                 topic, faults>>

Mark(r) ==
  /\ phase[r] = "tick"
  /\ Scanned(r)
  /\ claimed[r] # {}
  /\ sent[r] = claimed[r]
  /\ Held(r)
  /\ phase' = [phase EXCEPT ![r] = "marked"]
  /\ UNCHANGED <<nextId, state, earlier, marked, lock, todo, claimed, sent,
                 topic, faults>>

CommitTick(r) ==
  /\ phase[r] = "marked"
  /\ Held(r)
  /\ marked' = marked \cup claimed[r]
  /\ EndTick(r)
  /\ UNCHANGED <<topic, faults>>

------------------------------------------------------------------------------
(* What can go wrong with a tick.  Every error ends it in a rollback, and the *)
(* next tick starts over.                                                     *)

\* Variation of Fail: a tick that failed commits.
FailCommits(r) ==
  /\ phase[r] # "idle"
  /\ Faulty
  /\ marked' = marked \cup claimed[r]
  /\ EndTick(r)
  /\ UNCHANGED topic

\* A statement or a produce fails, the context is cancelled, or the process
\* dies.
Fail(r) ==
  /\ phase[r] # "idle"
  /\ Faulty
  /\ EndTick(r)
  /\ UNCHANGED <<marked, topic>>

\* The record got to the topic and the produce reported an error.
PublishUnknown(r) ==
  /\ Faulty
  /\ \E i \in Ids : NextToSend(r, i) /\ topic' = Append(topic, i)
  /\ EndTick(r)
  /\ UNCHANGED marked

\* The commit took effect and reported an error.
CommitUnknown(r) ==
  /\ phase[r] = "marked"
  /\ Held(r)
  /\ Faulty
  /\ marked' = marked \cup claimed[r]
  /\ EndTick(r)
  /\ UNCHANGED topic

\* The database drops the session in mid-tick.  The relay finds out at its next
\* statement: until then it goes on producing what it had claimed.
SessionLost(r) ==
  /\ claimed[r] # {}
  /\ Held(r)
  /\ Faulty
  /\ lock' = [i \in Ids |-> IF lock[i] = r THEN None ELSE lock[i]]
  /\ UNCHANGED <<nextId, state, earlier, marked, relayVars, topic>>

StatementFails(r) ==
  /\ ~Held(r)
  /\ Scanned(r) => sent[r] = claimed[r]
  /\ EndTick(r)
  /\ UNCHANGED <<marked, topic, faults>>

Tick(r) ==
  \/ Begin(r) \/ Scan(r) \/ Nothing(r) \/ Publish(r) \/ Mark(r)
  \/ CommitTick(r) \/ StatementFails(r)

Fault(r) == Fail(r) \/ PublishUnknown(r) \/ CommitUnknown(r) \/ SessionLost(r)

Next ==
  \/ Insert
  \/ \E i \in Ids : EndInsert(i)
  \/ \E r \in Relays : Tick(r) \/ Fault(r)

Spec == Init /\ [][Next]_vars

\* The ticker keeps a relay running, and a transaction of the Saga ends.
FairSpec ==
  /\ Spec
  /\ \A r \in Relays : WF_vars(Tick(r))
  /\ \A i \in Ids : WF_vars(EndInsert(i))

------------------------------------------------------------------------------
(* Properties. *)

(* Nothing is lost: a row is only ever marked published when its event is on
   the topic, whatever fails between producing, marking and committing. *)
MarkedIsOnTopic == marked \subseteq OnTopic

(* Concurrent relays do not ship a row twice by themselves (SKIP LOCKED): every
   extra copy on the topic is paid for by a failed tick. *)
Copies(i) == Cardinality({k \in DOMAIN topic : topic[k] = i})
DuplicateNeedsFault == \A i \in Ids : Copies(i) <= 1 + faults

(* Per-tenant order: an organization's events first appear on the topic in the
   order their transactions ran in.  publisher.go:17-18 promises it ("keyed by
   organization ID (same per-tenant ordering guarantee as submissions)"). *)
TenantOrder ==
  \A k \in DOMAIN topic :
    \A i \in earlier[topic[k]] :
      OrgOf[i] = OrgOf[topic[k]] => \E l \in 1..k : topic[l] = i

(* Relays that skip each other's locks may ship out of order, but no relay ships
   around a row that nobody has in hand: as long as no tick has failed, an event
   on the topic is ahead only of such earlier ones as some relay has claimed and
   is about to ship. *)
InHand(i) == \E r \in Relays : i \in claimed[r]
OvertakenIsInHand ==
  faults = 0 =>
    \A k \in DOMAIN topic : \A i \in earlier[topic[k]] : i \in OnTopic \/ InHand(i)

\* The books of the outbox, as VerdictDelivery keeps them.
Delivery == INSTANCE VerdictDelivery
              WITH Events <- Ids, promised <- There, settled <- marked,
                   mishaps <- faults

(* The relays implement at-least-once delivery, step by step and copy by copy,
   and eventually mark every committed row. *)
DeliverySpec == Delivery!Spec
EveryRowMarked == Delivery!AllSettled

\* Why: a row that is locked is pending and claimed by the relay that locks it,
\* a row a relay has sent is on the topic, and a relay that marks has sent all.
RelayInv ==
  /\ \A i \in Ids : i >= nextId => state[i] = "absent"
  /\ marked \subseteq OnTopic
  /\ OnTopic \subseteq There
  /\ \A i \in Ids : lock[i] # None => i \in claimed[lock[i]] /\ i \notin marked
  /\ \A r \in Relays :
       /\ todo[r] \cup claimed[r] \subseteq There
       /\ todo[r] \cap claimed[r] = {}
       /\ sent[r] \subseteq claimed[r] \cap OnTopic
       /\ phase[r] = "idle" => claimed[r] = {}
       /\ phase[r] = "marked" => sent[r] = claimed[r]
       /\ Held(r) \/ \A i \in Ids : lock[i] # r  \* locks go all at once

\* Why copies are paid for: a row that is locked and not sent, or free, has at
\* most one copy per fault; so has it together with the relays that lost their
\* lock on it and will still produce it.  The copy sent under a lock that is
\* still held, or that led to the mark, is the one that comes for free.
Stray(i) == {r \in Relays : i \in claimed[r] \ sent[r] /\ lock[i] # r}
Free(i) == i \in marked \/ (lock[i] # None /\ i \in sent[lock[i]])
CopyInv ==
  \A i \in Ids :
    Copies(i) + Cardinality(Stray(i)) <= faults + (IF Free(i) THEN 1 ELSE 0)

\* Why what is overtaken is in hand: the SELECT runs in the order of the ids and
\* passes over what is claimed, and a claim ends with the row on the topic.
OvertakingInv ==
  /\ \A i \in Ids : \A j \in earlier[i] : j < i /\ j \in There
  /\ faults = 0 =>
       \A r \in Relays :
         /\ Held(r)
         /\ \A i \in todo[r] \cup claimed[r] : \A j \in earlier[i] :
              \/ j \in OnTopic \/ InHand(j)
              \/ i \in todo[r] /\ j \in todo[r]

\* Why one relay keeps the order, where two do not: it is the only one to lock
\* rows, so that its SELECT, which runs in the order of the ids, passes over no
\* row that is not on the topic; and so does the loop that produces.
OneRelay == \A r, s \in Relays : r = s
OrderInv ==
  /\ \A i \in Ids : \A j \in earlier[i] : j < i /\ j \in There
  /\ \A r \in Relays : \A i \in todo[r] \cup claimed[r] : \A j \in earlier[i] :
       j \in OnTopic \cup claimed[r] \/ (i \in todo[r] /\ j \in todo[r])
  /\ \A k \in DOMAIN topic : \A j \in earlier[topic[k]] :
       \E l \in 1..k : topic[l] = j
==============================================================================
