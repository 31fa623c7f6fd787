---------------------------- MODULE ConsumerGroup ----------------------------
(***************************************************************************)
(* The consumer loop that the orchestrator (code.submission.v1) and the    *)
(* reporter (code.verdict.v1) share: a franz-go client with the library's  *)
(* default settings, PollFetches in a loop, and a handler per record that  *)
(* reports nothing back to the loop.                                       *)
(*                                                                         *)
(* The broker and the client library are external; they are modelled from  *)
(* how the loop uses them.  By default the client autocommits in the       *)
(* background, and it is the next call of PollFetches that makes the       *)
(* records of the previous call committable, whatever became of them.      *)
(*                                                                         *)
(* A record is <<p, o>>: the o-th record of partition p, counted from 1.   *)
(* An offset is a number of records: "the first n records of p".           *)
(***************************************************************************)
EXTENDS Naturals, FiniteSets

CONSTANTS
  Replicas,    \* processes of the consumer group
  Partitions,  \* partitions of the consumed topic
  TopicLen,    \* number of records in each partition
  None,        \* nobody
  MaxFaults    \* bound on crashes, shutdowns, rebalances and errors

ASSUME GroupAssumption ==
  /\ None \notin Replicas
  /\ TopicLen \in [Partitions -> Nat]
  /\ MaxFaults \in Nat

VARIABLES
  owner,      \* partition -> the live member that is assigned it, or None
  position,   \* partition -> how far PollFetches has returned it to its owner
  head,       \* partition -> how far an autocommit may commit
  committed,  \* partition -> the offset the group has committed
  mode,       \* replica -> "up", "stopping" (context cancelled) or "down"
  inflight,   \* replica -> records of the current fetch still to be handled
  handled,    \* history: records a handler call has returned for
  dropped,    \* history: records of fetches discarded for a fetch error
  faults      \* faults so far

groupVars == <<owner, position, head, committed, mode, inflight, handled,
               dropped, faults>>

Records == UNION {{p} \X (1..TopicLen[p]) : p \in Partitions}

\* Every fault counts against the bound.
Faulty == faults < MaxFaults /\ faults' = faults + 1

GroupTypeOK ==
  /\ owner \in [Partitions -> Replicas \cup {None}]
  /\ position \in [Partitions -> Nat]
  /\ head \in [Partitions -> Nat]
  /\ committed \in [Partitions -> Nat]
  /\ mode \in [Replicas -> {"up", "stopping", "down"}]
  /\ inflight \in [Replicas -> SUBSET Records]
  /\ handled \subseteq Records
  /\ dropped \subseteq Records
  /\ faults \in 0..MaxFaults

GroupInit ==
  /\ owner = [p \in Partitions |-> None]
  /\ position = [p \in Partitions |-> 0]
  /\ head = [p \in Partitions |-> 0]
  /\ committed = [p \in Partitions |-> 0]
  /\ mode = [r \in Replicas |-> "up"]
  /\ inflight = [r \in Replicas |-> {}]
  /\ handled = {}
  /\ dropped = {}
  /\ faults = 0

------------------------------------------------------------------------------
(* The Run loop of a replica. *)

\* What a call of PollFetches makes committable: everything returned before.
HeadAfterPoll(r) ==
  [p \in Partitions |-> IF owner[p] = r THEN position[p] ELSE head[p]]

\* The records of r's partitions between its positions and upto.
FetchedUpTo(r, upto) ==
  {rec \in Records : /\ owner[rec[1]] = r
                     /\ position[rec[1]] < rec[2]
                     /\ rec[2] <= upto[rec[1]]}

\* PollFetches is called when the previous fetch has been handled; it returns
\* some more records of the assigned partitions (none: it is still blocked).
PollFetches(r, upto) ==
  /\ mode[r] = "up"
  /\ inflight[r] = {}
  /\ \A p \in Partitions :
       /\ position[p] <= upto[p] /\ upto[p] <= TopicLen[p]
       /\ owner[p] # r => upto[p] = position[p]
  /\ head' = HeadAfterPoll(r)
  /\ position' = upto
  /\ UNCHANGED <<owner, committed, mode>>

Offsets == UNION {0..TopicLen[p] : p \in Partitions}

\* The fetch came back without an error entry: EachRecord starts on it.
Fetch(r) ==
  /\ \E upto \in [Partitions -> Offsets] :
       /\ PollFetches(r, upto)
       /\ inflight' = [inflight EXCEPT ![r] = FetchedUpTo(r, upto)]
  /\ UNCHANGED <<handled, dropped, faults>>

\* Some partition of the fetch reported an error: the loop logs it and polls
\* again, and the records that came in the same fetch are never looked at.
FetchError(r) ==
  /\ Faulty
  /\ \E upto \in [Partitions -> Offsets] :
       /\ PollFetches(r, upto)
       /\ dropped' = dropped \cup FetchedUpTo(r, upto)
  /\ UNCHANGED <<inflight, handled>>

\* With the context cancelled PollFetches returns at once, and Run with it;
\* by then the call has made the last fetch committable.
LastPoll(r) ==
  /\ mode[r] = "stopping"
  /\ inflight[r] = {}
  /\ head' = HeadAfterPoll(r)
  /\ UNCHANGED <<owner, position, committed, mode, inflight, handled, dropped,
                 faults>>

\* EachRecord goes through a partition in offset order.
NextInFlight(r, rec) ==
  /\ rec \in inflight[r]
  /\ \A other \in inflight[r] : other[1] = rec[1] => rec[2] <= other[2]

\* The handler returned: with nothing to tell the loop, success or not.
Return(r, rec) ==
  /\ rec \in inflight[r]
  /\ inflight' = [inflight EXCEPT ![r] = @ \ {rec}]
  /\ handled' = handled \cup {rec}
  /\ UNCHANGED <<owner, position, head, committed, mode, dropped>>

------------------------------------------------------------------------------
(* The group: assignment, autocommit, and the life of a replica. *)

\* p goes to r, which starts at the committed offset.  The old owner, if there
\* is one, commits what it may when it gives p up (or fails to), and is not
\* told to stop: it goes on with the records it has in flight.
Assign(p, r) ==
  /\ mode[r] = "up"
  /\ owner[p] # r
  /\ IF owner[p] = None THEN UNCHANGED faults ELSE Faulty
  /\ \E c \in {committed[p], head[p]} :
       /\ committed' = [committed EXCEPT ![p] = c]
       /\ head' = [head EXCEPT ![p] = c]
       /\ position' = [position EXCEPT ![p] = c]
  /\ owner' = [owner EXCEPT ![p] = r]
  /\ UNCHANGED <<mode, inflight, handled, dropped>>

AutoCommit(p) ==
  /\ owner[p] # None
  /\ committed' = [committed EXCEPT ![p] = head[p]]
  /\ UNCHANGED <<owner, position, head, mode, inflight, handled, dropped,
                 faults>>

\* r leaves the group; its partitions wait at their committed offsets.
Leave(r, newCommitted) ==
  /\ committed' = newCommitted
  /\ owner' = [p \in Partitions |-> IF owner[p] = r THEN None ELSE owner[p]]
  /\ head' = [p \in Partitions |-> IF owner[p] = r THEN newCommitted[p]
                                                   ELSE head[p]]
  /\ position' = [p \in Partitions |-> IF owner[p] = r THEN newCommitted[p]
                                                       ELSE position[p]]
  /\ mode' = [mode EXCEPT ![r] = "down"]
  /\ inflight' = [inflight EXCEPT ![r] = {}]
  /\ UNCHANGED <<handled, dropped>>

\* The process dies; the broker notices when its session expires.
Crash(r) ==
  /\ mode[r] # "down"
  /\ Faulty
  /\ Leave(r, committed)

\* SIGTERM: the context of the consumer loop is cancelled.
Stop(r) ==
  /\ mode[r] = "up"
  /\ Faulty
  /\ mode' = [mode EXCEPT ![r] = "stopping"]
  /\ UNCHANGED <<owner, position, head, committed, inflight, handled, dropped>>

\* Variation of Terminate: all that was fetched is committed.
TerminateAtPosition(r) ==
  /\ mode[r] = "stopping"
  /\ Leave(r, [p \in Partitions |-> IF owner[p] = r THEN position[p]
                                                    ELSE committed[p]])
  /\ UNCHANGED faults

\* run returns and its deferred cleanup closes the client, which commits and
\* leaves.  Nothing waits for the consumer loop: it may still be in a handler.
Terminate(r) ==
  /\ mode[r] = "stopping"
  /\ Leave(r, [p \in Partitions |-> IF owner[p] = r THEN head[p]
                                                    ELSE committed[p]])
  /\ UNCHANGED faults

Restart(r) ==
  /\ mode[r] = "down"
  /\ mode' = [mode EXCEPT ![r] = "up"]
  /\ UNCHANGED <<owner, position, head, committed, inflight, handled, dropped,
                 faults>>

------------------------------------------------------------------------------
(* The group alone, with any handler: what a component that consumes from   *)
(* the group implements.                                                    *)

\* A call of the handler fails, at no cost to the loop.
HandlerFault ==
  /\ Faulty
  /\ UNCHANGED <<owner, position, head, committed, mode, inflight, handled,
                 dropped>>

GroupNext ==
  \/ \E r \in Replicas :
       \/ Fetch(r) \/ FetchError(r) \/ LastPoll(r)
       \/ Crash(r) \/ Stop(r) \/ Terminate(r) \/ Restart(r)
       \/ \E rec \in Records : Return(r, rec) /\ (UNCHANGED faults \/ Faulty)
       \/ \E p \in Partitions : Assign(p, r)
  \/ \E p \in Partitions : AutoCommit(p)
  \/ HandlerFault

GroupSpec == GroupInit /\ [][GroupNext]_groupVars

------------------------------------------------------------------------------

\* What became of a record: its handler returned, or its fetch was discarded.
Settled == handled \cup dropped

(* The group's offset never passes a record nobody has dealt with: a crash, *)
(* a rebalance or a restart between polling a record and handling it always *)
(* leaves it to be fetched again.  (What "dealt with" may mean -- the       *)
(* handler can have failed -- is for the component to say.)                 *)
CommittedSettled ==
  \A rec \in Records : rec[2] <= committed[rec[1]] => rec \in Settled

\* The reason: what may be committed is settled, and what has been returned to
\* the owner is settled or still in its hands.
GroupInv ==
  /\ \A p \in Partitions :
       /\ committed[p] <= head[p]
       /\ head[p] <= position[p]
       /\ position[p] <= TopicLen[p]
       /\ owner[p] = None => position[p] = committed[p]
  /\ \A rec \in Records :
       /\ rec[2] <= head[rec[1]] => rec \in Settled
       /\ rec[2] <= position[rec[1]] =>
            \/ rec \in Settled
            \/ owner[rec[1]] # None /\ rec \in inflight[owner[rec[1]]]

\* A replica has dealt with what precedes the records in its hands, or has it
\* in its hands too; also when the partition is no longer its own.
InOrder ==
  \A r \in Replicas : \A rec \in inflight[r] : \A old \in Records :
    old[1] = rec[1] /\ old[2] < rec[2] => old \in inflight[r] \cup Settled

(* What a copy costs.  A record is fetched again only when the group goes    *)
(* back on it, and that takes a fault: these count the turns a record, or a  *)
(* partition, may still have without one.                                    *)

\* The replicas that have rec in hand.
Holders(rec) == {r \in Replicas : rec \in inflight[r]}

\* p is with a member that goes on consuming it.
Settles(p) == owner[p] \in Replicas /\ mode[owner[p]] # "stopping"

\* rec will be fetched if nothing fails: not fetched yet, or its partition is
\* about to start again from the committed offset.
Due(rec) == IF Settles(rec[1]) /\ rec[2] <= position[rec[1]] THEN 0 ELSE 1

\* r may come to handle a record of p, or has one in hand.
Serves(r, p) == owner[p] = r \/ \E rec \in inflight[r] : rec[1] = p

\* The replicas that serve p and may still do something with its records.
Serving(p) == {r \in Replicas : mode[r] # "stopping" /\ Serves(r, p)}

\* p will be given to some replica if nothing fails.
Loose(p) == IF Settles(p) THEN 0 ELSE 1
==============================================================================
