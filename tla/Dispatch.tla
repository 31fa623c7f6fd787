------------------------------ MODULE Dispatch ------------------------------
(***************************************************************************)
(* The reporter: replicas that consume code.verdict.v1 and send each       *)
(* verdict to every notifier, once per (submission, notifier) as far as    *)
(* the delivery log can tell.  The log is a claim made before the notifier *)
(* is called and taken back when the call fails; it lives in redis, or in  *)
(* the memory of a replica.  The consumer loop is ConsumerGroup's, and a   *)
(* submission may have several records: the outbox delivers at least once. *)
(***************************************************************************)
EXTENDS ConsumerGroup, Sequences

CONSTANTS
  Ids,        \* submission ids
  Notifiers,  \* the notifiers in the order they are called
  Poison,     \* a record that does not decode or validate
  Content,    \* record -> [id, decision] or Poison
  Mode,       \* "enforce" or "shadow"
  Stores,     \* delivery logs
  Volatile,   \* the logs that are a replica's memory
  Deployments \* the ways the replicas may be given their logs

Decisions == {"approved", "needs_review", "rejected"}
Outcomes == {"success", "neutral", "failure"}
Names == {Notifiers[i] : i \in 1..Len(Notifiers)}
Keys == Ids \X Names

ASSUME DispatchAssumption ==
  /\ Notifiers \in Seq(Names)
  /\ Poison \notin [id : Ids, decision : Decisions]
  /\ Content \in [Records -> [id : Ids, decision : Decisions] \cup {Poison}]
  /\ Mode \in {"enforce", "shadow"}
  /\ Volatile \subseteq Stores
  /\ Deployments \subseteq [Replicas -> Stores]
  /\ \A d \in Deployments : \A r, q \in Replicas :
       d[r] = d[q] /\ d[r] \in Volatile => r = q

VARIABLES
  LogOf,    \* replica -> the log it uses, chosen for good by the deployment
  pc,       \* replica -> "loop", "claim", "notify" or "unmark"
  cur,      \* replica -> the record in hand
  next,     \* replica -> index of the notifier it is at
  bad,      \* replica -> some notifier of the record failed
  marks,    \* log -> the keys marked in it
  posts,    \* history: key -> notifications that reached the destination
  shown,    \* key -> the last outcome the destination got, or None
  skipped,  \* history: keys passed over as already delivered
  refused,  \* history: keys for which the log or the notifier failed
  orphans,  \* history: keys whose claim may have outlived its claimant
  expired,  \* history: keys of which redis dropped a mark
  failed    \* history: records whose Handle returned an error

handlerVars == <<pc, cur, next, bad>>
historyVars == <<skipped, refused, orphans, expired, failed>>
dispatchVars == <<handlerVars, LogOf, marks, posts, shown, historyVars>>
vars == <<groupVars, dispatchVars>>

DispatchTypeOK ==
  /\ LogOf \in Deployments
  /\ pc \in [Replicas -> {"loop", "claim", "notify", "unmark"}]
  /\ cur \in [Replicas -> Records \cup {None}]
  /\ next \in [Replicas -> 1..(Len(Notifiers) + 1)]
  /\ bad \in [Replicas -> BOOLEAN]
  /\ marks \in [Stores -> SUBSET Keys]
  /\ posts \in [Keys -> Nat]
  /\ shown \in [Keys -> Outcomes \cup {None}]
  /\ skipped \cup refused \cup orphans \cup expired \subseteq Keys
  /\ failed \subseteq Records

TypeOK == GroupTypeOK /\ DispatchTypeOK

Init ==
  /\ GroupInit
  /\ LogOf \in Deployments
  /\ pc = [r \in Replicas |-> "loop"]
  /\ cur = [r \in Replicas |-> None]
  /\ next = [r \in Replicas |-> 1]
  /\ bad = [r \in Replicas |-> FALSE]
  /\ marks = [s \in Stores |-> {}]
  /\ posts = [k \in Keys |-> 0]
  /\ shown = [k \in Keys |-> None]
  /\ skipped = {}
  /\ refused = {}
  /\ orphans = {}
  /\ expired = {}
  /\ failed = {}

------------------------------------------------------------------------------
(* Handle. *)

Outcome(decision) ==
  IF decision = "approved" THEN "success"
  ELSE IF decision = "rejected" /\ Mode = "enforce" THEN "failure"
  ELSE "neutral"

\* Variation of Key: one mark for all of a submission's notifiers.
KeyShared(r) == <<Content[cur[r]].id, Notifiers[1]>>

Key(r) == <<Content[cur[r]].id, Notifiers[next[r]]>>
Marked(r) == marks[LogOf[r]]

\* A step whose call can fail: always once the context is cancelled, and as a
\* fault before.
CallFails(r) == IF mode[r] = "stopping" THEN UNCHANGED faults ELSE Faulty

UnchangedGroup == UNCHANGED <<owner, position, head, committed, mode, inflight,
                              handled, dropped>>

\* Variation of SkipPoison: the bad record is tried again.
SkipPoisonRetry(r) ==
  /\ pc[r] = "loop"
  /\ \E rec \in inflight[r] :
       NextInFlight(r, rec) /\ Content[rec] = Poison
  /\ UNCHANGED vars

SkipPoison(r) ==
  /\ pc[r] = "loop"
  /\ \E rec \in inflight[r] :
       /\ NextInFlight(r, rec)
       /\ Content[rec] = Poison
       /\ Return(r, rec)
  /\ UNCHANGED <<faults, dispatchVars>>

Take(r) ==
  /\ pc[r] = "loop"
  /\ \E rec \in inflight[r] :
       /\ NextInFlight(r, rec)
       /\ Content[rec] # Poison
       /\ cur' = [cur EXCEPT ![r] = rec]
  /\ pc' = [pc EXCEPT ![r] = "claim"]
  /\ UNCHANGED <<LogOf, groupVars, next, bad, marks, posts, shown, historyVars>>

\* On to the next notifier.
Advance(r) ==
  /\ pc' = [pc EXCEPT ![r] = "claim"]
  /\ next' = [next EXCEPT ![r] = @ + 1]
  /\ UNCHANGED cur

AtNotifier(r) == pc[r] = "claim" /\ next[r] <= Len(Notifiers)

\* The log answers: redis unless the context is cancelled, the memory always.
Answers(r) == mode[r] = "up" \/ LogOf[r] \in Volatile

\* Variation of MarkNew: SET in place of SET NX.
MarkNewAlways(r) ==
  /\ AtNotifier(r)
  /\ Answers(r)
  /\ mode[r] = "up"
  /\ marks' = [marks EXCEPT ![LogOf[r]] = @ \cup {Key(r)}]
  /\ pc' = [pc EXCEPT ![r] = "notify"]
  /\ UNCHANGED <<LogOf, groupVars, cur, next, bad, posts, shown, historyVars>>

\* The claim is made and the notifier called; with the context cancelled it
\* fails at once.
MarkNew(r) ==
  /\ AtNotifier(r)
  /\ Answers(r)
  /\ Key(r) \notin Marked(r)
  /\ marks' = [marks EXCEPT ![LogOf[r]] = @ \cup {Key(r)}]
  /\ IF mode[r] = "up"
     THEN /\ pc' = [pc EXCEPT ![r] = "notify"]
          /\ UNCHANGED <<bad, refused>>
     ELSE /\ pc' = [pc EXCEPT ![r] = "unmark"]
          /\ bad' = [bad EXCEPT ![r] = TRUE]
          /\ refused' = refused \cup {Key(r)}
  /\ UNCHANGED <<LogOf, groupVars, cur, next, posts, shown, skipped, orphans,
                 expired, failed>>

MarkSeen(r) ==
  /\ AtNotifier(r)
  /\ Answers(r)
  /\ Key(r) \in Marked(r)
  /\ skipped' = skipped \cup {Key(r)}
  /\ Advance(r)
  /\ UNCHANGED <<LogOf, groupVars, bad, marks, posts, shown, refused, orphans,
                 expired, failed>>

\* SETNX reported an error; it may have taken effect.
MarkFails(r) ==
  /\ AtNotifier(r)
  /\ LogOf[r] \notin Volatile
  /\ CallFails(r)
  /\ \/ /\ marks' = [marks EXCEPT ![LogOf[r]] = @ \cup {Key(r)}]
        /\ orphans' = orphans \cup {Key(r)}
     \/ UNCHANGED <<marks, orphans>>
  /\ refused' = refused \cup {Key(r)}
  /\ bad' = [bad EXCEPT ![r] = TRUE]
  /\ Advance(r)
  /\ UnchangedGroup
  /\ UNCHANGED <<LogOf, posts, shown, skipped, expired, failed>>

Post(r) ==
  /\ posts' = [posts EXCEPT ![Key(r)] = @ + 1]
  /\ shown' = [shown EXCEPT ![Key(r)] = Outcome(Content[cur[r]].decision)]

Notify(r) ==
  /\ pc[r] = "notify"
  /\ mode[r] = "up"
  /\ Post(r)
  /\ Advance(r)
  /\ UNCHANGED <<LogOf, groupVars, bad, marks, historyVars>>

\* The destination refused, was not reached, or answered too late.
NotifyFails(r) ==
  /\ pc[r] = "notify"
  /\ CallFails(r)
  /\ Post(r) \/ UNCHANGED <<posts, shown>>
  /\ bad' = [bad EXCEPT ![r] = TRUE]
  /\ refused' = refused \cup {Key(r)}
  /\ pc' = [pc EXCEPT ![r] = "unmark"]
  /\ UnchangedGroup
  /\ UNCHANGED <<LogOf, cur, next, marks, skipped, orphans, expired, failed>>

\* Variation of Unmark: the claim is kept.
UnmarkNot(r) ==
  /\ pc[r] = "unmark"
  /\ Answers(r)
  /\ Advance(r)
  /\ UNCHANGED <<LogOf, groupVars, bad, marks, posts, shown, historyVars>>

Unmark(r) ==
  /\ pc[r] = "unmark"
  /\ Answers(r)
  /\ marks' = [marks EXCEPT ![LogOf[r]] = @ \ {Key(r)}]
  /\ Advance(r)
  /\ UNCHANGED <<LogOf, groupVars, bad, posts, shown, historyVars>>

\* The error of Unmark is dropped: the claim stays, or went nevertheless.
UnmarkFails(r) ==
  /\ pc[r] = "unmark"
  /\ LogOf[r] \notin Volatile
  /\ CallFails(r)
  /\ \/ marks' = [marks EXCEPT ![LogOf[r]] = @ \ {Key(r)}]
     \/ UNCHANGED marks
  /\ orphans' = orphans \cup {Key(r)}
  /\ Advance(r)
  /\ UnchangedGroup
  /\ UNCHANGED <<LogOf, bad, posts, shown, skipped, refused, expired, failed>>

\* All notifiers are done; Handle returns an error if any failed.
Finish(r) ==
  /\ pc[r] = "claim"
  /\ next[r] > Len(Notifiers)
  /\ Return(r, cur[r])
  /\ failed' = IF bad[r] THEN failed \cup {cur[r]} ELSE failed
  /\ pc' = [pc EXCEPT ![r] = "loop"]
  /\ cur' = [cur EXCEPT ![r] = None]
  /\ next' = [next EXCEPT ![r] = 1]
  /\ bad' = [bad EXCEPT ![r] = FALSE]
  /\ UNCHANGED <<LogOf, faults, marks, posts, shown, skipped, refused, orphans,
                 expired>>

------------------------------------------------------------------------------
(* Around Handle. *)

\* The process dies, and its memory with it.
Die(r) ==
  /\ Crash(r) \/ Terminate(r)
  /\ pc' = [pc EXCEPT ![r] = "loop"]
  /\ cur' = [cur EXCEPT ![r] = None]
  /\ next' = [next EXCEPT ![r] = 1]
  /\ bad' = [bad EXCEPT ![r] = FALSE]
  /\ marks' = [s \in Stores |->
                 IF s = LogOf[r] /\ s \in Volatile THEN {} ELSE marks[s]]
  /\ orphans' = IF pc[r] \in {"notify", "unmark"} THEN orphans \cup {Key(r)}
                                                   ELSE orphans
  /\ UNCHANGED <<LogOf, posts, shown, skipped, refused, expired, failed>>

\* redis drops a mark: its 72 hours are over, or memory is short.
Expire ==
  /\ Faulty
  /\ \E s \in Stores \ Volatile : \E k \in marks[s] :
       /\ marks' = [marks EXCEPT ![s] = @ \ {k}]
       /\ expired' = expired \cup {k}
  /\ UnchangedGroup
  /\ UNCHANGED <<LogOf, handlerVars, posts, shown, skipped, refused, orphans,
                 failed>>

Poll(r) ==
  /\ pc[r] = "loop"
  /\ Fetch(r) \/ FetchError(r) \/ LastPoll(r)
  /\ UNCHANGED dispatchVars

Group ==
  /\ \/ \E r \in Replicas : \/ Stop(r) \/ Restart(r)
                            \/ \E p \in Partitions : Assign(p, r)
     \/ \E p \in Partitions : AutoCommit(p)
  /\ UNCHANGED dispatchVars

Handle(r) ==
  \/ SkipPoison(r) \/ Take(r) \/ MarkNew(r) \/ MarkSeen(r) \/ MarkFails(r)
  \/ Notify(r) \/ NotifyFails(r) \/ Unmark(r) \/ UnmarkFails(r) \/ Finish(r)

Next ==
  \/ Group
  \/ Expire
  \/ \E r \in Replicas : Poll(r) \/ Handle(r) \/ Die(r)

Spec == Init /\ [][Next]_vars

\* Scheduling, as for the Saga.
FetchSome(r) ==
  /\ pc[r] = "loop"
  /\ Fetch(r)
  /\ inflight'[r] # {}
  /\ UNCHANGED dispatchVars
Adopt(p) ==
  /\ owner[p] = None
  /\ \E r \in Replicas : Assign(p, r)
  /\ UNCHANGED dispatchVars

FairSpec ==
  /\ Spec
  /\ \A r \in Replicas :
       /\ WF_vars(Handle(r))
       /\ WF_vars(FetchSome(r))
       /\ WF_vars(mode[r] = "stopping" /\ Die(r))
       /\ WF_vars(Restart(r) /\ UNCHANGED dispatchVars)
  /\ \A p \in Partitions : WF_vars(Adopt(p))

------------------------------------------------------------------------------
(* Properties. *)

\* r has claimed Key(r) and has not let go of it.
Holds(r) == pc[r] \in {"notify", "unmark"}

InProgress(k) == \E r \in Replicas : Holds(r) /\ Key(r) = k

\* What became of a key is known: delivered, under way, or a call failed.
Accounted(k) == posts[k] > 0 \/ k \in refused \cup orphans \/ InProgress(k)

\* The replicas share s, which outlives them.
SharedLog(s) == s \notin Volatile /\ \A r \in Replicas : LogOf[r] = s

\* The verdicts of a submission, those of them that precede rec in its partition,
\* and: destination k shows that of rec, which is the first.
Valid(id) == {rec \in Records : Content[rec] # Poison /\ Content[rec].id = id}
Before(rec) ==
  {old \in Valid(Content[rec].id) : old[1] = rec[1] /\ old[2] < rec[2]}
Shows(k, rec) ==
  shown[k] = Outcome(Content[rec].decision) /\ Before(rec) \subseteq dropped

(* A destination gets a submission's verdict once, however often its event is
   on the topic and whichever replicas handle the copies; each further time is
   paid for by a fault. *)
DuplicateNeedsFault == \A k \in Keys : posts[k] <= 1 + faults

(* What the delivery log holds is what it is meant to hold (ports.go:18,
   "pairs already succeeded"), apart from claims in progress and those whose
   claimant died or lost touch with the log: a failed notification is never
   left behind as a delivered one. *)
MarkMeansDelivered ==
  \A s \in Stores : \A k \in marks[s] :
    posts[k] > 0 \/ k \in orphans \/ InProgress(k)

(* With the log in memory, a restart forgets what was delivered but never
   leaves a mark that no delivery stands behind: the sender of a marked
   notification has had its success, or is at it. *)
NoOrphanInMemory ==
  \A s \in Volatile : \A k \in marks[s] : posts[k] > 0 \/ InProgress(k)

(* No interleaving of replicas, copies and rebalances by itself makes a
   destination miss a verdict: when a record has been handled, each of its
   destinations has it, or is getting it, or had a call of its own fail. *)
NoSilentLoss ==
  \A rec \in handled : Content[rec] # Poison =>
    \A n \in Names : Accounted(<<Content[rec].id, n>>)

(* The first verdict stands.  Of several verdicts for a submission -- a rerun of
   the Saga, a row shipped twice -- replicas that share a log show a destination
   one, and it is the first that was not discarded: no rebalance, crash or late
   answer puts a later verdict before it or over it.  The exceptions are the
   destination's own: a call for it failed, or redis dropped its mark.  Where no
   fetch is discarded, the destinations of a submission thus agree. *)
FirstVerdictStands ==
  (\E s \in Stores : SharedLog(s)) =>
    \A k \in Keys : posts[k] > 0 /\ k \notin refused \cup expired =>
      posts[k] = 1 /\ \E rec \in Valid(k[1]) : Shows(k, rec)

(* With finitely many faults every valid verdict is handled: each destination
   gets it unless a call for it failed or its fetch was discarded. *)
EveryVerdictReported ==
  \A rec \in Records : \A n \in Names :
    <>(\/ Content[rec] = Poison
       \/ rec \in dropped
       \/ posts[<<Content[rec].id, n>>] > 0
       \/ <<Content[rec].id, n>> \in refused \cup orphans)

(* dispatch.go:49 passes over a marked destination as "already delivered to
   this destination", and :15-17 says that a redelivery only retries the
   destinations that have not succeeded yet.  A destination passed over has had
   the submission's verdict, or is being sent it. *)
SkippedWasDelivered == \A k \in skipped : posts[k] > 0 \/ InProgress(k)

\* The inductive invariant.  A handler has accounted for the notifiers behind
\* it; a mark in a log stands for a delivery, for a claim of a replica that uses
\* this very log, or, unless the log is a memory, for an orphan.
HandlerInv ==
  \A r \in Replicas :
    /\ pc[r] = "loop" => next[r] = 1
    /\ pc[r] # "loop" =>
         /\ cur[r] \in Records
         /\ Content[cur[r]] # Poison
         /\ \A i \in 1..(next[r] - 1) :
              Accounted(<<Content[cur[r]].id, Notifiers[i]>>)
    /\ Holds(r) => next[r] <= Len(Notifiers)
    /\ pc[r] = "unmark" => Key(r) \in refused

ClaimedIn(s, k) ==
  \E r \in Replicas : LogOf[r] = s /\ Holds(r) /\ Key(r) = k

MarksInv ==
  \A s \in Stores : \A k \in marks[s] :
    posts[k] > 0 \/ ClaimedIn(s, k) \/ (k \in orphans /\ s \notin Volatile)

DispatchInv == HandlerInv /\ MarksInv /\ NoSilentLoss

\* The records of a submission share a partition: the outbox publishes under
\* the submission's organization as the key.
Home(p, id) ==
  \A rec \in Records :
    Content[rec] # Poison /\ Content[rec].id = id => rec[1] = p
OnePartition == \A id \in Ids : \E p \in Partitions : Home(p, id)

\* The replicas are configured alike: they share a log that outlives them, or
\* each has its memory -- which helps only if copies come to the same replica.
OwnMemories == \A r \in Replicas : LogOf[r] \in Volatile

Uniform ==
  \A d \in Deployments :
    \/ \E s \in Stores \ Volatile : \A r \in Replicas : d[r] = s
    \/ OnePartition /\ \A r \in Replicas : d[r] \in Volatile

\* The account of a key: besides what it was posted there are the claims on it,
\* those of them that can be posted and dropped at no cost, and the next claim.
Claimants(k) == {r \in Replicas : Holds(r) /\ Key(r) = k}
Hasty(k) == {r \in Claimants(k) : pc[r] = "notify" /\ mode[r] = "stopping"}
Free(s, k) == IF k \in marks[s] THEN 0 ELSE 1

SharedAccount(s, k) ==
  /\ IsFiniteSet(Claimants(k))
  /\ posts[k] + Cardinality(Claimants(k)) + Cardinality(Hasty(k)) + Free(s, k)
       <= 1 + faults

\* In memory a claim is no use to a replica that is stopping, and each replica
\* that comes to serve the partition may claim the key once.
Posting(k) == {r \in Claimants(k) : pc[r] = "notify" \/ mode[r] # "stopping"}
MayClaim(p, k) == {r \in Serving(p) : k \notin Marked(r)}

MemoryAccount(p, k) ==
  /\ IsFiniteSet(Posting(k)) /\ IsFiniteSet(MayClaim(p, k))
  /\ posts[k] + Cardinality(Posting(k)) + Cardinality(MayClaim(p, k)) + Loose(p)
       <= 1 + faults

\* A handler has its record in flight, and what a key was posted and may still
\* be posted is paid for by the faults; a memory's account of a key is kept on
\* the partition of its submission.
AccountInv ==
  /\ \A r \in Replicas : pc[r] # "loop" => cur[r] \in inflight[r]
  /\ \A s \in Stores, k \in Keys : SharedLog(s) => SharedAccount(s, k)
  /\ OwnMemories =>
       \A p \in Partitions, k \in Keys : Home(p, k[1]) => MemoryAccount(p, k)

\* Why the first verdict stands: in the shared log a key is marked from the claim
\* on, one replica at a time has claimed it, for the first of its verdicts, and
\* handlers work in the order of the records.
Clean(k) == k \notin refused \cup expired

StandsIn(s, k) ==
  /\ Accounted(k) => k \in marks[s]
  /\ posts[k] > 0 => posts[k] = 1 /\ \E rec \in Valid(k[1]) : Shows(k, rec)
  /\ \A r \in Claimants(k) :
       /\ posts[k] = 0
       /\ Claimants(k) = {r}
       /\ Before(cur[r]) \subseteq dropped

FirstInv ==
  /\ InOrder
  /\ \A r \in Replicas : pc[r] # "loop" => NextInFlight(r, cur[r])
  /\ \A s \in Stores, k \in Keys : SharedLog(s) /\ Clean(k) => StandsIn(s, k)
==============================================================================
