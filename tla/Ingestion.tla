------------------------------ MODULE Ingestion ------------------------------
(***************************************************************************)
(* The ingestion service: the gRPC stream and the one-shot calls (unary    *)
(* gRPC, webhook) that validate a diff, give it a fresh id, produce it to  *)
(* code.submission.v1 and only then acknowledge it; and the life of the    *)
(* process, with the order in which it shuts its servers down.             *)
(*                                                                         *)
(* Every attempt at a diff draws a new submission id, so that nothing      *)
(* downstream can tell a retry from a new diff: a record of the topic is   *)
(* shown by its diff alone, copies included.                               *)
(*                                                                         *)
(* The callers are external.  A caller sends its diffs in order, goes on   *)
(* to the next when one is acknowledged or refused as invalid, and sends   *)
(* the same diff again when it gets no answer or one that the service      *)
(* calls retryable.  Kafka is external too.                                *)
(***************************************************************************)
EXTENDS Naturals, Sequences, FiniteSets

CONSTANTS
  Callers,    \* IDEs and repository hosts
  Streaming,  \* the callers that use StreamCodeDiff
  Webhook,    \* the callers that use the HTTP webhook
  Items,      \* diffs
  Script,     \* caller -> the diffs it submits, in order
  Valid,      \* the diffs NewSubmission accepts
  Fits,       \* the diffs whose record is within the broker's size limit
  Calls,      \* 1 .. the number of calls that are open at one time
  Nobody,     \* no caller
  MaxFaults   \* bound on crashes, shutdowns, lost callers and produce errors

ASSUME IngestionAssumption ==
  /\ Streaming \subseteq Callers
  /\ Webhook \subseteq Callers \ Streaming
  /\ Script \in [Callers -> Seq(Items)]
  /\ Valid \subseteq Items
  /\ Fits \subseteq Items
  /\ Calls \subseteq Nat
  /\ IsFiniteSet(Calls)
  /\ Nobody \notin Callers
  /\ MaxFaults \in Nat
     \* a diff is in one place of one script
  /\ \A c, d \in Callers : \A i \in DOMAIN Script[c], j \in DOMAIN Script[d] :
       Script[c][i] = Script[d][j] => c = d /\ i = j

VARIABLES
  mode,      \* "up", "draining" (gRPC), "closing" (HTTP) or "down"
  step,      \* call -> "free", "recv", "produce" or "landed" (record appended)
  caller,    \* call -> whose it is, Nobody when it is free
  at,        \* call -> the place in the script it has come to, 0 when free
  here,      \* the calls whose caller is still there
  next,      \* caller -> the first place of its script that is not settled
  admitted,  \* history: diffs NewSubmission accepted
  acked,     \* diffs acknowledged to their caller
  refused,   \* diffs whose caller was told that they are invalid
  topic,     \* code.submission.v1: the diffs of its records, in order
  faults     \* faults so far

callVars == <<step, caller, at, here>>
vars == <<mode, callVars, next, admitted, acked, refused, topic, faults>>

Faulty == faults < MaxFaults /\ faults' = faults + 1
Active == {k \in Calls : step[k] # "free"}
OnHTTP(k) == caller[k] \in Webhook
HasItem(k) == at[k] \in DOMAIN Script[caller[k]]
Item(k) == Script[caller[k]][at[k]]
OnTopic == {topic[n] : n \in DOMAIN topic}

TypeOK ==
  /\ mode \in {"up", "draining", "closing", "down"}
  /\ step \in [Calls -> {"free", "recv", "produce", "landed"}]
  /\ caller \in [Calls -> Callers \cup {Nobody}]
  /\ at \in [Calls -> Nat]
  /\ here \subseteq Active
  /\ next \in [Callers -> Nat \ {0}]
  /\ acked \cup refused \cup admitted \subseteq Items
  /\ topic \in Seq(Items)
  /\ faults \in 0..MaxFaults

Init ==
  /\ mode = "up"
  /\ step = [k \in Calls |-> "free"]
  /\ caller = [k \in Calls |-> Nobody]
  /\ at = [k \in Calls |-> 0]
  /\ here = {}
  /\ next = [c \in Callers |-> 1]
  /\ admitted = {}
  /\ acked = {}
  /\ refused = {}
  /\ topic = <<>>
  /\ faults = 0

------------------------------------------------------------------------------
(* The callers. *)

\* The gRPC server takes new calls until the shutdown begins, the webhook
\* until its own turn comes.
Accepting(c) == mode = "up" \/ (mode = "draining" /\ c \in Webhook)

Open(c) ==
  /\ Accepting(c)
  /\ \A k \in here : caller[k] # c
  /\ next[c] \in DOMAIN Script[c]
  /\ \E k \in Calls \ Active :
       /\ \A l \in Calls \ Active : k <= l
       /\ step' = [step EXCEPT ![k] = "recv"]
       /\ caller' = [caller EXCEPT ![k] = c]
       /\ at' = [at EXCEPT ![k] = next[c]]
       /\ here' = here \cup {k}
  /\ UNCHANGED <<mode, next, admitted, acked, refused, topic, faults>>

\* The call is over, on both sides.
End(k) ==
  /\ step' = [step EXCEPT ![k] = "free"]
  /\ caller' = [caller EXCEPT ![k] = Nobody]
  /\ at' = [at EXCEPT ![k] = 0]
  /\ here' = here \ {k}

\* The stream's caller has no more diffs: Recv returns io.EOF.
HangUp(k) ==
  /\ step[k] = "recv"
  /\ k \in here
  /\ ~HasItem(k)
  /\ End(k)
  /\ UNCHANGED <<mode, next, admitted, acked, refused, topic, faults>>

\* The caller is gone (a timeout of its own, a lost connection).  The handler
\* finds out when it receives or answers: a produce under way goes on.
GiveUp(k) ==
  /\ k \in here
  /\ Faulty
  /\ \/ step[k] = "recv" /\ End(k)
     \/ /\ step[k] # "recv"
        /\ here' = here \ {k}
        /\ UNCHANGED <<step, caller, at>>
  /\ UNCHANGED <<mode, next, admitted, acked, refused, topic>>

------------------------------------------------------------------------------
(* A handler: SubmitDiff, ServeHTTP, or a turn of StreamCodeDiff's loop. *)

\* Variation of Receive: the diff is acknowledged before it is produced.
ReceiveEarlyAck(k) ==
  /\ step[k] = "recv"
  /\ k \in here
  /\ HasItem(k)
  /\ Item(k) \in Valid
  /\ step' = [step EXCEPT ![k] = "produce"]
  /\ admitted' = admitted \cup {Item(k)}
  /\ acked' = acked \cup {Item(k)}
  /\ UNCHANGED <<mode, caller, at, here, next, refused, topic, faults>>

Receive(k) ==
  /\ step[k] = "recv"
  /\ k \in here
  /\ HasItem(k)
  /\ Item(k) \in Valid
  /\ step' = [step EXCEPT ![k] = "produce"]
  /\ admitted' = admitted \cup {Item(k)}
  /\ UNCHANGED <<mode, caller, at, here, next, acked, refused, topic, faults>>

\* Variation of Refuse: the call ends and its caller is not told why.
RefuseSilently(k) ==
  /\ step[k] = "recv"
  /\ k \in here
  /\ HasItem(k)
  /\ Item(k) \notin Valid
  /\ End(k)
  /\ UNCHANGED <<mode, next, admitted, acked, refused, topic, faults>>

\* KindValidation: InvalidArgument or 400, which also ends a stream.
Refuse(k) ==
  /\ step[k] = "recv"
  /\ k \in here
  /\ HasItem(k)
  /\ Item(k) \notin Valid
  /\ refused' = refused \cup {Item(k)}
  /\ next' = [next EXCEPT ![caller[k]] = at[k] + 1]
  /\ End(k)
  /\ UNCHANGED <<mode, admitted, acked, topic, faults>>

\* All in-sync replicas have the record; ProduceSync has not returned yet.
Land(k) ==
  /\ step[k] = "produce"
  /\ Item(k) \in Fits
  /\ topic' = Append(topic, Item(k))
  /\ step' = [step EXCEPT ![k] = "landed"]
  /\ UNCHANGED <<mode, caller, at, here, next, admitted, acked, refused, faults>>

\* The caller has its answer: a stream waits for the next diff, any other call
\* is over.
Answered(k) ==
  /\ next' = [next EXCEPT ![caller[k]] = at[k] + 1]
  /\ IF caller[k] \in Streaming
     THEN /\ step' = [step EXCEPT ![k] = "recv"]
          /\ at' = [at EXCEPT ![k] = at[k] + 1]
          /\ UNCHANGED <<caller, here>>
     ELSE End(k)

Ack(k) ==
  /\ step[k] = "landed"
  /\ k \in here
  /\ acked' = acked \cup {Item(k)}
  /\ Answered(k)
  /\ UNCHANGED <<mode, admitted, refused, topic, faults>>

\* Variation of Unavailable: the stream goes on to the next diff.
UnavailableNext(k) ==
  /\ step[k] \in {"produce", "landed"}
  /\ IF step[k] = "produce" /\ Item(k) \notin Fits THEN UNCHANGED faults
                                                   ELSE Faulty
  /\ Answered(k)
  /\ UNCHANGED <<mode, admitted, acked, refused, topic>>

\* ProduceSync returned an error: KindUnavailable, which ends the call and
\* which the caller may retry.  The broker has refused the record, or failed,
\* or has the record and could not say so.
Unavailable(k) ==
  /\ step[k] \in {"produce", "landed"}
  /\ IF step[k] = "produce" /\ Item(k) \notin Fits THEN UNCHANGED faults
                                                   ELSE Faulty
  /\ End(k)
  /\ UNCHANGED <<mode, next, admitted, acked, refused, topic>>

\* With the caller gone the context is cancelled: ProduceSync gives up, or
\* succeeds and the answer goes nowhere.
Unheard(k) ==
  /\ step[k] \in {"produce", "landed"}
  /\ k \notin here
  /\ End(k)
  /\ UNCHANGED <<mode, next, admitted, acked, refused, topic, faults>>

Handle(k) ==
  Receive(k) \/ Refuse(k) \/ Land(k) \/ Ack(k) \/ Unavailable(k) \/ Unheard(k)

------------------------------------------------------------------------------
(* The process. *)

\* Every handler dies with it, wherever it was.
Exit ==
  /\ mode' = "down"
  /\ step' = [k \in Calls |-> "free"]
  /\ caller' = [k \in Calls |-> Nobody]
  /\ at' = [k \in Calls |-> 0]
  /\ here' = {}
  /\ UNCHANGED <<next, admitted, acked, refused, topic>>

\* SIGTERM: GracefulStop refuses new gRPC calls and waits for the open ones,
\* for as long as they take.
Sigterm ==
  /\ mode = "up"
  /\ Faulty
  /\ mode' = "draining"
  /\ UNCHANGED <<callVars, next, admitted, acked, refused, topic>>

\* Then the webhook's server stops accepting.
GrpcDrained ==
  /\ mode = "draining"
  /\ \A k \in Active : OnHTTP(k)
  /\ mode' = "closing"
  /\ UNCHANGED <<callVars, next, admitted, acked, refused, topic, faults>>

\* Its Shutdown waits for the open requests, or for the shutdown timeout, and
\* run returns.  Before that the platform may lose patience and kill.
Stopped ==
  /\ mode \in {"draining", "closing"}
  /\ Exit
  /\ UNCHANGED faults

\* A crash, or a server that fails: run returns its error and drains nothing.
Crash ==
  /\ mode # "down"
  /\ Faulty
  /\ Exit

Restart ==
  /\ mode = "down"
  /\ mode' = "up"
  /\ UNCHANGED <<callVars, next, admitted, acked, refused, topic, faults>>

Next ==
  \/ \E c \in Callers : Open(c)
  \/ \E k \in Calls : HangUp(k) \/ GiveUp(k) \/ Handle(k)
  \/ Sigterm \/ GrpcDrained \/ Stopped \/ Crash \/ Restart

Spec == Init /\ [][Next]_vars

\* A caller tries again and closes a stream it is done with, a handler goes on,
\* a shutdown ends (the platform sees to that) and the process is restarted.
Fairness ==
  /\ \A c \in Callers : WF_vars(Open(c))
  /\ \A k \in Calls : WF_vars(HangUp(k)) /\ WF_vars(Handle(k))
  /\ WF_vars(Stopped) /\ WF_vars(Restart)

FairSpec == Spec /\ Fairness

------------------------------------------------------------------------------
(* Properties. *)

(* A caller's diffs first appear on the topic in the order it submits them, and
   none is passed over: not when a stream breaks off and is taken up again,
   and not when a handler whose caller has gone is still producing while the
   caller's next call is under way. *)
FirstCopiesInOrder ==
  \A n \in DOMAIN topic : \A c \in Callers : \A j \in DOMAIN Script[c] :
    topic[n] = Script[c][j] =>
      \A i \in 1..(j - 1) :
        Script[c][i] \in Valid => \E m \in 1..n : topic[m] = Script[c][i]

\* The books of the intake, as VerdictDelivery keeps them for the outbox.
Intake == INSTANCE VerdictDelivery
            WITH Events <- Items, promised <- admitted, settled <- acked,
                 mishaps <- faults

(* The service implements at-least-once delivery of what it admits: a diff is
   acknowledged only with its record on the topic, and a diff gets a second
   record only for a fault (a lost answer, a caller or a process that went
   away). *)
IntakeSpec == Intake!Spec

(* A caller that keeps trying gets an answer for each diff, unless it has come
   to one whose record the broker will never take. *)
EveryItemAnswered ==
  \A c \in Callers : \A j \in DOMAIN Script[c] :
    (\A i \in 1..j : Script[c][i] \in Valid => Script[c][i] \in Fits)
      => <>(Script[c][j] \in acked \cup refused)

\* Why: a caller's place in its script and the calls that serve it.
CallInv(k) ==
  /\ caller[k] \in Callers
  /\ at[k] <= next[caller[k]]
  /\ k \in here => at[k] = next[caller[k]]
  /\ step[k] = "recv" => k \in here
  /\ step[k] \in {"produce", "landed"} =>
       HasItem(k) /\ Item(k) \in Valid \cap admitted
  /\ step[k] = "landed" => Item(k) \in OnTopic

IngestInv ==
  /\ \A k \in Active : CallInv(k)
  /\ \A k, l \in here : caller[k] = caller[l] => k = l
  /\ \A c \in Callers : \A i \in 1..(next[c] - 1) :
       /\ i \in DOMAIN Script[c]
       /\ Script[c][i] \in Valid => Script[c][i] \in OnTopic
  /\ acked \subseteq OnTopic
  /\ OnTopic \subseteq admitted

\* Why copies are paid for: a diff has at most one copy per fault, counting the
\* handlers without a caller that may still produce it, and one fault that a
\* shutdown under way may yet use up.  The copy its caller is about to hear of,
\* or has moved on from, comes for free.
Copies(i) == Cardinality({n \in DOMAIN topic : topic[n] = i})
Stray(i) == {k \in Active \ here : step[k] = "produce" /\ Item(k) = i}
Free(i) ==
  \/ \E c \in Callers : \E j \in 1..(next[c] - 1) : Script[c][j] = i
  \/ \E k \in here : step[k] = "landed" /\ Item(k) = i
Stopping == IF mode \in {"draining", "closing"} THEN 1 ELSE 0
CopyInv ==
  \A i \in Items :
    Copies(i) + Cardinality(Stray(i)) + Stopping
      <= faults + (IF Free(i) THEN 1 ELSE 0)
==============================================================================
