--------------------------- MODULE ReleaseEvidence ---------------------------
(***************************************************************************)
(* Invocations of the release-evidence command for one release, each with  *)
(* --store and --publish-shadow: read the scan, fetch the evaluation,      *)
(* build the evidence record, put it in the file store, post the commit    *)
(* status.  The store's mutex is a process's own, so that invocations      *)
(* share nothing but the file; readers (evidence-api, --regenerate) look   *)
(* at it at any time.                                                      *)
(***************************************************************************)
EXTENDS ReleaseGate

CONSTANTS
  Runs,      \* invocations
  None,
  Partial,   \* what an interrupted write leaves of a record
  Hosts,     \* hosts of a URL, "" is none
  Ports,     \* and ports, "" is none
  Loopback,  \* the hosts that are this machine
  InputsOf   \* invocation -> what it may be given and may fetch

------------------------------------------------------------------------------
(* Where the evaluation comes from: an AgentTwin, or what is built in. *)

Urls == [scheme : {"http", "https", "other"}, user : BOOLEAN, host : Hosts, port : Ports]

\* Of the destinations that may be called, one without a port stands for any port.
Allowlist == [loopback : BOOLEAN, hosts : SUBSET (Hosts \X Ports)]
Sources == [live : BOOLEAN, runId : BOOLEAN, key : BOOLEAN, url : Urls, allow : Allowlist]

CheckURL(allow, url) ==
  /\ url.scheme # "other"
  /\ ~url.user
  /\ url.host # ""
  /\ IF url.host \in Loopback THEN allow.loopback
     ELSE /\ url.scheme = "https"
          /\ \E port \in {url.port, ""} : <<url.host, port>> \in allow.hosts

NewHTTPClient(from) == from.key /\ CheckURL(from.allow, from.url)

\* The built-in evaluation.
FakeRef == [raw |-> "COMPLETED", seen |-> {"critical", "regressed"}]

Fetched(in) ==
  IF in.from.live THEN in.from.runId /\ NewHTTPClient(in.from) ELSE in.eval = FakeRef

------------------------------------------------------------------------------
(* The state. *)

\* "scan" are the severities of the client's findings; "whole": every field the
\* record has to carry is there.
Inputs == [scan : SUBSET {"blocking", "warning", "info"}, from : Sources,
           eval : Evaluations, policy : Policies, mode : {"shadow", "enforce"},
           whole : BOOLEAN]

\* A record carries the time it was built at: no two invocations' are equal.
Records == [run : Runs, status : Statuses, gate : Gates, rules : SUBSET Rules]

ASSUME EvidenceAssumption ==
  /\ InputsOf \in [Runs -> SUBSET Inputs]
  /\ {None, Partial} \cap (Records \cup Inputs) = {}
  /\ None # Partial

VARIABLES
  pc,      \* invocation -> where it is, or how it ended
  input,   \* invocation -> its input, or None
  ev,      \* invocation -> the record it built, or None
  file,    \* the release's file: None, Partial or a record
  scm,     \* the commit status: [by, outcome] or None
  served,  \* history: the record a reader was last given, or None
  raced    \* history: invocations that could not see a record being there

vars == <<pc, input, ev, file, scm, served, raced>>

Ended == {"done", "failed", "refused"}

TypeOK ==
  /\ pc \in [Runs -> {"idle", "build", "check", "open", "write", "publish"} \cup Ended]
  /\ input \in [Runs -> Inputs \cup {None}]
  /\ ev \in [Runs -> Records \cup {None}]
  /\ file \in Records \cup {None, Partial}
  /\ scm \in [by : Runs, outcome : Outcomes] \cup {None}
  /\ served \in Records \cup {None}
  /\ raced \subseteq Runs

Init ==
  /\ pc = [i \in Runs |-> "idle"]
  /\ input = [i \in Runs |-> None]
  /\ ev = [i \in Runs |-> None]
  /\ file = None
  /\ scm = None
  /\ served = None
  /\ raced = {}

Goto(i, label) == pc' = [pc EXCEPT ![i] = label]

FetchEval(i) ==
  /\ pc[i] = "idle"
  /\ \E in \in InputsOf[i] : Fetched(in) /\ input' = [input EXCEPT ![i] = in]
  /\ Goto(i, "build")
  /\ UNCHANGED <<ev, file, scm, served, raced>>

\* The scan cannot be read, the source is refused, or the call fails.
FetchFails(i) ==
  /\ pc[i] = "idle"
  /\ Goto(i, "failed")
  /\ UNCHANGED <<input, ev, file, scm, served, raced>>

BuildReleaseEvidence(i) ==
  LET in == input[i]
      code == CodeVerdictOf(in.scan)
      status == MapEvalStatus(in.eval)
      gate == CombinedDecision(Decide(status, in.policy), code)
  IN  [run |-> i, status |-> status, gate |-> gate,
       rules |-> CombinedRules(status, code, gate)]

Build(i) ==
  /\ pc[i] = "build"
  /\ input[i].whole
  /\ Consistent(BuildReleaseEvidence(i))
  /\ ev' = [ev EXCEPT ![i] = BuildReleaseEvidence(i)]
  /\ Goto(i, "check")
  /\ UNCHANGED <<input, file, scm, served, raced>>

\* The inputs or the assembled record failed validation.
Refuse(i) ==
  /\ pc[i] = "build"
  /\ ~(input[i].whole /\ Consistent(BuildReleaseEvidence(i)))
  /\ Goto(i, "refused")
  /\ UNCHANGED <<input, ev, file, scm, served, raced>>

------------------------------------------------------------------------------
(* FileStore.Put: read the file, compare, write. *)

Writing == {j \in Runs : pc[j] \in {"open", "write"}}

CheckAbsent(i) ==
  /\ pc[i] = "check"
  /\ file = None
  /\ raced' = IF Writing = {} THEN raced ELSE raced \cup {i}
  /\ Goto(i, "open")
  /\ UNCHANGED <<input, ev, file, scm, served>>

\* Any error of the read is taken for a file that is not there.
CheckFails(i) ==
  /\ pc[i] = "check"
  /\ raced' = raced \cup {i}
  /\ Goto(i, "open")
  /\ UNCHANGED <<input, ev, file, scm, served>>

\* Variation of Conflict: what is there is written over.
ConflictIgnored(i) ==
  /\ pc[i] = "check"
  /\ file \notin {None, ev[i]}
  /\ Goto(i, "open")
  /\ UNCHANGED <<input, ev, file, scm, served, raced>>

\* Something else is there: a record, or the beginning of one.
Conflict(i) ==
  /\ pc[i] = "check"
  /\ file \notin {None, ev[i]}
  /\ Goto(i, "failed")
  /\ UNCHANGED <<input, ev, file, scm, served, raced>>

\* os.WriteFile opens with O_TRUNC, writes and closes.
OpenFile(i) ==
  /\ pc[i] = "open"
  /\ file' = Partial
  /\ Goto(i, "write")
  /\ UNCHANGED <<input, ev, scm, served, raced>>

WriteFile(i) ==
  /\ pc[i] = "write"
  /\ file' = ev[i]
  /\ Goto(i, "publish")
  /\ UNCHANGED <<input, ev, scm, served, raced>>

\* Variation of WriteFails: the error is logged and the run goes on.
WriteFailsOn(i) ==
  /\ pc[i] \in {"open", "write"}
  /\ Goto(i, "publish")
  /\ UNCHANGED <<input, ev, file, scm, served, raced>>

\* The file cannot be opened, or only a part can be written.
WriteFails(i) ==
  /\ pc[i] \in {"open", "write"}
  /\ Goto(i, "failed")
  /\ UNCHANGED <<input, ev, file, scm, served, raced>>

------------------------------------------------------------------------------
(* The commit status, the end of an invocation, and the readers. *)

\* Variation of Post: the mode is not looked at.
PostEnforced(i) ==
  scm' = [by |-> i, outcome |-> MapSCMStatus(ev[i], "enforce")]

Post(i) ==
  scm' = [by |-> i, outcome |-> MapSCMStatus(ev[i], input[i].mode)]

\* The publisher's log of what it delivered is new in every process: it posts.
Publish(i) ==
  /\ pc[i] = "publish"
  /\ Post(i)
  /\ Goto(i, "done")
  /\ UNCHANGED <<input, ev, file, served, raced>>

\* Refused, not reached, or the answer was lost.
PublishFails(i) ==
  /\ pc[i] = "publish"
  /\ Post(i) \/ UNCHANGED scm
  /\ Goto(i, "failed")
  /\ UNCHANGED <<input, ev, file, served, raced>>

Crash(i) ==
  /\ pc[i] \notin Ended \cup {"idle"}
  /\ Goto(i, "failed")
  /\ UNCHANGED <<input, ev, file, scm, served, raced>>

\* Get: a file that does not decode is an error.
Read ==
  /\ file \in Records
  /\ served' = file
  /\ UNCHANGED <<pc, input, ev, file, scm, raced>>

Next ==
  \/ Read
  \/ \E i \in Runs :
       \/ FetchEval(i) \/ FetchFails(i) \/ Build(i) \/ Refuse(i)
       \/ CheckAbsent(i) \/ CheckFails(i) \/ Conflict(i)
       \/ OpenFile(i) \/ WriteFile(i) \/ WriteFails(i)
       \/ Publish(i) \/ PublishFails(i) \/ Crash(i)

Spec == Init /\ [][Next]_vars

------------------------------------------------------------------------------
(* Properties. *)

Posted(outcome) == scm # None /\ scm.outcome = outcome

(* A green commit status means an evaluation that an AgentTwin was asked for,
   that ran to its end and in which nothing failed, regressed, errored or was
   left out, and a scan without a blocking finding or a warning. *)
SuccessIsClean ==
  Posted("success") =>
    LET in == input[scm.by]
    IN  /\ in.from.live
        /\ in.eval = [raw |-> "COMPLETED", seen |-> {}]
        /\ in.scan \subseteq {"info"}

(* A commit is only blocked in enforce mode, and for a blocking finding, for a
   critical failure, or for a regression the policy makes blocking. *)
FailureIsEarned ==
  Posted("failure") =>
    LET in == input[scm.by]
    IN  /\ in.mode = "enforce"
        /\ \/ "blocking" \in in.scan
           \/ in.eval.raw = "COMPLETED" /\ "critical" \in in.eval.seen
           \/ /\ in.eval.raw = "COMPLETED" /\ "regressed" \in in.eval.seen
              /\ in.policy.regressionBlocks

(* The gate never assembles a record that its own validation turns down: a run
   with all its fields always gets a decision it can store and explain. *)
RefusedIsMalformed == \A i \in Runs : pc[i] = "refused" => ~input[i].whole

(* The status on the commit is that of the stored record, whatever crashes and
   failed writes came between, unless runs overlapped in the store. *)
PostedIsStored ==
  scm # None /\ raced = {} =>
    /\ file = ev[scm.by]
    /\ scm.outcome = MapSCMStatus(file, input[scm.by].mode)

(* Readers are given the same record for ever, unless runs overlapped in the
   store or one could not read it. *)
ServedChangesOnlyByRace ==
  [][served # None /\ served' # served => raced # {}]_vars

(* store.go:97-99 says that the file store "never overwrites a record with
   different content": a reader who has been given a record is never given
   another one for the release. *)
ServedNeverChanges == [][served # None => served' = served]_vars

(* status.go:87-89 says that "a critical failure dominates every other signal":
   a completed evaluation with a critical failure blocks the release. *)
CriticalDominates ==
  \A i \in Runs : ev[i] # None =>
    LET eval == input[i].eval
    IN  eval.raw = "COMPLETED" /\ "critical" \in eval.seen => ev[i].gate = "BLOCK"

\* Why: a record is what its run's input comes to, a status what its record
\* does; and as long as no runs overlapped, one run at a time is writing, only
\* while nobody has posted or read, and what was posted or read is in the file.
BuiltInv ==
  /\ \A i \in Runs :
       /\ input[i] # None => Fetched(input[i])
       /\ ev[i] # None => input[i] \in Inputs /\ ev[i] = BuildReleaseEvidence(i)
       /\ pc[i] = "idle" => ev[i] = None
       /\ pc[i] \in {"build", "refused"} => input[i] \in Inputs /\ ev[i] = None
       /\ pc[i] \in {"check", "open", "write", "publish", "done"} => ev[i] # None
       /\ pc[i] = "refused" =>
            ~(input[i].whole /\ Consistent(BuildReleaseEvidence(i)))
  /\ scm # None =>
       /\ ev[scm.by] # None
       /\ scm.outcome = MapSCMStatus(ev[scm.by], input[scm.by].mode)

StoreInv ==
  raced = {} =>
    /\ \A i, j \in Writing : i = j
    /\ \A i \in Runs :
         /\ pc[i] = "open" => file = None
         /\ pc[i] = "write" => file = Partial
         /\ pc[i] \in {"publish", "done"} => file = ev[i]
    /\ scm # None => file = ev[scm.by]
    /\ served # None => file = served
==============================================================================
