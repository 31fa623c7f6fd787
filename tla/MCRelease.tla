------------------------------ MODULE MCRelease ------------------------------
(* Two invocations: one with every kind of input, a rerun with two of them.   *)
EXTENDS ReleaseEvidence

CONSTANTS a, b

MCHosts == {"", "localhost", "twin", "other"}
MCPorts == {"", "443"}

Url(scheme, user, host, port) ==
  [scheme |-> scheme, user |-> user, host |-> host, port |-> port]
Source(live, run, key, url, loopback) ==
  [live |-> live, runId |-> run, key |-> key, url |-> url,
   allow |-> [loopback |-> loopback, hosts |-> {<<"twin", "">>}]]
Twin == Source(TRUE, TRUE, TRUE, Url("https", FALSE, "twin", "443"), FALSE)
Fake == [Twin EXCEPT !.live = FALSE]

\* The source may be any but the last two, which are refused.
MCSources ==
  {Twin, Fake, Source(TRUE, TRUE, TRUE, Url("http", FALSE, "localhost", ""), TRUE),
   Source(TRUE, TRUE, TRUE, Url("http", FALSE, "twin", ""), TRUE),
   Source(TRUE, FALSE, TRUE, Url("https", FALSE, "other", ""), FALSE)}

Input(c, from, e, m, w) ==
  [scan |-> c, from |-> from, eval |-> e, mode |-> m, whole |-> w,
   policy |-> [regressionBlocks |-> FALSE, assuranceRequired |-> FALSE]]
Clean == [raw |-> "COMPLETED", seen |-> {}]
Critical == [raw |-> "COMPLETED", seen |-> {"critical", "regressed"}]

\* What the command can come by: it leaves the policy at its zero value, and
\* the counts it fetches have no field for errored scenarios.
MCInputs ==
  {Input(c, Twin, e, m, TRUE) :
     c \in {{"info"}, {"warning"}, {"blocking", "warning"}},
     e \in [raw : RawStatuses, seen : SUBSET {"critical", "regressed", "incomplete"}],
     m \in {"shadow", "enforce"}}
  \cup {Input({}, from, e, "shadow", TRUE) : from \in MCSources, e \in {Clean, Critical}}
  \cup {Input({}, Twin, Clean, "shadow", FALSE)}

MCInputsOf ==
  [i \in {a, b} |->
     IF i = a THEN MCInputs
     ELSE {Input({}, Twin, Clean, "shadow", TRUE),
           Input({}, Twin, Critical, "enforce", TRUE)}]
==============================================================================
