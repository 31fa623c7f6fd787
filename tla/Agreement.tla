------------------------------ MODULE Agreement ------------------------------
(***************************************************************************)
(* The client, which has the detectors built in, and the stage chain,      *)
(* which asks a service for them, on one text; and the gateway, which      *)
(* decides by itself.                                                      *)
(***************************************************************************)
EXTENDS Analysis, CommandLine, Gateway

\* What the client says of a file that is the only one it has scanned.
OpinionsOn(tree) ==
  {[text |-> f.text, language |-> f.language, failOn |-> opts.failOn,
    code |-> Exit(opts, tree, outcome)] :
     f \in Scanned(tree), opts \in Options, outcome \in Outcomes}

Opinions == UNION {OpinionsOn(tree) : tree \in {t \in Trees : Cardinality(Scanned(t)) = 1}}

(* What CI lets pass, and what the orchestrator makes of the same text, agree.
   If the exit code is 0, the required stage has no finding that the flag asks
   for, whichever of the ways through the chain was taken; if it is 1 for a
   blocking finding, no way leads to an approval, and if it is 1 for a warning
   none does that goes by the analyzer.  (The in-process scan and the fallback
   do not look for risky code.) *)
OneOpinion ==
  \A o \in Opinions :
    o.text = sub.diff /\ o.language = sub.language =>
      /\ o.code = 0 /\ o.failOn \in {"blocking", "warning"} =>
           {<<"scan", "blocking">>, <<"analyzer", "blocking">>} \cap found = {}
      /\ o.code = 0 /\ o.failOn = "warning" => <<"analyzer", "warning">> \notin found
      /\ o.code = 1 /\ o.failOn = "blocking" => verdict.decision # "approved"
      /\ o.code = 1 /\ setup.analyzer /\ verdict.source = "pipeline" =>
           verdict.decision # "approved"

(* The client agrees with itself and with the chain. *)
ClientSound == ClientAgrees /\ OneOpinion

(* The gateway shares no state with the chain: before the chain begins, as at
   any time, a near miss is one edit away, and what is one edit away is a near
   miss. *)
GatewaySound == pc = "required" => NearMissIsOneEdit
==============================================================================
