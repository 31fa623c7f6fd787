------------------------------ MODULE MCAnalysis ------------------------------
(* Five diffs in all configurations of the services.                          *)
EXTENDS Agreement

CONSTANTS claude, gemini, x, y, z

MCDiffs == {
  <<{"token"}, {"auth"}>>,                \* masked, it gets the heuristic's attention
  <<{"open"}, {"close", "shell"}>>,
  <<{"key"}>>,
  <<{"concat", "auth"}, {"tls"}>>,
  <<{"auth", "shell"}>> }                 \* exactly at the threshold

MCSubmissions ==
  [diff : MCDiffs, language : {"go"}, tenant : {TRUE}]
    \cup {[diff |-> <<{"tls"}>>, language |-> "", tenant |-> FALSE]}

MCDeployments ==
  {s \in Setups : s.semantic \/ (s.keys = {} /\ ~s.resolver /\ ~s.vllm /\ ~s.premium)}

MCModelAnswers == {{}, {"info"}, {"critical"}, {"blocking", "info"}}

------------------------------------------------------------------------------
(* The client: a tree of three files, of which two vary.                      *)

File(at, dirs, big, readable, lines) ==
  [at |-> at, dirs |-> dirs, readable |-> readable, big |-> big, binary |-> FALSE,
   language |-> "go", text |-> lines]

\* Some of the diffs, and a text in which all detectors find something.
MCTexts ==
  {<<{"token"}, {"auth"}>>, <<{"concat", "auth"}, {"tls"}>>, <<{"auth", "shell"}>>,
   <<{"token", "tls"}, {"concat"}>>}

MCTrees ==
  {[name |-> n, link |-> link, closed |-> closed,
    files |-> {File(1, <<"src">>, big, TRUE, t1), File(2, <<"src", d>>, FALSE, TRUE, t2),
               File(3, <<>>, FALSE, r, t2)}] :
      n \in {"app", "build"}, link \in BOOLEAN, closed \in {{}, {<<"src">>}},
      big \in BOOLEAN, r \in BOOLEAN, d \in {"build", "lib"},
      t1 \in MCTexts, t2 \in MCTexts}

MCOptions ==
  [json : BOOLEAN, report : {"", "md"}, out : {FALSE}, failOn : {"blocking", "warning", "never", "none"},
   extra : BOOLEAN]
MCOutcomes == [walked : BOOLEAN, written : BOOLEAN]

------------------------------------------------------------------------------
(* The gateway: two letters in two cases, and a byte that continues one.  All
   names of up to four bytes are compared.                                    *)
MCLower == [c \in {x, y, z} |-> IF c = y THEN x ELSE c]
MCNames == UNION {[1..n -> Bytes] : n \in 0..4}
==============================================================================
