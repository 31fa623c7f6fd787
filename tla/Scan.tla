--------------------------------- MODULE Scan ---------------------------------
(***************************************************************************)
(* pkg/scan: the detectors that the analyzer service, the orchestrator's   *)
(* in-process stage and the command line client share.                     *)
(*                                                                         *)
(* A text is a sequence of lines and a line the set of what its patterns   *)
(* and the local heuristic of the semantic service tell apart:             *)
(*   token        a credential within the line                             *)
(*   key          the header line of a private key; its body is plain text *)
(*   open, close  the two halves of a credential that is broken over this  *)
(*                line and the next (the generic pattern allows white      *)
(*                space, line ends included, around the sign)              *)
(*   concat, tls  insecure code, the latter in Go only                     *)
(*   masked       a placeholder                                            *)
(*   auth, crypto, password, eval, shell  what the heuristic looks out for *)
(*   large        on the first line: the text is a large one               *)
(***************************************************************************)
EXTENDS Naturals, Sequences

LineSecrets == {"token", "key"}
GoOnly == {"tls"}
RiskyPatterns == {"concat", "tls"}
Marks ==
  LineSecrets \cup RiskyPatterns
    \cup {"open", "close", "masked"}
    \cup {"auth", "crypto", "password", "eval", "shell", "large"}

\* strings.Split leaves at least one line.
Texts == Seq(SUBSET Marks) \ {<<>>}

Severities == {"info", "warning", "blocking"}

FindingsOf(lines, rules, severity) ==
  UNION {{[rule |-> m, severity |-> severity, line |-> i] :
            m \in lines[i] \cap rules} : i \in DOMAIN lines}

\* SecretDetector.Detect looks at one line at a time.
SecretDetect(lines) == FindingsOf(lines, LineSecrets, "blocking")

\* RiskyPatternDetector.Detect: every rule of its table is a warning.
RiskyDetect(lines, language) ==
  FindingsOf(lines, RiskyPatterns \ (IF language = "go" THEN {} ELSE GoOnly), "warning")

\* A credential that starts in line i and ends in the next.
BrokenAt(lines, i) ==
  /\ {i, i + 1} \subseteq DOMAIN lines
  /\ "open" \in lines[i]
  /\ "close" \in lines[i + 1]

\* What the secret patterns match of line i when they are run over the whole
\* text, as Mask runs them.
MatchedAt(lines, i) ==
  (lines[i] \cap LineSecrets)
    \cup (IF BrokenAt(lines, i) THEN {"open"} ELSE {})
    \cup (IF i > 1 /\ BrokenAt(lines, i - 1) THEN {"close"} ELSE {})

\* Variation of Mask: line by line, as Detect.
MaskByLine(lines) ==
  [i \in DOMAIN lines |->
     IF lines[i] \cap LineSecrets = {} THEN lines[i]
     ELSE (lines[i] \ LineSecrets) \cup {"masked"}]

Mask(lines) ==
  [i \in DOMAIN lines |->
     IF MatchedAt(lines, i) = {} THEN lines[i]
     ELSE (lines[i] \ MatchedAt(lines, i)) \cup {"masked"}]

\* Run with the Default chain: both detectors read the text as it was given.
Run(lines, language) ==
  [findings |-> SecretDetect(lines) \cup RiskyDetect(lines, language),
   masked |-> Mask(lines)]

\* A pattern still matches somewhere in the text.
Leaks(lines) == \E i \in DOMAIN lines : MatchedAt(lines, i) # {}
==============================================================================
