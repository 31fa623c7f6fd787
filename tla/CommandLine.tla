----------------------------- MODULE CommandLine -----------------------------
(***************************************************************************)
(* The command line client: the walk over a directory tree with the        *)
(* detectors of pkg/scan, the technical-debt report made of the findings,  *)
(* and the exit code a CI job goes by.                                     *)
(*                                                                         *)
(* A tree is [name, link, closed, files]: the name of its root, whether    *)
(* the root is a symbolic link, the paths of the directories that cannot   *)
(* be read, and the files.  A file is [at, dirs, readable, big, binary,    *)
(* language, text]: its place in the order of paths, the directories on    *)
(* the way to it, and what is in it.                                       *)
(***************************************************************************)
EXTENDS Scan, FiniteSets, FiniteSetsExt

CONSTANTS
  SkipDirs,     \* names of directories that are not entered
  MaxDetail,    \* rows of the report's detail section
  MaxDirRows,   \* rows of its table of directories, but for the last
  MaxTopFiles,  \* rows of its table of files
  Trees, Options, Outcomes  \* what the client may be given, and what becomes of it

ASSUME CommandLineAssumption == {MaxDetail, MaxDirRows, MaxTopFiles} \subseteq Nat

ASSUME TreesAssumption ==
  \A tree \in Trees :
    /\ IsFiniteSet(tree.files)
    /\ \A f \in tree.files : f.at \in Nat \ {0} /\ f.text \in Texts
    /\ \A f, g \in tree.files : f.at = g.at => f = g

------------------------------------------------------------------------------
(* runner.Run *)

\* The walk asks about the root as about any other directory, and it does not
\* follow a link, the root included.
Reaches(tree, f) ==
  /\ ~tree.link
  /\ tree.name \notin SkipDirs
  /\ \A n \in DOMAIN f.dirs : f.dirs[n] \notin SkipDirs
  /\ \A n \in 0..Len(f.dirs) : SubSeq(f.dirs, 1, n) \notin tree.closed

Eligible(f) == f.readable /\ ~f.big /\ ~f.binary
Scanned(tree) == {f \in tree.files : Reaches(tree, f) /\ Eligible(f)}

\* A directory that cannot be read is not counted, nor is one that is not entered.
Skipped(tree) ==
  Cardinality({f \in tree.files : Reaches(tree, f) /\ ~Eligible(f)})
    + (IF tree.link THEN 1 ELSE 0)

\* maskedExcerpt: the line is masked on its own.
Excerpt(f, n) == Mask(<<f.text[n]>>)[1]

Located(f) ==
  {[file |-> f.at, dir |-> f.dirs, line |-> x.line, rule |-> x.rule,
    severity |-> x.severity, excerpt |-> Excerpt(f, x.line)] : x \in Run(f.text, f.language).findings}

Found(tree) == UNION {Located(f) : f \in Scanned(tree)}
Count(findings, severity) == Cardinality({x \in findings : x.severity = severity})

------------------------------------------------------------------------------
(* report.Build *)

Weight == [blocking |-> 5, warning |-> 2, info |-> 1]
Rank == [blocking |-> 3, warning |-> 2, info |-> 1]

Stat(findings) == [s \in Severities |-> Count(findings, s)]
WeightOf(stat) ==
  Weight.blocking * stat.blocking + Weight.warning * stat.warning + Weight.info * stat.info
Weighted(findings) == WeightOf(Stat(findings))

\* A grade is for less than so many points per hundred files, and small scans
\* are graded as if they had ten files.
Bounds == [B |-> 5, C |-> 15, D |-> 40]
Sample(scanned) == IF scanned < 10 THEN 10 ELSE scanned

Grade(findings, scanned) ==
  LET w == Weighted(findings)
      Below(bound) == 100 * w < bound * Sample(scanned)
  IN  IF scanned = 0 THEN (IF w = 0 THEN "none" ELSE "F")
      ELSE IF w = 0 THEN "A"
      ELSE IF Below(Bounds.B) THEN "B"
      ELSE IF Below(Bounds.C) THEN "C"
      ELSE IF Below(Bounds.D) THEN "D"
      ELSE "F"

\* Severity first, then file and line; within a line any order will do.
RuleOrder == [key |-> 1, token |-> 2, concat |-> 3, tls |-> 4]
Worse(x, y) ==
  \/ Rank[x.severity] > Rank[y.severity]
  \/ /\ Rank[x.severity] = Rank[y.severity]
     /\ \/ x.file < y.file
        \/ x.file = y.file /\ x.line < y.line
        \/ x.file = y.file /\ x.line = y.line /\ RuleOrder[x.rule] < RuleOrder[y.rule]

Detail(findings) ==
  {x \in findings : Cardinality({y \in findings : Worse(y, x)}) < MaxDetail}

\* The findings by a field, "dir" or "file".  Rows of one weight, which the code has
\* in the order of their names, are in that of their first files.
Rows(findings, field) ==
  {LET own == {x \in findings : x[field] = k}
   IN  [key |-> k, first |-> Min({x.file : x \in own}), stat |-> Stat(own)] :
     k \in {x[field] : x \in findings}}
Heavier(x, y) ==
  \/ WeightOf(x.stat) > WeightOf(y.stat)
  \/ WeightOf(x.stat) = WeightOf(y.stat) /\ x.first < y.first

\* The n rows that come first.
Heaviest(n, rows) == {x \in rows : Cardinality({y \in rows : Heavier(y, x)}) < n}

\* A sum, as the number of units in it.
Sum(amount) == Cardinality(UNION {{x} \X (1..amount[x]) : x \in DOMAIN amount})
Total(rows, s) == Sum([row \in rows |-> row.stat[s]])

\* The directories past the last row are added up in one more.
ByDir(findings) ==
  LET rows == Rows(findings, "dir")
      kept == Heaviest(MaxDirRows, rows)
  IN  IF kept = rows THEN rows
      ELSE kept \cup {[key |-> <<"(other directories)">>, first |-> 0,
                       stat |-> [s \in Severities |-> Total(rows \ kept, s)]]}

TopFiles(findings) == Heaviest(MaxTopFiles, Rows(findings, "file"))

\* The table of rules takes the severity of a rule from its first finding.
Earlier(x, y) ==
  \/ x.file < y.file
  \/ x.file = y.file /\ x.line < y.line
ByRule(findings) ==
  {LET own == {x \in findings : x.rule = r}
       first == CHOOSE x \in own : \A y \in own : ~Earlier(y, x)
   IN  [key |-> r, severity |-> first.severity, count |-> Cardinality(own)] :
     r \in {x.rule : x \in findings}}

Build(findings, scanned) ==
  [grade |-> Grade(findings, scanned),
   byRule |-> ByRule(findings),
   byDir |-> ByDir(findings),
   topFiles |-> TopFiles(findings),
   detail |-> Detail(findings),
   truncated |-> IF Cardinality(findings) > MaxDetail
                 THEN Cardinality(findings) - MaxDetail ELSE 0,
   affected |-> Cardinality({x.file : x \in findings})]

ReportOf(tree) == Build(Found(tree), Cardinality(Scanned(tree)))

------------------------------------------------------------------------------
(* run *)

\* opts is [json, report, out, failOn, extra]: the flags, and whether there is
\* a second path.
BadUsage(opts) ==
  \/ opts.extra
  \/ opts.failOn \notin {"blocking", "warning", "never"}
  \/ opts.report \notin {"", "md", "html"}
  \/ opts.json /\ opts.report # ""
  \/ opts.out /\ opts.report = ""

\* Variation of Decide: --fail-on=warning looks at the warnings only.
DecideExactly(failOn, findings) ==
  IF \/ failOn = "warning" /\ Count(findings, "warning") > 0
     \/ failOn = "blocking" /\ Count(findings, "blocking") > 0
  THEN 1 ELSE 0

Decide(failOn, findings) ==
  IF \/ failOn = "warning" /\ Count(findings, "blocking") + Count(findings, "warning") > 0
     \/ failOn = "blocking" /\ Count(findings, "blocking") > 0
  THEN 1 ELSE 0

\* outcome is [walked, written]: whether the walk came to its end (it is
\* cancelled by a signal, and needs a root) and the output was written.
Exit(opts, tree, outcome) ==
  IF BadUsage(opts) \/ ~outcome.walked \/ ~outcome.written THEN 2
  ELSE Decide(opts.failOn, Found(tree))

------------------------------------------------------------------------------
(* Properties. *)

\* The detail section is the worst findings, and says how many are missing.
DetailIsWorst(tree) ==
  LET report == ReportOf(tree)
  IN  /\ Cardinality(report.detail) + report.truncated = Cardinality(Found(tree))
      /\ \A x \in report.detail, y \in Found(tree) \ report.detail :
           Rank[x.severity] >= Rank[y.severity]

\* The tables of directories and of rules account for every finding.
TablesAddUp(tree) ==
  LET report == ReportOf(tree)
      OfSeverity(s) == {row \in report.byRule : row.severity = s}
  IN  \A s \in Severities :
        /\ Total(report.byDir, s) = Count(Found(tree), s)
        /\ Sum([row \in OfSeverity(s) |-> row.count]) = Count(Found(tree), s)

\* No file that is missing in the table of files weighs more than one in it.
TopIsHeaviest(tree) ==
  LET report == ReportOf(tree)
  IN  \A x \in Found(tree), top \in report.topFiles :
        \/ \E row \in report.topFiles : row.key = x.file
        \/ Weighted({y \in Found(tree) : y.file = x.file}) <= WeightOf(top.stat)

\* No excerpt shows a credential that is within its line.
ExcerptsMasked(tree) == \A x \in Found(tree) : x.excerpt \cap LineSecrets = {}

\* The exit code, the analyzer and the grade are of one opinion.
ExitFits(tree, opts, outcome) ==
  LET code == Exit(opts, tree, outcome)
  IN  /\ code = 0 /\ opts.failOn = "warning" =>
           /\ \A f \in Scanned(tree) : Run(f.text, f.language).findings = {}
           /\ ReportOf(tree).grade \in {"A", "none"}
      /\ code = 1 => ReportOf(tree).grade \notin {"A", "none"}

(* What CI is told, what the report says and what the analyzer service would
   say of the same files agree.  If the exit code says that there is nothing
   to warn of, the analyzer has no finding in any file the walk has read, and
   the grade is A, or none if no file was read; nothing else is graded so.
   Tables that are cut short keep the worst findings and files, the tables of
   directories and rules still account for every finding, and no excerpt shows
   a credential that is within its line. *)
ClientAgrees ==
  \A tree \in Trees :
    /\ DetailIsWorst(tree)
    /\ TablesAddUp(tree)
    /\ TopIsHeaviest(tree)
    /\ ExcerptsMasked(tree)
    /\ \A opts \in Options, outcome \in Outcomes : ExitFits(tree, opts, outcome)
==============================================================================
