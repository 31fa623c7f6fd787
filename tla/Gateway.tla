------------------------------- MODULE Gateway -------------------------------
(***************************************************************************)
(* The governance gateway: the decisions on tool calls, package installs   *)
(* and agents, each of which is audited before it is given.                *)
(*                                                                         *)
(* A name is a sequence of bytes.  A byte that continues a character of    *)
(* several bytes is in Continuation.                                       *)
(***************************************************************************)
EXTENDS Naturals, Sequences, FiniteSets

CONSTANTS
  Bytes, Continuation,
  Lower,      \* byte -> the byte in lower case
  Ecosystems, \* the ecosystems a policy may have lists for
  Asked       \* the names that are compared: of packages asked for, of popular ones

ASSUME GatewayAssumption ==
  /\ Continuation \subseteq Bytes
  /\ Lower \in [Bytes -> Bytes]

Names == Seq(Bytes)

ASSUME AskedAssumption == Asked \subseteq Names

Lists == [Ecosystems -> SUBSET Names]
Policies ==
  [deniedTools : SUBSET Names, allowedTools : SUBSET Names, dangerous : SUBSET Names,
   deniedPackages : Lists, allowedPackages : Lists, popular : Lists,
   risky : SUBSET Names, agents : SUBSET Names]

------------------------------------------------------------------------------
(* Names. *)

Fold(name) == [i \in DOMAIN name |-> Lower[name[i]]]

\* contains: the lists are searched without regard to case.
Listed(list, name) == \E s \in list : Fold(s) = Fold(name)

\* strings.Contains of the lowered strings; an empty pattern is passed over.
Within(pattern, name) ==
  /\ pattern # <<>>
  /\ \E i \in 0..(Len(name) - Len(pattern)) :
       SubSeq(Fold(name), i + 1, i + Len(pattern)) = Fold(pattern)

\* A range over a string goes from character to character.
Starts(name) == {i \in DOMAIN name : name[i] \notin Continuation}

Differ(a, b) == {i \in DOMAIN a : a[i] # b[i]}
FirstOf(places) == CHOOSE i \in places : \A j \in places : i <= j
From(name, i) == SubSeq(name, i, Len(name))

\* Variation of AlignedShorter: the extra byte is not skipped.
AlignedShorterAsIs(a, b) ==
  \/ Differ(a, b) = {}
  \/ LET i == FirstOf(Differ(a, b)) IN From(a, i) = From(b, i)

\* a is shorter than b by one: past the first difference the rest of b, but
\* for its first byte, is the rest of a.
AlignedShorter(a, b) ==
  \/ Differ(a, b) = {}
  \/ LET i == FirstOf(Differ(a, b)) IN From(a, i) = From(b, i + 1)

EditDistanceWithin1(a, b) ==
  \/ /\ Len(a) = Len(b)
     /\ Cardinality(Differ(a, b) \cap Starts(a)) = 1
  \/ Len(a) + 1 = Len(b) /\ AlignedShorter(a, b)
  \/ Len(b) + 1 = Len(a) /\ AlignedShorter(b, a)

NearMiss(a, b) == a # b /\ EditDistanceWithin1(a, b)

------------------------------------------------------------------------------
(* Decisions. *)

ToolCall(p, tool, args) ==
  IF Listed(p.deniedTools, tool) THEN "deny"
  ELSE IF \E arg \in args, pattern \in p.dangerous : Within(pattern, arg) THEN "deny"
  ELSE IF p.allowedTools # {} /\ ~Listed(p.allowedTools, tool) THEN "deny"
  ELSE "allow"

\* The lists of an ecosystem the policy does not know are empty.
Of(lists, ecosystem) == IF ecosystem \in Ecosystems THEN lists[ecosystem] ELSE {}

ScreenPackage(p, ecosystem, name) ==
  IF Listed(Of(p.deniedPackages, ecosystem), name) THEN "deny"
  ELSE IF \E q \in Of(p.popular, ecosystem) : NearMiss(name, q) THEN "deny"
  ELSE IF \E part \in p.risky : Within(part, name) THEN "review"
  ELSE IF /\ Of(p.allowedPackages, ecosystem) # {}
          /\ ~Listed(Of(p.allowedPackages, ecosystem), name) THEN "review"
  ELSE "allow"

ClassifyShadow(p, agent) == IF Listed(p.agents, agent) THEN "allow" ELSE "review"

\* A verdict that cannot be audited is not given.
Audited(decision, auditWorks) ==
  IF auditWorks THEN [status |-> 200, decision |-> decision, recorded |-> {decision}]
  ELSE [status |-> 503, decision |-> "", recorded |-> {}]

\* A handler: a request without its required fields is refused.
Respond(wellFormed, decision, auditWorks) ==
  IF wellFormed THEN Audited(decision, auditWorks)
  ELSE [status |-> 400, decision |-> "", recorded |-> {}]

------------------------------------------------------------------------------
(* Properties. *)

\* The names that are made of characters of one byte.
Plain(name) == \A i \in DOMAIN name : name[i] \notin Continuation

Without(name, i) == [j \in 1..(Len(name) - 1) |-> IF j < i THEN name[j] ELSE name[j + 1]]

\* The Levenshtein distance is exactly one, by its definition: one byte is
\* replaced, taken out or put in.
OneEdit(a, b) ==
  \/ /\ Len(a) = Len(b)
     /\ \E i \in DOMAIN a : /\ a[i] # b[i]
                            /\ \A j \in DOMAIN a : j # i => a[j] = b[j]
  \/ Len(a) + 1 = Len(b) /\ \E i \in DOMAIN b : a = Without(b, i)
  \/ Len(b) + 1 = Len(a) /\ \E i \in DOMAIN a : b = Without(a, i)

(* The check of editDistanceWithin1, which looks at each byte once, finds out
   whether one edit leads from one name to the other.  It does so for names of
   characters of one byte only: of longer ones it compares the first byte. *)
NearMissIsOneEdit ==
  \A a, b \in Asked : Plain(a) => (NearMiss(a, b) <=> OneEdit(a, b))
==============================================================================
