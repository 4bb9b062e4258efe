------------------------------ MODULE DiffText ------------------------------
(***************************************************************************)
(* The text of a unified diff, and what input/diff.rs reads from it.  A    *)
(* source file is a sequence of lines; a line of a diff keeps its kind and *)
(* what the parser takes from it.                                          *)
(***************************************************************************)
EXTENDS Integers, FiniteSets, SequencesExt, Ordering

CONSTANTS
  File,       \* paths, in the order in which paths sort
  NoFile,
  Context,    \* git's lines of context, 3
  Reach       \* how far from an added line a site is in scope, 6

ASSUME DiffAssumption ==
  /\ File \subseteq Nat
  /\ NoFile \notin File
  /\ Context \in Nat \ {0}
  /\ Reach \in Nat

-----------------------------------------------------------------------------
(* git diff.                                                               *)

\* The lines that are kept, in the old and in the new text: as many as can
\* be, and where lines are equal it is git's choice which.
Alignments(old, new) ==
  LET best[i \in 0..Len(old), j \in 0..Len(new)] ==
        IF i = 0 \/ j = 0 THEN {<<{}, {}>>}
        ELSE LET both == IF old[i] # new[j] THEN {}
                         ELSE {<<k[1] \cup {i}, k[2] \cup {j}>> : k \in best[i - 1, j - 1]}
                 all  == best[i - 1, j] \cup best[i, j - 1] \cup both
             IN  {k \in all : \A l \in all : Cardinality(l[1]) <= Cardinality(k[1])}
  IN  IF old = new THEN {<<DOMAIN old, DOMAIN new>>} ELSE best[Len(old), Len(new)]

\* How many old lines vanish before the new line at n: those whose last kept
\* predecessor is the line before the gap that n begins.
Vanished(kept, oldLength, n) ==
  LET new    == Ascending(kept[2])
      gap(o) == LET k == Cardinality({i \in kept[1] : i < o})
                IN  IF k = 0 THEN 1 ELSE new[k] + 1
  IN  Cardinality({o \in (1..oldLength) \ kept[1] : gap(o) = n})

\* Every line of the diff of one file without its headers, with the new line
\* it stands at.
Script(oldLength, newLength, kept) ==
  FlattenSeq(
    [n \in 1..(newLength + 1) |->
       [i \in 1..Vanished(kept, oldLength, n) |-> [kind |-> "-", at |-> n]]
         \o (IF n > newLength THEN <<>>
             ELSE <<[kind |-> IF n \in kept[2] THEN " " ELSE "+", at |-> n]>>)])

\* Hunks: the changes with their context, a header before each.
Hunks(script) ==
  LET shown == {i \in DOMAIN script :
                  \E c \in DOMAIN script : /\ script[c].kind # " "
                                           /\ c - i \in -Context..Context}
  IN  FlattenSeq(
        [i \in DOMAIN script |->
           IF i \notin shown THEN <<>>
           ELSE (IF i - 1 \in shown THEN <<>>
                 ELSE <<[kind |-> "@@", at |-> script[i].at]>>)
                \o <<script[i]>>])

FileDiff(f, oldLength, newLength, kept) ==
  <<[kind |-> "diff --git", at |-> 0], [kind |-> "+++ b/", at |-> f]>>
    \o Hunks(Script(oldLength, newLength, kept))

\* The diff of two trees, for one alignment of every file.
GitDiff(old, new, kept) ==
  FlattenSeq(
    LET changed == Ascending({f \in File : old[f] # new[f]})
    IN  [k \in DOMAIN changed |->
           FileDiff(changed[k], Len(old[changed[k]]), Len(new[changed[k]]),
                    kept[changed[k]])])

-----------------------------------------------------------------------------
(* parse_unified_diff.                                                     *)

NoLines == [f \in File |-> {}]

NewParser ==
  [path |-> NoFile, line |-> 0, named |-> {}, changed |-> NoLines,
   anchors |-> NoLines]

Header(parser, raw) ==
  CASE raw.kind = "diff --git" -> [parser EXCEPT !.path = NoFile]
    [] raw.kind = "+++ b/"     -> [parser EXCEPT !.path = raw.at,
                                                 !.named = @ \cup {raw.at}]
    [] raw.kind = "@@"         -> [parser EXCEPT !.line = raw.at]

Content(parser, raw) ==
  CASE raw.kind = "+" -> [parser EXCEPT !.changed[parser.path] = @ \cup {parser.line},
                                        !.line = @ + 1]
    [] raw.kind = "-" -> [parser EXCEPT !.anchors[parser.path] = @ \cup {parser.line}]
    [] raw.kind = " " -> [parser EXCEPT !.line = @ + 1]

ConsumeLine(parser, raw) ==
  IF raw.kind \in {"diff --git", "+++ b/", "@@"} THEN Header(parser, raw)
  ELSE IF parser.path = NoFile THEN parser
  ELSE Content(parser, raw)

\* Mutant: a removed line moves on in the new file.
ConsumeCountingRemoved(parser, raw) ==
  LET next == ConsumeLine(parser, raw)
  IN  IF raw.kind = "-" THEN [next EXCEPT !.line = @ + 1] ELSE next

\* Mutant: the parser with that bug.
ParseCountingRemoved(diff) == FoldLeft(ConsumeCountingRemoved, NewParser, diff)

ParseUnifiedDiff(diff) == FoldLeft(ConsumeLine, NewParser, diff)

ContainsFile(index, f) == f \in index.named
ContainsNear(index, f, line) ==
  \E c \in index.changed[f] : c - line \in -Reach..Reach
ContainsAddedLine(index, f, line) == line \in index.changed[f]
ContainsInRange(index, f, first, last) ==
  \E c \in index.changed[f] : c \in first..last
=============================================================================
