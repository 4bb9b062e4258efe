----------------------------- MODULE DiffReview -----------------------------
(***************************************************************************)
(* One diff-scoped or whole review, from the diff to the gate: which sites *)
(* are in scope, which identity each card gets, which cards a cap keeps,   *)
(* whether no-new-debt passes and which comments are planned.  Developers  *)
(* edit and commit meanwhile; the diff is that of two commits, the scan    *)
(* reads the working tree.                                                 *)
(***************************************************************************)
EXTENDS DiffText, CardSelection

CONSTANTS
  Seam,            \* texts of lines that are unsafe seams
  Line,            \* texts of lines
  Profile,         \* what the analysis finds out about each seam
  Discovered,      \* the files in the order of discovery
  Slug,            \* what an identity has of a file; not one to one
  Starts,          \* trees to begin with
  NewLines,        \* lines that developers add
  Cap,             \* values of --max-cards, and NoCap
  NoCap,
  PlanLimit,       \* MAX_PLANNED_COMMENTS, 3
  NoReview,
  MaxEdits, MaxLines   \* bounds

\* exact: in scope only where its own lines changed; extent: how many lines.
Site == [urgency : Urgency, inline : BOOLEAN, exact : BOOLEAN,
         extent : Nat \ {0}, key : STRING, group : STRING]

ASSUME ReviewAssumption ==
  /\ Seam \subseteq Line
  /\ NewLines \subseteq Line
  /\ Profile \in [Seam -> Site]
  /\ Discovered \in Seq(File) /\ Range(Discovered) = File /\ IsInjective(Discovered)
  /\ DOMAIN Slug = File
  /\ \A s, t \in Seam : Profile[s].group = Profile[t].group /\ Profile[s].group # "none"
                          => Profile[s].key = Profile[t].key
  /\ Starts \subseteq [File -> Seq(Line)]
  /\ Cap \subseteq Nat \cup {NoCap}
  /\ NoCap \notin Nat
  /\ {PlanLimit, MaxEdits, MaxLines} \subseteq Nat

VARIABLES
  base, head, work,   \* the tree the change starts from, HEAD, the working tree
  ledger,             \* accepted identities
  review,             \* the review in progress, or the last one
  edits               \* for the bound

vars == <<base, head, work, ledger, review, edits>>

-----------------------------------------------------------------------------
(* One file.                                                               *)

LastLine(text, line) ==
  LET last == line + Profile[text[line]].extent - 1
  IN  IF last > Len(text) THEN Len(text) ELSE last

\* site_in_scope.
InScope(r, f, text, line) ==
  \/ r.repo
  \/ Profile[text[line]].exact
       /\ ContainsInRange(r.index, f, line, LastLine(text, line))
  \/ ~Profile[text[line]].exact /\ ContainsNear(r.index, f, line)

\* Mutant: what is near a change counts as changed.
OnNearbyLines(r, f, text, line) == InScope(r, f, text, line)

\* site_on_added_lines.
OnAddedLines(r, f, text, line) ==
  \/ r.repo
  \/ Profile[text[line]].exact
       /\ ContainsInRange(r.index, f, line, LastLine(text, line))
  \/ ~Profile[text[line]].exact /\ ContainsAddedLine(r.index, f, line)

\* Mutant: the line takes the place of the counter.
CardIdByLine(found, f, text, line) == <<Slug[f], text[line], line>>

\* card_id: equal seams of the files of one slug are counted together, in the
\* order of the scan.
CardId(found, f, text, line) ==
  <<Slug[f], text[line],
    1 + Cardinality({i \in DOMAIN found :
                       found[i].id[1] = Slug[f] /\ found[i].id[2] = text[line]})>>

Card(r, found, f, text, line) ==
  LET site  == Profile[text[line]]
      id    == CardId(found, f, text, line)
      known == id \in r.known
  IN  [id |-> id, file |-> f, line |-> line,
       changed |-> OnAddedLines(r, f, text, line),
       actionable |-> ~known,
       urgency |-> [site.urgency EXCEPT !.priority = IF known THEN 2 ELSE @],
       inline |-> site.inline, key |-> site.key, group |-> site.group]

SitesOf(r, f, text) == {n \in DOMAIN text : text[n] \in Seam /\ InScope(r, f, text, n)}

ScanFile(r, f, text) ==
  FoldLeft(LAMBDA found, n : Append(found, Card(r, found, f, text, n)),
           r.found, Ascending(SitesOf(r, f, text)))

-----------------------------------------------------------------------------
(* The outcome.                                                            *)

Kept(r) ==
  IF r.cap # NoCap /\ Len(r.found) > r.cap THEN SpreadSelectCards(r.found, r.cap)
  ELSE SortCards(r.found)

\* enforce_policy under no-new-debt; nothing in the ledger has got worse here.
Passes(cards) == {i \in DOMAIN cards : cards[i].actionable /\ cards[i].changed} = {}

Conclude(r) ==
  LET kept == Kept(r)
  IN  [r EXCEPT !.done = TRUE, !.kept = kept, !.passed = Passes(kept),
                !.plan = CommentPlan(kept, PlanLimit)]

-----------------------------------------------------------------------------
(* Actions.                                                                *)

Idle == review = NoReview
Running == review # NoReview /\ ~review.done

\* The tree that is scanned is no longer that of the diff.
Disturbed == IF Running THEN [review EXCEPT !.still = FALSE] ELSE review

InsertLine(f) ==
  /\ Len(work[f]) < MaxLines
  /\ \E n \in 1..(Len(work[f]) + 1), new \in NewLines :
       work' = [work EXCEPT ![f] = InsertAt(@, n, new)]

DeleteLine(f) ==
  /\ Len(work[f]) > 1
  /\ \E n \in DOMAIN work[f] : work' = [work EXCEPT ![f] = RemoveAt(@, n)]

Edit ==
  /\ edits < MaxEdits
  /\ Idle \/ Running
  /\ \E f \in File : InsertLine(f) \/ DeleteLine(f)
  /\ edits' = edits + 1
  /\ review' = Disturbed
  /\ UNCHANGED <<base, head, ledger>>

Commit ==
  /\ head # work
  /\ Idle \/ Running
  /\ head' = work
  /\ UNCHANGED <<base, work, ledger, review, edits>>

\* The files of the diff, in the order of discovery.
Touched(index) ==
  LET at == Ascending({i \in DOMAIN Discovered : ContainsFile(index, Discovered[i])})
  IN  [k \in DOMAIN at |-> Discovered[at[k]]]

NewReview(repo, cap) ==
  [repo |-> repo, cap |-> cap, done |-> FALSE,
   still |-> repo \/ head = work,
   index |-> NewParser, added |-> NoLines, known |-> ledger,
   todo |-> Discovered, found |-> <<>>, kept |-> <<>>, passed |-> TRUE,
   plan |-> {}]

\* baseline init: a whole scan without a cap; every open card is captured.
Accept ==
  /\ Idle
  /\ LET r     == NewReview(TRUE, NoCap)
         found == FoldLeft(LAMBDA cards, f :
                             ScanFile([r EXCEPT !.found = cards], f, work[f]),
                           <<>>, Discovered)
     IN  ledger' = ledger \cup {found[i].id : i \in DOMAIN found}
  /\ ledger' # ledger
  /\ UNCHANGED <<base, head, work, review, edits>>

\* git diff base...HEAD, and what is read from it.
Begin ==
  /\ Idle
  /\ \/ \E cap \in Cap : review' = NewReview(TRUE, cap)
     \/ LET ways == [f \in File |-> Alignments(base[f], head[f])]
        IN  \E kept \in {k \in [File -> UNION Range(ways)] : \A f \in File : k[f] \in ways[f]} :
              LET index == ParseUnifiedDiff(GitDiff(base, head, kept))
              IN  \E cap \in Cap :
                    review' =
                      [NewReview(FALSE, cap) EXCEPT
                         !.index = index,
                         !.added = [f \in File |-> DOMAIN head[f] \ kept[f][2]],
                         !.todo  = Touched(index)]
  /\ UNCHANGED <<base, head, work, ledger, edits>>

Scan ==
  /\ Running /\ review.todo # <<>>
  /\ LET f == Head(review.todo)
     IN  review' = [review EXCEPT !.found = ScanFile(review, f, work[f]),
                                  !.todo = Tail(@)]
  /\ UNCHANGED <<base, head, work, ledger, edits>>

Finish ==
  /\ Running /\ review.todo = <<>>
  /\ review' = Conclude(review)
  /\ UNCHANGED <<base, head, work, ledger, edits>>

Init ==
  /\ base \in Starts
  /\ head = base
  /\ work = base
  /\ ledger = {}
  /\ review = NoReview
  /\ edits = 0

Next == Edit \/ Commit \/ Accept \/ Begin \/ Scan \/ Finish

Spec == Init /\ [][Next]_vars

-----------------------------------------------------------------------------
(* Properties.                                                             *)

Concluded == review # NoReview /\ review.done

Slugs == {Slug[f] : f \in File}

\* The places of a seam in the files of a slug.
Places(tree, g, s) ==
  UNION {{f} \X {n \in DOMAIN tree[f] : tree[f][n] = s} :
           f \in {h \in File : Slug[h] = g}}

Copies(tree, g, s) == Cardinality(Places(tree, g, s))
AcceptedCopies(g, s) == Cardinality({id \in ledger : id[1] = g /\ id[2] = s})

\* No file, nor the files that share a slug, has more of a seam than accepted.
WithinBaseline(tree) ==
  \A g \in Slugs, s \in Seam : Copies(tree, g, s) <= AcceptedCopies(g, s)

\* On the tree that was diffed, every seam on a line the diff adds has a card
\* that says so, no other seam is called changed, and no two cards share a
\* site or an identity: hunk headers, removed lines and the window around a
\* change do not displace anything (parse_unified_diff, site_in_scope,
\* site_on_added_lines, card_id).  A declaration is on all its lines, an
\* operation on its first.
AddedSeamIsShown ==
  Concluded /\ review.still /\ ~review.repo =>
    LET found == review.found
        card(f, n) == {i \in DOMAIN found : found[i].file = f /\ found[i].line = n}
        own(f, n)  == IF Profile[work[f][n]].exact THEN n..LastLine(work[f], n) ELSE {n}
    IN  /\ \A f \in File : \A n \in {k \in DOMAIN work[f] : work[f][k] \in Seam} :
             LET touched == own(f, n) \cap review.added[f] # {}
             IN  /\ touched => card(f, n) # {}
                 /\ \A i \in card(f, n) : found[i].changed = touched
        /\ \A i, j \in DOMAIN found :
             \/ i = j
             \/ /\ found[i].id # found[j].id
                /\ found[i].file # found[j].file \/ found[i].line # found[j].line

\* Accepted debt does not fail the gate, however its lines have moved and
\* whichever copies of it were added, removed or swapped; and a whole review
\* without a cap fails as soon as one seam is there more often than accepted
\* (card_id, is_baseline_known, enforce_policy).
AcceptedDebtPasses ==
  Concluded /\ review.still =>
    /\ WithinBaseline(work) => review.passed
    /\ review.repo /\ review.cap = NoCap => (review.passed <=> WithinBaseline(work))

\* A cap keeps a best card of every file it has room for and then the best of
\* the rest, each once; the plan has the most important changed cards, one of
\* each family and obligations (spread_select_cards, CommentPlan::from).
SelectionKeepsTheBest ==
  Concluded =>
    /\ KeepsTheBest(review.found, review.kept,
                    IF review.cap = NoCap THEN Len(review.found) ELSE review.cap)
    /\ PlansTheBest(review.kept, review.plan, PlanLimit)

\* What the comments of spread_select_cards say of equally urgent cards.  It
\* does not hold: the key has the line and not the file.
SelectionGoesByFile == Concluded => DropsByFile(review.found, review.kept)

\* What the documents say of the diff-scoped gate: it passes only where the
\* change added no debt above the baseline.  It does not hold: a copy of an
\* accepted seam out of reach of the first is counted from one again.
PassMeansNoNewDebt ==
  Concluded /\ review.still /\ ~review.repo /\ review.cap = NoCap
    /\ review.passed /\ WithinBaseline(base) => WithinBaseline(work)
=============================================================================
