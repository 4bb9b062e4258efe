---------------------------- MODULE CardSelection ---------------------------
(***************************************************************************)
(* Which cards survive a cap, and which of them are planned as comments.   *)
(* A card is a record with its id, file and line, and how urgent it is.    *)
(***************************************************************************)
EXTENDS Integers, FiniteSets, SequencesExt, Ordering

\* Priority: 0 high, 1 medium, 2 low; confidence: 0 high, 1 medium, 2 low,
\* 3 unknown; gap: gap_severity_rank; missing: how much evidence is missing.
Urgency ==
  [priority : 0..2, confidence : 0..3, missing : Nat, gap : 0..5]

Smallest(indices, key) ==
  CHOOSE i \in indices : \A j \in indices \ {i} : Before(key[i], key[j])

SortCards(cards) ==
  LET key == [i \in DOMAIN cards |-> <<cards[i].file, cards[i].line, i>>]
      at  == Sorted(DOMAIN cards, key)
  IN  [k \in DOMAIN at |-> cards[at[k]]]

-----------------------------------------------------------------------------
(* spread_select_cards.                                                    *)

\* card_rank_key; equal cards stay in the order in which they were found.
RankKey(cards) ==
  [i \in DOMAIN cards |->
     <<cards[i].urgency.priority, cards[i].urgency.confidence,
       -cards[i].urgency.missing, cards[i].line, i>>]

FilesOf(cards) == {cards[i].file : i \in DOMAIN cards}

\* Breadth: the best card of each file, files in the order of discovery.
Breadth(cards, budget) ==
  LET first(f) == CHOOSE i \in DOMAIN cards :
                    /\ cards[i].file = f
                    /\ \A j \in 1..(i - 1) : cards[j].file # f
      early    == {f \in FilesOf(cards) :
                     Cardinality({g \in FilesOf(cards) : first(g) < first(f)}) < budget}
  IN  {Smallest({i \in DOMAIN cards : cards[i].file = f}, RankKey(cards)) : f \in early}

\* Depth: what is left of the budget, by rank.
Depth(cards, chosen, budget) ==
  LET rest == Sorted(DOMAIN cards \ chosen, RankKey(cards))
      room == budget - Cardinality(chosen)
  IN  {rest[k] : k \in {n \in DOMAIN rest : n <= room}}

\* Selected cards are swapped to the front, the rest is cut off.
Swapped(cards, pair) ==
  [cards EXCEPT ![pair[1]] = cards[pair[2]], ![pair[2]] = cards[pair[1]]]

ToFront(cards, at) ==
  LET moved == FoldLeft(Swapped, cards, [k \in DOMAIN at |-> <<k, at[k]>>])
  IN  SubSeq(moved, 1, Len(at))

\* Mutant: swapped in the order of rank and not of position.
SpreadInRankOrder(cards, budget) ==
  LET breadth == Breadth(cards, budget)
      chosen  == breadth \cup Depth(cards, breadth, budget)
  IN  SortCards(ToFront(cards, Sorted(chosen, RankKey(cards))))

SpreadSelectCards(cards, budget) ==
  LET breadth == Breadth(cards, budget)
      chosen  == breadth \cup Depth(cards, breadth, budget)
  IN  SortCards(ToFront(cards, Ascending(chosen)))

\* What card_rank_key and its comment agree on: priority, confidence, how much
\* is missing, and in one file the line.  Of two cards as urgent as each other
\* in two files, neither outranks the other: the comment ranks them by file,
\* the key by line.
UrgencyKey(card) ==
  <<card.urgency.priority, card.urgency.confidence, -card.urgency.missing>>

Outranks(a, b) ==
  \/ Before(UrgencyKey(a), UrgencyKey(b))
  \/ UrgencyKey(a) = UrgencyKey(b) /\ a.file = b.file /\ a.line < b.line

Leading(cards, f) ==
  {i \in DOMAIN cards :
     /\ cards[i].file = f
     /\ \A j \in DOMAIN cards : cards[j].file = f => ~Outranks(cards[j], cards[i])}

Leaders(cards) == UNION {Leading(cards, f) : f \in FilesOf(cards)}

Surviving(cards, kept) == {i \in DOMAIN cards : \E k \in DOMAIN kept : kept[k] = cards[i]}

\* What a cap may keep: as much as it can, each card once, a leading card of
\* every file, or of as many as there is room for and nothing else, and beyond
\* those none that is outranked by one that was dropped.
KeepsTheBest(cards, kept, budget) ==
  LET in == Surviving(cards, kept)
  IN  /\ Len(kept) = IF Len(cards) < budget THEN Len(cards) ELSE budget
      /\ Cardinality(in) = Len(kept)
      /\ \/ \A f \in FilesOf(cards) : Leading(cards, f) \cap in # {}
         \/ /\ in \subseteq Leaders(cards)
            /\ \A i, j \in in : cards[i].file = cards[j].file => i = j
      /\ \A i \in in \ Leaders(cards), j \in DOMAIN cards \ in :
           ~Outranks(cards[j], cards[i])

\* What the comment adds: equally urgent cards go by file, then by line.
DropsByFile(cards, kept) ==
  LET key(i) == UrgencyKey(cards[i]) \o <<cards[i].file, cards[i].line>>
      in     == Surviving(cards, kept)
  IN  \A i \in in \ Leaders(cards), j \in DOMAIN cards \ in : ~Before(key(j), key(i))

-----------------------------------------------------------------------------
(* The comment plan.                                                       *)

\* should_plan_comment.
Eligible(card) ==
  /\ card.changed
  /\ card.actionable
  /\ card.inline
  /\ card.urgency.priority = 0 \/ card.urgency.confidence = 0
  /\ card.urgency.confidence \notin {2, 3}

\* importance_rank, and the order of ids behind it.
Importance(cards) ==
  [i \in DOMAIN cards |->
     <<IF cards[i].urgency.priority = 0 THEN 0 ELSE 1, cards[i].urgency.gap,
       IF cards[i].urgency.confidence = 0 THEN 0 ELSE 1,
       cards[i].file, cards[i].line, i>>]

\* target_feature_grouped_repetition_ids: all but the most important eligible
\* card of a group.
Repetitions(cards) ==
  {i \in DOMAIN cards :
     /\ Eligible(cards[i]) /\ cards[i].group # "none"
     /\ \E j \in DOMAIN cards :
          /\ Eligible(cards[j])
          /\ cards[j].file = cards[i].file /\ cards[j].group = cards[i].group
          /\ Before(Importance(cards)[j], Importance(cards)[i])}

Candidates(cards) == {i \in DOMAIN cards : Eligible(cards[i])} \ Repetitions(cards)

\* Mutant: a second card of the same family and obligations takes a place.
PlanWithSiblings(cards, limit) ==
  LET order == Sorted(Candidates(cards), Importance(cards))
  IN  {order[k] : k \in {n \in DOMAIN order : n <= limit}}

\* card_statuses: a candidate is planned unless its budget key is, or the plan
\* is full.
Consider(cards, limit, plan, i) ==
  IF \E j \in plan : cards[j].key = cards[i].key THEN plan
  ELSE IF Cardinality(plan) < limit THEN plan \cup {i}
  ELSE plan

\* CommentPlan::from: the candidates in the order of importance.
CommentPlan(cards, limit) ==
  FoldLeft(LAMBDA plan, i : Consider(cards, limit, plan, i),
           {}, Sorted(Candidates(cards), Importance(cards)))

\* What a reviewer may expect of the plan, whatever groups there are: no two
\* comments about the same family and obligations, and a card that could have
\* a comment and has none gives way to a more important one of the same key,
\* or to a full plan of more important ones.
PlansTheBest(cards, plan, limit) ==
  LET first(i, j) == Before(Importance(cards)[i], Importance(cards)[j])
  IN  /\ \A i \in plan : Eligible(cards[i])
      /\ \A i, j \in plan : cards[i].key = cards[j].key => i = j
      /\ \A j \in {i \in DOMAIN cards : Eligible(cards[i])} \ plan :
           \/ \E i \in plan : cards[i].key = cards[j].key /\ first(i, j)
           \/ Cardinality(plan) = limit /\ \A i \in plan : first(i, j)
=============================================================================
