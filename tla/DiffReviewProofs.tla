------------------------- MODULE DiffReviewProofs --------------------------
(***************************************************************************)
(* Proofs about DiffReview, for any files, seams, trees, edits, caps and   *)
(* diffs.                                                                  *)
(*                                                                         *)
(* The argument: the cards of the files of a slug number the equal seams,  *)
(* from 1 and without gaps (Numbered), so that what is accepted is of each *)
(* seam a first few copies (Closed), whatever was captured at which time.  *)
(* Of the files scanned so far every site has one card (Once, Finding), as *)
(* long as the tree stands still.  Where no slug has more copies of a seam *)
(* than were accepted, every number is accepted; where one has, the next   *)
(* number is not (DebtOfReview).                                           *)
(*                                                                         *)
(* The scan of a file is a fold: ScanTrace follows it site by site.  Up to *)
(* there what the diff says is not used: whatever the index is, the sites  *)
(* in its scope get their cards.                                           *)
(*                                                                         *)
(* Parsing a diff is a fold as well, and Reads follows it line by line and *)
(* part by part.  A script counts the lines of the new text whatever git   *)
(* kept (ScriptCounts), the header of a hunk makes up for what is not      *)
(* shown (HunkPartRead), and so the index has for every file the lines     *)
(* that were not kept (DiffRead).  No step of a review changes the index.  *)
(***************************************************************************)
EXTENDS DiffReview, CardSelectionProofs

-----------------------------------------------------------------------------
(* The cards of one file.                                                  *)

Ids == Slugs \X Seam \X (Nat \ {0})

Cards ==
  {c \in [id : Ids, file : File, line : Nat \ {0}, changed : BOOLEAN,
          actionable : BOOLEAN, urgency : Urgency, inline : BOOLEAN,
          key : STRING, group : STRING] :
     /\ c.id[1] = Slug[c.file]
     /\ c.key = Profile[c.id[2]].key
     /\ c.group = Profile[c.id[2]].group}

\* Each card has the number of equal seams of its slug up to it.
Numbered(cards) ==
  \A i \in DOMAIN cards :
    cards[i].id[3] = 1 + Cardinality({j \in 1..(i - 1) :
                                        cards[j].id[1] = cards[i].id[1]
                                          /\ cards[j].id[2] = cards[i].id[2]})

\* What the card of a site says.
FromSite(c, r, f, text) ==
  /\ c.file = f /\ c.line \in SitesOf(r, f, text) /\ c.id[2] = text[c.line]
  /\ c.changed <=> OnAddedLines(r, f, text, c.line)
  /\ c.actionable <=> c.id \notin r.known

\* Cards can be ranked.
LEMMA CardsRankable == Rankable(Cards)
<1> SUFFICES ASSUME NEW c \in Cards
             PROVE  c.file \in Int /\ c.line \in Int /\ c.urgency \in Urgency
  BY DEF Rankable
<1>1. c.file \in File /\ c.line \in Nat /\ c.urgency \in Urgency
  BY DEF Cards
<1>2. File \subseteq Int
  BY DiffAssumption DEF DiffAssumption
<1>3. c.file \in Int
  BY <1>1, <1>2
<1>4. c.line \in Int
  BY <1>1
<1> QED BY <1>1, <1>3, <1>4

\* The card of a site says what is true of it.
LEMMA CardOfSite ==
  ASSUME NEW r, NEW found \in Seq(Cards), NEW f \in File, NEW text \in Seq(Line),
         NEW n \in SitesOf(r, f, text), NEW c, c = Card(r, found, f, text, n)
  PROVE  /\ c \in Cards /\ FromSite(c, r, f, text) /\ c.line = n
         /\ c.id = CardId(found, f, text, n)
<1> DEFINE site == Profile[text[n]]
           id   == CardId(found, f, text, n)
           same == {i \in DOMAIN found : found[i].id[1] = Slug[f] /\ found[i].id[2] = text[n]}
           urgency == [site.urgency EXCEPT !.priority = IF id \in r.known THEN 2 ELSE @]
<1>1. n \in DOMAIN text /\ n \in Nat \ {0} /\ text[n] \in Seam
  <2>1. n \in DOMAIN text /\ text[n] \in Seam
    BY DEF SitesOf
  <2>2. DOMAIN text = 1..Len(text) /\ Len(text) \in Nat
    BY LenProperties
  <2> QED BY <2>1, <2>2
<1>2. site \in Site
  BY <1>1, ReviewAssumption DEF ReviewAssumption
<1>3. Cardinality(same) \in Nat
  <2>1. IsFiniteSet(DOMAIN found)
    BY Positions
  <2>2. same \in SUBSET (DOMAIN found)
    OBVIOUS
  <2> HIDE DEF same
  <2> QED BY <2>1, <2>2, FS_Subset, FS_CardinalityType
<1>4. id \in Ids /\ id[1] = Slug[f] /\ id[2] = text[n]
  <2>1. id = <<Slug[f], text[n], 1 + Cardinality(same)>>
    BY DEF CardId
  <2>2. 1 + Cardinality(same) \in Nat \ {0}
    BY <1>3
  <2>3. Slug[f] \in Slugs
    BY DEF Slugs
  <2> HIDE DEF same
  <2> QED BY <1>1, <2>1, <2>2, <2>3 DEF Ids
<1>5. urgency \in Urgency
  <2>1. site.urgency \in Urgency
    BY <1>2 DEF Site
  <2> HIDE DEF site, id
  <2>2. CASE id \in r.known
    <3>1. urgency = [site.urgency EXCEPT !.priority = 2]
      BY <2>2
    <3> QED BY <2>1, <3>1 DEF Urgency
  <2>3. CASE id \notin r.known
    <3>1. urgency = [site.urgency EXCEPT !.priority = site.urgency.priority]
      BY <2>3
    <3> QED BY <2>1, <3>1 DEF Urgency
  <2> QED BY <2>2, <2>3
<1>6. /\ site.inline \in BOOLEAN /\ site.key \in STRING /\ site.group \in STRING
  BY <1>2 DEF Site
<1>7. OnAddedLines(r, f, text, n) \in BOOLEAN
  BY DEF OnAddedLines
<1>8. c = [id |-> id, file |-> f, line |-> n,
           changed |-> OnAddedLines(r, f, text, n),
           actionable |-> ~(id \in r.known),
           urgency |-> urgency,
           inline |-> site.inline, key |-> site.key, group |-> site.group]
  BY DEF Card
<1>9. Profile[id[2]] = site
  BY <1>4
<1> HIDE DEF site, id, urgency
<1>10. c \in Cards
  <2>1. c.id[1] = Slug[c.file] /\ c.key = Profile[c.id[2]].key /\ c.group = Profile[c.id[2]].group
    BY <1>4, <1>8, <1>9
  <2>2. c \in [id : Ids, file : File, line : Nat \ {0}, changed : BOOLEAN,
               actionable : BOOLEAN, urgency : Urgency, inline : BOOLEAN,
               key : STRING, group : STRING]
    BY <1>1, <1>4, <1>5, <1>6, <1>7, <1>8
  <2> QED BY <2>1, <2>2 DEF Cards
<1>11. FromSite(c, r, f, text)
  <2>1. c.file = f /\ c.line = n /\ c.id = id
    BY <1>8
  <2>2. c.changed <=> OnAddedLines(r, f, text, n)
    BY <1>8
  <2>3. c.actionable <=> id \notin r.known
    <3>1. c.actionable = ~(id \in r.known)
      BY <1>8
    <3> QED BY <3>1
  <2> QED BY <1>4, <2>1, <2>2, <2>3 DEF FromSite
<1>12. c.line = n /\ c.id = id
  BY <1>8
<1> QED BY <1>10, <1>11, <1>12 DEF id

\* What the scan of a file does, one site after the other.
Finds(h, r, f, text, order, m) ==
  /\ h \in [0..m -> Seq(Cards)]
  /\ h[0] = r.found
  /\ \A k \in 1..m : h[k] = Append(h[k - 1], Card(r, h[k - 1], f, text, order[k]))

\* The scan of a file is what adding the card of one site after the other leads to.
LEMMA ScanTrace ==
  ASSUME NEW r, r.found \in Seq(Cards), NEW f \in File, NEW text \in Seq(Line),
         NEW m \in Nat, NEW order \in [1..m -> SitesOf(r, f, text)],
         order = Ascending(SitesOf(r, f, text))
  PROVE  \E h : Finds(h, r, f, text, order, m) /\ ScanFile(r, f, text) = h[m]
<1> DEFINE step(found, n) == Append(found, Card(r, found, f, text, n))
           V == Seq(Cards)
           D == [k \in 1..m |-> [found \in V |-> step(found, order[k])]]
           start == r.found
           it == CHOOSE it : it = [s \in SUBSET (1..m) |->
                                     IF s = {} THEN start
                                     ELSE step(it[s \ {Max(s)}], order[Max(s)])]
<1>1. D \in Steps(V, m)
  <2>1. ASSUME NEW k \in 1..m, NEW found \in V PROVE step(found, order[k]) \in V
    BY CardOfSite
  <2> HIDE DEF V, step
  <2> QED BY <2>1 DEF Steps
<1>2. PICK w : Folds(w, m, V, start, D)
  <2> HIDE DEF D
  <2>1. start \in V
    OBVIOUS
  <2> HIDE DEF V, start
  <2> QED BY <1>1, <2>1, SetRecursion
<1>3. \A s \in SUBSET (1..m) : s # {} => Max(s) \in 1..m /\ s \ {Max(s)} \in SUBSET (1..m)
  BY MaxOfPart
<1>4. \A k \in 1..m, found \in V : D[k][found] = step(found, order[k])
  OBVIOUS
<1> HIDE DEF V, D, step
<1>5. w = [s \in SUBSET (1..m) |->
            IF s = {} THEN start ELSE step(w[s \ {Max(s)}], order[Max(s)])]
  BY <1>2, <1>3, <1>4 DEF Folds
<1>6. it = [s \in SUBSET (1..m) |->
             IF s = {} THEN start ELSE step(it[s \ {Max(s)}], order[Max(s)])]
  BY <1>5
<1> HIDE DEF it
<1>7. Solves(it, m, V, start, D)
  <2>1. it[{}] = start
    BY <1>6
  <2>2. \A s \in SUBSET (1..m) : s # {} => it[s] = step(it[s \ {Max(s)}], order[Max(s)])
    BY <1>6
  <2> QED BY <1>3, <1>4, <2>1, <2>2 DEF Solves
<1>8. ScanFile(r, f, text) = it[1..m]
  <2>1. DOMAIN order = 1..m
    OBVIOUS
  <2>2. ScanFile(r, f, text) =
          FoldLeft(LAMBDA found, n : Append(found, Card(r, found, f, text, n)), start, order)
    BY DEF ScanFile
  <2>3. FoldLeft(LAMBDA found, n : Append(found, Card(r, found, f, text, n)), start, order)
          = it[1..m]
    BY <2>1 DEF FoldLeft, MapThenFoldSet, it, step
  <2> QED BY <2>2, <2>3
<1>9. PICK h : Trace(h, m, V, start, D) /\ h[m] = it[1..m]
  <2>1. start \in V
    BY DEF V
  <2> HIDE DEF start
  <2> QED BY <1>1, <1>7, <2>1, FoldTrace
<1>10. \A k \in 1..m : h[k] = step(h[k - 1], order[k])
  <2>1. \A k \in 1..m : h[k - 1] \in V
    BY <1>9 DEF Trace
  <2> QED BY <1>4, <1>9, <2>1 DEF Trace
<1>11. h \in [0..m -> V] /\ h[0] = start
  BY <1>9 DEF Trace
<1> QED BY <1>8, <1>9, <1>10, <1>11 DEF V, step, Finds

\* The equal seams of a file among the first n cards.
Equal(cards, n, f, s) == {j \in 1..n : cards[j].id[1] = f /\ cards[j].id[2] = s}

\* There are finitely many.
LEMMA EqualFinite ==
  ASSUME NEW cards, NEW n \in Nat, NEW f, NEW s
  PROVE  IsFiniteSet(Equal(cards, n, f, s)) /\ Cardinality(Equal(cards, n, f, s)) \in Nat
<1>1. IsFiniteSet(1..n)
  BY FS_Interval
<1>2. Equal(cards, n, f, s) \in SUBSET (1..n)
  BY DEF Equal
<1> QED BY <1>1, <1>2, FS_Subset, FS_CardinalityType

\* What the scan of one file leaves behind.
Scanned(new, r, f, text) ==
  /\ new \in Seq(Cards) /\ Numbered(new)
  /\ Len(r.found) <= Len(new)
  /\ \A i \in 1..Len(r.found) : new[i] = r.found[i]
  /\ \A i \in (Len(r.found) + 1)..Len(new) : FromSite(new[i], r, f, text)
  /\ \A n \in SitesOf(r, f, text) :
       \E i \in (Len(r.found) + 1)..Len(new) : new[i].line = n
  /\ \A i, j \in (Len(r.found) + 1)..Len(new) : new[i].line = new[j].line => i = j

\* The counter gives a card the number that comes next.
LEMMA NumberedAppend ==
  ASSUME NEW r, NEW found \in Seq(Cards), Numbered(found), NEW f \in File, NEW text \in Seq(Line),
         NEW n \in SitesOf(r, f, text), NEW new, new = Append(found, Card(r, found, f, text, n))
  PROVE  Numbered(new)
<1> DEFINE c == Card(r, found, f, text, n)
           l == Len(found)
<1>1. c \in Cards /\ c.id = CardId(found, f, text, n)
  BY CardOfSite
<1> HIDE DEF c
<1>2. /\ l \in Nat /\ DOMAIN found = 1..l
      /\ new = Append(found, c) /\ Len(new) = l + 1 /\ DOMAIN new = 1..(l + 1)
      /\ \A i \in 1..l : new[i] = found[i]
      /\ new[l + 1] = c
  <2>1. l \in Nat /\ DOMAIN found = 1..l
    BY LenProperties
  <2>2. new = Append(found, c)
    BY DEF c
  <2> QED BY <1>1, <2>1, <2>2
<1> HIDE DEF l
<1>3. ASSUME NEW i \in 1..l
      PROVE  new[i].id[3] = 1 + Cardinality({j \in 1..(i - 1) : new[j].id[1] = new[i].id[1]
                                                             /\ new[j].id[2] = new[i].id[2]})
  <2>1. {j \in 1..(i - 1) : new[j].id[1] = new[i].id[1] /\ new[j].id[2] = new[i].id[2]}
         = {j \in 1..(i - 1) : found[j].id[1] = found[i].id[1] /\ found[j].id[2] = found[i].id[2]}
    <3>1. \A j \in 1..(i - 1) : j \in 1..l
      BY <1>2
    <3> QED BY <1>2, <3>1
  <2> QED BY <1>2, <2>1 DEF Numbered
<1>4. new[l + 1].id[3] = 1 + Cardinality({j \in 1..((l + 1) - 1) : new[j].id[1] = new[l + 1].id[1]
                                                             /\ new[j].id[2] = new[l + 1].id[2]})
  <2>1. c.id = <<Slug[f], text[n], 1 + Cardinality({i \in 1..l : found[i].id[1] = Slug[f]
                                                             /\ found[i].id[2] = text[n]})>>
    BY <1>1, <1>2 DEF CardId
  <2>2. c.id[1] = Slug[f] /\ c.id[2] = text[n]
        /\ c.id[3] = 1 + Cardinality({i \in 1..l : found[i].id[1] = Slug[f] /\ found[i].id[2] = text[n]})
    BY <2>1
  <2>3. 1..((l + 1) - 1) = 1..l
    BY <1>2
  <2>4. {j \in 1..((l + 1) - 1) : new[j].id[1] = new[l + 1].id[1] /\ new[j].id[2] = new[l + 1].id[2]}
          = {i \in 1..l : found[i].id[1] = Slug[f] /\ found[i].id[2] = text[n]}
    BY <1>2, <2>2, <2>3
  <2> QED BY <1>2, <2>2, <2>4
<1>5. \A i \in 1..(l + 1) : i \in 1..l \/ i = l + 1
  BY <1>2
<1> QED BY <1>2, <1>3, <1>4, <1>5 DEF Numbered

\* Scanning a file adds a card for every site of it, each once, and nothing else.
LEMMA ScanFileFinds ==
  ASSUME NEW r, r.found \in Seq(Cards), Numbered(r.found), NEW f \in File, NEW text \in Seq(Line)
  PROVE  Scanned(ScanFile(r, f, text), r, f, text)
<1> DEFINE sites == SitesOf(r, f, text)
           order == Ascending(sites)
           m     == Cardinality(sites)
           old   == r.found
           l     == Len(old)
<1>1. l \in Nat /\ DOMAIN old = 1..l /\ old \in Seq(Cards)
  <2> HIDE DEF old
  <2>1. old \in Seq(Cards)
    BY DEF old
  <2> QED BY <2>1, LenProperties
<1>2. IsFiniteSet(sites) /\ \A n \in sites : n \in Int
  <2>1. IsFiniteSet(DOMAIN text) /\ \A n \in DOMAIN text : n \in Int
    BY Positions
  <2>2. sites \in SUBSET (DOMAIN text)
    BY DEF SitesOf
  <2> HIDE DEF sites
  <2> QED BY <2>1, <2>2, FS_Subset
<1>3. /\ m \in Nat /\ order \in [1..m -> sites]
      /\ \A n \in sites : \E k \in 1..m : order[k] = n
      /\ \A k, j \in 1..m : order[k] = order[j] => k = j
  <2>1. Ascends(order, sites)
    <3> HIDE DEF sites
    <3> QED BY <1>2, AscendingProperties
  <2> QED BY <2>1 DEF Ascends
<1>4. PICK h : Finds(h, r, f, text, order, m) /\ ScanFile(r, f, text) = h[m]
  <2>1. order = Ascending(SitesOf(r, f, text)) /\ order \in [1..m -> SitesOf(r, f, text)]
    BY <1>3
  <2> HIDE DEF order, m
  <2> QED BY <1>3, <2>1, ScanTrace
<1> HIDE DEF order, m, sites
<1> DEFINE After(k) ==
             /\ Numbered(h[k])
             /\ Len(h[k]) = l + k
             /\ \A i \in 1..l : h[k][i] = old[i]
             /\ \A i \in 1..k : FromSite(h[k][l + i], r, f, text) /\ h[k][l + i].line = order[i]
           S == {k \in 0..m : After(k)}
<1>5. 0 \in S
  BY <1>1, <1>3, <1>4 DEF Finds
<1>6. ASSUME NEW k \in 0..(m - 1), k \in S PROVE k + 1 \in S
  <2> DEFINE a == h[k]
             b == h[k + 1]
             n == order[k + 1]
             c == Card(r, a, f, text, n)
  <2>1. k \in 0..m /\ k + 1 \in 0..m /\ k + 1 \in 1..m /\ (k + 1) - 1 = k
    BY <1>3
  <2>2. a \in Seq(Cards) /\ b = Append(a, c) /\ n \in sites
    BY <1>3, <1>4, <2>1 DEF Finds
  <2>3. After(k)
    BY <1>6
  <2>4. c \in Cards /\ FromSite(c, r, f, text) /\ c.line = n
    <3>1. n \in SitesOf(r, f, text)
      BY <2>2 DEF sites
    <3> HIDE DEF a, n
    <3> QED BY <2>2, <3>1, CardOfSite
  <2>5. Numbered(b)
    <3>1. n \in SitesOf(r, f, text) /\ Numbered(a)
      BY <2>2, <2>3 DEF sites
    <3> HIDE DEF a, n, b, After
    <3> QED BY <2>2, <3>1, NumberedAppend
  <2> HIDE DEF c
  <2>6. /\ Len(b) = l + (k + 1)
        /\ \A i \in 1..(l + k) : b[i] = a[i]
        /\ b[l + (k + 1)] = c
    <3>1. Len(a) = l + k
      BY <2>3
    <3>2. l + k \in Nat /\ l + (k + 1) = (l + k) + 1
      <4>1. l \in Nat /\ k \in Nat
        BY <1>1, <1>3
      <4> HIDE DEF l
      <4> QED BY <4>1
    <3> HIDE DEF a, b, n, l
    <3>3. Len(b) = Len(a) + 1 /\ b[Len(a) + 1] = c /\ \A i \in 1..Len(a) : b[i] = a[i]
      BY <2>2, <2>4
    <3> QED BY <3>1, <3>2, <3>3
  <2>7. \A i \in 1..l : b[i] = old[i]
    <3>1. \A i \in 1..l : i \in 1..(l + k) /\ a[i] = old[i]
      BY <1>1, <2>3
    <3> QED BY <2>6, <3>1
  <2>8. ASSUME NEW i \in 1..(k + 1)
        PROVE  FromSite(b[l + i], r, f, text) /\ b[l + i].line = order[i]
    <3>1. CASE i = k + 1
      BY <2>4, <2>6, <3>1
    <3>2. CASE i # k + 1
      <4>1. i \in 1..k /\ l + i \in 1..(l + k)
        BY <1>1, <3>2
      <4>2. FromSite(a[l + i], r, f, text) /\ a[l + i].line = order[i]
        BY <2>3, <4>1
      <4> QED BY <2>6, <4>1, <4>2
    <3> QED BY <3>1, <3>2
  <2>9. After(k + 1)
    BY <2>5, <2>6, <2>7, <2>8
  <2> QED BY <2>1, <2>9
<1>7. After(m)
  <2>1. 0..m \subseteq S
    <3> HIDE DEF S
    <3> QED BY <1>3, <1>5, <1>6, Climb
  <2>2. m \in S
    BY <1>3, <2>1
  <2> QED BY <2>2
<1> DEFINE new == h[m]
<1>8. new \in Seq(Cards) /\ Len(new) = l + m
  <2>1. m \in 0..m
    BY <1>3
  <2> QED BY <1>4, <1>7, <2>1 DEF Finds
<1>9. /\ Numbered(new) /\ \A i \in 1..l : new[i] = old[i]
      /\ \A i \in 1..m : FromSite(new[l + i], r, f, text) /\ new[l + i].line = order[i]
  BY <1>7
<1> HIDE DEF new, l, old
<1>10. \A i \in (l + 1)..Len(new) : i - l \in 1..m /\ l + (i - l) = i
  BY <1>1, <1>3, <1>8
<1>11. \A i \in (l + 1)..Len(new) : FromSite(new[i], r, f, text) /\ new[i].line = order[i - l]
  BY <1>9, <1>10
<1>12. \A i, j \in (l + 1)..Len(new) : new[i].line = new[j].line => i = j
  <2> SUFFICES ASSUME NEW i \in (l + 1)..Len(new), NEW j \in (l + 1)..Len(new),
                      new[i].line = new[j].line
               PROVE  i = j
    OBVIOUS
  <2>1. i - l = j - l
    BY <1>3, <1>10, <1>11
  <2> QED BY <1>1, <2>1
<1>13. \A n \in sites : \E i \in (l + 1)..Len(new) : new[i].line = n
  <2> SUFFICES ASSUME NEW n \in sites PROVE \E i \in (l + 1)..Len(new) : new[i].line = n
    OBVIOUS
  <2>1. PICK k \in 1..m : order[k] = n
    BY <1>3
  <2>2. l + k \in (l + 1)..Len(new)
    BY <1>1, <1>3, <1>8
  <2> QED BY <1>9, <2>1, <2>2
<1>14. l <= Len(new)
  BY <1>1, <1>3, <1>8
<1>15. ScanFile(r, f, text) = new
  BY <1>4 DEF new
<1> QED BY <1>8, <1>9, <1>11, <1>12, <1>13, <1>14, <1>15 DEF Scanned, l, old, sites

\* The equal seams of a slug are numbered from 1.
LEMMA Numbering ==
  ASSUME NEW cards \in Seq(Cards), Numbered(cards), NEW f, NEW s,
         NEW E, E = Equal(cards, Len(cards), f, s)
  PROVE  /\ IsFiniteSet(E) /\ Cardinality(E) \in Nat
         /\ \A i \in E : cards[i].id[3] \in 1..Cardinality(E)
         /\ \A k \in 1..Cardinality(E) : \E i \in E : cards[i].id[3] = k
         /\ \A i, j \in E : cards[i].id[3] = cards[j].id[3] => i = j
<1> DEFINE key == [i \in E |-> <<i>>]
           num == [i \in E |-> i]
<1>1. /\ Len(cards) \in Nat /\ DOMAIN cards = 1..Len(cards)
      /\ \A i \in DOMAIN cards : cards[i] \in Cards
  BY Positions
<1>2. IsFiniteSet(E) /\ Cardinality(E) \in Nat
  BY <1>1, EqualFinite
<1>3. \A i \in E : i \in DOMAIN cards /\ i \in Nat /\ cards[i].id[1] = f /\ cards[i].id[2] = s
  BY <1>1 DEF Equal
<1>4. /\ Linear(E, key)
      /\ \A i, j \in E : Before(key[i], key[j]) <=> i < j
  <2>1. num \in [E -> Int] /\ \A i \in E : num[i] = i /\ key[i] = <<num[i]>>
    BY <1>3
  <2>2. \A i, j \in E : num[i] = num[j] => i = j
    OBVIOUS
  <2> HIDE DEF key, num
  <2>3. /\ Linear(E, key)
        /\ \A i, j \in E : Before(key[i], key[j]) <=> num[i] < num[j]
    BY <1>2, <2>1, <2>2, NumberKeys
  <2> QED BY <2>1, <2>3
<1> HIDE DEF key
<1>5. ASSUME NEW i \in E PROVE Rank(E, key, i) = cards[i].id[3] - 1
  <2> DEFINE T == {j \in 1..(i - 1) : cards[j].id[1] = cards[i].id[1]
                                        /\ cards[j].id[2] = cards[i].id[2]}
  <2>1. T = {j \in E : Before(key[j], key[i])}
    <3>1. T = {j \in E : j < i}
      BY <1>1, <1>3 DEF Equal
    <3> QED BY <1>4, <3>1
  <2>2. cards[i].id[3] = 1 + Cardinality(T)
    BY <1>3 DEF Numbered
  <2>3. Rank(E, key, i) = Cardinality(T)
    BY <2>1 DEF Rank
  <2>4. Rank(E, key, i) \in 0..(Cardinality(E) - 1)
    BY <1>4, RankBounds
  <2> HIDE DEF T
  <2> QED BY <1>2, <2>2, <2>3, <2>4
<1>6. ASSUME NEW i \in E PROVE cards[i].id[3] \in 1..Cardinality(E)
  <2>1. Rank(E, key, i) \in 0..(Cardinality(E) - 1)
    BY <1>4, RankBounds
  <2>2. cards[i].id[3] \in Nat
    BY <1>1, <1>3 DEF Cards, Ids
  <2> QED BY <1>2, <1>5, <2>1, <2>2
<1>7. ASSUME NEW k \in 1..Cardinality(E) PROVE \E i \in E : cards[i].id[3] = k
  <2>1. k - 1 \in 0..(Cardinality(E) - 1)
    BY <1>2
  <2>2. PICK i \in E : Rank(E, key, i) = k - 1
    BY <1>4, <2>1, RankOnto
  <2>3. cards[i].id[3] = k
    BY <1>2, <1>5, <1>6, <2>2
  <2> QED BY <2>3
<1>8. ASSUME NEW i \in E, NEW j \in E, cards[i].id[3] = cards[j].id[3] PROVE i = j
  <2>1. Rank(E, key, i) = Rank(E, key, j) /\ Rank(E, key, i) \in Int
    <3>1. Rank(E, key, i) \in 0..(Cardinality(E) - 1)
      BY <1>4, RankBounds
    <3> QED BY <1>2, <1>5, <1>8, <3>1
  <2>2. ~(i < j) /\ ~(j < i)
    <3>1. ~Before(key[i], key[j]) /\ ~Before(key[j], key[i])
      BY <1>4, <2>1, RankGrows
    <3> QED BY <1>4, <3>1
  <2> QED BY <1>3, <2>2
<1> QED BY <1>2, <1>6, <1>7, <1>8

\* No two cards have one identity.
LEMMA NumberedAreDistinct ==
  ASSUME NEW cards \in Seq(Cards), Numbered(cards)
  PROVE  /\ \A i, j \in DOMAIN cards : cards[i].id = cards[j].id => i = j
         /\ Distinct(cards)
<1>1. ASSUME NEW i \in DOMAIN cards, NEW j \in DOMAIN cards, cards[i].id = cards[j].id
      PROVE  i = j
  <2> DEFINE E == Equal(cards, Len(cards), cards[i].id[1], cards[i].id[2])
  <2>1. i \in E /\ j \in E
    <3>1. DOMAIN cards = 1..Len(cards)
      BY Positions
    <3> QED BY <1>1, <3>1 DEF Equal
  <2> HIDE DEF E
  <2> QED BY <1>1, <2>1, Numbering DEF E
<1> QED BY <1>1 DEF Distinct

-----------------------------------------------------------------------------
(* The ledger.                                                             *)

\* Of each seam of a slug the first copies are accepted.
Closed(accepted) ==
  /\ accepted \subseteq Ids
  /\ IsFiniteSet(accepted)
  /\ \A id \in accepted, k \in Nat \ {0} : k <= id[3] => <<id[1], id[2], k>> \in accepted

\* A set of numbers without gaps from 1 on has as many as its greatest.
LEMMA FirstNumbers ==
  ASSUME NEW P \in SUBSET (Nat \ {0}), IsFiniteSet(P),
         \A p \in P, k \in Nat \ {0} : k <= p => k \in P
  PROVE  P = 1..Cardinality(P)
<1>0. Cardinality(P) \in Nat
  BY FS_CardinalityType
<1>1. ASSUME NEW p \in P PROVE p <= Cardinality(P)
  <2>1. p \in Nat /\ 1..p \in SUBSET P
    BY <1>1
  <2>2. Cardinality(1..p) = p
    BY <2>1, FS_Interval
  <2> QED BY <2>1, <2>2, FS_Subset
<1>2. ASSUME NEW k \in 1..Cardinality(P) PROVE k \in P
  <2> SUFFICES ASSUME k \notin P PROVE FALSE
    OBVIOUS
  <2>1. k - 1 \in Nat /\ IsFiniteSet(1..(k - 1)) /\ Cardinality(1..(k - 1)) = k - 1
    <3>1. k - 1 \in Nat
      BY <1>0
    <3> QED BY <3>1, FS_Interval
  <2>2. P \in SUBSET (1..(k - 1))
    <3> SUFFICES ASSUME NEW p \in P PROVE p \in 1..(k - 1)
      OBVIOUS
    <3>1. ~(k <= p)
      BY <1>0
    <3> QED BY <1>0, <3>1
  <2>3. Cardinality(P) <= Cardinality(1..(k - 1))
    BY <2>1, <2>2, FS_Subset
  <2> QED BY <1>0, <2>1, <2>3
<1> DEFINE n == Cardinality(P)
<1>3. \A p \in P : p \in 1..n
  BY <1>0, <1>1
<1>4. \A k \in 1..n : k \in P
  BY <1>2
<1> HIDE DEF n
<1>5. P = 1..n
  BY <1>3, <1>4
<1> QED BY <1>5 DEF n

\* The copies of a seam that are accepted are the first ones.
LEMMA AcceptedAreFirst ==
  ASSUME NEW accepted, Closed(accepted), NEW g \in Slugs, NEW s \in Seam,
         NEW S, S = {id \in accepted : id[1] = g /\ id[2] = s}
  PROVE  /\ Cardinality(S) \in Nat
         /\ \A k \in Nat \ {0} : <<g, s, k>> \in accepted <=> k <= Cardinality(S)
<1> DEFINE P == {k \in Nat \ {0} : <<g, s, k>> \in accepted}
           third == [id \in S |-> id[3]]
<1>1. IsFiniteSet(S) /\ Cardinality(S) \in Nat
  <2>1. S \in SUBSET accepted /\ IsFiniteSet(accepted)
    BY DEF Closed
  <2> QED BY <2>1, FS_Subset, FS_CardinalityType
<1>2. \A id \in S : id = <<g, s, id[3]>> /\ id[3] \in Nat \ {0}
  BY DEF Closed, Ids
<1>3. IsFiniteSet(P) /\ Cardinality(P) = Cardinality(S)
  <2>1. \A id \in S : third[id] \in P
    BY <1>2
  <2>2. \A k \in P : \E id \in S : third[id] = k
    <3> SUFFICES ASSUME NEW k \in P PROVE \E id \in S : third[id] = k
      OBVIOUS
    <3>1. <<g, s, k>> \in S /\ <<g, s, k>>[3] = k
      OBVIOUS
    <3> QED BY <3>1
  <2>3. \A a, b \in S : third[a] = third[b] => a = b
    BY <1>2
  <2>4. third = [id \in S |-> third[id]]
    OBVIOUS
  <2> HIDE DEF third, P
  <2>5. Numbers(third, S, P)
    BY <2>1, <2>2, <2>3, <2>4 DEF Numbers
  <2> QED BY <1>1, <2>5, SameSize
<1>4. \A p \in P, k \in Nat \ {0} : k <= p => k \in P
  <2> SUFFICES ASSUME NEW p \in P, NEW k \in Nat \ {0}, k <= p PROVE k \in P
    OBVIOUS
  <2>1. <<g, s, p>> \in accepted /\ <<g, s, p>>[3] = p /\ <<g, s, p>>[1] = g /\ <<g, s, p>>[2] = s
    OBVIOUS
  <2> QED BY <2>1 DEF Closed
<1>5. P = 1..Cardinality(P)
  <2>1. P \in SUBSET (Nat \ {0})
    OBVIOUS
  <2> HIDE DEF P
  <2> QED BY <1>3, <1>4, <2>1, FirstNumbers
<1>6. \A k \in Nat \ {0} : <<g, s, k>> \in accepted <=> k \in P
  OBVIOUS
<1> DEFINE n == Cardinality(S)
<1> HIDE DEF P, n
<1>7. P = 1..n /\ n \in Nat
  BY <1>1, <1>3, <1>5 DEF n
<1>8. \A k \in Nat \ {0} : <<g, s, k>> \in accepted <=> k <= n
  BY <1>6, <1>7
<1> QED BY <1>7, <1>8 DEF n

\* What one review finds can be accepted,
LEMMA IdsAreClosed ==
  ASSUME NEW cards \in Seq(Cards), Numbered(cards)
  PROVE  Closed({cards[i].id : i \in DOMAIN cards})
<1> DEFINE ids == {cards[i].id : i \in DOMAIN cards}
<1>1. /\ IsFiniteSet(DOMAIN cards) /\ DOMAIN cards = 1..Len(cards)
      /\ \A i \in DOMAIN cards : cards[i] \in Cards
  BY Positions
<1>2. ids \subseteq Ids
  BY <1>1 DEF Cards
<1>3. IsFiniteSet(ids)
  <2> DEFINE idOf == [i \in DOMAIN cards |-> cards[i].id]
             places == DOMAIN cards
  <2>1. idOf \in Surjection(places, ids)
    BY DEF Surjection
  <2>2. IsFiniteSet(places)
    BY <1>1
  <2> HIDE DEF ids, idOf, places
  <2> QED BY <2>1, <2>2, FS_Surjection
<1>4. ASSUME NEW id \in ids, NEW k \in Nat \ {0}, k <= id[3]
      PROVE  <<id[1], id[2], k>> \in ids
  <2>1. PICK i \in DOMAIN cards : cards[i].id = id
    OBVIOUS
  <2> DEFINE f == id[1]
             s == id[2]
             E == Equal(cards, Len(cards), f, s)
  <2>2. i \in E
    BY <1>1, <2>1 DEF Equal
  <2>3. id[3] \in Nat
    BY <1>2 DEF Ids
  <2> HIDE DEF E, f, s, ids
  <2>4. id[3] \in 1..Cardinality(E) /\ Cardinality(E) \in Nat
    BY <2>1, <2>2, Numbering DEF E
  <2>5. k \in 1..Cardinality(E)
    BY <1>4, <2>3, <2>4
  <2>6. PICK j \in E : cards[j].id[3] = k
    BY <2>5, Numbering DEF E
  <2>7. j \in DOMAIN cards /\ cards[j].id[1] = f /\ cards[j].id[2] = s
    BY <1>1 DEF E, Equal
  <2>8. cards[j].id = <<f, s, k>>
    BY <1>1, <2>6, <2>7 DEF Cards, Ids
  <2> QED BY <2>7, <2>8 DEF ids, f, s
<1> QED BY <1>2, <1>3, <1>4 DEF Closed

\* and whatever was accepted before stays.
LEMMA UnionIsClosed ==
  ASSUME NEW A, Closed(A), NEW B, Closed(B)
  PROVE  Closed(A \cup B)
<1>1. IsFiniteSet(A \cup B)
  BY FS_Union DEF Closed
<1> QED BY <1>1 DEF Closed

-----------------------------------------------------------------------------
(* Edits.                                                                  *)

\* An edit leaves a text behind: one that adds a line,
LEMMA InsertAtInSeq ==
  ASSUME NEW s \in Seq(Line), NEW n \in 1..(Len(s) + 1), NEW new \in Line
  PROVE  InsertAt(s, n, new) \in Seq(Line)
<1>1. Len(s) \in Nat /\ \A i \in 1..Len(s) : s[i] \in Line
  BY LenProperties, ElementOfSeq
<1>2. SubSeq(s, 1, n - 1) \in Seq(Line)
  <2>1. n - 1 \in Int /\ \A i \in 1..(n - 1) : s[i] \in Line
    BY <1>1
  <2> QED BY <2>1, SubSeqProperties
<1>3. SubSeq(s, n, Len(s)) \in Seq(Line)
  <2>1. \A i \in n..Len(s) : s[i] \in Line
    BY <1>1
  <2> QED BY <1>1, <2>1, SubSeqProperties
<1>4. <<new>> \in Seq(Line)
  OBVIOUS
<1>5. SubSeq(s, 1, n - 1) \o <<new>> \in Seq(Line)
  BY <1>2, <1>4, ConcatProperties
<1> QED BY <1>3, <1>5, ConcatProperties DEF InsertAt

\* and one that takes a line away.
LEMMA RemoveAtInSeq ==
  ASSUME NEW s \in Seq(Line), NEW n \in DOMAIN s
  PROVE  RemoveAt(s, n) \in Seq(Line)
<1>1. Len(s) \in Nat /\ DOMAIN s = 1..Len(s) /\ \A i \in 1..Len(s) : s[i] \in Line
  BY LenProperties, ElementOfSeq
<1>2. SubSeq(s, 1, n - 1) \in Seq(Line)
  <2>1. n - 1 \in Int /\ \A i \in 1..(n - 1) : s[i] \in Line
    BY <1>1
  <2> QED BY <2>1, SubSeqProperties
<1>3. SubSeq(s, n + 1, Len(s)) \in Seq(Line)
  <2>1. n + 1 \in Int /\ \A i \in (n + 1)..Len(s) : s[i] \in Line
    BY <1>1
  <2> QED BY <1>1, <2>1, SubSeqProperties
<1> QED BY <1>2, <1>3, ConcatProperties DEF RemoveAt

-----------------------------------------------------------------------------
(* The whole scan of baseline init.                                        *)

Everything(r, tree) ==
  FoldLeft(LAMBDA cards, f : ScanFile([r EXCEPT !.found = cards], f, tree[f]),
           <<>>, Discovered)

\* Its cards are numbered too, all files one after the other.
LEMMA EverythingIsNumbered ==
  ASSUME NEW tree \in [File -> Seq(Line)], NEW r, r = NewReview(TRUE, NoCap)
  PROVE  Everything(r, tree) \in Seq(Cards) /\ Numbered(Everything(r, tree))
<1> DEFINE step(cards, f) == ScanFile([r EXCEPT !.found = cards], f, tree[f])
           m == Len(Discovered)
           V == {cards \in Seq(Cards) : Numbered(cards)}
           D == [k \in 1..m |-> [cards \in V |-> step(cards, Discovered[k])]]
           it == CHOOSE it : it = [s \in SUBSET (1..m) |->
                                     IF s = {} THEN <<>>
                                     ELSE step(it[s \ {Max(s)}], Discovered[Max(s)])]
<1>0. m \in Nat /\ DOMAIN Discovered = 1..m /\ \A k \in 1..m : Discovered[k] \in File
  <2>1. Discovered \in Seq(File)
    BY ReviewAssumption DEF ReviewAssumption
  <2> QED BY <2>1, LenProperties, ElementOfSeq
<1>1. <<>> \in V
  BY EmptySeq DEF Numbered
<1>2. D \in Steps(V, m)
  <2>1. ASSUME NEW k \in 1..m, NEW cards \in V PROVE step(cards, Discovered[k]) \in V
    <3> DEFINE q == [r EXCEPT !.found = cards]
               f == Discovered[k]
    <3>1. q.found = cards
      BY DEF NewReview
    <3>2. f \in File /\ tree[f] \in Seq(Line)
      BY <1>0
    <3> HIDE DEF q, f
    <3>3. Scanned(ScanFile(q, f, tree[f]), q, f, tree[f])
      BY <3>1, <3>2, ScanFileFinds
    <3>4. step(cards, Discovered[k]) = ScanFile(q, f, tree[f])
      BY DEF q, f
    <3> QED BY <3>3, <3>4 DEF Scanned
  <2> HIDE DEF V, step, m
  <2> QED BY <2>1 DEF Steps
<1> HIDE DEF m
<1>3. PICK w : Folds(w, m, V, <<>>, D)
  <2> DEFINE none == <<>>
  <2>1. none \in V
    BY <1>1
  <2> HIDE DEF D, V, none
  <2>2. \E w : Folds(w, m, V, none, D)
    BY <1>0, <1>2, <2>1, SetRecursion
  <2> QED BY <2>2 DEF none
<1>4. \A s \in SUBSET (1..m) : s # {} => Max(s) \in 1..m /\ s \ {Max(s)} \in SUBSET (1..m)
  BY <1>0, MaxOfPart
<1>5. \A k \in 1..m, cards \in V : D[k][cards] = step(cards, Discovered[k])
  OBVIOUS
<1> HIDE DEF V, D, step
<1>6. w = [s \in SUBSET (1..m) |->
            IF s = {} THEN <<>> ELSE step(w[s \ {Max(s)}], Discovered[Max(s)])]
  BY <1>3, <1>4, <1>5 DEF Folds
<1>7. it = [s \in SUBSET (1..m) |->
             IF s = {} THEN <<>> ELSE step(it[s \ {Max(s)}], Discovered[Max(s)])]
  BY <1>6
<1> HIDE DEF it
<1>8. Solves(it, m, V, <<>>, D)
  <2>1. it[{}] = <<>>
    BY <1>7
  <2>2. \A s \in SUBSET (1..m) : s # {} => it[s] = step(it[s \ {Max(s)}], Discovered[Max(s)])
    BY <1>7
  <2> QED BY <1>4, <1>5, <2>1, <2>2 DEF Solves
<1>9. Everything(r, tree) = it[1..m]
  <2>1. FoldLeft(LAMBDA cards, f : ScanFile([r EXCEPT !.found = cards], f, tree[f]),
                 <<>>, Discovered) = it[1..m]
    BY <1>0 DEF FoldLeft, MapThenFoldSet, it, step
  <2> QED BY <2>1 DEF Everything
<1>10. it[1..m] \in V
  <2> DEFINE none == <<>>
  <2>1. none \in V /\ Solves(it, m, V, none, D)
    BY <1>1, <1>8
  <2> HIDE DEF none
  <2>2. PICK h : Trace(h, m, V, none, D) /\ h[m] = it[1..m]
    BY <1>0, <1>2, <2>1, FoldTrace
  <2>3. m \in 0..m
    BY <1>0
  <2> QED BY <2>2, <2>3 DEF Trace
<1> QED BY <1>9, <1>10 DEF V

-----------------------------------------------------------------------------
(* The files of a diff.                                                    *)

\* Each file once.
FilesOnce(todo) ==
  todo \in Seq(File) /\ \A k, l \in DOMAIN todo : todo[k] = todo[l] => k = l

Pending(todo) == {todo[k] : k \in DOMAIN todo}

\* Discovery finds every file once.
LEMMA DiscoveredOnce == FilesOnce(Discovered) /\ Pending(Discovered) = File
BY ReviewAssumption DEF ReviewAssumption, FilesOnce, Pending, Range, IsInjective

\* The files to scan are those the diff names, each once.
LEMMA TouchedOnce ==
  ASSUME NEW index
  PROVE  /\ FilesOnce(Touched(index))
         /\ Pending(Touched(index)) = {f \in File : ContainsFile(index, f)}
<1> DEFINE S   == {i \in DOMAIN Discovered : ContainsFile(index, Discovered[i])}
           at  == Ascending(S)
           m   == Cardinality(S)
           e(k) == Discovered[at[k]]
           todo == [k \in 1..m |-> e(k)]
<1>1. /\ IsFiniteSet(DOMAIN Discovered)
      /\ \A i \in DOMAIN Discovered : Discovered[i] \in File /\ i \in Int
  <2>1. Discovered \in Seq(File)
    BY DiscoveredOnce DEF FilesOnce
  <2> QED BY <2>1, Positions
<1>2. IsFiniteSet(S) /\ \A n \in S : n \in Int
  <2>1. S \in SUBSET (DOMAIN Discovered)
    OBVIOUS
  <2> HIDE DEF S
  <2> QED BY <1>1, <2>1, FS_Subset
<1>3. /\ m \in Nat /\ at \in [1..m -> S]
      /\ \A n \in S : \E k \in 1..m : at[k] = n
      /\ \A k, j \in 1..m : at[k] = at[j] => k = j
  <2>1. Ascends(at, S)
    <3> HIDE DEF S
    <3> QED BY <1>2, AscendingProperties
  <2> QED BY <2>1 DEF Ascends
<1> HIDE DEF at, m
<1>4. \A k \in 1..m : at[k] \in DOMAIN Discovered /\ ContainsFile(index, e(k))
  BY <1>3
<1>5. Touched(index) = todo
  <2>1. DOMAIN at = 1..m
    BY <1>3
  <2> QED BY <2>1 DEF Touched, at
<1>6. todo \in Seq(File) /\ DOMAIN todo = 1..m
  <2>1. \A k \in 1..m : e(k) \in File
    BY <1>1, <1>4
  <2>2. DOMAIN todo = 1..m
    OBVIOUS
  <2> HIDE DEF e
  <2> QED BY <1>3, <2>1, <2>2, IsASeq
<1>7. \A k, l \in 1..m : e(k) = e(l) => k = l
  BY <1>3, <1>4, DiscoveredOnce DEF FilesOnce
<1>8. FilesOnce(todo)
  BY <1>6, <1>7 DEF FilesOnce
<1>9. Pending(todo) = {f \in File : ContainsFile(index, f)}
  <2>1. ASSUME NEW f \in File, ContainsFile(index, f) PROVE f \in Pending(todo)
    <3>1. PICK i \in DOMAIN Discovered : Discovered[i] = f
      BY DiscoveredOnce DEF Pending
    <3>2. PICK k \in 1..m : at[k] = i
      BY <1>3, <2>1, <3>1
    <3>3. todo[k] = f
      BY <3>1, <3>2
    <3> QED BY <1>6, <3>3 DEF Pending
  <2>2. ASSUME NEW f \in Pending(todo) PROVE f \in File /\ ContainsFile(index, f)
    <3>1. PICK k \in 1..m : e(k) = f
      BY <1>6 DEF Pending
    <3> QED BY <1>1, <1>4, <3>1
  <2> QED BY <2>1, <2>2
<1> QED BY <1>5, <1>8, <1>9

-----------------------------------------------------------------------------
(* The invariant.                                                          *)

Fields == {"repo", "cap", "done", "still", "index", "added", "known", "todo",
           "found", "kept", "passed", "plan"}

Trees ==
  /\ base \in [File -> Seq(Line)]
  /\ head \in [File -> Seq(Line)]
  /\ work \in [File -> Seq(Line)]

\* What a review consists of; what it concludes follows from what it found.
Shape(r) ==
  /\ r = [x \in Fields |-> r[x]]
  /\ r.repo \in BOOLEAN /\ r.done \in BOOLEAN /\ r.still \in BOOLEAN
  /\ r.cap \in Cap
  /\ FilesOnce(r.todo)
  /\ r.found \in Seq(Cards) /\ Numbered(r.found)
  /\ r.done => /\ r.todo = <<>>
               /\ r.kept = Kept(r)
               /\ r.passed = Passes(r.kept)
               /\ r.plan = CommentPlan(r.kept, PlanLimit)

\* A file is scanned once, and no line of it has two cards.
Once(r) ==
  /\ \A i \in DOMAIN r.found : r.found[i].file \notin Pending(r.todo)
  /\ \A i, j \in DOMAIN r.found :
       r.found[i].file = r.found[j].file /\ r.found[i].line = r.found[j].line => i = j

Reviewed(r) == {f \in File : r.repo \/ ContainsFile(r.index, f)} \ Pending(r.todo)

\* The lines of a file that have a card.
Carded(found, f) == {found[i].line : i \in {j \in DOMAIN found : found[j].file = f}}

\* The cards are those of the sites in tree.
Finding(r, tree) ==
  /\ \A i \in DOMAIN r.found :
       FromSite(r.found[i], r, r.found[i].file, tree[r.found[i].file])
  /\ \A f \in Reviewed(r) : SitesOf(r, f, tree[f]) \subseteq Carded(r.found, f)

ReviewInv ==
  review # NoReview =>
    /\ Shape(review)
    /\ review.known = ledger
    /\ Once(review)
    /\ review.still => Finding(review, work)

Inv ==
  /\ Trees
  /\ Closed(ledger)
  /\ ReviewInv

\* Scope and ledger do not depend on what was found.
LEMMA SameSites ==
  ASSUME NEW r, NEW q, q.repo = r.repo, q.index = r.index, q.known = r.known
  PROVE  /\ \A f, text : SitesOf(q, f, text) = SitesOf(r, f, text)
         /\ \A c, f, text : FromSite(c, q, f, text) <=> FromSite(c, r, f, text)
<1>1. \A f, text, n : OnAddedLines(q, f, text, n) <=> OnAddedLines(r, f, text, n)
  BY DEF OnAddedLines
<1>2. \A f, text, n : InScope(q, f, text, n) <=> InScope(r, f, text, n)
  BY DEF InScope
<1>3. \A f, text : SitesOf(q, f, text) = SitesOf(r, f, text)
  BY <1>2 DEF SitesOf
<1> QED BY <1>1, <1>3 DEF FromSite

\* The invariant holds initially.
LEMMA InvInit == Init => Inv
<1> SUFFICES ASSUME Init PROVE Inv
  OBVIOUS
<1>1. Trees
  BY ReviewAssumption DEF Init, Trees, ReviewAssumption
<1>2. Closed(ledger)
  BY FS_EmptySet DEF Init, Closed
<1>3. ReviewInv
  BY DEF Init, ReviewInv
<1> QED BY <1>1, <1>2, <1>3 DEF Inv

\* An edit moves the tree under a running review, which is still no more.
LEMMA InvEdit == Inv /\ Edit => Inv'
<1> SUFFICES ASSUME Inv, Edit PROVE Inv'
  OBVIOUS
<1>1. PICK f \in File : InsertLine(f) \/ DeleteLine(f)
  BY DEF Edit
<1>2. work' \in [File -> Seq(Line)]
  <2>0. work \in [File -> Seq(Line)] /\ work[f] \in Seq(Line)
    BY DEF Inv, Trees
  <2>1. CASE InsertLine(f)
    <3>1. PICK n \in 1..(Len(work[f]) + 1), new \in NewLines :
            work' = [work EXCEPT ![f] = InsertAt(work[f], n, new)]
      BY <2>1 DEF InsertLine
    <3>2. new \in Line
      BY ReviewAssumption DEF ReviewAssumption
    <3>3. InsertAt(work[f], n, new) \in Seq(Line)
      BY <2>0, <3>2, InsertAtInSeq
    <3> QED BY <2>0, <3>1, <3>3
  <2>2. CASE DeleteLine(f)
    <3>1. PICK n \in DOMAIN work[f] : work' = [work EXCEPT ![f] = RemoveAt(work[f], n)]
      BY <2>2 DEF DeleteLine
    <3>2. RemoveAt(work[f], n) \in Seq(Line)
      BY <2>0, RemoveAtInSeq
    <3> QED BY <2>0, <3>1, <3>2
  <2> QED BY <1>1, <2>1, <2>2
<1>3. Trees' /\ Closed(ledger)'
  BY <1>2 DEF Edit, Inv, Trees
<1>4. ReviewInv'
  <2>1. CASE Idle
    <3>1. review' = review
      BY <2>1 DEF Edit, Disturbed, Running, Idle
    <3> QED BY <2>1, <3>1 DEF ReviewInv, Idle
  <2>2. CASE Running
    <3> DEFINE r == review
               q == [r EXCEPT !.still = FALSE]
    <3>1. review' = q /\ ledger' = ledger
      BY <2>2 DEF Edit, Disturbed
    <3>2. Shape(r) /\ r.known = ledger /\ Once(r) /\ ~r.done
      BY <2>2 DEF Inv, ReviewInv, Running
    <3>3. /\ q = [x \in Fields |-> q[x]] /\ q.still = FALSE
          /\ q.repo = r.repo /\ q.done = r.done /\ q.cap = r.cap /\ q.todo = r.todo
          /\ q.found = r.found /\ q.known = r.known
      BY <3>2 DEF Shape, Fields
    <3> HIDE DEF q, r
    <3>4. Shape(q) /\ Once(q)
      BY <3>2, <3>3 DEF Shape, Once
    <3> QED BY <3>1, <3>2, <3>3, <3>4 DEF ReviewInv
  <2> QED BY <2>1, <2>2 DEF Edit
<1> QED BY <1>3, <1>4 DEF Inv

\* A commit changes nothing that a review has read.
LEMMA InvCommit == Inv /\ Commit => Inv'
<1> SUFFICES ASSUME Inv, Commit PROVE Inv'
  OBVIOUS
<1>1. Trees' /\ Closed(ledger)'
  BY DEF Inv, Trees, Commit
<1>2. ReviewInv'
  BY DEF Inv, ReviewInv, Commit
<1> QED BY <1>1, <1>2 DEF Inv

\* What is captured has no gaps, and neither has what it is added to.
LEMMA InvAccept == Inv /\ Accept => Inv'
<1> SUFFICES ASSUME Inv, Accept PROVE Inv'
  OBVIOUS
<1> DEFINE r == NewReview(TRUE, NoCap)
           found == Everything(r, work)
           ids == {found[i].id : i \in DOMAIN found}
<1>1. found \in Seq(Cards) /\ Numbered(found)
  BY EverythingIsNumbered DEF Inv, Trees
<1>2. ledger' = ledger \cup ids
  BY DEF Accept, Everything
<1>3. Closed(ids)
  <2> HIDE DEF found
  <2> QED BY <1>1, IdsAreClosed
<1> HIDE DEF ids
<1>4. Closed(ledger')
  BY <1>2, <1>3, UnionIsClosed DEF Inv
<1>5. Trees' /\ ReviewInv'
  BY DEF Accept, Inv, Trees, ReviewInv, Idle
<1> QED BY <1>4, <1>5 DEF Inv

\* A review that has not found anything yet.
LEMMA FreshReview ==
  ASSUME NEW r, Shape(r), r.found = <<>>, Pending(r.todo) = {f \in File : r.repo \/ ContainsFile(r.index, f)},
         NEW tree
  PROVE  Once(r) /\ Finding(r, tree)
<1>1. DOMAIN r.found = {}
  OBVIOUS
<1>2. Reviewed(r) = {}
  BY DEF Reviewed
<1> QED BY <1>1, <1>2 DEF Once, Finding

\* A review begins with nothing found and every file in scope to do.
LEMMA InvBegin == Inv /\ Begin => Inv'
<1> SUFFICES ASSUME Inv, Begin PROVE Inv'
  OBVIOUS
<1>1. Trees' /\ Closed(ledger)'
  BY DEF Begin, Inv, Trees
<1>2. PICK repo \in BOOLEAN, cap \in Cap :
        LET r == NewReview(repo, cap)
        IN  \/ repo /\ review' = r
            \/ ~repo /\ \E index, added :
                 review' = [r EXCEPT !.index = index, !.added = added, !.todo = Touched(index)]
  BY DEF Begin
<1> DEFINE r == NewReview(repo, cap)
           q == review'
<1>3. /\ Shape(q) /\ q.known = ledger /\ q.found = <<>>
      /\ Pending(q.todo) = {f \in File : q.repo \/ ContainsFile(q.index, f)}
  <2>1. CASE repo /\ q = r
    <3>1. /\ q = [x \in Fields |-> q[x]] /\ q.repo = TRUE /\ q.done = FALSE
          /\ q.still \in BOOLEAN /\ q.cap = cap /\ q.todo = Discovered
          /\ q.found = <<>> /\ q.known = ledger
      BY <2>1 DEF NewReview, Fields
    <3> HIDE DEF q, r
    <3>2. Numbered(<<>>) /\ <<>> \in Seq(Cards)
      BY EmptySeq DEF Numbered
    <3>3. Shape(q)
      BY <3>1, <3>2, DiscoveredOnce DEF Shape
    <3> QED BY <3>1, <3>3, DiscoveredOnce
  <2>2. CASE ~repo /\ \E index, added :
                 q = [r EXCEPT !.index = index, !.added = added, !.todo = Touched(index)]
    <3>1. PICK index, added :
            q = [r EXCEPT !.index = index, !.added = added, !.todo = Touched(index)]
      BY <2>2
    <3>2. /\ q = [x \in Fields |-> q[x]] /\ q.repo = FALSE /\ q.done = FALSE
          /\ q.still \in BOOLEAN /\ q.cap = cap /\ q.todo = Touched(index)
          /\ q.found = <<>> /\ q.known = ledger /\ q.index = index
      BY <2>2, <3>1 DEF NewReview, Fields
    <3> HIDE DEF q, r
    <3>3. Numbered(<<>>) /\ <<>> \in Seq(Cards)
      BY EmptySeq DEF Numbered
    <3>4. Shape(q)
      BY <3>2, <3>3, TouchedOnce DEF Shape
    <3> QED BY <3>2, <3>4, TouchedOnce
  <2> QED BY <1>2, <2>1, <2>2
<1> HIDE DEF q
<1>4. Once(q) /\ Finding(q, work')
  BY <1>3, FreshReview
<1>5. ledger' = ledger
  BY DEF Begin
<1>6. ReviewInv'
  BY <1>3, <1>4, <1>5 DEF ReviewInv, q
<1> QED BY <1>1, <1>6 DEF Inv

\* One file fewer to do.
LEMMA FirstAndRest ==
  ASSUME NEW todo, FilesOnce(todo), todo # <<>>
  PROVE  /\ Head(todo) \in Pending(todo) /\ Head(todo) \in File
         /\ FilesOnce(Tail(todo))
         /\ Pending(Tail(todo)) = Pending(todo) \ {Head(todo)}
<1> DEFINE rest == Tail(todo)
           n    == Len(todo)
<1>1. todo \in Seq(File) /\ n \in Nat /\ DOMAIN todo = 1..n
  <2>1. todo \in Seq(File)
    BY DEF FilesOnce
  <2> QED BY <2>1, LenProperties
<1>2. n \in Nat \ {0}
  BY <1>1, EmptySeq
<1>3. Head(todo) = todo[1] /\ Head(todo) \in File
  BY <1>1, HeadTailProperties
<1>4. /\ rest \in Seq(File) /\ Len(rest) = n - 1
      /\ \A i \in 1..(n - 1) : rest[i] = todo[i + 1]
  <2>1. rest \in Seq(File) /\ Len(rest) = n - 1
    BY <1>1, HeadTailProperties
  <2>2. \A i \in 1..Len(rest) : rest[i] = todo[i + 1]
    BY <1>1, HeadTailProperties
  <2> QED BY <2>1, <2>2
<1>5. DOMAIN rest = 1..(n - 1)
  <2> HIDE DEF rest, n
  <2>1. DOMAIN rest = 1..Len(rest)
    BY <1>4, LenProperties
  <2> QED BY <1>4, <2>1
<1> HIDE DEF rest, n
<1>6. \A k, l \in 1..n : todo[k] = todo[l] => k = l
  BY <1>1 DEF FilesOnce
<1>7. FilesOnce(rest)
  <2>1. \A k, l \in 1..(n - 1) : rest[k] = rest[l] => k = l
    <3> SUFFICES ASSUME NEW k \in 1..(n - 1), NEW l \in 1..(n - 1), rest[k] = rest[l]
                 PROVE  k = l
      OBVIOUS
    <3>1. k + 1 \in 1..n /\ l + 1 \in 1..n /\ todo[k + 1] = todo[l + 1]
      BY <1>2, <1>4
    <3>2. k + 1 = l + 1
      BY <1>6, <3>1
    <3> QED BY <1>2, <3>2
  <2> QED BY <1>4, <1>5, <2>1 DEF FilesOnce
<1>8. Pending(rest) = Pending(todo) \ {todo[1]}
  <2>1. ASSUME NEW f \in Pending(rest) PROVE f \in Pending(todo) /\ f # todo[1]
    <3>1. PICK k \in 1..(n - 1) : rest[k] = f
      BY <1>5 DEF Pending
    <3>2. k + 1 \in 1..n /\ todo[k + 1] = f /\ k + 1 # 1 /\ 1 \in 1..n
      BY <1>2, <1>4, <3>1
    <3> QED BY <1>1, <1>6, <3>2 DEF Pending
  <2>2. ASSUME NEW f \in Pending(todo), f # todo[1] PROVE f \in Pending(rest)
    <3>1. PICK k \in 1..n : todo[k] = f
      BY <1>1 DEF Pending
    <3>2. k - 1 \in 1..(n - 1) /\ (k - 1) + 1 = k
      BY <1>2, <2>2, <3>1
    <3>3. rest[k - 1] = f
      BY <1>4, <3>1, <3>2
    <3> QED BY <1>5, <3>2, <3>3 DEF Pending
  <2> QED BY <2>1, <2>2
<1>9. Head(todo) \in Pending(todo)
  BY <1>1, <1>2, <1>3 DEF Pending
<1> QED BY <1>3, <1>7, <1>8, <1>9 DEF rest

\* One more file has been scanned.
LEMMA ScanKeeps ==
  ASSUME NEW r, Shape(r), Once(r), r.todo # <<>>,
         NEW f, f = Head(r.todo), NEW text \in Seq(Line), NEW q,
         q.todo = Tail(r.todo), q.repo = r.repo, q.index = r.index, q.known = r.known,
         q.found \in Seq(Cards), Scanned(q.found, r, f, text)
  PROVE  /\ Once(q)
         /\ \A tree : tree[f] = text /\ Finding(r, tree) => Finding(q, tree)
<1> DEFINE old == r.found
           new == q.found
           l   == Len(old)
           n   == Len(new)
<1>1. l \in Nat /\ DOMAIN old = 1..l /\ n \in Nat /\ DOMAIN new = 1..n
  <2>1. old \in Seq(Cards) /\ new \in Seq(Cards)
    BY DEF Shape
  <2> HIDE DEF old, new
  <2> QED BY <2>1, LenProperties
<1>2. /\ l <= n
      /\ \A i \in 1..l : new[i] = old[i]
      /\ \A i \in (l + 1)..n : FromSite(new[i], r, f, text) /\ new[i].file = f
      /\ \A k \in SitesOf(r, f, text) : \E i \in (l + 1)..n : new[i].line = k
      /\ \A i, j \in (l + 1)..n : new[i].line = new[j].line => i = j
  BY DEF Scanned, FromSite
<1>3. /\ f \in Pending(r.todo) /\ f \in File
      /\ Pending(q.todo) = Pending(r.todo) \ {f}
  BY FirstAndRest DEF Shape
<1> HIDE DEF old, new, l, n
<1>4. \A i \in 1..n : i \in 1..l \/ i \in (l + 1)..n
  BY <1>1
<1>5. \A i \in 1..l : i \in 1..n /\ old[i].file # f /\ old[i].file \notin Pending(r.todo)
  BY <1>1, <1>2, <1>3 DEF Once, old
<1>6. \A i \in (l + 1)..n : i \in 1..n
  BY <1>1
<1>7. Once(q)
  <2>1. \A i \in 1..n : new[i].file \notin Pending(q.todo)
    BY <1>2, <1>3, <1>4, <1>5
  <2>2. ASSUME NEW i \in 1..n, NEW j \in 1..n,
               new[i].file = new[j].file, new[i].line = new[j].line
        PROVE  i = j
    <3>1. CASE i \in 1..l /\ j \in 1..l
      <4>1. old[i].file = old[j].file /\ old[i].line = old[j].line
        BY <1>2, <2>2, <3>1
      <4> QED BY <1>1, <3>1, <4>1 DEF Once, old
    <3>2. CASE i \in (l + 1)..n /\ j \in (l + 1)..n
      BY <1>2, <2>2, <3>2
    <3>3. CASE i \in 1..l /\ j \in (l + 1)..n
      BY <1>2, <1>5, <2>2, <3>3
    <3>4. CASE j \in 1..l /\ i \in (l + 1)..n
      BY <1>2, <1>5, <2>2, <3>4
    <3> QED BY <1>4, <3>1, <3>2, <3>3, <3>4
  <2> QED BY <1>1, <2>1, <2>2 DEF Once, new
<1>8. ASSUME NEW tree, tree[f] = text, Finding(r, tree) PROVE Finding(q, tree)
  <2>1. ASSUME NEW i \in 1..n PROVE FromSite(new[i], q, new[i].file, tree[new[i].file])
    <3>1. CASE i \in 1..l
      <4>1. FromSite(old[i], r, old[i].file, tree[old[i].file])
        BY <1>1, <1>8, <3>1 DEF Finding, old
      <4>2. new[i] = old[i]
        BY <1>2, <3>1
      <4> QED BY <4>1, <4>2, SameSites
    <3>2. CASE i \in (l + 1)..n
      <4>1. FromSite(new[i], r, f, text) /\ new[i].file = f
        BY <1>2, <3>2
      <4> QED BY <1>8, <4>1, SameSites
    <3> QED BY <1>4, <3>1, <3>2
  <2>2. ASSUME NEW g \in Reviewed(q), NEW k \in SitesOf(q, g, tree[g])
        PROVE  k \in Carded(new, g)
    <3>0. k \in SitesOf(r, g, tree[g])
      BY SameSites
    <3>1. CASE g = f
      <4>1. PICK i \in (l + 1)..n : new[i].line = k
        BY <1>2, <1>8, <3>0, <3>1
      <4> QED BY <1>1, <1>2, <1>6, <3>1, <4>1 DEF Carded
    <3>2. CASE g # f
      <4>1. g \in Reviewed(r)
        BY <1>3, <3>2 DEF Reviewed, ContainsFile
      <4>2. k \in Carded(old, g)
        BY <1>8, <3>0, <4>1 DEF Finding, old
      <4>3. PICK i \in 1..l : old[i].file = g /\ old[i].line = k
        BY <1>1, <4>2 DEF Carded
      <4> QED BY <1>1, <1>2, <1>5, <4>3 DEF Carded
    <3> QED BY <3>1, <3>2
  <2>3. \A g \in Reviewed(q) : SitesOf(q, g, tree[g]) \subseteq Carded(new, g)
    BY <2>2
  <2> QED BY <1>1, <2>1, <2>3 DEF Finding, new
<1> QED BY <1>7, <1>8

\* Scanning a file keeps what was found and adds the cards of its sites.
LEMMA InvScan == Inv /\ Scan => Inv'
<1> SUFFICES ASSUME Inv, Scan PROVE Inv'
  OBVIOUS
<1> DEFINE r == review
           q == review'
           f == Head(r.todo)
           text == work[f]
<1>1. /\ Shape(r) /\ r.known = ledger /\ Once(r) /\ ~r.done /\ r.todo # <<>>
      /\ r.still => Finding(r, work)
  BY DEF Inv, ReviewInv, Scan, Running
<1>2. q = [r EXCEPT !.found = ScanFile(r, f, text), !.todo = Tail(@)]
  BY DEF Scan
<1>3. /\ q = [x \in Fields |-> q[x]]
      /\ q.repo = r.repo /\ q.done = r.done /\ q.cap = r.cap /\ q.still = r.still
      /\ q.known = r.known /\ q.index = r.index
      /\ q.found = ScanFile(r, f, text) /\ q.todo = Tail(r.todo)
  BY <1>1, <1>2 DEF Shape, Fields
<1>4. FilesOnce(Tail(r.todo)) /\ f \in File
  BY <1>1, FirstAndRest DEF Shape
<1>5. text \in Seq(Line)
  BY <1>4 DEF Inv, Trees
<1>6. work' = work /\ ledger' = ledger
  BY DEF Scan
<1> HIDE DEF r, q, f, text
<1>7. Scanned(q.found, r, f, text)
  BY <1>1, <1>3, <1>4, <1>5, ScanFileFinds DEF Shape
<1>8. Shape(q)
  BY <1>1, <1>3, <1>4, <1>7 DEF Shape, Scanned
<1>9. Once(q) /\ (Finding(r, work) => Finding(q, work))
  <2>1. q.found \in Seq(Cards)
    BY <1>8 DEF Shape
  <2>2. work[f] = text /\ f = Head(r.todo)
    BY DEF text, f
  <2> QED BY <1>1, <1>3, <1>5, <1>7, <2>1, <2>2, ScanKeeps
<1>10. Trees' /\ Closed(ledger)'
  BY DEF Inv, Trees, Scan
<1>11. ReviewInv'
  BY <1>1, <1>3, <1>6, <1>8, <1>9 DEF ReviewInv, q
<1> QED BY <1>10, <1>11 DEF Inv

\* The conclusion follows from what was found.
LEMMA InvFinish == Inv /\ Finish => Inv'
<1> SUFFICES ASSUME Inv, Finish PROVE Inv'
  OBVIOUS
<1> DEFINE r == review
           q == review'
           kept == Kept(r)
           plan == CommentPlan(kept, PlanLimit)
<1>1. /\ Shape(r) /\ r.known = ledger /\ Once(r) /\ ~r.done /\ r.todo = <<>>
      /\ r.still => Finding(r, work)
  BY DEF Inv, ReviewInv, Finish, Running
<1>2. q = [r EXCEPT !.done = TRUE, !.kept = kept, !.passed = Passes(kept), !.plan = plan]
  BY DEF Finish, Conclude
<1> HIDE DEF kept, plan
<1>3. /\ q = [x \in Fields |-> q[x]]
      /\ q.repo = r.repo /\ q.done = TRUE /\ q.cap = r.cap /\ q.still = r.still
      /\ q.known = r.known /\ q.index = r.index
      /\ q.found = r.found /\ q.todo = r.todo
      /\ q.kept = kept /\ q.passed = Passes(kept) /\ q.plan = plan
  BY <1>1, <1>2 DEF Shape, Fields
<1>4. work' = work /\ ledger' = ledger
  BY DEF Finish
<1> HIDE DEF r, q
<1>5. Kept(q) = kept
  BY <1>3 DEF Kept, kept
<1>6. Shape(q)
  BY <1>1, <1>3, <1>5 DEF Shape, plan
<1>7. Once(q)
  BY <1>1, <1>3 DEF Once
<1>8. Finding(r, work) => Finding(q, work)
  <2>1. Reviewed(q) = Reviewed(r)
    BY <1>3 DEF Reviewed, ContainsFile
  <2> QED BY <1>3, <2>1, SameSites DEF Finding
<1>9. Trees' /\ Closed(ledger)'
  BY DEF Inv, Trees, Finish
<1>10. ReviewInv'
  BY <1>1, <1>3, <1>4, <1>6, <1>7, <1>8 DEF ReviewInv, q
<1> QED BY <1>9, <1>10 DEF Inv

\* In every behaviour the cards of a review are those of the sites in its scope,
\* numbered without gaps, and so is what is accepted (card_id, site_in_scope,
\* baseline init), whatever is edited and committed meanwhile.
THEOREM ReviewIsSound == Spec => []Inv
<1>1. Inv /\ UNCHANGED vars => Inv'
  BY DEF Inv, Trees, ReviewInv, Finding, FromSite, vars
<1>2. Inv /\ [Next]_vars => Inv'
  BY <1>1, InvEdit, InvCommit, InvAccept, InvBegin, InvScan, InvFinish DEF Next
<1> QED BY <1>2, InvInit, PTL DEF Spec

-----------------------------------------------------------------------------
(* What a review concludes.                                                *)

\* Cards of one repetition group are of one family.
LEMMA GroupsOfCards ==
  ASSUME NEW cards \in Seq(Cards)
  PROVE  GroupsShareKeys(cards)
<1> SUFFICES ASSUME NEW i \in DOMAIN cards, NEW j \in DOMAIN cards,
                    cards[i].group = cards[j].group, cards[i].group # "none"
             PROVE  cards[i].key = cards[j].key
  BY DEF GroupsShareKeys
<1>1. cards[i] \in Cards /\ cards[j] \in Cards
  BY Positions
<1>2. /\ cards[i].id[2] \in Seam /\ cards[j].id[2] \in Seam
      /\ cards[i].key = Profile[cards[i].id[2]].key
      /\ cards[j].key = Profile[cards[j].id[2]].key
      /\ cards[i].group = Profile[cards[i].id[2]].group
      /\ cards[j].group = Profile[cards[j].id[2]].group
  BY <1>1 DEF Cards, Ids
<1> QED BY <1>2, ReviewAssumption DEF ReviewAssumption

\* The cards that are kept are among those that were found, and without a cap
\* they are all of them.
LEMMA KeptAreFound ==
  ASSUME NEW r, r.found \in Seq(Cards), r.cap \in Nat \cup {NoCap}
  PROVE  /\ Kept(r) \in Seq(Cards)
         /\ \A k \in DOMAIN Kept(r) : \E i \in DOMAIN r.found : Kept(r)[k] = r.found[i]
         /\ r.cap = NoCap =>
              \A i \in DOMAIN r.found : \E k \in DOMAIN Kept(r) : Kept(r)[k] = r.found[i]
<1> DEFINE found == r.found
<1>1. Rankable(Cards)
  BY CardsRankable
<1>2. Len(found) \in Nat
  BY Positions
<1>3. CASE r.cap # NoCap /\ Len(found) > r.cap
  <2> DEFINE cap == r.cap
             B   == Breadth(found, cap)
             D   == Depth(found, B, cap)
             kept == SpreadSelectCards(found, cap)
  <2>1. cap \in Nat /\ cap <= Len(found)
    BY <1>2, <1>3
  <2>2. Kept(r) = kept
    BY <1>3 DEF Kept
  <2> HIDE DEF cap, found
  <2>5. /\ kept \in Seq(Cards) /\ KeptAt(kept, found, B \cup D)
        /\ B \cup D \subseteq DOMAIN found
    <3>1. found \in Seq(Cards) /\ B = Breadth(found, cap) /\ D = Depth(found, B, cap)
      BY DEF found
    <3> HIDE DEF B, D
    <3> QED BY <1>1, <2>1, <3>1, SpreadKeeps DEF kept
  <2> HIDE DEF B, D, kept
  <2>6. \A k \in DOMAIN kept : \E i \in DOMAIN found : kept[k] = found[i]
    BY <2>5 DEF KeptAt
  <2> QED BY <1>3, <2>2, <2>5, <2>6 DEF found
<1>4. CASE ~(r.cap # NoCap /\ Len(found) > r.cap)
  <2> DEFINE kept == SortCards(found)
  <2>1. Kept(r) = kept
    BY <1>4 DEF Kept
  <2>2. kept \in Seq(Cards) /\ SameCards(kept, found)
    BY <1>1, SortCardsProperties
  <2> HIDE DEF kept
  <2> QED BY <2>1, <2>2 DEF SameCards
<1> QED BY <1>3, <1>4

\* A cap is a number or none.
LEMMA CapIsNumber == \A cap \in Cap : cap \in Nat \cup {NoCap}
BY ReviewAssumption DEF ReviewAssumption

\* What a review keeps and plans is the best of what it found.
LEMMA SelectionOfReview ==
  ASSUME Inv, Concluded
  PROVE  /\ KeepsTheBest(review.found, review.kept,
                         IF review.cap = NoCap THEN Len(review.found) ELSE review.cap)
         /\ PlansTheBest(review.kept, review.plan, PlanLimit)
<1> DEFINE r == review
           found == r.found
           budget == IF r.cap = NoCap THEN Len(found) ELSE r.cap
<1>1. Shape(r) /\ r.done
  BY DEF Inv, ReviewInv, Concluded
<1>2. /\ found \in Seq(Cards) /\ Numbered(found)
      /\ r.kept = Kept(r) /\ r.plan = CommentPlan(r.kept, PlanLimit)
      /\ r.cap \in Nat \cup {NoCap}
  BY <1>1, CapIsNumber DEF Shape
<1>3. Rankable(Cards) /\ Distinct(found)
  BY <1>2, CardsRankable, NumberedAreDistinct
<1>4. Len(found) \in Nat
  BY <1>2, Positions
<1>5. budget \in Nat
  BY <1>2, <1>4
<1>6. KeepsTheBest(found, r.kept, budget)
  <2>1. CASE r.cap # NoCap /\ Len(found) > r.cap
    <3>1. r.kept = SpreadSelectCards(found, budget) /\ budget <= Len(found)
      BY <1>2, <1>4, <2>1 DEF Kept
    <3> HIDE DEF found, budget
    <3>2. KeepsTheBest(found, SpreadSelectCards(found, budget), budget)
      BY <1>2, <1>3, <1>5, <3>1, SpreadKeepsTheBest
    <3> QED BY <3>1, <3>2
  <2>2. CASE ~(r.cap # NoCap /\ Len(found) > r.cap)
    <3>1. r.kept = SortCards(found) /\ Len(found) <= budget
      BY <1>2, <1>4, <2>2, ReviewAssumption DEF Kept, ReviewAssumption
    <3> HIDE DEF found, budget
    <3>2. KeepsTheBest(found, SortCards(found), budget)
      BY <1>2, <1>3, <1>5, <3>1, SortingKeepsTheBest
    <3> QED BY <3>1, <3>2
  <2> QED BY <2>1, <2>2
<1>7. PlansTheBest(r.kept, r.plan, PlanLimit)
  <2> DEFINE kept == r.kept
  <2>1. kept \in Seq(Cards)
    BY <1>2, KeptAreFound
  <2> HIDE DEF kept
  <2>2. PlanLimit \in Nat
    BY ReviewAssumption DEF ReviewAssumption
  <2>3. PlansTheBest(kept, CommentPlan(kept, PlanLimit), PlanLimit)
    BY <1>3, <2>1, <2>2, GroupsOfCards, PlanIsBest
  <2> QED BY <1>2, <2>3 DEF kept
<1> QED BY <1>6, <1>7

\* A cap keeps the best card of every file it has room for and then the best of
\* the rest, and the comment plan the most important cards, one of each key
\* (spread_select_cards, CommentPlan::from): SelectionKeepsTheBest in general.
THEOREM KeepsTheBestCards == Spec => []SelectionKeepsTheBest
<1>1. Inv => SelectionKeepsTheBest
  BY SelectionOfReview DEF SelectionKeepsTheBest
<1> QED BY <1>1, ReviewIsSound, PTL

-----------------------------------------------------------------------------
(* Accepted debt.                                                          *)

\* There are finitely many files,
LEMMA FilesFinite == IsFiniteSet(File)
<1>1. Discovered \in Seq(File) /\ Pending(Discovered) = File
  BY DiscoveredOnce DEF FilesOnce
<1>2. IsFiniteSet(DOMAIN Discovered) /\ Discovered = [k \in DOMAIN Discovered |-> Discovered[k]]
  BY <1>1, Positions
<1> DEFINE places == DOMAIN Discovered
<1>3. Discovered \in Surjection(places, File)
  BY <1>1, <1>2 DEF Surjection, Pending
<1> HIDE DEF places
<1>4. IsFiniteSet(places)
  BY <1>2 DEF places
<1> QED BY <1>3, <1>4, FS_Surjection

\* so the places of a seam can be counted.
LEMMA PlacesFinite ==
  ASSUME NEW tree \in [File -> Seq(Line)], NEW g, NEW s
  PROVE  IsFiniteSet(Places(tree, g, s)) /\ Cardinality(Places(tree, g, s)) \in Nat
<1> DEFINE H     == {h \in File : Slug[h] = g}
           at(f) == {f} \X {n \in DOMAIN tree[f] : tree[f][n] = s}
           all   == {at(f) : f \in H}
<1>1. IsFiniteSet(H)
  <2>1. H \in SUBSET File
    OBVIOUS
  <2> HIDE DEF H
  <2> QED BY <2>1, FilesFinite, FS_Subset
<1>2. ASSUME NEW f \in H PROVE IsFiniteSet(at(f))
  <2> DEFINE lines == {n \in DOMAIN tree[f] : tree[f][n] = s}
             one   == {f}
  <2>1. tree[f] \in Seq(Line)
    BY <1>2
  <2>2. IsFiniteSet(DOMAIN tree[f])
    BY <2>1, Positions
  <2>3. lines \in SUBSET (DOMAIN tree[f])
    OBVIOUS
  <2>4. IsFiniteSet(one)
    BY FS_Singleton
  <2>5. at(f) = one \X lines
    OBVIOUS
  <2> HIDE DEF lines, one, at
  <2>6. IsFiniteSet(lines)
    BY <2>2, <2>3, FS_Subset
  <2> QED BY <2>4, <2>5, <2>6, FS_Product
<1>3. Places(tree, g, s) = UNION all
  BY DEF Places
<1> HIDE DEF H, at
<1>4. IsFiniteSet(all)
  <2> DEFINE part == [f \in H |-> at(f)]
  <2>1. part \in Surjection(H, all)
    BY DEF Surjection
  <2> HIDE DEF part, all
  <2> QED BY <1>1, <2>1, FS_Surjection
<1>5. \A part \in all : IsFiniteSet(part)
  BY <1>2
<1> HIDE DEF all
<1>6. IsFiniteSet(UNION all)
  BY <1>4, <1>5, FS_UNION
<1> QED BY <1>3, <1>6, FS_CardinalityType

\* A place is a line of a file of the slug.
LEMMA PlaceIs ==
  ASSUME NEW tree, NEW g, NEW s
  PROVE  /\ \A f \in File : \A n \in DOMAIN tree[f] :
              Slug[f] = g /\ tree[f][n] = s => <<f, n>> \in Places(tree, g, s)
         /\ \A p \in Places(tree, g, s) :
              \E f \in File : \E n \in DOMAIN tree[f] :
                p = <<f, n>> /\ Slug[f] = g /\ tree[f][n] = s
BY DEF Places

\* Equal cards stand in different places.
LEMMA CardsHaveLines ==
  ASSUME Inv, NEW r, r = review, r # NoReview, r.still,
         NEW g, NEW s, NEW E, E = Equal(r.found, Len(r.found), g, s)
  PROVE  Cardinality(E) <= Cardinality(Places(work, g, s))
<1> DEFINE found == r.found
           L     == Places(work, g, s)
           place == [i \in E |-> <<found[i].file, found[i].line>>]
           M     == {<<found[i].file, found[i].line>> : i \in E}
<1>1. /\ found \in Seq(Cards) /\ Numbered(found) /\ Once(r) /\ Finding(r, work)
  BY DEF Inv, ReviewInv, Shape
<1>2. \A i \in DOMAIN found : found[i] \in Cards
  BY <1>1, Positions
<1>3. \A i \in E : i \in DOMAIN found /\ found[i].id[1] = g /\ found[i].id[2] = s
  <2>1. DOMAIN found = 1..Len(found)
    BY <1>1, Positions
  <2> QED BY <2>1 DEF Equal
<1>4. \A i \in E : /\ found[i].file \in File /\ Slug[found[i].file] = g
                   /\ FromSite(found[i], r, found[i].file, work[found[i].file])
  BY <1>1, <1>2, <1>3 DEF Finding, Cards
<1>5. \A i \in E : <<found[i].file, found[i].line>> \in L
  <2> SUFFICES ASSUME NEW i \in E PROVE <<found[i].file, found[i].line>> \in L
    OBVIOUS
  <2> DEFINE f == found[i].file
             n == found[i].line
  <2>1. n \in DOMAIN work[f] /\ work[f][n] = s
    BY <1>3, <1>4 DEF FromSite, SitesOf
  <2>2. f \in File /\ Slug[f] = g
    BY <1>4
  <2> HIDE DEF f, n
  <2>3. <<f, n>> \in Places(work, g, s)
    BY <2>1, <2>2, PlaceIs
  <2> QED BY <2>3 DEF f, n
<1>6. IsFiniteSet(L) /\ Cardinality(L) \in Nat
  BY PlacesFinite DEF Inv, Trees
<1>7. IsFiniteSet(E)
  BY <1>1, Numbering
<1>8. IsFiniteSet(M) /\ Cardinality(M) = Cardinality(E)
  <2>1. \A i, j \in E : place[i] = place[j] => i = j
    BY <1>1, <1>3 DEF Once
  <2>2. \A i \in E : place[i] \in M
    OBVIOUS
  <2>3. \A p \in M : \E i \in E : place[i] = p
    OBVIOUS
  <2>4. place = [i \in E |-> place[i]]
    OBVIOUS
  <2> HIDE DEF place, M
  <2>5. Numbers(place, E, M)
    BY <2>1, <2>2, <2>3, <2>4 DEF Numbers
  <2> QED BY <1>7, <2>5, SameSize
<1>9. M \in SUBSET L
  BY <1>5
<1> HIDE DEF M, L
<1>10. Cardinality(M) <= Cardinality(L)
  BY <1>6, <1>9, FS_Subset
<1> QED BY <1>8, <1>10 DEF L

\* In a whole review, every place of a seam has a card.
LEMMA LinesHaveCards ==
  ASSUME Inv, NEW r, r = review, r # NoReview, r.still, r.repo, r.todo = <<>>,
         NEW g, NEW s \in Seam, NEW E, E = Equal(r.found, Len(r.found), g, s)
  PROVE  Cardinality(Places(work, g, s)) <= Cardinality(E)
<1> DEFINE found == r.found
           L     == Places(work, g, s)
           M     == {<<found[i].file, found[i].line>> : i \in E}
<1>1. /\ found \in Seq(Cards) /\ Numbered(found) /\ Finding(r, work)
  BY DEF Inv, ReviewInv, Shape
<1>2. DOMAIN found = 1..Len(found) /\ \A i \in DOMAIN found : found[i] \in Cards
  BY <1>1, Positions
<1>3. \A f \in File : f \in Reviewed(r)
  BY DEF Reviewed, Pending
<1>4. ASSUME NEW p \in L PROVE p \in M
  <2>1. PICK f \in File : \E n \in DOMAIN work[f] :
               p = <<f, n>> /\ Slug[f] = g /\ work[f][n] = s
    BY <1>4, PlaceIs
  <2>2. PICK n \in DOMAIN work[f] : p = <<f, n>> /\ Slug[f] = g /\ work[f][n] = s
    BY <2>1
  <2>3. n \in SitesOf(r, f, work[f])
    BY <2>2 DEF SitesOf, InScope
  <2>4. PICK i \in DOMAIN found : found[i].file = f /\ found[i].line = n
    <3>1. n \in Carded(found, f)
      BY <1>1, <1>3, <2>3 DEF Finding
    <3> QED BY <3>1 DEF Carded
  <2>5. found[i].id[1] = g /\ found[i].id[2] = s
    BY <1>1, <1>2, <2>2, <2>4 DEF Finding, FromSite, Cards
  <2>6. i \in E
    BY <1>2, <2>4, <2>5 DEF Equal
  <2> QED BY <2>2, <2>4, <2>6
<1>5. IsFiniteSet(E)
  BY <1>1, Numbering
<1>6. IsFiniteSet(M) /\ Cardinality(M) <= Cardinality(E)
  <2> DEFINE place == [i \in E |-> <<found[i].file, found[i].line>>]
  <2>1. place \in Surjection(E, M)
    BY DEF Surjection
  <2> HIDE DEF place, M
  <2> QED BY <1>5, <2>1, FS_Surjection
<1>7. L \in SUBSET M
  BY <1>4
<1> HIDE DEF M, L
<1>8. Cardinality(L) <= Cardinality(M) /\ IsFiniteSet(L)
  BY <1>6, <1>7, FS_Subset
<1>9. Cardinality(L) \in Nat /\ Cardinality(M) \in Nat /\ Cardinality(E) \in Nat
  BY <1>5, <1>6, <1>8, FS_CardinalityType
<1>10. Cardinality(L) <= Cardinality(E)
  BY <1>6, <1>8, <1>9
<1> QED BY <1>10 DEF L

\* No more copies than accepted, and every card of them is known; one more, and
\* its number is not accepted.
LEMMA DebtOfReview ==
  ASSUME Inv, Concluded, review.still
  PROVE  /\ WithinBaseline(work) => review.passed
         /\ review.repo /\ review.cap = NoCap /\ review.passed => WithinBaseline(work)
<1> DEFINE r     == review
           found == r.found
           kept  == r.kept
           equal(g, s)    == Equal(found, Len(found), g, s)
           accepted(g, s) == {id \in ledger : id[1] = g /\ id[2] = s}
<1>1. /\ Shape(r) /\ r.done /\ r # NoReview /\ r.known = ledger /\ Finding(r, work)
      /\ Closed(ledger) /\ work \in [File -> Seq(Line)]
  BY DEF Inv, ReviewInv, Concluded, Trees
<1>2. /\ found \in Seq(Cards) /\ Numbered(found) /\ r.todo = <<>>
      /\ kept = Kept(r) /\ r.passed = Passes(kept)
      /\ r.cap \in Nat \cup {NoCap}
  BY <1>1, CapIsNumber DEF Shape
<1>3. /\ DOMAIN found = 1..Len(found)
      /\ \A i \in DOMAIN found : found[i] \in Cards
  BY <1>2, Positions
<1>4. /\ \A k \in DOMAIN kept : \E i \in DOMAIN found : kept[k] = found[i]
      /\ r.cap = NoCap => \A i \in DOMAIN found : \E k \in DOMAIN kept : kept[k] = found[i]
  BY <1>2, KeptAreFound
<1>5. \A i \in DOMAIN found : /\ found[i].actionable <=> found[i].id \notin ledger
                              /\ r.repo => found[i].changed
  <2> SUFFICES ASSUME NEW i \in DOMAIN found
               PROVE  /\ found[i].actionable <=> found[i].id \notin ledger
                      /\ r.repo => found[i].changed
    OBVIOUS
  <2>1. FromSite(found[i], r, found[i].file, work[found[i].file])
    BY <1>1 DEF Finding
  <2> QED BY <1>1, <2>1 DEF FromSite, OnAddedLines
<1>6. \A g \in Slugs, s \in Seam :
        /\ Copies(work, g, s) = Cardinality(Places(work, g, s))
        /\ Copies(work, g, s) \in Nat
        /\ AcceptedCopies(g, s) = Cardinality(accepted(g, s))
        /\ AcceptedCopies(g, s) \in Nat
        /\ \A k \in Nat \ {0} : <<g, s, k>> \in ledger <=> k <= AcceptedCopies(g, s)
        /\ Cardinality(equal(g, s)) <= Copies(work, g, s)
        /\ r.repo => Copies(work, g, s) <= Cardinality(equal(g, s))
        /\ Cardinality(equal(g, s)) \in Nat
  <2> SUFFICES ASSUME NEW g \in Slugs, NEW s \in Seam
               PROVE  /\ Copies(work, g, s) = Cardinality(Places(work, g, s))
                      /\ Copies(work, g, s) \in Nat
                      /\ AcceptedCopies(g, s) = Cardinality(accepted(g, s))
                      /\ AcceptedCopies(g, s) \in Nat
                      /\ \A k \in Nat \ {0} : <<g, s, k>> \in ledger <=> k <= AcceptedCopies(g, s)
                      /\ Cardinality(equal(g, s)) <= Copies(work, g, s)
                      /\ r.repo => Copies(work, g, s) <= Cardinality(equal(g, s))
                      /\ Cardinality(equal(g, s)) \in Nat
    OBVIOUS
  <2>1. Copies(work, g, s) = Cardinality(Places(work, g, s)) /\ Copies(work, g, s) \in Nat
    BY <1>1, PlacesFinite DEF Copies
  <2>2. /\ AcceptedCopies(g, s) = Cardinality(accepted(g, s))
        /\ AcceptedCopies(g, s) \in Nat
        /\ \A k \in Nat \ {0} : <<g, s, k>> \in ledger <=> k <= AcceptedCopies(g, s)
    <3> DEFINE S == accepted(g, s)
    <3>1. AcceptedCopies(g, s) = Cardinality(S)
      BY DEF AcceptedCopies
    <3>2. S = {id \in ledger : id[1] = g /\ id[2] = s}
      OBVIOUS
    <3> HIDE DEF S
    <3>3. /\ Cardinality(S) \in Nat
          /\ \A k \in Nat \ {0} : <<g, s, k>> \in ledger <=> k <= Cardinality(S)
      BY <1>1, <3>2, AcceptedAreFirst
    <3> QED BY <3>1, <3>3 DEF S
  <2> DEFINE E == equal(g, s)
  <2>3. E = Equal(r.found, Len(r.found), g, s)
    OBVIOUS
  <2> HIDE DEF E
  <2>4. Cardinality(E) <= Cardinality(Places(work, g, s))
    BY <1>1, <2>3, CardsHaveLines
  <2>5. r.repo => Cardinality(Places(work, g, s)) <= Cardinality(E)
    BY <1>1, <1>2, <2>3, LinesHaveCards
  <2>6. Cardinality(E) \in Nat
    BY <1>2, <2>3, Numbering
  <2> QED BY <2>1, <2>2, <2>4, <2>5, <2>6 DEF E
<1> HIDE DEF r, found, kept, accepted
<1>7. ASSUME WithinBaseline(work) PROVE Passes(kept)
  <2> SUFFICES ASSUME NEW k \in DOMAIN kept, kept[k].actionable PROVE FALSE
    BY DEF Passes
  <2>1. PICK i \in DOMAIN found : kept[k] = found[i]
    BY <1>4
  <2> DEFINE id == found[i].id
             g  == id[1]
             s  == id[2]
             n  == id[3]
             E  == equal(g, s)
  <2>2. g \in Slugs /\ s \in Seam /\ n \in Nat \ {0} /\ id = <<g, s, n>>
    BY <1>3 DEF Cards, Ids
  <2>3. i \in E /\ E = Equal(found, Len(found), g, s)
    BY <1>3 DEF Equal
  <2>4. id \notin ledger
    BY <1>5, <2>1
  <2>5. n = found[i].id[3]
    OBVIOUS
  <2> HIDE DEF id, g, s, n, E
  <2>6. n \in 1..Cardinality(E)
    BY <1>2, <2>3, <2>5, Numbering
  <2>7. /\ Cardinality(E) <= Copies(work, g, s) /\ Cardinality(E) \in Nat
        /\ Copies(work, g, s) \in Nat /\ AcceptedCopies(g, s) \in Nat
        /\ <<g, s, n>> \in ledger <=> n <= AcceptedCopies(g, s)
    BY <1>6, <2>2 DEF E
  <2>8. Copies(work, g, s) <= AcceptedCopies(g, s)
    BY <1>7, <2>2 DEF WithinBaseline
  <2>9. n <= AcceptedCopies(g, s)
    BY <2>6, <2>7, <2>8
  <2> QED BY <2>2, <2>4, <2>7, <2>9
<1>8. ASSUME r.repo, r.cap = NoCap, Passes(kept) PROVE WithinBaseline(work)
  <2> SUFFICES ASSUME NEW g \in Slugs, NEW s \in Seam
               PROVE  Copies(work, g, s) <= AcceptedCopies(g, s)
    BY DEF WithinBaseline
  <2> DEFINE E == equal(g, s)
             a == AcceptedCopies(g, s)
             c == Copies(work, g, s)
  <2>1. /\ c <= Cardinality(E) /\ Cardinality(E) \in Nat /\ c \in Nat /\ a \in Nat
        /\ \A k \in Nat \ {0} : <<g, s, k>> \in ledger <=> k <= a
    BY <1>6, <1>8
  <2>2. E = Equal(found, Len(found), g, s)
    OBVIOUS
  <2> HIDE DEF E, a, c
  <2> SUFFICES ASSUME c > a PROVE FALSE
    BY <2>1 DEF a, c
  <2>3. a + 1 \in 1..Cardinality(E)
    BY <2>1
  <2>4. PICK i \in E : found[i].id[3] = a + 1
    BY <1>2, <2>2, <2>3, Numbering
  <2>5. i \in DOMAIN found /\ found[i].id[1] = g /\ found[i].id[2] = s
    BY <1>3, <2>2 DEF Equal
  <2>6. found[i].id = <<g, s, a + 1>>
    BY <1>3, <2>4, <2>5 DEF Cards, Ids
  <2>7. found[i].id \notin ledger
    <3>1. a + 1 \in Nat \ {0} /\ ~(a + 1 <= a)
      BY <2>1
    <3> QED BY <2>1, <2>6, <3>1
  <2>8. found[i].actionable /\ found[i].changed
    BY <1>5, <1>8, <2>5, <2>7
  <2>9. PICK k \in DOMAIN kept : kept[k] = found[i]
    BY <1>4, <1>8, <2>5
  <2> QED BY <1>8, <2>8, <2>9 DEF Passes
<1> QED BY <1>2, <1>7, <1>8 DEF r

\* Accepted debt does not fail the gate, however its lines have moved, and a
\* whole review without a cap fails as soon as a seam is there more often than
\* accepted (card_id, is_baseline_known, enforce_policy): AcceptedDebtPasses in
\* general.
THEOREM AcceptedPasses == Spec => []AcceptedDebtPasses
<1>1. Inv => AcceptedDebtPasses
  BY DebtOfReview DEF AcceptedDebtPasses
<1> QED BY <1>1, ReviewIsSound, PTL

-----------------------------------------------------------------------------
(* Reading a diff.                                                         *)

\* A diff as the parser meets it.
Raw ==
  {x \in [kind : {"diff --git", "+++ b/", "@@", "+", "-", " "}, at : Nat] :
     x.kind = "+++ b/" => x.at \in File}

Parser ==
  [path : File \cup {NoFile}, line : Nat, named : SUBSET File,
   changed : [File -> SUBSET Nat], anchors : [File -> SUBSET Nat]]

\* A line leaves the parser in a state it can be in.
LEMMA ConsumeType ==
  ASSUME NEW p \in Parser, NEW x \in Raw
  PROVE  ConsumeLine(p, x) \in Parser
<1>1. x.at \in Nat /\ x.kind \in {"diff --git", "+++ b/", "@@", "+", "-", " "}
  BY DEF Raw
<1>2. CASE x.kind = "diff --git"
  BY <1>2 DEF ConsumeLine, Header, Parser
<1>3. CASE x.kind = "+++ b/"
  <2>1. x.at \in File
    BY <1>3 DEF Raw
  <2> QED BY <1>3, <2>1 DEF ConsumeLine, Header, Parser
<1>4. CASE x.kind = "@@"
  BY <1>1, <1>4 DEF ConsumeLine, Header, Parser
<1>5. CASE x.kind \in {"+", "-", " "}
  <2>1. CASE p.path = NoFile
    BY <1>5, <2>1 DEF ConsumeLine
  <2>2. CASE p.path # NoFile
    <3>1. p.path \in File /\ p.line \in Nat /\ p.line + 1 \in Nat
      BY <2>2 DEF Parser
    <3>2. ConsumeLine(p, x) = Content(p, x)
      BY <1>5, <2>2 DEF ConsumeLine
    <3>3. CASE x.kind = "+"
      <4>1. ConsumeLine(p, x) = [p EXCEPT !.changed[p.path] = @ \cup {p.line},
                                          !.line = @ + 1]
        BY <3>2, <3>3 DEF Content
      <4>2. [p.changed EXCEPT ![p.path] = @ \cup {p.line}] \in [File -> SUBSET Nat]
        BY <3>1 DEF Parser
      <4> QED BY <3>1, <4>1, <4>2 DEF Parser
    <3>4. CASE x.kind = "-"
      BY <3>1, <3>2, <3>4 DEF Content, Parser
    <3>5. CASE x.kind = " "
      BY <3>1, <3>2, <3>5 DEF Content, Parser
    <3> QED BY <1>5, <3>3, <3>4, <3>5
  <2> QED BY <2>1, <2>2
<1> QED BY <1>1, <1>2, <1>3, <1>4, <1>5

\* Reading the lines of d leads from p to q.
Follows(h, p, d, q) ==
  /\ h \in [0..Len(d) -> Parser]
  /\ h[0] = p /\ h[Len(d)] = q
  /\ \A k \in 1..Len(d) : h[k] = ConsumeLine(h[k - 1], d[k])

Reads(p, d, q) == \E h : Follows(h, p, d, q)

\* What the parser of a diff returns is where reading it leads to.
LEMMA ParseReads ==
  ASSUME NEW d \in Seq(Raw)
  PROVE  Reads(NewParser, d, ParseUnifiedDiff(d))
<1> DEFINE m == Len(d)
           D == [k \in 1..m |-> [p \in Parser |-> ConsumeLine(p, d[k])]]
           it == CHOOSE it : it = [s \in SUBSET (1..m) |->
                                     IF s = {} THEN NewParser
                                     ELSE ConsumeLine(it[s \ {Max(s)}], d[Max(s)])]
<1>0. m \in Nat /\ DOMAIN d = 1..m /\ \A k \in 1..m : d[k] \in Raw
  OBVIOUS
<1>1. D \in Steps(Parser, m)
  BY <1>0, ConsumeType DEF Steps
<1>2. NewParser \in Parser
  BY DEF NewParser, Parser, NoLines
<1>3. \A k \in 1..m, p \in Parser : D[k][p] = ConsumeLine(p, d[k])
  OBVIOUS
<1> HIDE DEF D, m
<1>4. PICK w : Folds(w, m, Parser, NewParser, D)
  BY <1>0, <1>1, <1>2, SetRecursion
<1>5. \A s \in SUBSET (1..m) : s # {} => Max(s) \in 1..m /\ s \ {Max(s)} \in SUBSET (1..m)
  BY <1>0, MaxOfPart
<1>6. w = [s \in SUBSET (1..m) |->
            IF s = {} THEN NewParser ELSE ConsumeLine(w[s \ {Max(s)}], d[Max(s)])]
  BY <1>3, <1>4, <1>5 DEF Folds
<1>7. it = [s \in SUBSET (1..m) |->
             IF s = {} THEN NewParser ELSE ConsumeLine(it[s \ {Max(s)}], d[Max(s)])]
  BY <1>6
<1>8. ParseUnifiedDiff(d) = it[1..m]
  BY <1>0 DEF ParseUnifiedDiff, FoldLeft, MapThenFoldSet, it
<1> HIDE DEF it
<1>9. Solves(it, m, Parser, NewParser, D)
  <2>1. it[{}] = NewParser
    BY <1>7
  <2>2. \A s \in SUBSET (1..m) : s # {} => it[s] = ConsumeLine(it[s \ {Max(s)}], d[Max(s)])
    BY <1>7
  <2> QED BY <1>3, <1>5, <2>1, <2>2 DEF Solves
<1>10. PICK h : Trace(h, m, Parser, NewParser, D) /\ h[m] = it[1..m]
  BY <1>0, <1>1, <1>2, <1>9, FoldTrace
<1>11. \A k \in 1..m : h[k] = ConsumeLine(h[k - 1], d[k])
  <2>1. \A k \in 1..m : h[k - 1] \in Parser
    BY <1>0, <1>10 DEF Trace
  <2> QED BY <1>3, <1>10, <2>1 DEF Trace
<1>12. h \in [0..m -> Parser] /\ h[0] = NewParser
  BY <1>10 DEF Trace
<1>13. Follows(h, NewParser, d, ParseUnifiedDiff(d))
  BY <1>8, <1>10, <1>11, <1>12 DEF Follows, m
<1> QED BY <1>13 DEF Reads

-----------------------------------------------------------------------------
(* Sequences of sequences.                                                 *)

\* d is the parts of ss, one behind the other; the k-th ends at off[k].
Parts(off, ss, d) ==
  /\ off \in [0..Len(ss) -> 0..Len(d)]
  /\ off[0] = 0 /\ off[Len(ss)] = Len(d)
  /\ \A k \in 1..Len(ss) : off[k] = off[k - 1] + Len(ss[k])
  /\ \A k \in 1..Len(ss) : \A i \in 1..Len(ss[k]) : d[off[k - 1] + i] = ss[k][i]

\* The prefixes of a flattened sequence of sequences.
Joined(g, ss, m, V) ==
  /\ g \in [0..m -> Seq(V)]
  /\ g[0] = <<>>
  /\ \A k \in 1..m : g[k] = g[k - 1] \o ss[k]

\* Flattening adds one part after the other.
LEMMA FlattenSteps ==
  ASSUME NEW V, NEW m \in Nat, NEW ss \in [1..m -> Seq(V)]
  PROVE  \E g : Joined(g, ss, m, V) /\ FlattenSeq(ss) = g[m]
<1> DEFINE W == Seq(V)
           D == [k \in 1..m |-> [s \in W |-> s \o ss[k]]]
           flatten == CHOOSE flatten : flatten =
                        [i \in 1..m |-> IF i = 1 THEN ss[i] ELSE flatten[i - 1] \o ss[i]]
<1>0. ss \in Seq(W) /\ Len(ss) = m
  OBVIOUS
<1>1. D \in Steps(W, m)
  <2>1. \A k \in 1..m : \A s \in W : s \o ss[k] \in W
    BY ConcatProperties
  <2> HIDE DEF W
  <2> QED BY <2>1 DEF Steps
<1>2. <<>> \in W
  OBVIOUS
<1>3. \A k \in 1..m : \A s \in W : D[k][s] = s \o ss[k]
  OBVIOUS
<1> HIDE DEF W, D
<1>4. PICK g \in [0..m -> W] : g[0] = <<>> /\ \A k \in 1..m : g[k] = D[k][g[k - 1]]
  BY <1>1, <1>2, Recursion
<1>5. \A k \in 1..m : g[k - 1] \in W /\ g[k] = g[k - 1] \o ss[k]
  <2>1. \A k \in 1..m : k - 1 \in 0..m
    OBVIOUS
  <2>2. \A k \in 1..m : g[k - 1] \in W
    BY <2>1
  <2> QED BY <1>3, <1>4, <2>2
<1>6. Joined(g, ss, m, V)
  BY <1>4, <1>5 DEF Joined, W
<1>7. CASE m = 0
  <2>1. FlattenSeq(ss) = ss
    BY <1>0, <1>7 DEF FlattenSeq
  <2>2. ss = <<>>
    BY <1>7
  <2> QED BY <1>4, <1>6, <1>7, <2>1, <2>2
<1>8. CASE m # 0
  <2>1. g[1] = ss[1]
    <3>1. 1 \in 1..m /\ 1 - 1 = 0
      BY <1>8
    <3>2. g[1] = <<>> \o ss[1]
      BY <1>4, <1>5, <3>1
    <3>3. ss[1] \in Seq(V)
      BY <3>1
    <3> QED BY <3>2, <3>3
  <2> DEFINE w == [i \in 1..m |-> g[i]]
  <2>2. w = [i \in 1..m |-> IF i = 1 THEN ss[i] ELSE w[i - 1] \o ss[i]]
    <3>1. ASSUME NEW i \in 1..m
          PROVE  g[i] = IF i = 1 THEN ss[i] ELSE w[i - 1] \o ss[i]
      <4>1. CASE i = 1
        BY <2>1, <4>1
      <4>2. CASE i # 1
        <5>1. i - 1 \in 1..m
          BY <4>2
        <5>2. w[i - 1] = g[i - 1]
          BY <5>1
        <5> QED BY <1>5, <4>2, <5>2
      <4> QED BY <4>1, <4>2
    <3> QED BY <3>1
  <2> HIDE DEF w
  <2>3. flatten = [i \in 1..m |-> IF i = 1 THEN ss[i] ELSE flatten[i - 1] \o ss[i]]
    BY <2>2
  <2>4. FlattenSeq(ss) = flatten[m]
    BY <1>0, <1>8 DEF FlattenSeq
  <2> HIDE DEF flatten
  <2> DEFINE S == {n \in 0..m : n # 0 => flatten[n] = g[n]}
  <2>5. 0 \in S
    OBVIOUS
  <2>6. ASSUME NEW n \in 0..(m - 1), n \in S PROVE n + 1 \in S
    <3>1. n + 1 \in 1..m /\ (n + 1) - 1 = n
      OBVIOUS
    <3>2. flatten[n + 1] = IF n + 1 = 1 THEN ss[n + 1] ELSE flatten[n] \o ss[n + 1]
      BY <2>3, <3>1
    <3>3. g[n + 1] = g[n] \o ss[n + 1]
      BY <1>5, <3>1
    <3>4. CASE n = 0
      BY <2>1, <3>1, <3>2, <3>4
    <3>5. CASE n # 0
      <4>1. flatten[n] = g[n]
        BY <2>6, <3>5
      <4>0. n + 1 # 1
        BY <3>5
      <4>2. flatten[n + 1] = flatten[n] \o ss[n + 1]
        BY <3>2, <4>0
      <4>3. flatten[n + 1] = g[n + 1] /\ n + 1 \in 0..m
        BY <3>3, <4>1, <4>2
      <4> QED BY <4>3
    <3> QED BY <3>4, <3>5
  <2>7. m \in S
    <3> HIDE DEF S
    <3>1. 0..m \subseteq S
      BY <2>5, <2>6, Climb
    <3> QED BY <3>1
  <2> QED BY <1>6, <1>8, <2>4, <2>7
<1> QED BY <1>7, <1>8

\* A flattened sequence of sequences is its parts.
LEMMA FlattenParts ==
  ASSUME NEW V, NEW m \in Nat, NEW ss \in [1..m -> Seq(V)]
  PROVE  FlattenSeq(ss) \in Seq(V) /\ \E off : Parts(off, ss, FlattenSeq(ss))
<1>1. PICK g : Joined(g, ss, m, V) /\ FlattenSeq(ss) = g[m]
  BY FlattenSteps
<1>2. g \in [0..m -> Seq(V)] /\ g[0] = <<>>
  BY <1>1 DEF Joined
<1>3. ASSUME NEW k \in 1..m
      PROVE  /\ k \in 0..m /\ k - 1 \in 0..m
             /\ g[k] \in Seq(V) /\ g[k - 1] \in Seq(V) /\ ss[k] \in Seq(V)
             /\ Len(g[k]) = Len(g[k - 1]) + Len(ss[k])
             /\ \A i \in 1..Len(g[k - 1]) : g[k][i] = g[k - 1][i]
             /\ \A i \in 1..Len(ss[k]) : g[k][Len(g[k - 1]) + i] = ss[k][i]
  <2>1. k \in 0..m /\ k - 1 \in 0..m
    OBVIOUS
  <2>2. g[k] \in Seq(V) /\ g[k - 1] \in Seq(V) /\ ss[k] \in Seq(V)
    BY <1>2, <2>1
  <2>3. g[k] = g[k - 1] \o ss[k]
    BY <1>1 DEF Joined
  <2> DEFINE a == g[k - 1]
             b == ss[k]
  <2> HIDE DEF a, b
  <2>4. a \in Seq(V) /\ b \in Seq(V) /\ g[k] = a \o b
    BY <2>2, <2>3 DEF a, b
  <2>5. /\ Len(g[k]) = Len(a) + Len(b)
        /\ \A i \in 1..Len(a) : g[k][i] = a[i]
        /\ \A i \in 1..Len(b) : g[k][Len(a) + i] = b[i]
    BY <2>4
  <2> QED BY <2>1, <2>2, <2>5 DEF a, b
<1> DEFINE \* every prefix is the beginning of the whole
           Begins(n) == /\ Len(g[m - n]) <= Len(g[m])
                        /\ \A i \in 1..Len(g[m - n]) : g[m][i] = g[m - n][i]
           S == {n \in 0..m : Begins(n)}
<1>4. 0 \in S
  <2>1. m - 0 = m /\ m \in 0..m /\ Len(g[m]) \in Nat
    BY <1>2
  <2> QED BY <2>1
<1>5. ASSUME NEW n \in 0..(m - 1), n \in S PROVE n + 1 \in S
  <2> DEFINE k == m - n
  <2>1. k \in 1..m /\ m - (n + 1) = k - 1 /\ n + 1 \in 0..m
    OBVIOUS
  <2> HIDE DEF k
  <2>2. /\ Len(g[k]) \in Nat /\ Len(g[k - 1]) \in Nat
        /\ Len(ss[k]) \in Nat /\ Len(g[m]) \in Nat
    <3>1. g[k] \in Seq(V) /\ g[k - 1] \in Seq(V) /\ ss[k] \in Seq(V)
      BY <1>3, <2>1
    <3>2. g[m] \in Seq(V)
      BY <1>2
    <3> QED BY <3>1, <3>2, LenProperties
  <2>3. /\ Len(g[k - 1]) <= Len(g[k])
        /\ \A i \in 1..Len(g[k - 1]) : i \in 1..Len(g[k]) /\ g[k][i] = g[k - 1][i]
    BY <1>3, <2>1, <2>2
  <2>4. Len(g[k]) <= Len(g[m]) /\ \A i \in 1..Len(g[k]) : g[m][i] = g[k][i]
    BY <1>5 DEF k
  <2>5. Len(g[k - 1]) <= Len(g[m]) /\ \A i \in 1..Len(g[k - 1]) : g[m][i] = g[k - 1][i]
    BY <2>2, <2>3, <2>4
  <2> QED BY <2>1, <2>5
<1>6. 0..m \subseteq S
  <2> HIDE DEF S
  <2> QED BY <1>4, <1>5, Climb
<1>7. ASSUME NEW k \in 0..m
      PROVE  Len(g[k]) <= Len(g[m]) /\ \A i \in 1..Len(g[k]) : g[m][i] = g[k][i]
  <2>1. m - k \in 0..m /\ m - (m - k) = k
    OBVIOUS
  <2>2. Begins(m - k)
    BY <1>6, <2>1
  <2> QED BY <2>1, <2>2
<1> DEFINE off == [k \in 0..m |-> Len(g[k])]
           d == g[m]
<1>8. Len(ss) = m
  OBVIOUS
<1>9. off \in [0..m -> 0..Len(d)]
  <2>1. \A k \in 0..m : Len(g[k]) \in Nat /\ Len(d) \in Nat /\ Len(g[k]) <= Len(d)
    BY <1>2, <1>7
  <2> QED BY <2>1
<1>10. off[0] = 0 /\ off[m] = Len(d)
  BY <1>2
<1>11. \A k \in 1..m : off[k] = off[k - 1] + Len(ss[k])
  BY <1>3
<1>12. ASSUME NEW k \in 1..m, NEW i \in 1..Len(ss[k])
       PROVE  d[off[k - 1] + i] = ss[k][i]
  <2>1. Len(g[k]) \in Nat /\ Len(g[k - 1]) \in Nat /\ Len(ss[k]) \in Nat
    <3>1. g[k] \in Seq(V) /\ g[k - 1] \in Seq(V) /\ ss[k] \in Seq(V)
      BY <1>3
    <3> QED BY <3>1, LenProperties
  <2>2. off[k - 1] = Len(g[k - 1]) /\ Len(g[k]) = Len(g[k - 1]) + Len(ss[k])
    BY <1>3
  <2>3. Len(g[k - 1]) + i \in 1..Len(g[k])
    BY <2>1, <2>2
  <2>4. g[m][Len(g[k - 1]) + i] = g[k][Len(g[k - 1]) + i]
    BY <1>3, <1>7, <2>3
  <2> QED BY <1>3, <2>2, <2>4
<1> HIDE DEF off
<1>13. Parts(off, ss, d)
  BY <1>8, <1>9, <1>10, <1>11, <1>12 DEF Parts
<1>14. d \in Seq(V)
  BY <1>2
<1> QED BY <1>1, <1>13, <1>14

InPart(off, ss, m, j) == \E k \in 1..m : \E i \in 1..Len(ss[k]) : j = off[k - 1] + i

\* A position of the whole is a position of a part.
LEMMA PartOf ==
  ASSUME NEW V, NEW m \in Nat, NEW ss \in [1..m -> Seq(V)],
         NEW d \in Seq(V), NEW off, Parts(off, ss, d), NEW j \in 1..Len(d)
  PROVE  InPart(off, ss, m, j)
<1>0. Len(ss) = m /\ Len(d) \in Nat
  OBVIOUS
<1>01. ASSUME NEW k \in 1..m PROVE Len(ss[k]) \in Nat
  <2>1. ss[k] \in Seq(V)
    OBVIOUS
  <2> QED BY <2>1, LenProperties
<1> DEFINE T == {k \in 0..m : j <= off[k]}
<1>1. off \in [0..m -> 0..Len(d)] /\ off[0] = 0 /\ off[m] = Len(d)
  BY <1>0 DEF Parts
<1>2. T \in SUBSET Nat /\ m \in T
  BY <1>1
<1>3. PICK k \in T : \A l \in T : k <= l
  <2> HIDE DEF T
  <2> QED BY <1>2, Least
<1>4. k # 0 /\ k \in 1..m /\ j <= off[k]
  BY <1>1
<1>5. k - 1 \in 0..m /\ off[k - 1] \in Nat /\ off[k] \in Nat /\ Len(ss[k]) \in Nat
  BY <1>01, <1>1, <1>4
<1>6. ~(j <= off[k - 1])
  <2>1. k - 1 \notin T
    BY <1>3, <1>4
  <2> QED BY <1>5, <2>1
<1>7. off[k] = off[k - 1] + Len(ss[k])
  BY <1>0, <1>4 DEF Parts
<1>8. j - off[k - 1] \in 1..Len(ss[k]) /\ j = off[k - 1] + (j - off[k - 1])
  BY <1>4, <1>5, <1>6, <1>7
<1> QED BY <1>4, <1>8 DEF InPart

\* Reading the parts of ss one after the other leads from p to q.
Through(mid, p, ss, m, q) ==
  /\ mid \in [0..m -> Parser]
  /\ mid[0] = p /\ mid[m] = q
  /\ \A k \in 1..m : Reads(mid[k - 1], ss[k], mid[k])

\* To read the whole is to read its parts.
LEMMA ReadsParts ==
  ASSUME NEW m \in Nat, NEW ss \in [1..m -> Seq(Raw)], NEW p, NEW q,
         Reads(p, FlattenSeq(ss), q)
  PROVE  \E mid : Through(mid, p, ss, m, q)
<1> DEFINE d == FlattenSeq(ss)
<1>1. PICK off : Parts(off, ss, d)
  BY FlattenParts
<1>2. d \in Seq(Raw)
  BY FlattenParts
<1>3. PICK h : Follows(h, p, d, q)
  BY DEF Reads
<1>4. Len(ss) = m /\ Len(d) \in Nat
  BY <1>2
<1> HIDE DEF d
<1>5. off \in [0..m -> 0..Len(d)] /\ off[0] = 0 /\ off[m] = Len(d)
  BY <1>1, <1>4 DEF Parts
<1>6. h \in [0..Len(d) -> Parser] /\ h[0] = p /\ h[Len(d)] = q
  BY <1>3 DEF Follows
<1> DEFINE mid == [k \in 0..m |-> h[off[k]]]
<1>7. mid \in [0..m -> Parser] /\ mid[0] = p /\ mid[m] = q
  BY <1>4, <1>5, <1>6
<1>8. ASSUME NEW k \in 1..m PROVE Reads(mid[k - 1], ss[k], mid[k])
  <2> DEFINE s == ss[k]
             n == Len(s)
             g == [i \in 0..n |-> h[off[k - 1] + i]]
  <2>1. s \in Seq(Raw) /\ n \in Nat
    OBVIOUS
  <2>2. k - 1 \in 0..m /\ k \in 0..m /\ off[k - 1] \in 0..Len(d) /\ off[k] \in 0..Len(d)
    BY <1>5
  <2>3. off[k] = off[k - 1] + n
    BY <1>1, <1>4 DEF Parts
  <2>4. \A i \in 1..n : d[off[k - 1] + i] = s[i]
    BY <1>1, <1>4 DEF Parts
  <2> HIDE DEF s, n
  <2>5. \A i \in 0..n : off[k - 1] + i \in 0..Len(d)
    BY <1>4, <2>1, <2>2, <2>3
  <2>6. g \in [0..n -> Parser]
    BY <1>6, <2>5
  <2>7. g[0] = mid[k - 1] /\ g[n] = mid[k]
    BY <2>1, <2>2, <2>3
  <2>8. ASSUME NEW i \in 1..n PROVE g[i] = ConsumeLine(g[i - 1], s[i])
    <3> DEFINE j == off[k - 1] + i
    <3>0. /\ i \in 0..n /\ i - 1 \in 0..n /\ i >= 1
          /\ off[k - 1] \in Nat /\ off[k - 1] + i \in 0..Len(d)
      BY <2>1, <2>2, <2>5
    <3>1. j \in 1..Len(d) /\ j - 1 = off[k - 1] + (i - 1)
      BY <1>4, <3>0
    <3>2. h[j] = ConsumeLine(h[j - 1], d[j])
      BY <1>3, <3>1 DEF Follows
    <3>3. g[i] = h[j] /\ g[i - 1] = h[j - 1]
      BY <3>0, <3>1
    <3> QED BY <2>4, <3>2, <3>3
  <2> HIDE DEF g, mid
  <2>9. Follows(g, mid[k - 1], s, mid[k])
    BY <2>6, <2>7, <2>8 DEF Follows, n
  <2> QED BY <2>9 DEF Reads, s
<1> HIDE DEF mid
<1> QED BY <1>7, <1>8 DEF Through

\* Nothing leaves the parser as it is.
LEMMA ReadsNothing ==
  ASSUME NEW p, NEW q, Reads(p, <<>>, q)
  PROVE  q = p /\ p \in Parser
<1>1. PICK h : Follows(h, p, <<>>, q)
  BY DEF Reads
<1>2. Len(<<>>) = 0
  OBVIOUS
<1> QED BY <1>1, <1>2 DEF Follows

\* One line is consumed.
LEMMA ReadsOne ==
  ASSUME NEW p, NEW x, NEW q, Reads(p, <<x>>, q)
  PROVE  q = ConsumeLine(p, x) /\ p \in Parser /\ q \in Parser
<1>1. PICK h : Follows(h, p, <<x>>, q)
  BY DEF Reads
<1>2. Len(<<x>>) = 1 /\ <<x>>[1] = x /\ 1 \in 1..1 /\ 1 - 1 = 0
  OBVIOUS
<1>3. h \in [0..1 -> Parser] /\ h[0] = p /\ h[1] = q /\ h[1] = ConsumeLine(h[0], x)
  BY <1>1, <1>2 DEF Follows
<1> QED BY <1>3

\* What is put together is read one after the other.
LEMMA ReadsBoth ==
  ASSUME NEW s \in Seq(Raw), NEW t \in Seq(Raw), NEW p, NEW q, Reads(p, s \o t, q)
  PROVE  \E r \in Parser : Reads(p, s, r) /\ Reads(r, t, q)
<1> DEFINE a == Len(s)
           b == Len(t)
           d == s \o t
<1>1. /\ a \in Nat /\ b \in Nat /\ Len(d) = a + b
      /\ \A i \in 1..a : d[i] = s[i]
      /\ \A i \in 1..b : d[a + i] = t[i]
  OBVIOUS
<1>2. PICK h : Follows(h, p, d, q)
  BY DEF Reads
<1> HIDE DEF a, b, d
<1>3. h \in [0..(a + b) -> Parser] /\ h[0] = p /\ h[a + b] = q
  BY <1>1, <1>2 DEF Follows
<1>4. \A i \in 1..(a + b) : h[i] = ConsumeLine(h[i - 1], d[i])
  BY <1>1, <1>2 DEF Follows
<1> DEFINE g == [i \in 0..a |-> h[i]]
           e == [i \in 0..b |-> h[a + i]]
<1>5. /\ g \in [0..a -> Parser] /\ g[0] = p /\ g[a] = h[a] /\ h[a] \in Parser
      /\ e \in [0..b -> Parser] /\ e[0] = h[a] /\ e[b] = q
  BY <1>1, <1>3
<1>6. \A i \in 1..a : g[i] = ConsumeLine(g[i - 1], s[i])
  BY <1>1, <1>4
<1>7. ASSUME NEW i \in 1..b PROVE e[i] = ConsumeLine(e[i - 1], t[i])
  <2>1. a + i \in 1..(a + b) /\ (a + i) - 1 = a + (i - 1)
    BY <1>1
  <2> QED BY <1>1, <1>4, <2>1
<1> HIDE DEF g, e
<1>8. Follows(g, p, s, h[a]) /\ Follows(e, h[a], t, q)
  BY <1>5, <1>6, <1>7 DEF Follows, a, b
<1> QED BY <1>5, <1>8 DEF Reads

-----------------------------------------------------------------------------
(* The script of a file.                                                   *)

Change == [kind : {"+", "-", " "}, at : Nat]

\* The line of the new text after a line of the script.
After(x) == x.at + (IF x.kind = "-" THEN 0 ELSE 1)

\* A script counts the lines of the new text, and adds those that are not
\* kept.
Counts(s, length, kept) ==
  /\ s \in Seq(Change)
  /\ \A j \in 1..(Len(s) - 1) : s[j + 1].at = After(s[j])
  /\ {s[j].at : j \in {i \in 1..Len(s) : s[i].kind = "+"}} = (1..length) \ kept

\* What a script has for the new line n of length lines: the lines that vanish
\* there, and the line.
PartAt(s, n, length, kept) ==
  /\ s \in Seq(Change)
  /\ n <= length => Len(s) > 0
  /\ \A i \in 1..Len(s) :
       /\ s[i].at = n
       /\ s[i].kind = "-" <=> i < Len(s) \/ n > length
       /\ s[i].kind = "+" <=> i = Len(s) /\ n <= length /\ n \notin kept

\* Lines that vanish,
LEMMA VanishingPart ==
  ASSUME NEW a \in Seq(Change), NEW n \in Nat, NEW length \in Nat, NEW kept,
         \A i \in 1..Len(a) : a[i].at = n /\ a[i].kind = "-", n > length
  PROVE  PartAt(a, n, length, kept)
BY DEF PartAt

\* and a line that does not.
LEMMA LastingPart ==
  ASSUME NEW a \in Seq(Change), NEW n \in Nat, NEW length \in Nat, NEW kept,
         \A i \in 1..Len(a) : a[i].at = n /\ a[i].kind = "-", n <= length,
         NEW x \in Change, x.at = n, x.kind # "-", x.kind = "+" <=> n \notin kept
  PROVE  PartAt(a \o <<x>>, n, length, kept)
<1> DEFINE s == a \o <<x>>
           v == Len(a)
<1>1. /\ s \in Seq(Change) /\ Len(s) = v + 1 /\ s[v + 1] = x /\ v \in Nat
      /\ \A i \in 1..v : s[i] = a[i]
  OBVIOUS
<1>2. \A i \in 1..v : a[i].at = n /\ a[i].kind = "-"
  OBVIOUS
<1> HIDE DEF s, v
<1>3. ASSUME NEW i \in 1..Len(s)
      PROVE  /\ s[i].at = n
             /\ s[i].kind = "-" <=> i < Len(s) \/ n > length
             /\ s[i].kind = "+" <=> i = Len(s) /\ n <= length /\ n \notin kept
  <2>1. CASE i = v + 1
    <3>1. s[i] = x /\ ~(i < Len(s)) /\ i = Len(s) /\ ~(n > length)
      BY <1>1, <2>1
    <3> QED BY <3>1
  <2>2. CASE i # v + 1
    <3>1. i \in 1..v /\ i < Len(s) /\ i # Len(s)
      BY <1>1, <2>2
    <3>2. s[i] = a[i] /\ a[i].at = n /\ a[i].kind = "-"
      BY <1>1, <1>2, <3>1
    <3> QED BY <3>1, <3>2
  <2> QED BY <2>1, <2>2
<1> QED BY <1>1, <1>3 DEF PartAt, s

Piece(v, n, length, kept) ==
  [i \in 1..v |-> [kind |-> "-", at |-> n]]
    \o (IF n > length THEN <<>>
        ELSE <<[kind |-> IF n \in kept THEN " " ELSE "+", at |-> n]>>)

\* What the script has for a line.
LEMMA ScriptPart ==
  ASSUME NEW v \in Nat, NEW n \in Nat, NEW length \in Nat, NEW kept
  PROVE  PartAt(Piece(v, n, length, kept), n, length, kept)
<1> DEFINE a == [i \in 1..v |-> [kind |-> "-", at |-> n]]
           x == [kind |-> IF n \in kept THEN " " ELSE "+", at |-> n]
<1>0. [kind |-> "-", at |-> n] \in Change
  BY DEF Change
<1>1. a \in Seq(Change) /\ Len(a) = v
  BY <1>0
<1>2. \A i \in 1..v : a[i].at = n /\ a[i].kind = "-"
  OBVIOUS
<1>3. x \in Change /\ x.at = n /\ x.kind # "-" /\ (x.kind = "+" <=> n \notin kept)
  BY DEF Change
<1> HIDE DEF a, x
<1>4. PartAt(a \o (IF n > length THEN <<>> ELSE <<x>>), n, length, kept)
  <2>1. CASE n > length
    <3>1. a \o (IF n > length THEN <<>> ELSE <<x>>) = a
      BY <1>1, <2>1, ConcatEmptySeq
    <3>2. PartAt(a, n, length, kept)
      BY <1>1, <1>2, <2>1, VanishingPart
    <3> QED BY <3>1, <3>2
  <2>2. CASE n <= length
    <3>1. a \o (IF n > length THEN <<>> ELSE <<x>>) = a \o <<x>>
      BY <2>2
    <3>2. PartAt(a \o <<x>>, n, length, kept)
      BY <1>1, <1>2, <1>3, <2>2, LastingPart
    <3> QED BY <3>1, <3>2
  <2> QED BY <2>1, <2>2
<1> QED BY <1>4 DEF Piece, a, x

\* A script counts, whatever git kept.
LEMMA ScriptCounts ==
  ASSUME NEW a \in Nat, NEW b \in Nat, NEW kept
  PROVE  Counts(Script(a, b, kept), b, kept[2])
<1> DEFINE ss == [n \in 1..(b + 1) |->
                    [i \in 1..Vanished(kept, a, n) |-> [kind |-> "-", at |-> n]]
                      \o (IF n > b THEN <<>>
                          ELSE <<[kind |-> IF n \in kept[2] THEN " " ELSE "+", at |-> n]>>)]
           d == Script(a, b, kept)
<1>1. d = FlattenSeq(ss)
  BY DEF Script
<1>2. ASSUME NEW n \in 1..(b + 1)
      PROVE  PartAt(ss[n], n, b, kept[2])
  <2>1. Vanished(kept, a, n) \in Nat
    <3> DEFINE new == Ascending(kept[2])
               gap(o) == LET k == Cardinality({i \in kept[1] : i < o})
                         IN  IF k = 0 THEN 1 ELSE new[k] + 1
               T == {o \in (1..a) \ kept[1] : gap(o) = n}
    <3>1. Vanished(kept, a, n) = Cardinality(T)
      BY DEF Vanished
    <3>2. T \in SUBSET (1..a) /\ IsFiniteSet(1..a)
      BY FS_Interval
    <3> HIDE DEF T
    <3>3. IsFiniteSet(T)
      BY <3>2, FS_Subset
    <3> QED BY <3>1, <3>3, FS_CardinalityType
  <2>2. n \in Nat
    OBVIOUS
  <2> DEFINE v == Vanished(kept, a, n)
  <2>3. ss[n] = Piece(v, n, b, kept[2])
    BY DEF Piece
  <2> HIDE DEF v, ss
  <2> QED BY <2>1, <2>2, <2>3, ScriptPart DEF v
<1>3. DOMAIN ss = 1..(b + 1)
  OBVIOUS
<1>3a. ss = [n \in 1..(b + 1) |-> ss[n]]
  OBVIOUS
<1> HIDE DEF ss, d
<1>4. ss \in [1..(b + 1) -> Seq(Change)] /\ b + 1 \in Nat
  BY <1>2, <1>3, <1>3a DEF PartAt
<1>5. d \in Seq(Change) /\ \E off : Parts(off, ss, d)
  BY <1>1, <1>4, FlattenParts
<1>6. PICK off : Parts(off, ss, d)
  BY <1>5
<1>7. Len(ss) = b + 1 /\ Len(d) \in Nat
  BY <1>4, <1>5
<1>8. ASSUME NEW n \in 1..(b + 1)
      PROVE  Len(ss[n]) \in Nat /\ n \in 0..(b + 1) /\ n - 1 \in 0..(b + 1)
  <2>1. ss[n] \in Seq(Change)
    BY <1>4
  <2> QED BY <2>1, LenProperties
<1>9. off \in [0..(b + 1) -> 0..Len(d)] /\ off[b + 1] = Len(d)
  BY <1>6, <1>7 DEF Parts
<1>10. \A n \in 1..(b + 1) : off[n] = off[n - 1] + Len(ss[n])
  BY <1>6, <1>7 DEF Parts
<1>11. \A n \in 1..(b + 1) : \A i \in 1..Len(ss[n]) : d[off[n - 1] + i] = ss[n][i]
  BY <1>6, <1>7 DEF Parts
<1>12. \A j \in 1..Len(d) : \E n \in 1..(b + 1) : \E i \in 1..Len(ss[n]) : j = off[n - 1] + i
  <2>1. \A j \in 1..Len(d) : InPart(off, ss, b + 1, j)
    BY <1>4, <1>5, <1>6, PartOf
  <2> QED BY <2>1 DEF InPart
<1>13. ASSUME NEW j \in 1..(Len(d) - 1) PROVE d[j + 1].at = After(d[j])
  <2>0. j \in 1..Len(d) /\ j \in Nat
    BY <1>7
  <2>1. PICK n \in 1..(b + 1) : \E i \in 1..Len(ss[n]) : j = off[n - 1] + i
    BY <1>12, <2>0
  <2>2. PICK i \in 1..Len(ss[n]) : j = off[n - 1] + i
    BY <2>1
  <2>3. /\ Len(ss[n]) \in Nat /\ i \in Nat /\ off[n - 1] \in Nat /\ off[n] \in Nat
        /\ off[n] = off[n - 1] + Len(ss[n]) /\ n \in Nat
    BY <1>8, <1>9, <1>10
  <2>4. d[j] = ss[n][i] /\ d[j].at = n
    BY <1>2, <1>11, <2>2 DEF PartAt
  <2>5. CASE i < Len(ss[n])
    <3>1. i + 1 \in 1..Len(ss[n]) /\ j + 1 = off[n - 1] + (i + 1)
      BY <2>2, <2>3, <2>5
    <3>2. d[j + 1].at = n
      BY <1>2, <1>11, <3>1 DEF PartAt
    <3>3. d[j].kind = "-"
      BY <1>2, <2>4, <2>5 DEF PartAt
    <3> QED BY <2>3, <2>4, <3>2, <3>3 DEF After
  <2>6. CASE i = Len(ss[n])
    <3>1. j = off[n] /\ n # b + 1
      BY <1>7, <1>9, <2>2, <2>3, <2>6
    <3>2. n <= b /\ n + 1 \in 1..(b + 1) /\ (n + 1) - 1 = n
      BY <2>3, <3>1
    <3>3. d[j].kind # "-"
      BY <1>2, <2>3, <2>4, <2>6, <3>2 DEF PartAt
    <3>4. off[n + 1] = off[n] + Len(ss[n + 1]) /\ Len(ss[n + 1]) \in Nat
      BY <1>8, <1>10, <3>2
    <3>5. Len(ss[n + 1]) > 0
      <4>1. CASE n + 1 <= b
        BY <1>2, <3>2, <4>1 DEF PartAt
      <4>2. CASE n + 1 = b + 1
        <5>1. off[n + 1] = Len(d)
          BY <1>9, <4>2
        <5> QED BY <1>7, <3>1, <3>4, <5>1
      <4> QED BY <3>2, <4>1, <4>2
    <3>6. 1 \in 1..Len(ss[n + 1]) /\ j + 1 = off[(n + 1) - 1] + 1
      BY <3>1, <3>2, <3>4, <3>5
    <3>7. d[j + 1] = ss[n + 1][1]
      BY <1>11, <3>2, <3>6
    <3>8. d[j + 1].at = n + 1
      BY <1>2, <3>2, <3>6, <3>7 DEF PartAt
    <3> QED BY <2>3, <2>4, <3>3, <3>8 DEF After
  <2> QED BY <2>3, <2>5, <2>6
<1> DEFINE plus == {d[j].at : j \in {i \in 1..Len(d) : d[i].kind = "+"}}
<1>14. ASSUME NEW x \in plus PROVE x \in (1..b) \ kept[2]
  <2>1. PICK j \in 1..Len(d) : d[j].kind = "+" /\ x = d[j].at
    OBVIOUS
  <2>2. PICK n \in 1..(b + 1) : \E i \in 1..Len(ss[n]) : j = off[n - 1] + i
    BY <1>12
  <2>3. PICK i \in 1..Len(ss[n]) : j = off[n - 1] + i
    BY <2>2
  <2>4. d[j] = ss[n][i]
    BY <1>11, <2>3
  <2>5. x = n /\ n <= b /\ n \notin kept[2]
    BY <1>2, <2>1, <2>4 DEF PartAt
  <2> QED BY <2>5
<1>15. ASSUME NEW n \in 1..b, n \notin kept[2] PROVE n \in plus
  <2>1. n \in 1..(b + 1) /\ n <= b
    OBVIOUS
  <2>2. Len(ss[n]) \in Nat /\ Len(ss[n]) > 0
    BY <1>2, <1>8, <2>1 DEF PartAt
  <2> DEFINE i == Len(ss[n])
             j == off[n - 1] + i
  <2>3. i \in 1..Len(ss[n])
    BY <2>2
  <2>4. ss[n][i].kind = "+" /\ ss[n][i].at = n
    BY <1>2, <1>15, <2>1, <2>3 DEF PartAt
  <2>5. d[j] = ss[n][i]
    BY <1>11, <2>1, <2>3
  <2>6. j \in 1..Len(d)
    <3>1. off[n] = j /\ off[n] \in 0..Len(d) /\ off[n - 1] \in 0..Len(d)
      BY <1>8, <1>9, <1>10, <2>1
    <3> QED BY <1>7, <2>2, <3>1
  <2> HIDE DEF i, j
  <2> QED BY <2>4, <2>5, <2>6
<1>16. plus = (1..b) \ kept[2]
  <2> HIDE DEF plus
  <2> QED BY <1>14, <1>15
<1> QED BY <1>5, <1>13, <1>16 DEF Counts, d

-----------------------------------------------------------------------------
(* Hunks.                                                                  *)

\* The lines that the first n of a script add.
Plus(s, n) == {s[j].at : j \in {i \in 1..n : s[i].kind = "+"}}

More(x) == IF x.kind = "+" THEN {x.at} ELSE {}

\* The parser is in the hunks of f, has read what p had and lines on top.
InFile(m, p, f, lines) ==
  /\ m \in Parser /\ m.path = f
  /\ m.named = p.named
  /\ m.changed = [p.changed EXCEPT ![f] = @ \cup lines]

\* A line of the script where the parser stands at it.
LEMMA ContentRead ==
  ASSUME NEW f \in File, NEW p \in Parser, NEW lines \in SUBSET Nat, NEW m,
         InFile(m, p, f, lines), NEW x \in Change, m.line = x.at,
         NEW q, q = ConsumeLine(m, x)
  PROVE  /\ InFile(q, p, f, lines \cup More(x))
         /\ q.line = After(x)
<1>1. x \in Raw /\ x.kind \in {"+", "-", " "} /\ x.at \in Nat
  BY DEF Change, Raw
<1>2. m \in Parser /\ m.path = f /\ m.named = p.named
  BY DEF InFile
<1>3. q \in Parser
  BY <1>1, <1>2, ConsumeType
<1>4. q = Content(m, x)
  BY <1>1, <1>2, DiffAssumption DEF ConsumeLine, DiffAssumption
<1>5. /\ p.changed \in [File -> SUBSET Nat]
      /\ m.changed = [p.changed EXCEPT ![f] = @ \cup lines]
      /\ m.changed[f] = p.changed[f] \cup lines
  BY DEF InFile, Parser
<1>6. CASE x.kind = "+"
  <2>1. q = [m EXCEPT !.changed[f] = @ \cup {x.at}, !.line = x.at + 1]
    BY <1>2, <1>4, <1>6 DEF Content
  <2>2. /\ q.path = f /\ q.named = p.named /\ q.line = x.at + 1
        /\ q.changed = [m.changed EXCEPT ![f] = @ \cup {x.at}]
    BY <1>2, <2>1 DEF Parser
  <2>3. q.changed = [p.changed EXCEPT ![f] = @ \cup (lines \cup {x.at})]
    BY <1>5, <2>2
  <2> QED BY <1>3, <1>6, <2>2, <2>3 DEF InFile, After, More
<1>7. CASE x.kind = "-"
  <2>1. q = [m EXCEPT !.anchors[f] = @ \cup {x.at}]
    BY <1>2, <1>4, <1>7 DEF Content
  <2>2. q.path = f /\ q.named = p.named /\ q.line = x.at /\ q.changed = m.changed
    BY <1>2, <2>1 DEF Parser
  <2>3. q.changed = [p.changed EXCEPT ![f] = @ \cup (lines \cup {})]
    BY <1>5, <2>2
  <2>4. After(x) = x.at
    BY <1>1, <1>7 DEF After
  <2> QED BY <1>3, <1>7, <2>2, <2>3, <2>4 DEF InFile, More
<1>8. CASE x.kind = " "
  <2>1. q = [m EXCEPT !.line = x.at + 1]
    BY <1>2, <1>4, <1>8 DEF Content
  <2>2. /\ q.path = f /\ q.named = p.named /\ q.line = x.at + 1
        /\ q.changed = m.changed
    BY <1>2, <2>1 DEF Parser
  <2>3. q.changed = [p.changed EXCEPT ![f] = @ \cup (lines \cup {})]
    BY <1>5, <2>2
  <2> QED BY <1>3, <1>8, <2>2, <2>3 DEF InFile, After, More
<1> QED BY <1>1, <1>6, <1>7, <1>8 DEF More

\* The header of a hunk sets the parser to the line x stands at.
LEMMA HunkHeaderRead ==
  ASSUME NEW f \in File, NEW p \in Parser, NEW lines, NEW m, InFile(m, p, f, lines),
         NEW n \in Nat, NEW q, q = ConsumeLine(m, [kind |-> "@@", at |-> n])
  PROVE  InFile(q, p, f, lines) /\ q.line = n
<1>1. [kind |-> "@@", at |-> n] \in Raw
  BY DEF Raw
<1>2. q \in Parser
  BY <1>1, ConsumeType DEF InFile
<1>3. q = [m EXCEPT !.line = n]
  BY DEF ConsumeLine, Header
<1> QED BY <1>2, <1>3 DEF InFile, Parser

\* The positions of a script that its hunks show.
Shown(s) ==
  {i \in DOMAIN s : \E c \in DOMAIN s : s[c].kind # " " /\ c - i \in -Context..Context}

\* What the hunks have for the i-th of a script.
HunkPart(s, i) ==
  IF i \notin Shown(s) THEN <<>>
  ELSE (IF i - 1 \in Shown(s) THEN <<>> ELSE <<[kind |-> "@@", at |-> s[i].at]>>)
         \o <<s[i]>>

\* Hunks are put together from that.
LEMMA HunksParts ==
  ASSUME NEW s \in Seq(Change)
  PROVE  /\ Hunks(s) = FlattenSeq([i \in 1..Len(s) |-> HunkPart(s, i)])
         /\ [i \in 1..Len(s) |-> HunkPart(s, i)] \in [1..Len(s) -> Seq(Raw)]
         /\ Hunks(s) \in Seq(Raw)
<1>1. DOMAIN s = 1..Len(s)
  OBVIOUS
<1>2. Hunks(s) = FlattenSeq([i \in 1..Len(s) |-> HunkPart(s, i)])
  BY <1>1 DEF Hunks, HunkPart, Shown
<1>3. ASSUME NEW i \in 1..Len(s) PROVE HunkPart(s, i) \in Seq(Raw)
  <2>0. s[i] \in Change
    OBVIOUS
  <2>1. s[i].at \in Nat
    BY <2>0 DEF Change
  <2>2. s[i] \in Raw /\ [kind |-> "@@", at |-> s[i].at] \in Raw
    BY <2>0, <2>1 DEF Change, Raw
  <2> DEFINE x == s[i]
             y == [kind |-> "@@", at |-> s[i].at]
  <2>3. <<>> \in Seq(Raw) /\ <<x>> \in Seq(Raw) /\ <<y>> \in Seq(Raw)
    BY <2>2
  <2> HIDE DEF x, y
  <2>4. <<>> \o <<x>> \in Seq(Raw) /\ <<y>> \o <<x>> \in Seq(Raw)
    BY <2>3, ConcatProperties
  <2> QED BY <2>3, <2>4 DEF HunkPart, x, y
<1> DEFINE ss == [i \in 1..Len(s) |-> HunkPart(s, i)]
<1>4. ss \in [1..Len(s) -> Seq(Raw)]
  BY <1>3
<1>5. Len(s) \in Nat
  OBVIOUS
<1>6. Hunks(s) = FlattenSeq(ss)
  BY <1>2
<1> HIDE DEF ss
<1>7. FlattenSeq(ss) \in Seq(Raw)
  BY <1>4, <1>5, FlattenParts
<1> QED BY <1>2, <1>4, <1>6, <1>7 DEF ss

\* One more of a script.
LEMMA PlusNext ==
  ASSUME NEW s, NEW i \in Nat
  PROVE  Plus(s, i + 1) =
           Plus(s, i) \cup More(s[i + 1])
<1>1. 1..(i + 1) = (1..i) \cup {i + 1}
  OBVIOUS
<1> QED BY <1>1 DEF Plus, More

\* Reading what the hunks have for one of a script, where the one before it was
\* shown only if the parser stands behind it.
LEMMA HunkPartRead ==
  ASSUME NEW s \in Seq(Change), NEW i \in 0..(Len(s) - 1),
         i # 0 => s[i + 1].at = After(s[i]),
         NEW f \in File, NEW p \in Parser, NEW m, InFile(m, p, f, Plus(s, i)),
         i \in Shown(s) => m.line = After(s[i]),
         NEW q, Reads(m, HunkPart(s, i + 1), q)
  PROVE  /\ InFile(q, p, f, Plus(s, i + 1))
         /\ i + 1 \in Shown(s) => q.line = After(s[i + 1])
<1> DEFINE x == s[i + 1]
<1>1. i \in Nat /\ i + 1 \in 1..Len(s) /\ (i + 1) - 1 = i /\ DOMAIN s = 1..Len(s)
  OBVIOUS
<1>2. x \in Change /\ x.at \in Nat
  <2>1. x \in Change
    BY <1>1
  <2> QED BY <2>1 DEF Change
<1>3. Plus(s, i) \in SUBSET Nat
  <2>1. \A j \in 1..i : s[j] \in Change
    BY <1>1
  <2> QED BY <2>1 DEF Plus, Change
<1>4. Plus(s, i + 1) = Plus(s, i) \cup More(x)
  BY <1>1, PlusNext
<1>5. CASE i + 1 \notin Shown(s)
  <2>1. x.kind = " "
    <3>1. (i + 1) - (i + 1) \in -Context..Context
      BY <1>1, DiffAssumption DEF DiffAssumption
    <3> QED BY <1>1, <1>5, <3>1 DEF Shown
  <2>2. q = m
    <3>1. HunkPart(s, i + 1) = <<>>
      BY <1>5 DEF HunkPart
    <3> QED BY <3>1, ReadsNothing
  <2>3. Plus(s, i + 1) = Plus(s, i)
    BY <1>4, <2>1 DEF More
  <2> QED BY <1>5, <2>2, <2>3
<1>6. CASE i + 1 \in Shown(s)
  <2>1. \E r : /\ InFile(r, p, f, Plus(s, i)) /\ r.line = x.at
               /\ q = ConsumeLine(r, x)
    <3>1. CASE i \in Shown(s)
      <4>1. HunkPart(s, i + 1) = <<>> \o <<x>>
        BY <1>1, <1>6, <3>1 DEF HunkPart
      <4>2. <<>> \o <<x>> = <<x>>
        OBVIOUS
      <4>3. q = ConsumeLine(m, x)
        BY <4>1, <4>2, ReadsOne
      <4>4. m.line = x.at
        <5>1. i # 0
          <6>1. i \in DOMAIN s
            BY <3>1 DEF Shown
          <6> QED BY <1>1, <6>1
        <5> QED BY <3>1, <5>1
      <4> QED BY <4>3, <4>4
    <3>2. CASE i \notin Shown(s)
      <4> DEFINE y == [kind |-> "@@", at |-> x.at]
      <4>1. HunkPart(s, i + 1) = <<y>> \o <<x>>
        BY <1>1, <1>6, <3>2 DEF HunkPart
      <4>2. y \in Raw /\ x \in Raw
        BY <1>2 DEF Raw, Change
      <4>3. <<y>> \in Seq(Raw) /\ <<x>> \in Seq(Raw)
        BY <4>2
      <4>4. PICK r \in Parser : Reads(m, <<y>>, r) /\ Reads(r, <<x>>, q)
        <5> HIDE DEF x, y
        <5> QED BY <4>1, <4>3, ReadsBoth
      <4>5. r = ConsumeLine(m, y) /\ q = ConsumeLine(r, x)
        BY <4>4, ReadsOne
      <4>6. InFile(r, p, f, Plus(s, i)) /\ r.line = x.at
        <5> DEFINE n == x.at
        <5>1. n \in Nat /\ r = ConsumeLine(m, [kind |-> "@@", at |-> n])
          BY <1>2, <4>5
        <5> HIDE DEF n
        <5>2. InFile(r, p, f, Plus(s, i)) /\ r.line = n
          BY <5>1, HunkHeaderRead
        <5> QED BY <5>2 DEF n
      <4> QED BY <4>5, <4>6
    <3> QED BY <3>1, <3>2
  <2>2. PICK r : InFile(r, p, f, Plus(s, i)) /\ r.line = x.at /\ q = ConsumeLine(r, x)
    BY <2>1
  <2> HIDE DEF x
  <2>3. /\ InFile(q, p, f, Plus(s, i) \cup More(x))
        /\ q.line = After(x)
    BY <1>2, <1>3, <2>2, ContentRead
  <2> QED BY <1>4, <2>3 DEF x
<1> QED BY <1>5, <1>6

\* From the hunks of a file the parser takes the lines that the script adds.
LEMMA HunksRead ==
  ASSUME NEW s, NEW length, NEW kept, Counts(s, length, kept), NEW f \in File,
         NEW p \in Parser, p.path = f, NEW q, Reads(p, Hunks(s), q)
  PROVE  InFile(q, p, f, (1..length) \ kept)
<1> DEFINE b == Len(s)
           ss == [i \in 1..b |-> HunkPart(s, i)]
<1>1. s \in Seq(Change) /\ b \in Nat /\ Plus(s, b) = (1..length) \ kept
  BY DEF Counts, Plus
<1>2. Hunks(s) = FlattenSeq(ss) /\ ss \in [1..b -> Seq(Raw)]
  BY <1>1, HunksParts
<1>3. \A i \in 1..b : ss[i] = HunkPart(s, i)
  OBVIOUS
<1>4. \A j \in 1..(b - 1) : s[j + 1].at = After(s[j])
  BY DEF Counts
<1>5. b = Len(s)
  OBVIOUS
<1> HIDE DEF b, ss
<1>6. PICK mid : Through(mid, p, ss, b, q)
  <2>1. Reads(p, FlattenSeq(ss), q)
    BY <1>2
  <2> QED BY <1>1, <1>2, <2>1, ReadsParts
<1> DEFINE S == {i \in 0..b : /\ InFile(mid[i], p, f, Plus(s, i))
                              /\ i \in Shown(s) => mid[i].line = After(s[i])}
<1>7. 0 \in S
  <2>1. mid[0] = p
    BY <1>6 DEF Through
  <2>2. Plus(s, 0) = {}
    BY DEF Plus
  <2>5. 0 \notin Shown(s)
    <3>1. DOMAIN s = 1..b
      BY <1>1, <1>5
    <3> QED BY <3>1 DEF Shown
  <2>3. [p.changed EXCEPT ![f] = @ \cup {}] = p.changed
    BY DEF Parser
  <2>4. 0 \in 0..b
    BY <1>1
  <2> QED BY <2>1, <2>2, <2>3, <2>4, <2>5 DEF InFile
<1>8. ASSUME NEW i \in 0..(b - 1), i \in S PROVE i + 1 \in S
  <2>1. i \in Nat /\ i + 1 \in 1..b /\ (i + 1) - 1 = i /\ i + 1 \in 0..b
    BY <1>1
  <2>2. Reads(mid[i], HunkPart(s, i + 1), mid[i + 1])
    BY <1>3, <1>6, <2>1 DEF Through
  <2>3. i # 0 => s[i + 1].at = After(s[i])
    BY <1>1, <1>4
  <2>4. InFile(mid[i], p, f, Plus(s, i)) /\ (i \in Shown(s) => mid[i].line = After(s[i]))
    BY <1>8
  <2> DEFINE m == mid[i]
             n == mid[i + 1]
  <2> HIDE DEF m, n
  <2>5. /\ InFile(m, p, f, Plus(s, i)) /\ (i \in Shown(s) => m.line = After(s[i]))
        /\ Reads(m, HunkPart(s, i + 1), n)
    BY <2>2, <2>4 DEF m, n
  <2>6. i \in 0..(Len(s) - 1)
    BY <1>5
  <2>7. /\ InFile(n, p, f, Plus(s, i + 1))
        /\ i + 1 \in Shown(s) => n.line = After(s[i + 1])
    BY <1>1, <2>3, <2>5, <2>6, HunkPartRead
  <2> QED BY <2>1, <2>7 DEF n
<1>9. 0..b \subseteq S
  <2> HIDE DEF S
  <2> QED BY <1>1, <1>7, <1>8, Climb
<1>10. InFile(mid[b], p, f, Plus(s, b))
  <2>1. b \in 0..b
    BY <1>1
  <2> QED BY <1>9, <2>1
<1> QED BY <1>1, <1>6, <1>10 DEF Through

-----------------------------------------------------------------------------
(* The diff of a file.                                                     *)

\* Reading the diff of f, the parser has taken these lines from it.
Takes(q, p, f, lines) ==
  /\ q \in Parser
  /\ q.named = p.named \cup {f}
  /\ q.changed = [p.changed EXCEPT ![f] = @ \cup lines]

\* Its header is two lines.
LEMMA FileDiffParts ==
  ASSUME NEW f \in File, NEW a \in Nat, NEW b \in Nat, NEW kept
  PROVE  /\ FileDiff(f, a, b, kept) =
              <<[kind |-> "diff --git", at |-> 0], [kind |-> "+++ b/", at |-> f]>>
                \o Hunks(Script(a, b, kept))
         /\ [kind |-> "diff --git", at |-> 0] \in Raw
         /\ [kind |-> "+++ b/", at |-> f] \in Raw
         /\ Hunks(Script(a, b, kept)) \in Seq(Raw)
         /\ FileDiff(f, a, b, kept) \in Seq(Raw)
<1> DEFINE x == [kind |-> "diff --git", at |-> 0]
           y == [kind |-> "+++ b/", at |-> f]
           hunks == Hunks(Script(a, b, kept))
<1>1. FileDiff(f, a, b, kept) = <<x, y>> \o hunks
  BY DEF FileDiff
<1>2. x \in Raw
  BY DEF Raw
<1>3. y \in Raw
  <2>1. f \in Nat
    BY DiffAssumption DEF DiffAssumption
  <2> QED BY <2>1 DEF Raw
<1>4. hunks \in Seq(Raw)
  <2>1. Script(a, b, kept) \in Seq(Change)
    BY ScriptCounts DEF Counts
  <2> QED BY <2>1, HunksParts
<1> HIDE DEF x, y, hunks
<1>5. <<x, y>> \in Seq(Raw)
  BY <1>2, <1>3
<1>6. <<x, y>> \o hunks \in Seq(Raw)
  BY <1>4, <1>5, ConcatProperties
<1> QED BY <1>1, <1>2, <1>3, <1>4, <1>6 DEF x, y, hunks

\* From the diff of a file the parser takes the lines that are not kept.
LEMMA FileRead ==
  ASSUME NEW f \in File, NEW a \in Nat, NEW b \in Nat, NEW kept, NEW p \in Parser,
         NEW q, Reads(p, FileDiff(f, a, b, kept), q)
  PROVE  Takes(q, p, f, (1..b) \ kept[2])
<1> DEFINE x == [kind |-> "diff --git", at |-> 0]
           y == [kind |-> "+++ b/", at |-> f]
           hunks == Hunks(Script(a, b, kept))
<1>1. /\ FileDiff(f, a, b, kept) = <<x, y>> \o hunks
      /\ x \in Raw /\ y \in Raw /\ hunks \in Seq(Raw)
  BY FileDiffParts
<1> HIDE DEF x, y, hunks
<1>2. /\ <<x>> \in Seq(Raw) /\ <<y>> \in Seq(Raw) /\ <<x, y>> \in Seq(Raw)
      /\ <<x, y>> = <<x>> \o <<y>>
  <2>1. <<x>> \in Seq(Raw) /\ <<y>> \in Seq(Raw) /\ <<x, y>> \in Seq(Raw)
    BY <1>1
  <2> DEFINE s == <<x>>
             t == <<y>>
             both == <<x, y>>
  <2>2. /\ Len(s) = 1 /\ Len(t) = 1 /\ Len(both) = 2
        /\ s[1] = x /\ t[1] = y /\ both[1] = x /\ both[2] = y
    OBVIOUS
  <2>3. s \in Seq(Raw) /\ t \in Seq(Raw) /\ both \in Seq(Raw)
    BY <2>1
  <2> HIDE DEF s, t, both
  <2>4. s \o t \in Seq(Raw) /\ Len(s \o t) = 2 /\ (s \o t)[1] = x /\ (s \o t)[2] = y
    <3>1. /\ s \o t \in Seq(Raw) /\ Len(s \o t) = Len(s) + Len(t)
          /\ \A i \in 1..Len(s) : (s \o t)[i] = s[i]
          /\ \A i \in 1..Len(t) : (s \o t)[Len(s) + i] = t[i]
      BY <2>3
    <3>2. 1 \in 1..Len(s) /\ 1 \in 1..Len(t) /\ Len(s) + 1 = 2
      BY <2>2
    <3> QED BY <2>2, <3>1, <3>2
  <2>5. \A i \in 1..2 : i = 1 \/ i = 2
    OBVIOUS
  <2>6. both = s \o t
    BY <2>2, <2>3, <2>4, <2>5, SeqEqual
  <2> QED BY <2>1, <2>6 DEF s, t, both
<1>3. PICK s \in Parser : Reads(p, <<x, y>>, s) /\ Reads(s, hunks, q)
  BY <1>1, <1>2, ReadsBoth
<1>4. PICK r \in Parser : Reads(p, <<x>>, r) /\ Reads(r, <<y>>, s)
  BY <1>2, <1>3, ReadsBoth
<1>5. r = ConsumeLine(p, x) /\ s = ConsumeLine(r, y)
  BY <1>4, ReadsOne
<1>6. r.named = p.named /\ r.changed = p.changed
  BY <1>5 DEF ConsumeLine, Header, Parser, x
<1>7. s = [r EXCEPT !.path = f, !.named = @ \cup {f}]
  BY <1>5 DEF ConsumeLine, Header, y
<1>8. s.path = f /\ s.named = p.named \cup {f} /\ s.changed = p.changed
  BY <1>6, <1>7 DEF Parser
<1>9. InFile(q, s, f, (1..b) \ kept[2])
  <2> DEFINE script == Script(a, b, kept)
             lost == kept[2]
  <2>1. Counts(script, b, lost) /\ Reads(s, Hunks(script), q)
    BY <1>3, ScriptCounts DEF hunks
  <2> HIDE DEF script, lost
  <2>2. InFile(q, s, f, (1..b) \ lost)
    BY <1>8, <2>1, HunksRead
  <2> QED BY <2>2 DEF lost
<1> QED BY <1>8, <1>9 DEF InFile, Takes

-----------------------------------------------------------------------------
(* The diff of two trees.                                                  *)

Texts == [File -> Seq(Line)]

Differing(old, new) == {f \in File : old[f] # new[f]}

\* What the parser knows of the first i files of the diff.
Known(q, at, i, new, kept) ==
  /\ q \in Parser
  /\ q.named = {at[k] : k \in 1..i}
  /\ \A f \in File :
       q.changed[f] = IF f \in {at[k] : k \in 1..i} THEN (1..Len(new[f])) \ kept[f][2]
                      ELSE {}

\* One file more.
LEMMA KnownNext ==
  ASSUME NEW p, NEW q, NEW i \in Nat, NEW at, at[i + 1] \in File,
         \A k \in 1..i : at[k] # at[i + 1],
         NEW new, NEW kept, Known(p, at, i, new, kept),
         Takes(q, p, at[i + 1], (1..Len(new[at[i + 1]])) \ kept[at[i + 1]][2])
  PROVE  Known(q, at, i + 1, new, kept)
<1> DEFINE f == at[i + 1]
           lines(g) == (1..Len(new[g])) \ kept[g][2]
           A == {at[k] : k \in 1..i}
           B == {at[k] : k \in 1..(i + 1)}
<1>1. B = A \cup {f} /\ f \notin A
  <2>1. 1..(i + 1) = (1..i) \cup {i + 1}
    OBVIOUS
  <2> QED BY <2>1
<1>2. /\ p \in Parser /\ p.named = A
      /\ \A g \in File : p.changed[g] = IF g \in A THEN lines(g) ELSE {}
  BY DEF Known
<1>3. /\ q \in Parser /\ q.named = p.named \cup {f}
      /\ q.changed = [p.changed EXCEPT ![f] = @ \cup lines(f)]
  BY DEF Takes
<1>4. f \in File /\ p.changed \in [File -> SUBSET Nat]
  BY <1>2 DEF Parser
<1> HIDE DEF A, B, f, lines
<1>5. \A g \in File : q.changed[g] = IF g \in B THEN lines(g) ELSE {}
  <2> SUFFICES ASSUME NEW g \in File
               PROVE  q.changed[g] = IF g \in B THEN lines(g) ELSE {}
    OBVIOUS
  <2>1. CASE g = f
    <3>1. q.changed[f] = p.changed[f] \cup lines(f)
      BY <1>3, <1>4
    <3>2. p.changed[f] = {} /\ f \in B
      BY <1>1, <1>2, <1>4
    <3> QED BY <2>1, <3>1, <3>2
  <2>2. CASE g # f
    <3>1. q.changed[g] = p.changed[g]
      BY <1>3, <1>4, <2>2
    <3>2. g \in B <=> g \in A
      BY <1>1, <2>2
    <3> QED BY <1>2, <3>1, <3>2
  <2> QED BY <2>1, <2>2
<1> QED BY <1>1, <1>2, <1>3, <1>5 DEF Known, A, B, lines

\* The index of a diff has for every file that differs the lines that are not
\* kept, whichever lines git kept.
LEMMA DiffRead ==
  ASSUME NEW old \in Texts, NEW new \in Texts, NEW kept,
         NEW index, index = ParseUnifiedDiff(GitDiff(old, new, kept)), NEW f \in File
  PROVE  IF old[f] = new[f] THEN index.changed[f] = {}
         ELSE ContainsFile(index, f) /\ index.changed[f] = DOMAIN new[f] \ kept[f][2]
<1> DEFINE C == Differing(old, new)
           at == Ascending(C)
           m == Cardinality(C)
           part(g) == FileDiff(g, Len(old[g]), Len(new[g]), kept[g])
           ss == [k \in 1..m |-> part(at[k])]
<1>1. Ascends(at, C)
  <2>1. C \in SUBSET File /\ \A i \in C : i \in Int
    BY DiffAssumption DEF Differing, DiffAssumption
  <2>2. IsFiniteSet(C)
    BY <2>1, FilesFinite, FS_Subset
  <2> HIDE DEF C
  <2> QED BY <2>1, <2>2, AscendingProperties
<1>2. /\ m \in Nat /\ at \in [1..m -> C]
      /\ \A i \in C : \E k \in 1..m : at[k] = i
      /\ \A k, l \in 1..m : at[k] = at[l] => k = l
  BY <1>1 DEF Ascends
<1>3. GitDiff(old, new, kept) = FlattenSeq(ss)
  <2>1. DOMAIN at = 1..m
    BY <1>2
  <2> QED BY <2>1 DEF GitDiff, Differing
<1>4. \A g \in File : /\ Len(old[g]) \in Nat /\ Len(new[g]) \in Nat
                      /\ DOMAIN new[g] = 1..Len(new[g])
  <2>1. \A g \in File : old[g] \in Seq(Line) /\ new[g] \in Seq(Line)
    BY DEF Texts
  <2> QED BY <2>1
<1>5. \A g \in File : part(g) \in Seq(Raw)
  BY <1>4, FileDiffParts
<1>6. \A k \in 1..m : at[k] \in File /\ ss[k] = part(at[k])
  BY <1>2 DEF Differing
<1>7. C = {g \in File : old[g] # new[g]}
  BY DEF Differing
<1> HIDE DEF C, at, m, part
<1>8. ss \in [1..m -> Seq(Raw)]
  BY <1>5, <1>6
<1> HIDE DEF ss
<1>9. Reads(NewParser, FlattenSeq(ss), index)
  <2> DEFINE d == FlattenSeq(ss)
  <2>1. d \in Seq(Raw) /\ index = ParseUnifiedDiff(d)
    BY <1>2, <1>3, <1>8, FlattenParts
  <2> HIDE DEF d
  <2>2. Reads(NewParser, d, index)
    BY <2>1, ParseReads
  <2> QED BY <2>2 DEF d
<1>10. PICK mid : Through(mid, NewParser, ss, m, index)
  BY <1>2, <1>8, <1>9, ReadsParts
<1> DEFINE S == {i \in 0..m : Known(mid[i], at, i, new, kept)}
<1>11. 0 \in S
  <2>1. mid[0] = NewParser /\ mid[0] \in Parser /\ 0 \in 0..m
    BY <1>2, <1>10 DEF Through
  <2>2. {at[k] : k \in 1..0} = {}
    OBVIOUS
  <2>3. NewParser.named = {} /\ \A g \in File : NewParser.changed[g] = {}
    BY DEF NewParser, NoLines
  <2> QED BY <2>1, <2>2, <2>3 DEF Known
<1>12. ASSUME NEW i \in 0..(m - 1), i \in S PROVE i + 1 \in S
  <2>1. i \in Nat /\ i + 1 \in 1..m /\ (i + 1) - 1 = i /\ i + 1 \in 0..m
    BY <1>2
  <2> DEFINE g == at[i + 1]
             p == mid[i]
             q == mid[i + 1]
             a == Len(old[g])
             b == Len(new[g])
             lasting == kept[g]
  <2>2. g \in File
    BY <1>6, <2>1
  <2>3. a \in Nat /\ b \in Nat
    BY <1>4, <2>2
  <2>4. Reads(p, ss[i + 1], q)
    BY <1>10, <2>1 DEF Through
  <2>5. ss[i + 1] = FileDiff(g, a, b, lasting)
    BY <1>6, <2>1 DEF part
  <2>6. p \in Parser /\ Known(p, at, i, new, kept)
    BY <1>12 DEF Known
  <2>7. Takes(q, p, g, (1..b) \ lasting[2])
    <3> HIDE DEF g, p, q, a, b, lasting
    <3> QED BY <2>2, <2>3, <2>4, <2>5, <2>6, FileRead
  <2>8. \A k \in 1..i : at[k] # at[i + 1]
    <3>1. ASSUME NEW k \in 1..i PROVE at[k] # at[i + 1]
      <4>1. k \in 1..m /\ k # i + 1
        BY <1>2, <2>1
      <4> QED BY <1>2, <2>1, <4>1
    <3> QED BY <3>1
  <2>9. Known(q, at, i + 1, new, kept)
    <3> HIDE DEF p, q
    <3> QED BY <2>1, <2>2, <2>6, <2>7, <2>8, KnownNext
  <2> QED BY <2>1, <2>9
<1>13. 0..m \subseteq S
  <2> HIDE DEF S
  <2> QED BY <1>2, <1>11, <1>12, Climb
<1>14. Known(index, at, m, new, kept)
  <2>1. m \in 0..m /\ mid[m] = index
    BY <1>2, <1>10 DEF Through
  <2> QED BY <1>13, <2>1
<1>15. {at[k] : k \in 1..m} = C
  BY <1>2
<1> QED BY <1>4, <1>7, <1>14, <1>15 DEF Known, ContainsFile

-----------------------------------------------------------------------------
(* The index of a review.                                                  *)

\* What a review has read from its diff is what the diff adds.
Indexed(r) ==
  ~r.repo => \A f \in File : /\ r.index.changed[f] = r.added[f]
                             /\ r.added[f] # {} => ContainsFile(r.index, f)

IndexInv == review # NoReview => Indexed(review)

\* Where git has nothing to show, it keeps every line.
LEMMA NothingAdded ==
  ASSUME NEW old, NEW kept \in Alignments(old, old)
  PROVE  kept[2] = DOMAIN old
<1>1. kept = <<DOMAIN old, DOMAIN old>>
  BY DEF Alignments
<1> QED BY <1>1

\* A review begins with the index of its diff.
LEMMA IndexBegin == Inv /\ Begin => IndexInv'
<1> SUFFICES ASSUME Inv, Begin PROVE Indexed(review')
  BY DEF IndexInv
<1>1. PICK repo \in BOOLEAN, cap \in Cap :
        LET r == NewReview(repo, cap)
        IN  \/ repo /\ review' = r
            \/ ~repo /\ \E kept :
                 /\ \A f \in File : kept[f] \in Alignments(base[f], head[f])
                 /\ LET index == ParseUnifiedDiff(GitDiff(base, head, kept))
                    IN  review' =
                          [r EXCEPT
                             !.index = index,
                             !.added = [f \in File |-> DOMAIN head[f] \ kept[f][2]],
                             !.todo = Touched(index)]
  BY DEF Begin
<1>2. CASE repo
  BY <1>1, <1>2 DEF NewReview, Indexed
<1>3. CASE ~repo
  <2>1. PICK kept :
          /\ \A f \in File : kept[f] \in Alignments(base[f], head[f])
          /\ LET index == ParseUnifiedDiff(GitDiff(base, head, kept))
             IN  review' = [NewReview(repo, cap) EXCEPT
                              !.index = index,
                              !.added = [f \in File |-> DOMAIN head[f] \ kept[f][2]],
                              !.todo = Touched(index)]
    BY <1>1, <1>3
  <2> DEFINE index == ParseUnifiedDiff(GitDiff(base, head, kept))
             added == [f \in File |-> DOMAIN head[f] \ kept[f][2]]
  <2>2. review' = [NewReview(repo, cap) EXCEPT !.index = index, !.added = added,
                                               !.todo = Touched(index)]
    BY <2>1
  <2>3. base \in Texts /\ head \in Texts
    BY DEF Inv, Trees, Texts
  <2>4. index = ParseUnifiedDiff(GitDiff(base, head, kept))
    OBVIOUS
  <2>5. \A f \in File : added[f] = DOMAIN head[f] \ kept[f][2]
    OBVIOUS
  <2> HIDE DEF index, added
  <2>6. review'.index = index /\ review'.added = added
    BY <2>2 DEF NewReview
  <2>7. ASSUME NEW f \in File
        PROVE  /\ index.changed[f] = added[f]
               /\ added[f] # {} => ContainsFile(index, f)
    <3>1. IF base[f] = head[f] THEN index.changed[f] = {}
          ELSE ContainsFile(index, f) /\ index.changed[f] = DOMAIN head[f] \ kept[f][2]
      BY <2>3, <2>4, DiffRead
    <3>2. base[f] = head[f] => added[f] = {}
      BY <2>1, <2>5, NothingAdded
    <3> QED BY <2>5, <3>1, <3>2
  <2> QED BY <2>6, <2>7 DEF Indexed
<1> QED BY <1>2, <1>3

\* No step of a review changes its index.
LEMMA IndexNext == Inv /\ IndexInv /\ [Next]_vars => IndexInv'
<1> SUFFICES ASSUME Inv, IndexInv, [Next]_vars PROVE IndexInv'
  OBVIOUS
<1>1. review # NoReview => review = [x \in Fields |-> review[x]]
  BY DEF Inv, ReviewInv, Shape
<1>2. ASSUME review # NoReview, review'.repo = review.repo,
             review'.index = review.index, review'.added = review.added
      PROVE  IndexInv'
  BY <1>2 DEF IndexInv, Indexed, ContainsFile
<1>3. CASE UNCHANGED review
  BY <1>3 DEF IndexInv
<1>4. CASE Edit
  <2>1. CASE Idle
    BY <1>3, <1>4, <2>1 DEF Edit, Disturbed, Running, Idle
  <2>2. CASE Running
    <3>1. review' = [review EXCEPT !.still = FALSE] /\ review # NoReview
      BY <1>4, <2>2 DEF Edit, Disturbed, Running
    <3>2. /\ review'.repo = review.repo /\ review'.index = review.index
          /\ review'.added = review.added
      BY <1>1, <3>1 DEF Fields
    <3> QED BY <1>2, <3>1, <3>2
  <2> QED BY <1>4, <2>1, <2>2 DEF Edit
<1>5. CASE Begin
  BY <1>5, IndexBegin
<1>6. CASE Scan
  <2> DEFINE found == ScanFile(review, Head(review.todo), work[Head(review.todo)])
  <2>1. review' = [review EXCEPT !.found = found, !.todo = Tail(@)] /\ review # NoReview
    BY <1>6 DEF Scan, Running
  <2> HIDE DEF found
  <2>2. /\ review'.repo = review.repo /\ review'.index = review.index
        /\ review'.added = review.added
    BY <1>1, <2>1 DEF Fields
  <2> QED BY <1>2, <2>1, <2>2
<1>7. CASE Finish
  <2> DEFINE kept == Kept(review)
             plan == CommentPlan(kept, PlanLimit)
             passed == Passes(kept)
  <2>1. /\ review # NoReview
        /\ review' = [review EXCEPT !.done = TRUE, !.kept = kept,
                                    !.passed = passed, !.plan = plan]
    BY <1>7 DEF Finish, Running, Conclude
  <2> HIDE DEF kept, plan, passed
  <2>2. /\ review'.repo = review.repo /\ review'.index = review.index
        /\ review'.added = review.added
    BY <1>1, <2>1 DEF Fields
  <2> QED BY <1>2, <2>1, <2>2
<1> QED BY <1>3, <1>4, <1>5, <1>6, <1>7 DEF Next, Commit, Accept, vars

\* What a review shows.
LEMMA ShownOfReview == Inv /\ IndexInv => AddedSeamIsShown
<1> SUFFICES ASSUME Inv, IndexInv, Concluded, review.still, ~review.repo
             PROVE  AddedSeamIsShown
  BY DEF AddedSeamIsShown
<1> DEFINE r == review
           found == r.found
           card(f, n) == {i \in DOMAIN found : found[i].file = f /\ found[i].line = n}
           own(f, n)  == IF Profile[work[f][n]].exact THEN n..LastLine(work[f], n) ELSE {n}
           touched(f, n) == own(f, n) \cap r.added[f] # {}
<1>1. /\ Shape(r) /\ Once(r) /\ Finding(r, work) /\ Indexed(r) /\ r.done
  BY DEF Inv, ReviewInv, IndexInv, Concluded
<1>2. found \in Seq(Cards) /\ Numbered(found) /\ r.todo = <<>>
  BY <1>1 DEF Shape
<1>3. Pending(r.todo) = {}
  BY <1>2 DEF Pending
<1>4. ASSUME NEW f \in File, NEW n \in DOMAIN work[f], work[f][n] \in Seam
      PROVE  /\ touched(f, n) => card(f, n) # {}
             /\ \A i \in card(f, n) : found[i].changed = touched(f, n)
  <2> DEFINE text == work[f]
  <2>1. text \in Seq(Line) /\ n \in Nat
    <3>1. text \in Seq(Line)
      BY DEF Inv, Trees
    <3> QED BY <3>1
  <2>2. r.index.changed[f] = r.added[f] /\ (r.added[f] # {} => ContainsFile(r.index, f))
    BY <1>1 DEF Indexed
  <2>3. OnAddedLines(r, f, text, n) <=> touched(f, n)
    <3>1. CASE Profile[text[n]].exact
      BY <2>2, <3>1 DEF OnAddedLines, ContainsInRange
    <3>2. CASE ~Profile[text[n]].exact
      BY <2>2, <3>2 DEF OnAddedLines, ContainsAddedLine
    <3> QED BY <3>1, <3>2
  <2>4. OnAddedLines(r, f, text, n) => InScope(r, f, text, n)
    <3>1. n - n \in -Reach..Reach
      BY <2>1, DiffAssumption DEF DiffAssumption
    <3> QED BY <3>1 DEF OnAddedLines, InScope, ContainsAddedLine, ContainsNear
  <2>5. ASSUME touched(f, n) PROVE card(f, n) # {}
    <3>1. f \in Reviewed(r)
      BY <1>3, <2>2, <2>5 DEF Reviewed
    <3>2. n \in SitesOf(r, f, text)
      BY <1>4, <2>3, <2>4, <2>5 DEF SitesOf
    <3>3. n \in Carded(found, f)
      BY <1>1, <3>1, <3>2 DEF Finding
    <3> QED BY <3>3 DEF Carded
  <2>6. ASSUME NEW i \in card(f, n) PROVE found[i].changed = touched(f, n)
    <3>1. i \in DOMAIN found /\ found[i].file = f /\ found[i].line = n
      BY <2>6
    <3>2. FromSite(found[i], r, f, text)
      BY <1>1, <3>1 DEF Finding
    <3>3. found[i].changed <=> OnAddedLines(r, f, text, n)
      BY <3>1, <3>2 DEF FromSite
    <3>4. found[i].changed \in BOOLEAN
      <4>1. found[i] \in Cards
        BY <1>2, <3>1
      <4> QED BY <4>1 DEF Cards
    <3> QED BY <2>3, <3>3, <3>4
  <2> QED BY <2>5, <2>6
<1>5. ASSUME NEW i \in DOMAIN found, NEW j \in DOMAIN found, i # j
      PROVE  /\ found[i].id # found[j].id
             /\ found[i].file # found[j].file \/ found[i].line # found[j].line
  <2>1. found[i].id # found[j].id
    <3> HIDE DEF found
    <3> QED BY <1>2, <1>5, NumberedAreDistinct
  <2> QED BY <1>1, <1>5, <2>1 DEF Once
<1> QED BY <1>4, <1>5 DEF AddedSeamIsShown

\* Every seam on a line the diff adds has a card that says so, and no other is
\* called changed: what parse_unified_diff counts through headers, context and
\* removed lines is the new text's lines, whatever alignment git chose, and
\* site_in_scope and site_on_added_lines agree on them.
THEOREM AddedIsShown == Spec => []AddedSeamIsShown
<1>1. Init => IndexInv
  BY DEF Init, IndexInv
<1>2. Spec => []IndexInv
  BY <1>1, IndexNext, ReviewIsSound, PTL DEF Spec
<1> QED BY <1>2, ReviewIsSound, ShownOfReview, PTL
=============================================================================
