------------------------ MODULE BaselineLedgerProofs ------------------------
(***************************************************************************)
(* Proofs about BaselineLedger, for any number of processes and identities,*)
(* whatever commands overlap, die and fail.                                *)
(*                                                                         *)
(* The argument: whatever the ledger lists, or a command takes for known   *)
(* or is about to write, was put there by a developer once; and a baseline *)
(* status that nobody disturbed has read what is still in the files.       *)
(* Reports are of the past, and are shown right where they are made.       *)
(*                                                                         *)
(* no-new-debt holds the floor (FloorsHold) when init is run on an empty   *)
(* ledger only: as long as commands run one at a time and to their end,    *)
(* what the snapshot says of a listed card is the coverage it had when it  *)
(* was captured last.  While a command writes, that is true of what it is  *)
(* about to write; a review compares with what is in the files.            *)
(***************************************************************************)
EXTENDS BaselineLedger, TLAPS

-----------------------------------------------------------------------------
(* Types of what the operators return.                                     *)

\* A coverage block has a level in every slot.
LEMMA CoverageType ==
  ASSUME NEW e, NEW class
  PROVE  CoverageOf(e, class) \in Coverage
BY DEF CoverageOf, Coverage, Slot, Level, Present, ReachLevel

\* The strict loader's answer.
LEMMA StrictType ==
  ASSUME NEW file \in Ledger
  PROVE  /\ StrictError(file) \in {NoError, Torn} \cup [text : {"flawed"}, first : SUBSET Id]
         /\ StrictError(file) = NoError => file # Torn
<1> DEFINE flawed == {i \in Listed(file.rows) : file.rows[i].flaw # "none"}
<1>1. CASE file = Torn
  BY <1>1 DEF StrictError, Torn, NoError
<1>2. CASE file # Torn /\ flawed = {}
  BY <1>2 DEF StrictError
<1>3. CASE file # Torn /\ flawed # {}
  <2>1. StrictError(file) = [text |-> "flawed",
                             first |-> {i \in flawed : \A j \in flawed : i <= j}]
    BY <1>3 DEF StrictError
  <2>2. {i \in flawed : \A j \in flawed : i <= j} \in SUBSET Id
    BY DEF Listed
  <2> QED BY <1>3, <2>1, <2>2
<1> QED BY <1>1, <1>2, <1>3

\* A ledger that is not torn has rows.
LEMMA LedgerRows ==
  ASSUME NEW file \in Ledger, file # Torn
  PROVE  file.rows \in Rows /\ file = LedgerText(file.rows)
BY DEF Ledger, Torn, LedgerText

\* A snapshot that is not torn has floors.
LEMMA SnapshotFloors ==
  ASSUME NEW file \in Snapshot, file # Torn
  PROVE  file.floors \in Floors
BY DEF Snapshot, Torn

\* Texts of the two files.
LEMMA TextTypes ==
  /\ \A rows \in Rows : LedgerText(rows) \in Ledger
  /\ \A floors \in Floors : SnapshotText(floors) \in Snapshot
  /\ NoRows \in Rows /\ NoFloors \in Floors
  /\ Torn \in Ledger /\ Torn \in Snapshot
  /\ Listed(NoRows) = {}
BY DEF LedgerText, SnapshotText, Ledger, Snapshot, NoRows, NoFloors, Rows, Floors, Listed

\* Merging keeps the type, and lists nothing that neither of the two lists.
LEMMA MergedType ==
  ASSUME NEW file \in Ledger, NEW new \in Rows
  PROVE  /\ Merged(file, new) \in Rows
         /\ Listed(Merged(file, new)) \subseteq
              Listed(new) \cup (IF file = Torn THEN {} ELSE Listed(file.rows))
<1> DEFINE old == IF StrictError(file) = NoError THEN file.rows ELSE NoRows
<1>1. old \in Rows
  BY StrictType, LedgerRows, TextTypes
<1>2. \A i \in Id : old[i] # NoRow => file # Torn /\ file.rows[i] # NoRow
  BY StrictType DEF NoRows
<1>3. Merged(file, new) = [i \in Id |->
         IF new[i] = NoRow THEN old[i]
         ELSE [new[i] EXCEPT !.copies = IF old[i] = NoRow THEN 1 ELSE old[i].copies]]
  BY DEF Merged
<1>4. ASSUME NEW i \in Id, new[i] # NoRow
      PROVE  [new[i] EXCEPT !.copies = IF old[i] = NoRow THEN 1 ELSE old[i].copies] \in Row
  <2>1. new[i] \in Row
    BY <1>4 DEF Rows
  <2>2. (IF old[i] = NoRow THEN 1 ELSE old[i].copies) \in 1..2
    BY <1>1 DEF Rows, Row
  <2> QED BY <2>1, <2>2 DEF Row
<1>5. Merged(file, new) \in Rows
  <2> HIDE DEF old
  <2> QED BY <1>1, <1>3, <1>4 DEF Rows
<1>6. Listed(Merged(file, new)) \subseteq
        Listed(new) \cup (IF file = Torn THEN {} ELSE Listed(file.rows))
  <2> HIDE DEF old
  <2> QED BY <1>2, <1>3 DEF Listed
<1> QED BY <1>5, <1>6

-----------------------------------------------------------------------------
(* Types of what a command holds.                                          *)

\* v is what is left of w after somebody disturbed it, or w.
Alike(v, w) ==
  /\ v \in Work
  /\ v.cmd = w.cmd /\ v.due = w.due /\ v.ran = w.ran
  /\ v.known = w.known /\ v.lenient = w.lenient /\ v.floors = w.floors
  /\ v.rows = w.rows /\ v.write = w.write
  /\ v.still => w.still

LEMMA NewWorkType ==
  ASSUME today \in Nat, NEW cmd \in Command
  PROVE  NewWork(cmd) \in Work
<1>1. NoCards \in [Id -> Seam \cup {Gone}]
  BY DEF NoCards
<1> QED
  BY <1>1, TextTypes DEF NewWork, Work

LEMMA RequestType ==
  ASSUME today \in Nat, NEW w \in Request
  PROVE  /\ w \in Work
         /\ w.known = {} /\ w.rows = NoRows /\ ~w.ran
         /\ w.cmd \in {"init", "add"} => w.due \in Due
<1>1. ASSUME NEW cmd \in Command
      PROVE  NewWork(cmd) \in Work /\ NewWork(cmd).known = {}
             /\ NewWork(cmd).rows = NoRows /\ NewWork(cmd).cmd = cmd
             /\ ~NewWork(cmd).ran
  BY <1>1, NewWorkType DEF NewWork
<1>2. {"init", "add", "status", "review"} \subseteq Command
  BY DEF Command
<1>3. Id \subseteq Nat /\ Due \subseteq Nat
  BY LedgerAssumption
<1>4. CASE \E d \in Due : w = InitRequest(d)
  <2>1. PICK d \in Due : w = InitRequest(d)
    BY <1>4
  <2>2. d \in Nat /\ NewWork("init") \in Work
    BY <1>1, <1>2, <1>3
  <2>3. w \in Work
    BY <2>1, <2>2 DEF InitRequest, Work
  <2>4. w.known = NewWork("init").known /\ w.rows = NewWork("init").rows /\ w.due = d
        /\ w.ran = NewWork("init").ran
    BY <2>1, <2>2 DEF InitRequest, Work
  <2>5. NewWork("init").known = {} /\ NewWork("init").rows = NoRows
        /\ ~NewWork("init").ran
    BY <1>1, <1>2
  <2> QED BY <2>1, <2>3, <2>4, <2>5
<1>5. CASE \E i \in Id, d \in Due : w = AddRequest(i, d)
  <2>1. PICK i \in Id, d \in Due : w = AddRequest(i, d)
    BY <1>5
  <2>2. d \in Nat /\ i \in Nat /\ NewWork("add") \in Work
    BY <1>1, <1>2, <1>3
  <2>3. w \in Work
    BY <2>1, <2>2 DEF AddRequest, Work
  <2>4. w.known = NewWork("add").known /\ w.rows = NewWork("add").rows /\ w.due = d
        /\ w.ran = NewWork("add").ran
    BY <2>1, <2>2 DEF AddRequest, Work
  <2>5. NewWork("add").known = {} /\ NewWork("add").rows = NoRows
        /\ ~NewWork("add").ran
    BY <1>1, <1>2
  <2> QED BY <2>1, <2>3, <2>4, <2>5
<1>6. CASE w \in {NewWork("status"), NewWork("review")}
  BY <1>1, <1>2, <1>6
<1>7. CASE \E f \in SUBSET File, c \in SUBSET Id : w = DiffRequest(f, c)
  <2>1. PICK f \in SUBSET File, c \in SUBSET Id : w = DiffRequest(f, c)
    BY <1>7
  <2>2. {i \in c : FileOf[i] \in f} \in SUBSET Id
    OBVIOUS
  <2> DEFINE changed == {i \in c : FileOf[i] \in f}
  <2>3. w = [NewWork("review") EXCEPT !.diff = TRUE, !.scanned = f, !.changed = changed]
    BY <2>1 DEF DiffRequest
  <2> HIDE DEF changed
  <2>4. changed \in SUBSET Id
    BY <2>2 DEF changed
  <2>5. NewWork("review") \in Work
    BY <1>1, <1>2
  <2>6. w \in Work
    BY <2>3, <2>4, <2>5 DEF Work
  <2>7. w.known = NewWork("review").known /\ w.rows = NewWork("review").rows
        /\ w.cmd = NewWork("review").cmd /\ w.ran = NewWork("review").ran
    BY <2>3, <2>5 DEF Work
  <2> QED BY <1>1, <1>2, <2>6, <2>7
<1>8. \/ \E d \in Due : w = InitRequest(d)
      \/ \E i \in Id, d \in Due : w = AddRequest(i, d)
      \/ w \in {NewWork("status"), NewWork("review")}
      \/ \E f \in SUBSET File, c \in SUBSET Id : w = DiffRequest(f, c)
  BY DEF Request
<1> QED BY <1>4, <1>5, <1>6, <1>7, <1>8

\* What somebody else's change does to a command under way.
LEMMA DisturbedAlike ==
  ASSUME work \in [Proc -> Work \cup {NoWork}], NEW except, NEW q \in Proc,
         work[q] # NoWork
  PROVE  /\ Alike(Disturbed(except)[q], work[q])
         /\ q # except => Disturbed(except)[q].still = FALSE
<1>1. work[q] \in Work
  OBVIOUS
<1>2. Disturbed(except)[q] = IF q = except THEN work[q]
                             ELSE [work[q] EXCEPT !.still = FALSE]
  BY DEF Disturbed
<1>3. CASE q = except
  BY <1>1, <1>2, <1>3 DEF Alike
<1>4. CASE q # except
  <2>1. /\ [work[q] EXCEPT !.still = FALSE] \in Work
        /\ [work[q] EXCEPT !.still = FALSE].still = FALSE
    BY <1>1 DEF Work
  <2>2. Alike([work[q] EXCEPT !.still = FALSE], work[q])
    BY <1>1, <2>1 DEF Work, Alike
  <2> QED BY <1>2, <1>4, <2>1, <2>2
<1> QED BY <1>3, <1>4

LEMMA DisturbedType ==
  ASSUME work \in [Proc -> Work \cup {NoWork}], NEW except
  PROVE  /\ Disturbed(except) \in [Proc -> Work \cup {NoWork}]
         /\ \A q \in Proc : Disturbed(except)[q] = NoWork <=> work[q] = NoWork
<1>1. ASSUME NEW q \in Proc, work[q] # NoWork
      PROVE  Disturbed(except)[q] \in Work
  BY <1>1, DisturbedAlike DEF Alike
<1>2. \A q \in Proc : work[q] = NoWork => Disturbed(except)[q] = NoWork
  BY DEF Disturbed
<1>3. Disturbed(except) = [q \in Proc |-> Disturbed(except)[q]]
  BY DEF Disturbed
<1> QED BY <1>1, <1>2, <1>3, Sentinels

LEMMA ScannedType ==
  ASSUME TypeOK, NEW w \in Work
  PROVE  /\ Scanned(w) \in Work
         /\ Scanned(w).known = w.known /\ Scanned(w).rows = w.rows
         /\ Scanned(w).cmd = w.cmd /\ Scanned(w).due = w.due
         /\ Scanned(w).still = w.still /\ Scanned(w).lenient = w.lenient
         /\ Scanned(w).floors = w.floors /\ Scanned(w).ran
         /\ Scanned(w).diff = w.diff /\ Scanned(w).scanned = w.scanned
         /\ \A i \in Id : Scanned(w).cards[i] = IF InScope(w, i) THEN sources[i] ELSE Gone
<1> DEFINE cards == [i \in Id |-> IF InScope(w, i) THEN sources[i] ELSE Gone]
<1>1. cards \in [Id -> Seam \cup {Gone}]
  BY DEF TypeOK
<1>2. Scanned(w) = [w EXCEPT !.ran = TRUE, !.cards = cards]
  BY DEF Scanned
<1>3. \A i \in Id : cards[i] = IF InScope(w, i) THEN sources[i] ELSE Gone
  OBVIOUS
<1> HIDE DEF cards
<1>4. Scanned(w).cards = cards
  BY <1>1, <1>2 DEF Work
<1> QED BY <1>1, <1>2, <1>3, <1>4 DEF Work

\* What init and add capture is there.
LEMMA CapturedOpen ==
  ASSUME NEW w \in Work
  PROVE  /\ Captured(w) \subseteq Id
         /\ \A i \in Captured(w) : w.cards[i] \in Seam
BY DEF Captured, Open, Work

LEMMA CaptureType ==
  ASSUME NEW w \in Work, w.due \in Due
  PROVE  /\ Capture(w) \in Work
         /\ Capture(w).known = w.known
         /\ Capture(w).cmd = w.cmd
         /\ Capture(w).due = w.due
         /\ Listed(Capture(w).rows) \subseteq Captured(w)
<1> DEFINE row    == [due |-> w.due, copies |-> 1, flaw |-> "none"]
           rows   == [i \in Id |-> IF i \in Captured(w) THEN row ELSE NoRow]
           floors == [i \in Id |-> IF i \in Captured(w) THEN CoverageNow(w, i)
                                   ELSE NoFloor]
<1>1. floors \in Floors
  BY CoverageType DEF Floors, CoverageNow
<1>2. row \in Row
  BY DEF Row
<1> HIDE DEF row
<1>3. rows \in Rows /\ Listed(rows) \subseteq Captured(w)
  BY <1>2 DEF Rows, Listed
<1> HIDE DEF rows, floors
<1>4. Capture(w) = [w EXCEPT !.rows = rows, !.write = floors]
  BY DEF Capture, rows, floors, row
<1> QED
  BY <1>1, <1>3, <1>4 DEF Work

-----------------------------------------------------------------------------
(* Types of the reports, and what a review that passes reports.            *)

LEMMA ReviewType ==
  ASSUME TypeOK, NEW w \in Work
  PROVE  Review(w) \in Report
<1>1. Passes(w) \in BOOLEAN /\ Candidates(w) \subseteq File
  BY DEF Passes, Candidates, Work
<1>2. Debt(w) \subseteq Id /\ {i \in ResolvedGaps(w) : sources[i] # Gone} \subseteq Id
  BY DEF Debt, Open, ResolvedGaps, Work
<1>3. Fallen(w, CoverageFell) \subseteq Id /\ Fallen(w, ReachFell) \subseteq Id
  BY DEF Fallen, Open
<1> QED BY <1>1, <1>2, <1>3 DEF Review, Report

LEMMA StatusType ==
  ASSUME TypeOK, NEW w \in Work
  PROVE  Status(w) \in Report
<1>1. /\ w.ran \in BOOLEAN /\ w.still \in BOOLEAN
      /\ FullyHealthy(w, snapshot) \in BOOLEAN /\ Passes(w) \in BOOLEAN
      /\ (\E i \in Listed(w.lenient) : EntryBucket(w, i, snapshot) \in
            {"identity_unmatched", "duplicate_or_conflicting_entry"}) \in BOOLEAN
  BY DEF Work, FullyHealthy, Passes
<1>2. Open(w) \subseteq Id /\ Listed(w.lenient) \subseteq Id
  BY DEF Open, Listed
<1> QED BY <1>1, <1>2 DEF Status, Report

\* What is not known and not suppressed keeps the class of its evidence, so
\* that the gate sees it.
LEMMA PassMeansNoDebt ==
  ASSUME NEW w \in Work, w.known \subseteq owned, Passes(w)
  PROVE  Debt(w) = {}
<1>1. ASSUME NEW i \in Debt(w) PROVE FALSE
  <2>1. i \in Open(w) /\ i \notin w.known /\ i \notin w.unwanted
        /\ IsActionable(ClassWithReceipts(w.cards[i])) /\ (~w.diff \/ i \in w.changed)
    BY DEF Debt
  <2>2. ClassOf(w, i) = ClassWithReceipts(w.cards[i])
    BY <2>1 DEF ClassOf, CardClass
  <2> QED BY <2>1, <2>2 DEF Passes, NewGaps
<1> QED BY <1>1

\* An entry is pruned only when its card is gone from a scan that ran.
LEMMA PrunedGone ==
  ASSUME NEW w, NEW i \in Id,
         PlanAction(EntryBucket(w, i, snapshot), w.ran) = "mark_resolved"
  PROVE  w.ran /\ i \notin Open(w)
<1>1. EntryBucket(w, i, snapshot) = "resolved" /\ w.ran
  BY DEF PlanAction, ActionFor
<1>2. ASSUME i \in Open(w) PROVE EntryBucket(w, i, snapshot) # "resolved"
  BY <1>2 DEF EntryBucket, Open, ActiveBucket
<1> QED BY <1>1, <1>2

\* What is safe to automate has a coverage that did not get worse.
LEMMA AutomatedKeeps ==
  ASSUME NEW w, NEW i \in Open(w), snapshot # Torn, snapshot.floors[i] # NoFloor,
         AutoEligible(PlanAction(EntryBucket(w, i, snapshot), w.ran))
  PROVE  ~IsWorsened(snapshot.floors[i], CoverageNow(w, i))
<1>1. EntryBucket(w, i, snapshot) \in {"active_unchanged", "active_improved"}
  <2> DEFINE bucket == EntryBucket(w, i, snapshot)
  <2>1. PlanAction(bucket, w.ran) \in {"keep", "update_snapshot"}
    BY DEF AutoEligible
  <2> HIDE DEF bucket
  <2>2. bucket \in {"active_unchanged", "active_improved"}
    BY <2>1 DEF PlanAction, ActionFor
  <2> QED BY <2>2 DEF bucket
<1>2. EntryBucket(w, i, snapshot) = ActiveBucket(snapshot.floors[i], CoverageNow(w, i))
  BY <1>1 DEF EntryBucket, Open
<1> QED BY <1>1, <1>2 DEF ActiveBucket, IsImproved

\* Health report and gate, where they have read the same.
LEMMA HealthyPasses ==
  ASSUME NEW w \in Work, FullyHealthy(w, snapshot), snapshot # Torn,
         w.known = Listed(w.lenient), w.floors = snapshot.floors
  PROVE  Passes(w)
<1>1. ASSUME NEW i \in NewGaps(w) PROVE FALSE
  <2>1. i \in Open(w) /\ i \in Id /\ IsActionable(ClassOf(w, i))
    BY DEF NewGaps, Open
  <2>2. w.lenient[i] # NoRow
    BY <2>1 DEF FullyHealthy, Unbaselined
  <2>3. i \in w.known
    BY <2>1, <2>2 DEF Listed
  <2>4. ClassOf(w, i) \in {"suppressed", "baseline_known"}
    BY <2>3 DEF ClassOf, CardClass
  <2> QED BY <2>1, <2>4 DEF IsActionable, ActionableClass
<1>2. ASSUME NEW i \in WorsenedGaps(w) PROVE FALSE
  <2>1. /\ i \in Open(w) /\ i \in Id /\ ClassOf(w, i) = "baseline_known"
        /\ w.floors[i] # NoFloor /\ IsWorsened(w.floors[i], CoverageNow(w, i))
    BY DEF WorsenedGaps, Open
  <2>2. i \in Listed(w.lenient)
    <3>1. i \in w.known \/ ClassOf(w, i) \in ReviewClass \ {"baseline_known"}
      BY DEF ClassOf, CardClass, ClassWithReceipts, Classify, FirstGap, ReviewClass,
             ActionableClass
    <3> QED BY <2>1, <3>1
  <2>3. EntryBucket(w, i, snapshot) \in {"active_unchanged", "resolved"}
    BY <2>2 DEF FullyHealthy, Healthy
  <2>4. EntryBucket(w, i, snapshot) = ActiveBucket(snapshot.floors[i], CoverageNow(w, i))
    BY <2>1, <2>3 DEF EntryBucket, Open
  <2> QED BY <2>1, <2>3, <2>4 DEF ActiveBucket
<1> QED BY <1>1, <1>2 DEF Passes

-----------------------------------------------------------------------------
(* The invariant.                                                          *)

SoundReview(result) ==
  /\ result.passed => result.debt = {}
  /\ result.scanned # {} =>
       \A i \in result.resolvedOpen :
         FileOf[i] \notin result.scanned /\ \E f \in result.scanned : Mentions(i, f)

SoundStatus(result) ==
  /\ result.pruned # {} => result.ran /\ result.pruned \cap result.open = {}
  /\ result.lowered = {}
  /\ result.ran /\ result.still /\ result.healthy => result.passes

Sound(result) ==
  result # NoReport =>
    /\ result.kind = "review" => SoundReview(result)
    /\ result.kind = "status" => SoundStatus(result)

\* init and add know the review date of the entries they write.
Asked(w) == w.cmd \in {"init", "add"} => w.due \in Due

Backed(rows) == Listed(rows) \subseteq owned

WorkBacked(w) == Asked(w) /\ w.known \subseteq owned /\ Backed(w.rows)

LedgerBacked == ledger # Torn => Backed(ledger.rows)

\* What a baseline status that nobody disturbed has read is in the files.
Seen(w, at) ==
  /\ at \in {"lenient", "strict", "active", "health"} => w.cmd = "status"
  /\ w.cmd = "status" /\ w.still /\ at \notin Writing \cup {"idle"} =>
       /\ at # "lenient" => ledger # Torn /\ w.lenient = ledger.rows
       /\ at \in {"suppressions", "floors", "scan"} \/ w.ran =>
            w.known = Listed(ledger.rows)
       /\ at = "scan" \/ w.ran => snapshot # Torn /\ w.floors = snapshot.floors
       /\ at \notin {"active", "health"} => ~w.ran

OfWork(w, at) == WorkBacked(w) /\ Seen(w, at)

DebtInv ==
  /\ TypeOK
  /\ LedgerBacked
  /\ \A p \in Proc : work[p] # NoWork => OfWork(work[p], pc[p])
  /\ \A p \in Proc : Sound(report[p])

\* Where some file is scanned, what counts as resolved mentions a scanned file
\* and has no card; its own file was looked into if it is a candidate.
LEMMA ResolvedMentioned ==
  ASSUME NEW w \in Work, Candidates(w) # {}, NEW i \in ResolvedGaps(w)
  PROVE  /\ i \in Id /\ w.cards[i] = Gone
         /\ \E f \in Candidates(w) : Mentions(i, f)
         /\ FileOf[i] \in Candidates(w) => InScope(w, i)
<1>1. \E f \in Candidates(w) : Mentions(i, f)
  BY DEF ResolvedGaps
<1>2. i \in Id /\ w.cards[i] = Gone
  BY DEF ResolvedGaps, Open, Work
<1>3. FileOf[i] \in Candidates(w) => InScope(w, i)
  BY DEF Candidates, InScope
<1> QED BY <1>1, <1>2, <1>3

-----------------------------------------------------------------------------
(* Kinds of steps.                                                         *)

LEMMA WorkOf ==
  ASSUME DebtInv, NEW p \in Proc, pc[p] # "idle"
  PROVE  /\ work[p] \in Work /\ work[p] # NoWork
         /\ WorkBacked(work[p]) /\ Seen(work[p], pc[p])
BY DEF DebtInv, TypeOK, OfWork

\* One command does its next step, and the files stay as they are.
LEMMA WorkStep ==
  ASSUME DebtInv, NEW p \in Proc, NEW w \in Work, NEW label \in Pc \ {"idle"},
         work' = [work EXCEPT ![p] = w], pc' = [pc EXCEPT ![p] = label],
         UNCHANGED <<outside, files, edits>>, commands' \in Nat, calm' \in BOOLEAN,
         owned \subseteq owned', owned' \subseteq Id,
         accepted' \in [Id -> Seam \cup {NoFloor}],
         report' \in {report, [report EXCEPT ![p] = NoReport]},
         Asked(w), w.known \subseteq owned', Listed(w.rows) \subseteq owned',
         Seen(w, label)
  PROVE  DebtInv'
<1>1. w # NoWork
  BY Sentinels
<1>2. \A q \in Proc : report'[q] \in {report[q], NoReport}
  BY DEF DebtInv, TypeOK
<1>3. TypeOK'
  <2>1. work' \in [Proc -> Work \cup {NoWork}] /\ pc' \in [Proc -> Pc]
        /\ report' \in [Proc -> Report \cup {NoReport}]
    BY DEF DebtInv, TypeOK
  <2>2. \A q \in Proc : (work'[q] = NoWork) <=> (pc'[q] = "idle")
    BY <1>1 DEF DebtInv, TypeOK
  <2> QED BY <2>1, <2>2 DEF DebtInv, TypeOK, outside, files
<1>4. LedgerBacked'
  BY DEF DebtInv, LedgerBacked, Backed, files
<1>5. ASSUME NEW q \in Proc, work'[q] # NoWork PROVE OfWork(work[q], pc[q])'
  <2>1. CASE q = p
    <3>1. work'[q] = w /\ pc'[q] = label
      BY <2>1 DEF DebtInv, TypeOK
    <3> QED BY <3>1 DEF OfWork, WorkBacked, Backed, Asked, Seen, files
  <2>2. CASE q # p
    <3>1. work'[q] = work[q] /\ pc'[q] = pc[q] /\ OfWork(work[q], pc[q])
      BY <1>5, <2>2 DEF DebtInv, TypeOK
    <3> QED BY <3>1 DEF OfWork, WorkBacked, Backed, Asked, Seen, files
  <2> QED BY <2>1, <2>2
<1>6. \A q \in Proc : Sound(report'[q])
  BY <1>2 DEF DebtInv, Sound
<1> QED BY <1>3, <1>4, <1>5, <1>6 DEF DebtInv, Sound, SoundReview, SoundStatus

\* One command goes on, knowing no more than before or what the ledger lists.
LEMMA GoOn ==
  ASSUME DebtInv, NEW p \in Proc, pc[p] # "idle", NEW w \in Work,
         w.cmd = work[p].cmd, w.due = work[p].due,
         w.known = work[p].known \/ w.known \subseteq owned,
         w.rows = work[p].rows \/ Backed(w.rows),
         NEW label \in Pc \ {"idle"}, Seen(w, label),
         work' = [work EXCEPT ![p] = w], Goto(p, label),
         UNCHANGED <<outside, files, report, bounds, history>>
  PROVE  DebtInv'
<1>1. Asked(w) /\ w.known \subseteq owned' /\ Listed(w.rows) \subseteq owned'
  BY WorkOf DEF WorkBacked, Asked, Backed, history
<1>2. /\ pc' = [pc EXCEPT ![p] = label] /\ UNCHANGED <<outside, files, edits>>
      /\ commands' \in Nat /\ calm' \in BOOLEAN /\ owned \subseteq owned'
      /\ owned' \subseteq Id /\ accepted' \in [Id -> Seam \cup {NoFloor}]
      /\ report' = report
  BY DEF Goto, bounds, history, DebtInv, TypeOK
<1> QED BY <1>1, <1>2, WorkStep

\* A command reports and ends.
LEMMA LeaveStep ==
  ASSUME DebtInv, NEW p \in Proc, NEW result \in Report \cup {NoReport},
         Leave(p, result), Sound(result),
         UNCHANGED <<outside, files, bounds, owned, accepted>>, calm' \in BOOLEAN
  PROVE  DebtInv'
<1>1. /\ pc' = [pc EXCEPT ![p] = "idle"] /\ work' = [work EXCEPT ![p] = NoWork]
      /\ report' = [report EXCEPT ![p] = result]
  BY DEF Leave, Goto
<1>2. TypeOK'
  <2>1. work' \in [Proc -> Work \cup {NoWork}] /\ pc' \in [Proc -> Pc]
        /\ report' \in [Proc -> Report \cup {NoReport}]
    BY <1>1 DEF DebtInv, TypeOK, Pc
  <2>2. \A q \in Proc : (work'[q] = NoWork) <=> (pc'[q] = "idle")
    BY <1>1 DEF DebtInv, TypeOK
  <2> QED BY <2>1, <2>2 DEF DebtInv, TypeOK, outside, files, bounds
<1>3. LedgerBacked'
  BY DEF DebtInv, LedgerBacked, Backed, files
<1>4. ASSUME NEW q \in Proc, work'[q] # NoWork PROVE OfWork(work[q], pc[q])'
  <2>1. work'[q] = work[q] /\ pc'[q] = pc[q] /\ OfWork(work[q], pc[q])
    BY <1>1, <1>4 DEF DebtInv, TypeOK
  <2> QED BY <2>1 DEF OfWork, WorkBacked, Backed, Asked, Seen, files
<1>5. \A q \in Proc : Sound(report'[q])
  <2>1. \A q \in Proc : report'[q] \in {report[q], result}
    BY <1>1 DEF DebtInv, TypeOK
  <2> QED BY <2>1 DEF DebtInv
<1> QED BY <1>2, <1>3, <1>4, <1>5 DEF DebtInv, Sound, SoundReview, SoundStatus

LEMMA AbortStep ==
  ASSUME DebtInv, NEW p \in Proc, Abort(p),
         UNCHANGED <<outside, files, bounds, owned, accepted>>, calm' \in BOOLEAN
  PROVE  DebtInv'
BY LeaveStep DEF Abort, Sound

\* A file changes.  Its writer p goes on to label, or is done or stopped where
\* that is idle.
LEMMA DisturbStep ==
  ASSUME DebtInv, NEW p \in Proc, pc[p] # "idle", NEW label \in Writing \cup {"idle"},
         pc' = [pc EXCEPT ![p] = label],
         work' = IF label = "idle" THEN [Disturbed(p) EXCEPT ![p] = NoWork]
                 ELSE Disturbed(p),
         UNCHANGED <<outside, bounds, owned, accepted>>, calm' \in BOOLEAN,
         report' \in {report, [report EXCEPT ![p] = NoReport]},
         ledger' \in Ledger, snapshot' \in Snapshot, LedgerBacked'
  PROVE  DebtInv'
<1>0. work \in [Proc -> Work \cup {NoWork}]
  BY DEF DebtInv, TypeOK
<1>1. Disturbed(p) \in [Proc -> Work \cup {NoWork}]
  BY <1>0, DisturbedType
<1>2. \A q \in Proc : Disturbed(p)[q] = NoWork <=> work[q] = NoWork
  BY <1>0, DisturbedType
<1>3. TypeOK'
  <2>1. work' \in [Proc -> Work \cup {NoWork}] /\ pc' \in [Proc -> Pc]
        /\ report' \in [Proc -> Report \cup {NoReport}]
    BY <1>1 DEF DebtInv, TypeOK, Pc, Writing
  <2>2. ASSUME NEW q \in Proc PROVE (work'[q] = NoWork) <=> (pc'[q] = "idle")
    <3>1. CASE q = p
      BY <1>1, <1>2, <3>1 DEF DebtInv, TypeOK, Writing
    <3>2. CASE q # p
      BY <1>1, <1>2, <3>2 DEF DebtInv, TypeOK
    <3> QED BY <3>1, <3>2
  <2> QED BY <2>1, <2>2 DEF DebtInv, TypeOK, outside, bounds
<1>4. ASSUME NEW q \in Proc, work'[q] # NoWork PROVE OfWork(work[q], pc[q])'
  <2>1. work'[q] = Disturbed(p)[q] /\ work[q] # NoWork
    BY <1>1, <1>2, <1>4
  <2>2. WorkBacked(work[q]) /\ Seen(work[q], pc[q])
    BY <2>1 DEF DebtInv, OfWork
  <2>3. /\ Alike(Disturbed(p)[q], work[q])
        /\ q # p => Disturbed(p)[q].still = FALSE
    BY <1>0, <2>1, DisturbedAlike
  <2>4. WorkBacked(work[q])'
    BY <2>1, <2>2, <2>3 DEF WorkBacked, Backed, Asked, Alike
  <2>5. Seen(work[q], pc[q])'
    <3>1. CASE q = p
      BY <3>1 DEF Seen, Writing, DebtInv, TypeOK
    <3>2. CASE q # p
      <4>1. pc'[q] = pc[q] /\ ~work'[q].still /\ work'[q].cmd = work[q].cmd
        BY <2>1, <2>3, <3>2 DEF Alike, DebtInv, TypeOK
      <4> QED BY <2>2, <4>1 DEF Seen
    <3> QED BY <3>1, <3>2
  <2> QED BY <2>4, <2>5 DEF OfWork
<1>5. \A q \in Proc : Sound(report'[q])
  <2>1. \A q \in Proc : report'[q] \in {report[q], NoReport}
    BY DEF DebtInv, TypeOK
  <2> QED BY <2>1 DEF DebtInv, Sound
<1> QED BY <1>3, <1>4, <1>5 DEF DebtInv, Sound, SoundReview, SoundStatus

\* Somebody edits or suppresses, or a day passes.
LEMMA OutsideStep ==
  ASSUME DebtInv, UNCHANGED <<files, pc, report, commands, history>>, edits' \in Nat,
         sources' \in [Id -> Seam \cup {Gone}], today' \in 0..MaxDay,
         suppressed' \in [Id -> Expiry \cup {Never}],
         work' \in {work, Disturbed(NoWork)}
  PROVE  DebtInv'
<1>1. /\ work' \in [Proc -> Work \cup {NoWork}]
      /\ \A q \in Proc : /\ work'[q] = NoWork <=> work[q] = NoWork
                         /\ work[q] # NoWork => Alike(work'[q], work[q])
  <2>1. \A q \in Proc : work[q] # NoWork => Alike(work[q], work[q])
    BY DEF Alike, DebtInv, TypeOK
  <2>2. work \in [Proc -> Work \cup {NoWork}]
    BY DEF DebtInv, TypeOK
  <2>3. CASE work' = work
    BY <2>1, <2>2, <2>3
  <2>4. CASE work' = Disturbed(NoWork)
    <3>1. ASSUME NEW q \in Proc, work[q] # NoWork PROVE Alike(work'[q], work[q])
      BY <2>2, <2>4, <3>1, DisturbedAlike
    <3> QED BY <2>2, <2>4, <3>1, DisturbedType
  <2> QED BY <2>3, <2>4
<1>2. TypeOK'
  BY <1>1 DEF DebtInv, TypeOK, files, history
<1>3. ASSUME NEW q \in Proc, work'[q] # NoWork PROVE OfWork(work[q], pc[q])'
  <2>1. work[q] # NoWork /\ OfWork(work[q], pc[q]) /\ Alike(work'[q], work[q])
    BY <1>1, <1>3 DEF DebtInv
  <2> QED BY <2>1 DEF OfWork, WorkBacked, Backed, Asked, Seen, Alike, files, history
<1>4. LedgerBacked' /\ \A q \in Proc : Sound(report'[q])
  BY DEF DebtInv, LedgerBacked, Backed, files, history
<1> QED BY <1>2, <1>3, <1>4 DEF DebtInv, Sound, SoundReview, SoundStatus

-----------------------------------------------------------------------------
(* The actions.                                                            *)

LEMMA StartInv ==
  ASSUME DebtInv, NEW p \in Proc, Start(p)
  PROVE  DebtInv'
<1>1. PICK w \in Request :
        /\ work' = [work EXCEPT ![p] = w]
        /\ Goto(p, IF w.cmd = "status" THEN "lenient" ELSE "baseline")
  BY DEF Start
<1> DEFINE label == IF w.cmd = "status" THEN "lenient" ELSE "baseline"
<1>2. label \in Pc \ {"idle"} /\ pc' = [pc EXCEPT ![p] = label]
  BY <1>1 DEF Goto, Pc
<1>3. today \in Nat
  BY LedgerAssumption DEF DebtInv, TypeOK
<1>4. w \in Work /\ Asked(w) /\ w.known \subseteq owned /\ Listed(w.rows) \subseteq owned
      /\ ~w.ran
  BY <1>3, RequestType, TextTypes DEF Asked
<1>5. /\ UNCHANGED <<outside, files, edits, owned, accepted>>
      /\ commands' \in Nat /\ calm' \in BOOLEAN
      /\ report' = [report EXCEPT ![p] = NoReport]
      /\ accepted' \in [Id -> Seam \cup {NoFloor}] /\ owned' \subseteq Id
  BY DEF Start, DebtInv, TypeOK
<1>6. Seen(w, label)
  BY <1>4 DEF Seen
<1> HIDE DEF label
<1> QED BY <1>1, <1>2, <1>4, <1>5, <1>6, WorkStep

LEMMA ReadLenientInv ==
  ASSUME DebtInv, NEW p \in Proc, ReadLenient(p)
  PROVE  DebtInv'
<1>1. pc[p] # "idle" /\ UNCHANGED <<outside, files, bounds, history>>
  BY DEF ReadLenient
<1>2. CASE ledger = Torn
  BY <1>1, <1>2, AbortStep DEF ReadLenient, history, DebtInv, TypeOK
<1>3. CASE ledger # Torn
  <2>1. ledger.rows \in Rows
    BY <1>3, LedgerRows DEF DebtInv, TypeOK
  <2> DEFINE w == [work[p] EXCEPT !.lenient = ledger.rows]
  <2>2. w \in Work /\ w.cmd = work[p].cmd /\ w.due = work[p].due
        /\ w.known = work[p].known /\ w.rows = work[p].rows
        /\ w.lenient = ledger.rows /\ w.ran = work[p].ran /\ w.still = work[p].still
    BY <1>1, <2>1, WorkOf DEF Work
  <2>3. work' = [work EXCEPT ![p] = w] /\ Goto(p, "strict") /\ report' = report
    BY <1>3 DEF ReadLenient
  <2> HIDE DEF w
  <2>4. Seen(w, "strict")
    BY <1>1, <1>3, <2>2, WorkOf DEF Seen, ReadLenient, Writing
  <2> QED BY <1>1, <2>2, <2>3, <2>4, GoOn DEF Pc
<1> QED BY <1>2, <1>3

LEMMA ReadStrictInv ==
  ASSUME DebtInv, NEW p \in Proc, ReadStrict(p)
  PROVE  DebtInv'
<1> DEFINE w == [work[p] EXCEPT !.error = StrictError(ledger)]
<1>1. /\ pc[p] # "idle" /\ work' = [work EXCEPT ![p] = w] /\ Goto(p, "baseline")
      /\ UNCHANGED <<outside, files, report, bounds, history>>
  BY DEF ReadStrict
<1>2. w \in Work /\ w.cmd = work[p].cmd /\ w.due = work[p].due
      /\ w.known = work[p].known /\ w.rows = work[p].rows
      /\ w.ran = work[p].ran /\ w.still = work[p].still
      /\ w.lenient = work[p].lenient
  BY <1>1, StrictType, WorkOf DEF Work, DebtInv, TypeOK
<1> HIDE DEF w
<1>3. Seen(w, "baseline")
  BY <1>1, <1>2, WorkOf DEF Seen, ReadStrict, Writing
<1> QED BY <1>1, <1>2, <1>3, GoOn DEF Pc

LEMMA LoadBaselineInv ==
  ASSUME DebtInv, NEW p \in Proc, LoadBaseline(p)
  PROVE  DebtInv'
<1>1. pc[p] # "idle" /\ UNCHANGED <<outside, files, bounds, history>>
  BY DEF LoadBaseline
<1> DEFINE w == [work[p] EXCEPT !.known = Listed(ledger.rows)]
<1>2. CASE /\ StrictError(ledger) = NoError /\ work' = [work EXCEPT ![p] = w]
           /\ Goto(p, "suppressions") /\ report' = report
  <2>1. ledger # Torn
    BY <1>2, StrictType DEF DebtInv, TypeOK
  <2>2. Listed(ledger.rows) \subseteq owned /\ Listed(ledger.rows) \subseteq Id
    BY <2>1 DEF DebtInv, LedgerBacked, Backed, Listed
  <2>3. w \in Work /\ w.cmd = work[p].cmd /\ w.due = work[p].due
        /\ w.known \subseteq owned /\ w.rows = work[p].rows
        /\ w.known = Listed(ledger.rows) /\ w.lenient = work[p].lenient
        /\ w.ran = work[p].ran /\ w.still = work[p].still
    BY <1>1, <2>2, WorkOf DEF Work
  <2> HIDE DEF w
  <2>4. Seen(w, "suppressions")
    BY <1>1, <2>3, WorkOf DEF Seen, LoadBaseline, Writing
  <2> QED BY <1>1, <1>2, <2>3, <2>4, GoOn DEF Pc
<1>3. CASE work[p].cmd = "status" /\ Goto(p, "active") /\ UNCHANGED <<work, report>>
  <2>1. work' = [work EXCEPT ![p] = work[p]]
    BY <1>3 DEF DebtInv, TypeOK
  <2>2. Seen(work[p], "active")
    BY <1>1, <1>3, WorkOf DEF Seen, LoadBaseline, Writing
  <2> QED BY <1>1, <1>3, <2>1, <2>2, WorkOf, GoOn DEF Pc
<1>4. CASE Abort(p)
  BY <1>1, <1>4, AbortStep DEF history, DebtInv, TypeOK
<1> QED BY <1>2, <1>3, <1>4 DEF LoadBaseline

LEMMA LoadSuppressionsInv ==
  ASSUME DebtInv, NEW p \in Proc, LoadSuppressions(p)
  PROVE  DebtInv'
<1> DEFINE unwanted == {i \in Id : suppressed[i] # Never}
           w == [work[p] EXCEPT !.unwanted = unwanted]
<1>1. /\ pc[p] # "idle" /\ work' = [work EXCEPT ![p] = w] /\ Goto(p, "floors")
      /\ UNCHANGED <<outside, files, report, bounds, history>>
  BY DEF LoadSuppressions
<1>2. unwanted \in SUBSET Id
  OBVIOUS
<1> HIDE DEF unwanted
<1>3. w \in Work /\ w.cmd = work[p].cmd /\ w.due = work[p].due
      /\ w.known = work[p].known /\ w.rows = work[p].rows
      /\ w.ran = work[p].ran /\ w.still = work[p].still
      /\ w.lenient = work[p].lenient
  BY <1>1, <1>2, WorkOf DEF Work
<1> HIDE DEF w
<1>4. Seen(w, "floors")
  BY <1>1, <1>3, WorkOf DEF Seen, LoadSuppressions, Writing
<1> QED BY <1>1, <1>3, <1>4, GoOn DEF Pc

LEMMA LoadFloorsInv ==
  ASSUME DebtInv, NEW p \in Proc, LoadFloors(p)
  PROVE  DebtInv'
<1>1. pc[p] # "idle" /\ UNCHANGED <<outside, files, bounds, history>>
  BY DEF LoadFloors
<1>2. CASE snapshot = Torn
  BY <1>1, <1>2, AbortStep DEF LoadFloors, history, DebtInv, TypeOK
<1>3. CASE snapshot # Torn
  <2>1. snapshot.floors \in Floors
    BY <1>3, SnapshotFloors DEF DebtInv, TypeOK
  <2> DEFINE w == [work[p] EXCEPT !.floors = snapshot.floors]
  <2>2. w \in Work /\ w.cmd = work[p].cmd /\ w.due = work[p].due
        /\ w.known = work[p].known /\ w.rows = work[p].rows
        /\ w.floors = snapshot.floors /\ w.lenient = work[p].lenient
        /\ w.ran = work[p].ran /\ w.still = work[p].still
    BY <1>1, <2>1, WorkOf DEF Work
  <2>3. work' = [work EXCEPT ![p] = w] /\ Goto(p, "scan") /\ report' = report
    BY <1>3 DEF LoadFloors
  <2> HIDE DEF w
  <2>4. Seen(w, "scan")
    BY <1>1, <1>3, <2>2, WorkOf DEF Seen, LoadFloors, Writing
  <2> QED BY <1>1, <2>2, <2>3, <2>4, GoOn DEF Pc
<1> QED BY <1>2, <1>3

\* The gate.
LEMMA ScanReviewInv ==
  ASSUME DebtInv, NEW p \in Proc, ScanReview(p)
  PROVE  DebtInv'
<1> DEFINE w == Scanned(work[p])
<1>1. /\ pc[p] # "idle" /\ Leave(p, Review(w))
      /\ UNCHANGED <<outside, files, bounds, history>>
  BY DEF ScanReview
<1>2. /\ w \in Work /\ w.known \subseteq owned
      /\ \A i \in Id : w.cards[i] = IF InScope(w, i) THEN sources[i] ELSE Gone
  BY <1>1, WorkOf, ScannedType DEF WorkBacked, DebtInv, InScope
<1> HIDE DEF w
<1>3. Review(w) \in Report
  BY <1>2, ReviewType DEF DebtInv
<1>4. Passes(w) => Debt(w) = {}
  BY <1>2, PassMeansNoDebt
<1>5. ASSUME Candidates(w) # {}, NEW i \in ResolvedGaps(w), sources[i] # Gone
      PROVE  FileOf[i] \notin Candidates(w) /\ \E f \in Candidates(w) : Mentions(i, f)
  BY <1>2, <1>5, ResolvedMentioned
<1>6. Sound(Review(w))
  BY <1>4, <1>5 DEF Sound, SoundReview, Review
<1> QED BY <1>1, <1>3, <1>6, LeaveStep DEF history, files, DebtInv, TypeOK

LEMMA ScanStatusInv ==
  ASSUME DebtInv, NEW p \in Proc, ScanStatus(p)
  PROVE  DebtInv'
<1> DEFINE w == Scanned(work[p])
<1>1. /\ pc[p] # "idle" /\ work' = [work EXCEPT ![p] = w] /\ Goto(p, "active")
      /\ UNCHANGED <<outside, files, report, bounds, history>>
  BY DEF ScanStatus
<1>2. w \in Work /\ w.cmd = work[p].cmd /\ w.due = work[p].due
      /\ w.known = work[p].known /\ w.rows = work[p].rows
      /\ w.still = work[p].still /\ w.lenient = work[p].lenient
      /\ w.floors = work[p].floors
  BY <1>1, WorkOf, ScannedType DEF DebtInv
<1> HIDE DEF w
<1>3. Seen(w, "active")
  BY <1>1, <1>2, WorkOf DEF Seen, ScanStatus, Writing
<1> QED BY <1>1, <1>2, <1>3, GoOn DEF Pc

\* What is captured is owned from then on.
LEMMA ScanCaptureInv ==
  ASSUME DebtInv, NEW p \in Proc, ScanCapture(p)
  PROVE  DebtInv'
<1> DEFINE w == Scanned(work[p])
           label == IF w.cmd = "add" THEN "own_floors" ELSE "merge"
<1>1. /\ pc[p] # "idle" /\ w.cmd \in {"init", "add"}
      /\ work' = [work EXCEPT ![p] = Capture(w)] /\ pc' = [pc EXCEPT ![p] = label]
      /\ owned' = owned \cup Captured(w)
      /\ accepted' = [i \in Id |-> IF i \in Captured(w) THEN w.cards[i] ELSE accepted[i]]
      /\ UNCHANGED <<outside, files, report, bounds, calm>>
  BY DEF ScanCapture, Goto
<1>2. label \in Pc \ {"idle"}
  BY DEF Pc
<1>3. w \in Work /\ w.cmd = work[p].cmd /\ w.due = work[p].due
      /\ w.known = work[p].known
  BY <1>1, WorkOf, ScannedType DEF DebtInv
<1>4. WorkBacked(work[p])
  BY <1>1, WorkOf
<1> HIDE DEF w, label
<1>5. w.due \in Due /\ w.known \subseteq owned
  BY <1>1, <1>3, <1>4 DEF WorkBacked, Asked
<1>6. /\ Capture(w) \in Work /\ Asked(Capture(w)) /\ Capture(w).known \subseteq owned'
      /\ Listed(Capture(w).rows) \subseteq owned'
  BY <1>1, <1>3, <1>5, CaptureType DEF Asked
<1>7. owned' \subseteq Id /\ accepted' \in [Id -> Seam \cup {NoFloor}]
  BY <1>1, <1>3, CapturedOpen DEF DebtInv, TypeOK
<1>8. UNCHANGED <<outside, files, edits>> /\ commands' \in Nat /\ calm' \in BOOLEAN
      /\ report' = report
  BY <1>1 DEF bounds, DebtInv, TypeOK
<1>9. Seen(Capture(w), label)
  BY DEF label, Seen, Writing
<1> QED BY <1>1, <1>2, <1>6, <1>7, <1>8, <1>9, WorkStep

LEMMA ScanMissInv ==
  ASSUME DebtInv, NEW p \in Proc, ScanMiss(p)
  PROVE  DebtInv'
BY AbortStep DEF ScanMiss, history, DebtInv, TypeOK

LEMMA OwnFloorsInv ==
  ASSUME DebtInv, NEW p \in Proc, OwnFloors(p)
  PROVE  DebtInv'
<1>1. pc[p] # "idle" /\ UNCHANGED <<outside, files, bounds, owned, accepted>>
  BY DEF OwnFloors
<1>2. CASE snapshot = Torn
  BY <1>1, <1>2, AbortStep DEF OwnFloors
<1>3. CASE snapshot # Torn
  <2> DEFINE floors == [i \in Id |-> IF work[p].write[i] = NoFloor
                                     THEN snapshot.floors[i] ELSE work[p].write[i]]
             w == [work[p] EXCEPT !.write = floors]
  <2>1. floors \in Floors
    BY <1>1, <1>3, SnapshotFloors, WorkOf DEF DebtInv, TypeOK, Floors, Work
  <2>2. work' = [work EXCEPT ![p] = w] /\ Goto(p, "merge") /\ UNCHANGED <<report, calm>>
    BY <1>1, <1>3 DEF OwnFloors, DebtInv, TypeOK
  <2> HIDE DEF floors
  <2>3. w \in Work /\ w.cmd = work[p].cmd /\ w.due = work[p].due
        /\ w.known = work[p].known /\ w.rows = work[p].rows
    BY <1>1, <2>1, WorkOf DEF Work
  <2> HIDE DEF w
  <2>4. Seen(w, "merge")
    BY DEF Seen, Writing
  <2> QED BY <1>1, <2>2, <2>3, <2>4, GoOn DEF Pc, history
<1> QED BY <1>2, <1>3

LEMMA MergeInv ==
  ASSUME DebtInv, NEW p \in Proc, Merge(p)
  PROVE  DebtInv'
<1> DEFINE rows == Merged(ledger, work[p].rows)
           w == [work[p] EXCEPT !.rows = rows]
<1>1. /\ pc[p] # "idle" /\ Goto(p, "truncate_ledger")
      /\ UNCHANGED <<outside, files, report, bounds, history>>
  BY DEF Merge
<1>2. work' = [work EXCEPT ![p] = w]
  BY <1>1 DEF Merge, DebtInv, TypeOK
<1>3. work[p].rows \in Rows /\ Backed(work[p].rows) /\ ledger \in Ledger
  BY <1>1, WorkOf DEF WorkBacked, Work, DebtInv, TypeOK
<1>4. rows \in Rows /\ Backed(rows)
  BY <1>3, MergedType DEF Backed, DebtInv, LedgerBacked
<1> HIDE DEF rows
<1>5. w \in Work /\ w.cmd = work[p].cmd /\ w.due = work[p].due
      /\ w.known = work[p].known /\ w.rows = rows
  BY <1>1, <1>4, WorkOf DEF Work
<1> HIDE DEF w
<1>6. Seen(w, "truncate_ledger")
  BY DEF Seen, Writing
<1> QED BY <1>1, <1>2, <1>4, <1>5, <1>6, GoOn DEF Pc

LEMMA TruncateLedgerInv ==
  ASSUME DebtInv, NEW p \in Proc, TruncateLedger(p)
  PROVE  DebtInv'
<1>1. /\ pc[p] # "idle" /\ pc' = [pc EXCEPT ![p] = "fill_ledger"]
      /\ work' = Disturbed(p) /\ UNCHANGED <<outside, report, bounds, history>>
      /\ ledger' = LedgerText(NoRows) /\ snapshot' = snapshot
  BY DEF TruncateLedger, Goto
<1>2. ledger' \in Ledger /\ snapshot' \in Snapshot /\ LedgerBacked'
  BY <1>1, TextTypes DEF DebtInv, TypeOK, LedgerBacked, Backed, LedgerText
<1> QED BY <1>1, <1>2, DisturbStep DEF Writing, history, DebtInv, TypeOK

LEMMA FillLedgerInv ==
  ASSUME DebtInv, NEW p \in Proc, FillLedger(p)
  PROVE  DebtInv'
<1>1. /\ pc[p] # "idle" /\ pc' = [pc EXCEPT ![p] = "truncate_snapshot"]
      /\ work' = Disturbed(p) /\ UNCHANGED <<outside, report, bounds, history>>
      /\ ledger' \in {LedgerText(work[p].rows), Torn} /\ snapshot' = snapshot
  BY DEF FillLedger, Filled, Goto
<1>2. work[p].rows \in Rows /\ Backed(work[p].rows)
  BY <1>1, WorkOf DEF WorkBacked, Work
<1>3. ledger' \in Ledger /\ snapshot' \in Snapshot /\ LedgerBacked'
  BY <1>1, <1>2, TextTypes DEF DebtInv, TypeOK, LedgerBacked, Backed, LedgerText, history
<1> QED BY <1>1, <1>3, DisturbStep DEF Writing, history, DebtInv, TypeOK

LEMMA TruncateSnapshotInv ==
  ASSUME DebtInv, NEW p \in Proc, TruncateSnapshot(p)
  PROVE  DebtInv'
<1>1. /\ pc[p] # "idle" /\ pc' = [pc EXCEPT ![p] = "fill_snapshot"]
      /\ work' = Disturbed(p) /\ UNCHANGED <<outside, report, bounds, history>>
      /\ snapshot' = SnapshotText(NoFloors) /\ ledger' = ledger
  BY DEF TruncateSnapshot, Goto
<1>2. ledger' \in Ledger /\ snapshot' \in Snapshot /\ LedgerBacked'
  BY <1>1, TextTypes DEF DebtInv, TypeOK, LedgerBacked, Backed, history
<1> QED BY <1>1, <1>2, DisturbStep DEF Writing, history, DebtInv, TypeOK

LEMMA FillSnapshotInv ==
  ASSUME DebtInv, NEW p \in Proc, FillSnapshot(p)
  PROVE  DebtInv'
<1>1. /\ pc[p] # "idle" /\ pc' = [pc EXCEPT ![p] = "idle"]
      /\ work' = [Disturbed(p) EXCEPT ![p] = NoWork]
      /\ UNCHANGED <<outside, report, bounds, history>>
      /\ snapshot' \in {SnapshotText(work[p].write), Torn} /\ ledger' = ledger
  BY DEF FillSnapshot, Filled, Goto
<1>2. work[p].write \in Floors
  BY <1>1, WorkOf DEF Work
<1>3. ledger' \in Ledger /\ snapshot' \in Snapshot /\ LedgerBacked'
  BY <1>1, <1>2, TextTypes DEF DebtInv, TypeOK, LedgerBacked, Backed, history
<1> QED BY <1>1, <1>3, DisturbStep DEF Writing, history, DebtInv, TypeOK

LEMMA ReadActiveInv ==
  ASSUME DebtInv, NEW p \in Proc, ReadActive(p)
  PROVE  DebtInv'
<1> DEFINE active == {i \in Id : suppressed[i] # Never /\ suppressed[i] >= work[p].today}
           w == [work[p] EXCEPT !.active = active]
<1>1. /\ pc[p] # "idle" /\ work' = [work EXCEPT ![p] = w] /\ Goto(p, "health")
      /\ UNCHANGED <<outside, files, report, bounds, history>>
  BY DEF ReadActive
<1>2. active \in SUBSET Id
  OBVIOUS
<1> HIDE DEF active
<1>3. w \in Work /\ w.cmd = work[p].cmd /\ w.due = work[p].due
      /\ w.known = work[p].known /\ w.rows = work[p].rows
      /\ w.ran = work[p].ran /\ w.still = work[p].still
      /\ w.lenient = work[p].lenient /\ w.floors = work[p].floors
  BY <1>1, <1>2, WorkOf DEF Work
<1> HIDE DEF w
<1>4. Seen(w, "health")
  BY <1>1, <1>3, WorkOf DEF Seen, ReadActive, Writing
<1> QED BY <1>1, <1>3, <1>4, GoOn DEF Pc

LEMMA ReadHealthInv ==
  ASSUME DebtInv, NEW p \in Proc, ReadHealth(p)
  PROVE  DebtInv'
<1>1. /\ pc[p] # "idle" /\ Leave(p, Status(work[p]))
      /\ UNCHANGED <<outside, files, bounds, history>>
  BY DEF ReadHealth
<1>2. Status(work[p]) \in Report /\ Status(work[p]).kind = "status"
  BY <1>1, WorkOf, StatusType DEF DebtInv, Status
<1> DEFINE w == work[p]
<1>3. w \in Work /\ Seen(w, "health") /\ w.cmd = "status"
  BY <1>1, WorkOf DEF Seen, ReadHealth
<1>4. w.ran /\ w.still /\ FullyHealthy(w, snapshot) => Passes(w)
  BY <1>3, HealthyPasses DEF Seen, Writing
<1>5. SoundStatus(Status(w))
  BY <1>3, <1>4, PrunedGone, AutomatedKeeps DEF SoundStatus, Status, Listed
<1>6. Sound(Status(w))
  BY <1>2, <1>5 DEF Sound
<1> QED BY <1>1, <1>2, <1>6, LeaveStep DEF history, files, DebtInv, TypeOK

LEMMA StopInv ==
  ASSUME DebtInv, NEW p \in Proc, Stop(p)
  PROVE  DebtInv'
<1>1. /\ pc[p] # "idle" /\ pc' = [pc EXCEPT ![p] = "idle"]
      /\ report' = [report EXCEPT ![p] = NoReport]
      /\ UNCHANGED <<outside, bounds, owned, accepted>>
      /\ ledger' \in {ledger, Torn} /\ snapshot' \in {snapshot, Torn}
      /\ calm' \in BOOLEAN
  BY DEF Stop, Goto, DebtInv, TypeOK
<1>2. CASE UNCHANGED files
  <2>1. Abort(p)
    BY <1>1, <1>2 DEF Stop, Abort, Leave, Goto
  <2> QED BY <1>1, <1>2, <2>1, AbortStep
<1>3. CASE ~UNCHANGED files
  <2>1. work' = [Disturbed(p) EXCEPT ![p] = NoWork]
    BY <1>3 DEF Stop
  <2>2. ledger' \in Ledger /\ snapshot' \in Snapshot /\ LedgerBacked'
    BY <1>1, TextTypes DEF DebtInv, TypeOK, LedgerBacked, Backed
  <2> QED BY <1>1, <2>1, <2>2, DisturbStep
<1> QED BY <1>2, <1>3

-----------------------------------------------------------------------------
(* Developers.                                                             *)

LEMMA EditSourceInv ==
  ASSUME DebtInv, NEW i \in Id, EditSource(i)
  PROVE  DebtInv'
<1>1. /\ sources' \in [Id -> Seam \cup {Gone}] /\ edits' \in Nat
      /\ work' = Disturbed(NoWork)
      /\ UNCHANGED <<suppressed, today, files, pc, report, commands, history>>
  BY DEF EditSource, DebtInv, TypeOK
<1> QED BY <1>1, OutsideStep DEF DebtInv, TypeOK

LEMMA SuppressInv ==
  ASSUME DebtInv, NEW i \in Id, Suppress(i)
  PROVE  DebtInv'
<1>1. /\ suppressed' \in [Id -> Expiry \cup {Never}] /\ edits' \in Nat
      /\ work' = Disturbed(NoWork)
      /\ UNCHANGED <<sources, today, files, pc, report, commands, history>>
  BY DEF Suppress, DebtInv, TypeOK
<1> QED BY <1>1, OutsideStep DEF DebtInv, TypeOK

LEMMA NextDayInv ==
  ASSUME DebtInv, NextDay
  PROVE  DebtInv'
<1>1. MaxDay \in Nat
  BY LedgerAssumption
<1>2. /\ today' \in 0..MaxDay
      /\ UNCHANGED <<sources, suppressed, files, pc, work, report, edits, commands, history>>
  BY <1>1 DEF NextDay, bounds, DebtInv, TypeOK
<1> QED BY <1>2, OutsideStep DEF DebtInv, TypeOK

\* Who writes an entry by hand owns it.
LEMMA HandEditInv ==
  ASSUME DebtInv, NEW i \in Id, HandEdit(i)
  PROVE  DebtInv'
<1>1. PICK row \in Row \cup {NoRow} :
        /\ ledger' = LedgerText([ledger.rows EXCEPT ![i] = row])
        /\ owned' = IF row = NoRow THEN owned ELSE owned \cup {i}
        /\ accepted' = IF NoRow \in {row, ledger.rows[i]}
                       THEN [accepted EXCEPT ![i] = NoFloor] ELSE accepted
  BY DEF HandEdit
<1>2. /\ ledger # Torn /\ edits' \in Nat
      /\ UNCHANGED <<outside, snapshot, pc, work, report, commands, calm>>
      /\ \A p \in Proc : work[p] = NoWork
  BY DEF HandEdit, DebtInv, TypeOK
<1>3. ledger.rows \in Rows /\ Listed(ledger.rows) \subseteq owned
  BY <1>2, LedgerRows DEF DebtInv, TypeOK, LedgerBacked, Backed
<1> DEFINE rows == [ledger.rows EXCEPT ![i] = row]
<1>4. rows \in Rows /\ Listed(rows) \subseteq owned'
  BY <1>1, <1>3 DEF Rows, Listed
<1> HIDE DEF rows
<1>5. ledger' = LedgerText(rows) /\ ledger' \in Ledger /\ ledger'.rows = rows
  BY <1>1, <1>4, TextTypes DEF rows, LedgerText
<1>6. owned \subseteq owned' /\ owned' \subseteq Id
      /\ accepted' \in [Id -> Seam \cup {NoFloor}]
  BY <1>1 DEF DebtInv, TypeOK
<1>7. TypeOK'
  BY <1>2, <1>5, <1>6 DEF DebtInv, TypeOK, outside
<1>8. LedgerBacked'
  BY <1>4, <1>5 DEF LedgerBacked, Backed
<1> QED BY <1>2, <1>7, <1>8 DEF DebtInv, Sound, SoundReview, SoundStatus

-----------------------------------------------------------------------------
(* The theorems.                                                           *)

LEMMA InitInv == Init => DebtInv
<1> SUFFICES ASSUME Init PROVE DebtInv
  OBVIOUS
<1>1. MaxDay \in Nat
  BY LedgerAssumption
<1>2. TypeOK
  BY <1>1, TextTypes DEF Init, TypeOK, Pc, NoFloors
<1>3. LedgerBacked
  BY TextTypes DEF Init, LedgerBacked, Backed, LedgerText
<1> QED BY <1>2, <1>3 DEF Init, DebtInv, Sound

LEMMA NextInv ==
  ASSUME DebtInv, [Next]_vars
  PROVE  DebtInv'
<1>1. ASSUME NEW p \in Proc, Step(p) PROVE DebtInv'
  BY <1>1, StartInv, ReadLenientInv, ReadStrictInv, LoadBaselineInv,
     LoadSuppressionsInv, LoadFloorsInv, ScanReviewInv, ScanStatusInv, ScanCaptureInv,
     ScanMissInv, OwnFloorsInv, MergeInv, TruncateLedgerInv, FillLedgerInv,
     TruncateSnapshotInv, FillSnapshotInv, ReadActiveInv, ReadHealthInv, StopInv DEF Step
<1>2. ASSUME NEW i \in Id, EditSource(i) \/ Suppress(i) \/ HandEdit(i) PROVE DebtInv'
  BY <1>2, EditSourceInv, SuppressInv, HandEditInv
<1>3. CASE NextDay
  BY <1>3, NextDayInv
<1>4. CASE UNCHANGED vars
  BY <1>4 DEF vars, DebtInv, TypeOK, LedgerBacked, Backed, OfWork, WorkBacked, Asked, Seen,
              Sound, SoundReview, SoundStatus
<1> QED BY <1>1, <1>2, <1>3, <1>4 DEF Next

\* The invariant holds throughout.
THEOREM DebtInvariant == Spec => []DebtInv
BY InitInv, NextInv, PTL DEF Spec

\* The two files, what commands hold and what they report keep their types.
THEOREM TypeCorrect == Spec => []TypeOK
<1>1. DebtInv => TypeOK
  BY DEF DebtInv
<1> QED BY <1>1, DebtInvariant, PTL

\* enforce_policy: where no-new-debt passes, a developer has accepted or
\* suppressed every open gap in its scope, whatever is written meanwhile.
THEOREM DebtStaysOut == Spec => []NoDebtSlips
<1>1. DebtInv => NoDebtSlips
  BY DEF DebtInv, Sound, SoundReview, NoDebtSlips, Reviews
<1> QED BY <1>1, DebtInvariant, PTL

\* baseline_status: a health report without complaints, of a scan that ran and
\* of files that kept still, agrees with the gate.
THEOREM HealthAgrees == Spec => []HealthyMeansPass
<1>1. DebtInv => HealthyMeansPass
  BY DEF DebtInv, Sound, SoundStatus, HealthyMeansPass, Statuses
<1> QED BY <1>1, DebtInvariant, PTL

\* The refresh plan removes an entry only when a scan ran without its card.
THEOREM PruningSafe == Spec => []PrunedIsGone
<1>1. DebtInv => PrunedIsGone
  BY DEF DebtInv, Sound, SoundStatus, PrunedIsGone, Statuses
<1> QED BY <1>1, DebtInvariant, PTL

\* What the refresh plan calls safe to automate lowers no floor.
THEOREM AutomationSafe == Spec => []AutomationKeepsFloors
<1>1. DebtInv => AutomationKeepsFloors
  BY DEF DebtInv, Sound, SoundStatus, AutomationKeepsFloors, Statuses
<1> QED BY <1>1, DebtInvariant, PTL

\* resolved_gaps: a review that looked into some file resolves what is there
\* only by taking its file for another one that it looked into; so, as long as
\* no identity mentions a file that is not its own, only what is gone.
THEOREM ResolvedGone == Spec => [](ScannedResolved /\ (SlugsApart => ScannedIsGone))
<1>1. DebtInv => ScannedResolved
  BY DEF DebtInv, Sound, SoundReview, ScannedResolved, Reviews
<1>2. ASSUME DebtInv, ScannedResolved, SlugsApart, NEW p \in Reviews,
             report[p].scanned # {}, NEW i \in report[p].resolvedOpen
      PROVE  FALSE
  <2>1. /\ FileOf[i] \notin report[p].scanned
        /\ \E f \in report[p].scanned : Mentions(i, f)
    BY <1>2 DEF ScannedResolved
  <2>2. report[p] \in Report /\ report[p].kind = "review"
    BY <1>2 DEF Reviews, DebtInv, TypeOK
  <2>3. report[p].resolvedOpen \subseteq Id /\ report[p].scanned \subseteq File
    BY <2>2 DEF Report
  <2> QED BY <1>2, <2>1, <2>3 DEF SlugsApart
<1>3. DebtInv => ScannedResolved /\ (SlugsApart => ScannedIsGone)
  BY <1>1, <1>2 DEF ScannedIsGone
<1> QED BY <1>3, DebtInvariant, PTL

-----------------------------------------------------------------------------
(* Coverage of a captured card.                                            *)

Floor(e) == CoverageOf(e, "baseline_known")

\* The coverage recorded of a card at capture is the one its class as a known
\* card has: the only class that lowers a slot is that of a missing guard.
LEMMA SameCoverage ==
  ASSUME NEW w, NEW i
  PROVE  CoverageNow(w, i) = Floor(w.cards[i])
<1> DEFINE e == w.cards[i]
<1>1. e.guard => FirstGap(e) # "guard_missing"
  BY DEF FirstGap
<1>2. e.guard => Classify(e) # "guard_missing"
  BY <1>1 DEF Classify
<1>3. e.guard => ClassWithReceipts(e) # "guard_missing"
  BY <1>2 DEF ClassWithReceipts
<1>4. e.guard => ClassOf(w, i) # "guard_missing"
  BY <1>3 DEF ClassOf, CardClass
<1> QED BY <1>4 DEF CoverageNow, CoverageOf, Floor

-----------------------------------------------------------------------------
(* The invariant about floors.                                             *)

\* floors has what was accepted of i.
Held(i, floors) == accepted[i] # NoFloor => floors[i] = Floor(accepted[i])

Floored(rows, floors) == \A i \in Listed(rows) : Held(i, floors)

Alone == \A p, q \in Proc : pc[p] # "idle" /\ pc[q] # "idle" => p = q

\* What the one command under way has read, and what it will write.
Follows(w, at) ==
  /\ at \in {"suppressions", "floors", "scan"} => w.known = Listed(ledger.rows)
  /\ at = "scan" => w.floors = snapshot.floors
  /\ w.cmd = "init" /\ at \notin Writing => ledger = LedgerText(NoRows)
  /\ at = "own_floors" =>
       /\ Floored(w.rows, w.write)
       /\ \A i \in Listed(ledger.rows) \ Listed(w.rows) :
            w.write[i] = NoFloor /\ Held(i, snapshot.floors)
  /\ at = "merge" => Floored(w.rows, w.write) /\ Floored(ledger.rows, w.write)
  /\ at \in Writing \ {"own_floors", "merge"} => Floored(w.rows, w.write)
  /\ at = "fill_ledger" => ledger = LedgerText(NoRows)
  /\ at \in {"truncate_snapshot", "fill_snapshot"} => ledger = LedgerText(w.rows)
  /\ at = "fill_snapshot" => snapshot = SnapshotText(NoFloors)

Fair(result) ==
  result # NoReport /\ result.kind = "review" /\ result.passed => result.fallen = {}

FloorsKept ==
  /\ Alone
  /\ ledger # Torn /\ snapshot # Torn
  /\ (\A p \in Proc : pc[p] \notin Writing) => Floored(ledger.rows, snapshot.floors)
  /\ \A p \in Proc : pc[p] # "idle" => Follows(work[p], pc[p])
  /\ \A p \in Proc : Fair(report[p])

FloorInv == calm => FloorsKept

-----------------------------------------------------------------------------
(* Kinds of steps.                                                         *)

\* The files of a calm state have rows and floors.
LEMMA Whole ==
  ASSUME DebtInv, FloorsKept
  PROVE  /\ ledger.rows \in Rows /\ ledger = LedgerText(ledger.rows)
         /\ snapshot.floors \in Floors /\ snapshot = SnapshotText(snapshot.floors)
<1>1. ledger \in Ledger /\ snapshot \in Snapshot /\ ledger # Torn /\ snapshot # Torn
  BY DEF DebtInv, TypeOK, FloorsKept
<1> QED BY <1>1 DEF Ledger, Snapshot, Torn, LedgerText, SnapshotText

\* The one command under way does a step.
LEMMA OnlyStep ==
  ASSUME DebtInv, NEW p \in Proc, NEW label \in Pc,
         \A q \in Proc \ {p} : pc[q] = "idle",
         pc' = [pc EXCEPT ![p] = label],
         \A q \in Proc : Fair(report'[q]),
         ledger' # Torn, snapshot' # Torn,
         label \notin Writing => Floored(ledger.rows, snapshot.floors)',
         label # "idle" => Follows(work[p], label)'
  PROVE  FloorsKept'
<1>1. pc'[p] = label /\ \A q \in Proc \ {p} : pc'[q] = "idle"
  BY DEF DebtInv, TypeOK
<1>2. Alone'
  BY <1>1 DEF Alone
<1>3. ASSUME NEW q \in Proc, pc'[q] # "idle" PROVE Follows(work[q], pc[q])'
  <2>1. q = p /\ pc'[q] = label
    BY <1>1, <1>3
  <2>2. Follows(work[p], label)'
    BY <1>3, <2>1
  <2> QED BY <2>1, <2>2 DEF Follows
<1>4. (\A q \in Proc : pc'[q] \notin Writing) => Floored(ledger.rows, snapshot.floors)'
  BY <1>1
<1> QED BY <1>2, <1>3, <1>4 DEF FloorsKept

\* The others, while a command is under way.
LEMMA Others ==
  ASSUME FloorsKept, NEW p \in Proc, pc[p] # "idle"
  PROVE  /\ \A q \in Proc \ {p} : pc[q] = "idle"
         /\ Follows(work[p], pc[p])
         /\ pc[p] \notin Writing => Floored(ledger.rows, snapshot.floors)
<1>1. \A q \in Proc \ {p} : pc[q] = "idle"
  BY DEF FloorsKept, Alone
<1>2. pc[p] \notin Writing => \A q \in Proc : pc[q] \notin Writing
  BY <1>1 DEF Writing
<1> QED BY <1>1, <1>2 DEF FloorsKept

\* A command that does not write yet goes on and reads.
LEMMA ReadStep ==
  ASSUME DebtInv, FloorsKept, NEW p \in Proc, pc[p] \notin Writing \cup {"idle"},
         NEW w \in Work, work' = [work EXCEPT ![p] = w], w.cmd = work[p].cmd,
         NEW label \in Pc \ (Writing \cup {"idle"}), Goto(p, label),
         UNCHANGED <<files, report, history>>,
         label \in {"suppressions", "floors", "scan"} => w.known = Listed(ledger.rows),
         label = "scan" => w.floors = snapshot.floors
  PROVE  FloorsKept'
<1>1. /\ Follows(work[p], pc[p])
      /\ \A q \in Proc \ {p} : pc[q] = "idle"
      /\ Floored(ledger.rows, snapshot.floors)
  BY Others
<1>2. work'[p] = w
  BY DEF DebtInv, TypeOK
<1>3. Follows(work[p], label)'
  BY <1>1, <1>2 DEF Follows, files, Writing, Pc
<1>4. Floored(ledger.rows, snapshot.floors)'
  BY <1>1 DEF Floored, Held, files, history
<1>5. ledger' # Torn /\ snapshot' # Torn /\ \A q \in Proc : Fair(report'[q])
  BY DEF FloorsKept, files
<1> QED BY <1>1, <1>3, <1>4, <1>5, OnlyStep DEF Goto

\* A command ends without having written, and reports.
LEMMA EndStep ==
  ASSUME DebtInv, FloorsKept, NEW p \in Proc, pc[p] \notin Writing \cup {"idle"},
         NEW result, Fair(result),
         Goto(p, "idle"), report' = [report EXCEPT ![p] = result],
         UNCHANGED <<files, accepted>>
  PROVE  FloorsKept'
<1>1. /\ \A q \in Proc \ {p} : pc[q] = "idle"
      /\ Floored(ledger.rows, snapshot.floors)
  BY Others
<1>2. Floored(ledger.rows, snapshot.floors)'
  BY <1>1 DEF Floored, Held, files
<1>3. \A q \in Proc : Fair(report'[q])
  <2>1. \A q \in Proc : report'[q] \in {report[q], result}
    BY DEF DebtInv, TypeOK
  <2> QED BY <2>1 DEF FloorsKept
<1>4. ledger' # Torn /\ snapshot' # Torn
  BY DEF FloorsKept, files
<1> QED BY <1>1, <1>2, <1>3, <1>4, OnlyStep DEF Goto, Pc

LEMMA NothingReported == Fair(NoReport)
BY DEF Fair

-----------------------------------------------------------------------------
(* The actions.                                                            *)

LEMMA StartFloor ==
  ASSUME DebtInv, FloorsKept, ~ReInit, NEW p \in Proc, Start(p), calm'
  PROVE  FloorsKept'
<1>1. PICK w \in Request :
        /\ w.cmd = "init" => ledger = LedgerText(NoRows)
        /\ work' = [work EXCEPT ![p] = w]
        /\ Goto(p, IF w.cmd = "status" THEN "lenient" ELSE "baseline")
  BY DEF Start
<1>2. /\ \A q \in Proc : pc[q] = "idle"
      /\ UNCHANGED <<files, accepted>> /\ report' = [report EXCEPT ![p] = NoReport]
  BY DEF Start
<1>3. PICK label \in {"lenient", "baseline"} : pc' = [pc EXCEPT ![p] = label]
  BY <1>1 DEF Goto
<1>4. work'[p] = w
  BY <1>1 DEF DebtInv, TypeOK
<1>5. Follows(work[p], label)'
  BY <1>1, <1>2, <1>3, <1>4 DEF Follows, files, Writing
<1>6. Floored(ledger.rows, snapshot.floors)'
  <2>1. Floored(ledger.rows, snapshot.floors)
    BY <1>2 DEF FloorsKept, Writing
  <2> QED BY <1>2, <2>1 DEF Floored, Held, files
<1>7. \A q \in Proc : Fair(report'[q])
  <2>1. \A q \in Proc : report'[q] \in {report[q], NoReport}
    BY <1>2 DEF DebtInv, TypeOK
  <2> QED BY <2>1, NothingReported DEF FloorsKept
<1>8. ledger' # Torn /\ snapshot' # Torn
  BY <1>2 DEF FloorsKept, files
<1> QED BY <1>2, <1>3, <1>5, <1>6, <1>7, <1>8, OnlyStep DEF Pc

\* The steps of baseline status before it scans, and the analysis up to there.
LEMMA LoadFloor ==
  ASSUME DebtInv, FloorsKept, NEW p \in Proc,
         \/ ReadLenient(p) \/ ReadStrict(p)
         \/ LoadBaseline(p) \/ LoadSuppressions(p) \/ LoadFloors(p)
  PROVE  FloorsKept'
<1> DEFINE w == work[p]
<1>1. pc[p] \notin Writing \cup {"idle"} /\ UNCHANGED <<files, history>>
  BY DEF ReadLenient, ReadStrict, LoadBaseline, LoadSuppressions, LoadFloors, Writing
<1>2. w \in Work /\ Follows(w, pc[p])
  BY <1>1, WorkOf, Others
<1>3. CASE Abort(p)
  BY <1>1, <1>3, EndStep, NothingReported DEF Abort, Leave, history
<1>4. CASE ReadLenient(p) /\ ~Abort(p)
  <2>1. [w EXCEPT !.lenient = ledger.rows] \in Work
    BY <1>2, Whole DEF Work
  <2>2. /\ work' = [work EXCEPT ![p] = [w EXCEPT !.lenient = ledger.rows]]
        /\ Goto(p, "strict") /\ UNCHANGED report
    BY <1>4 DEF ReadLenient
  <2>3. [w EXCEPT !.lenient = ledger.rows].cmd = w.cmd
    BY <1>2 DEF Work
  <2> HIDE DEF w
  <2> QED BY <1>1, <2>1, <2>2, <2>3, ReadStep DEF Pc, Writing, w
<1>5. CASE ReadStrict(p)
  <2>1. [w EXCEPT !.error = StrictError(ledger)] \in Work
    BY <1>2, StrictType DEF Work, DebtInv, TypeOK
  <2>2. /\ work' = [work EXCEPT ![p] = [w EXCEPT !.error = StrictError(ledger)]]
        /\ Goto(p, "baseline") /\ UNCHANGED report
    BY <1>5 DEF ReadStrict
  <2>3. [w EXCEPT !.error = StrictError(ledger)].cmd = w.cmd
    BY <1>2 DEF Work
  <2> HIDE DEF w
  <2> QED BY <1>1, <2>1, <2>2, <2>3, ReadStep DEF Pc, Writing, w
<1>6. CASE LoadBaseline(p) /\ ~Abort(p)
  <2>1. CASE Goto(p, "active") /\ UNCHANGED <<work, report>>
    <3>1. work' = [work EXCEPT ![p] = w]
      BY <2>1 DEF DebtInv, TypeOK
    <3> QED BY <1>1, <1>2, <2>1, <3>1, ReadStep DEF Pc, Writing
  <2>2. CASE /\ work' = [work EXCEPT ![p].known = Listed(ledger.rows)]
             /\ Goto(p, "suppressions") /\ UNCHANGED report
    <3> DEFINE v == [w EXCEPT !.known = Listed(ledger.rows)]
    <3>1. v \in Work /\ v.cmd = w.cmd /\ v.known = Listed(ledger.rows)
      BY <1>2 DEF Work, Listed
    <3>2. work' = [work EXCEPT ![p] = v]
      BY <2>2
    <3> HIDE DEF v
    <3> QED BY <1>1, <2>2, <3>1, <3>2, ReadStep DEF Pc, Writing
  <2> QED BY <1>6, <2>1, <2>2 DEF LoadBaseline
<1>7. CASE LoadSuppressions(p)
  <2> DEFINE v == [w EXCEPT !.unwanted = {i \in Id : suppressed[i] # Never}]
  <2>1. v \in Work /\ v.cmd = w.cmd /\ v.known = w.known
    BY <1>2 DEF Work
  <2>2. w.known = Listed(ledger.rows)
    BY <1>2, <1>7 DEF LoadSuppressions, Follows
  <2>3. work' = [work EXCEPT ![p] = v] /\ Goto(p, "floors") /\ UNCHANGED report
    BY <1>7 DEF LoadSuppressions
  <2> HIDE DEF v
  <2> QED BY <1>1, <2>1, <2>2, <2>3, ReadStep DEF Pc, Writing
<1>8. CASE LoadFloors(p) /\ ~Abort(p)
  <2> DEFINE v == [w EXCEPT !.floors = snapshot.floors]
  <2>1. v \in Work /\ v.cmd = w.cmd /\ v.known = w.known /\ v.floors = snapshot.floors
    BY <1>2, Whole DEF Work
  <2>2. w.known = Listed(ledger.rows)
    BY <1>2, <1>8 DEF LoadFloors, Follows
  <2>3. work' = [work EXCEPT ![p] = v] /\ Goto(p, "scan") /\ UNCHANGED report
    BY <1>8 DEF LoadFloors
  <2> HIDE DEF v
  <2> QED BY <1>1, <2>1, <2>2, <2>3, ReadStep DEF Pc, Writing
<1> QED BY <1>3, <1>4, <1>5, <1>6, <1>7, <1>8

\* A review that passes has compared every known card with its floor.
LEMMA ReviewFair ==
  ASSUME DebtInv, FloorsKept, NEW w \in Work,
         w.known = Listed(ledger.rows), w.floors = snapshot.floors,
         Floored(ledger.rows, snapshot.floors)
  PROVE  Fair(Review(w))
<1> SUFFICES ASSUME Passes(w), NEW i \in Fallen(w, CoverageFell) PROVE FALSE
  BY DEF Fair, Review
<1>1. /\ i \in Open(w) /\ i \in Id /\ ClassOf(w, i) = "baseline_known"
      /\ accepted[i] # NoFloor /\ CoverageFell(accepted[i], w.cards[i])
  BY DEF Fallen, Open
<1>2. CoverageNow(w, i) = Floor(w.cards[i])
  BY SameCoverage
<1>3. i \in w.known
  <2>1. i \in w.known \/ ClassOf(w, i) \in ReviewClass \ {"baseline_known"}
    BY DEF ClassOf, CardClass, ClassWithReceipts, Classify, FirstGap, ReviewClass,
           ActionableClass
  <2> QED BY <1>1, <2>1
<1>4. w.floors[i] = Floor(accepted[i])
  BY <1>1, <1>3 DEF Floored, Held
<1>5. w.floors[i] # NoFloor
  BY <1>4, CoverageType, LedgerAssumption DEF Floor
<1>6. i \in WorsenedGaps(w)
  BY <1>1, <1>2, <1>4, <1>5 DEF WorsenedGaps, CoverageFell, Floor
<1> QED BY <1>6 DEF Passes

\* The scan of a review, of a status, and the rest of a status.
LEMMA ReportFloor ==
  ASSUME DebtInv, FloorsKept, NEW p \in Proc,
         \/ ScanReview(p) \/ ScanStatus(p) \/ ScanMiss(p)
         \/ ReadActive(p) \/ ReadHealth(p)
  PROVE  FloorsKept'
<1> DEFINE w == work[p]
<1>1. pc[p] \notin Writing \cup {"idle"} /\ UNCHANGED <<files, history>>
  BY DEF ScanReview, ScanStatus, ScanMiss, ReadActive, ReadHealth, Writing
<1>2. w \in Work /\ Follows(w, pc[p]) /\ Floored(ledger.rows, snapshot.floors)
  BY <1>1, WorkOf, Others
<1>3. CASE ScanReview(p)
  <2>1. pc[p] = "scan" /\ Leave(p, Review(Scanned(w)))
    BY <1>3 DEF ScanReview
  <2>2. w.known = Listed(ledger.rows) /\ w.floors = snapshot.floors
    BY <1>2, <2>1 DEF Follows
  <2>3. /\ Scanned(w) \in Work /\ Scanned(w).known = w.known
        /\ Scanned(w).floors = w.floors
    BY <1>2, ScannedType DEF DebtInv
  <2>4. Fair(Review(Scanned(w)))
    BY <1>2, <2>2, <2>3, ReviewFair
  <2> QED BY <1>1, <2>1, <2>4, EndStep DEF Leave, history
<1>4. CASE ScanStatus(p)
  <2>1. Scanned(w) \in Work /\ Scanned(w).cmd = w.cmd
    BY <1>2, ScannedType DEF DebtInv
  <2>2. work' = [work EXCEPT ![p] = Scanned(w)] /\ Goto(p, "active") /\ UNCHANGED report
    BY <1>4 DEF ScanStatus
  <2> HIDE DEF w
  <2> QED BY <1>1, <2>1, <2>2, ReadStep DEF Pc, Writing, w
<1>5. CASE ScanMiss(p)
  BY <1>1, <1>5, EndStep, NothingReported DEF ScanMiss, Abort, Leave, history
<1>6. CASE ReadActive(p)
  <2> DEFINE v == [w EXCEPT !.active =
                     {i \in Id : suppressed[i] # Never /\ suppressed[i] >= w.today}]
  <2>1. v \in Work /\ v.cmd = w.cmd
    BY <1>2 DEF Work
  <2>2. work' = [work EXCEPT ![p] = v] /\ Goto(p, "health") /\ UNCHANGED report
    BY <1>6 DEF ReadActive
  <2> HIDE DEF v
  <2> QED BY <1>1, <2>1, <2>2, ReadStep DEF Pc, Writing
<1>7. CASE ReadHealth(p)
  <2>1. Leave(p, Status(w)) /\ Fair(Status(w))
    BY <1>7 DEF ReadHealth, Fair, Status
  <2> QED BY <1>1, <2>1, EndStep DEF Leave, history
<1> QED BY <1>3, <1>4, <1>5, <1>6, <1>7

\* What a capture takes down of the cards it captures.
LEMMA CaptureHeld ==
  ASSUME DebtInv, NEW w \in Work, w.cmd \in {"init", "add"}, Asked(w), NEW i \in Id
  PROVE  IF i \in Captured(w)
         THEN Capture(w).rows[i] # NoRow /\ Capture(w).write[i] = Floor(w.cards[i])
         ELSE Capture(w).rows[i] = NoRow /\ Capture(w).write[i] = NoFloor
<1>1. Capture(w).rows = [j \in Id |-> IF j \in Captured(w)
                           THEN [due |-> w.due, copies |-> 1, flaw |-> "none"] ELSE NoRow]
  BY DEF Capture, Work
<1>2. Capture(w).write = [j \in Id |-> IF j \in Captured(w) THEN CoverageNow(w, j)
                                       ELSE NoFloor]
  BY DEF Capture, Work
<1>3. CASE i \in Captured(w)
  <2>1. [due |-> w.due, copies |-> 1, flaw |-> "none"] \in Row
    BY DEF Asked, Row
  <2>2. CoverageNow(w, i) = Floor(w.cards[i])
    BY SameCoverage
  <2> QED BY <1>1, <1>2, <1>3, <2>1, <2>2, Sentinels
<1>4. CASE i \notin Captured(w)
  BY <1>1, <1>2, <1>4
<1> QED BY <1>3, <1>4

LEMMA ScanCaptureFloor ==
  ASSUME DebtInv, FloorsKept, NEW p \in Proc, ScanCapture(p)
  PROVE  FloorsKept'
<1>1. PICK w : w = Scanned(work[p])
  OBVIOUS
<1>2. PICK v : v = Capture(w)
  OBVIOUS
<1>3. PICK label \in {"own_floors", "merge"} :
        label = IF w.cmd = "add" THEN "own_floors" ELSE "merge"
  OBVIOUS
<1>4. /\ pc[p] = "scan" /\ w.cmd \in {"init", "add"}
      /\ work' = [work EXCEPT ![p] = v] /\ pc' = [pc EXCEPT ![p] = label]
      /\ accepted' = [i \in Id |-> IF i \in Captured(w) THEN w.cards[i] ELSE accepted[i]]
      /\ UNCHANGED <<files, report>>
  BY <1>1, <1>2, <1>3 DEF ScanCapture, Goto
<1>5. /\ work[p] \in Work /\ Asked(work[p]) /\ Follows(work[p], "scan")
      /\ \A q \in Proc \ {p} : pc[q] = "idle"
      /\ Floored(ledger.rows, snapshot.floors)
  BY <1>4, WorkOf, Others DEF WorkBacked, Writing
<1>6. w \in Work /\ w.cmd = work[p].cmd /\ w.due = work[p].due
  BY <1>1, <1>5, ScannedType DEF DebtInv
<1>7. Asked(w)
  BY <1>5, <1>6 DEF Asked
<1>8. work'[p] = v
  BY <1>4 DEF DebtInv, TypeOK
<1>9. \A i \in Id : IF i \in Captured(w)
                    THEN v.rows[i] # NoRow /\ v.write[i] = Floor(accepted'[i])
                    ELSE /\ v.rows[i] = NoRow /\ v.write[i] = NoFloor
                         /\ accepted'[i] = accepted[i]
  BY <1>2, <1>4, <1>6, <1>7, CaptureHeld
<1>10. Floored(work[p].rows, work[p].write)'
  BY <1>8, <1>9 DEF Floored, Held, Listed
<1>11. \A i \in Listed(ledger'.rows) \ Listed(work'[p].rows) :
         work'[p].write[i] = NoFloor /\ Held(i, snapshot.floors)'
  BY <1>4, <1>5, <1>8, <1>9 DEF Floored, Held, Listed, files
<1>12. w.cmd = "init" => Listed(ledger'.rows) = {}
  BY <1>4, <1>5, <1>6 DEF Follows, Writing, LedgerText, Listed, NoRows, files
<1>13. label = "merge" => Floored(ledger.rows, work[p].write)'
  BY <1>3, <1>4, <1>12 DEF Floored, Listed
<1>14. Follows(work[p], label)'
  BY <1>10, <1>11, <1>13 DEF Follows, Writing
<1>15. ledger' # Torn /\ snapshot' # Torn /\ \A q \in Proc : Fair(report'[q])
  BY <1>4 DEF FloorsKept, files
<1>16. label \in Writing /\ label \in Pc
  BY DEF Writing, Pc
<1> QED BY <1>4, <1>5, <1>14, <1>15, <1>16, OnlyStep

LEMMA OwnFloorsFloor ==
  ASSUME DebtInv, FloorsKept, NEW p \in Proc, OwnFloors(p), calm'
  PROVE  FloorsKept'
<1>1. PICK w : w = work[p]
  OBVIOUS
<1>2. PICK write : write = [i \in Id |-> IF w.write[i] = NoFloor THEN snapshot.floors[i]
                                         ELSE w.write[i]]
  OBVIOUS
<1>3. pc[p] = "own_floors" /\ UNCHANGED <<files, report, accepted>>
      /\ work' = [work EXCEPT ![p] = [w EXCEPT !.write = write]]
      /\ pc' = [pc EXCEPT ![p] = "merge"]
  BY <1>1, <1>2 DEF OwnFloors, Goto
<1>4. w \in Work /\ Follows(w, "own_floors") /\ \A q \in Proc \ {p} : pc[q] = "idle"
  BY <1>1, <1>3, WorkOf, Others
<1>5. work'[p].rows = w.rows /\ work'[p].write = write
  BY <1>3, <1>4 DEF Work, DebtInv, TypeOK
<1>6. \A i \in Id : accepted[i] # NoFloor => Floor(accepted[i]) # NoFloor
  BY CoverageType, LedgerAssumption DEF Floor
<1>7. \A i \in Listed(w.rows) \cup Listed(ledger.rows) : Held(i, write)
  BY <1>2, <1>4, <1>6 DEF Follows, Floored, Held, Listed
<1>8. Floored(work[p].rows, work[p].write)' /\ Floored(ledger.rows, work[p].write)'
  BY <1>3, <1>5, <1>7 DEF Floored, Held, Listed, files
<1>9. Follows(work[p], "merge")'
  BY <1>8 DEF Follows, Writing
<1>10. ledger' # Torn /\ snapshot' # Torn /\ \A q \in Proc : Fair(report'[q])
  BY <1>3 DEF FloorsKept, files
<1> QED BY <1>3, <1>4, <1>9, <1>10, OnlyStep DEF Writing, Pc

LEMMA MergeFloor ==
  ASSUME DebtInv, FloorsKept, NEW p \in Proc, Merge(p)
  PROVE  FloorsKept'
<1> DEFINE w == work[p]
           v == [w EXCEPT !.rows = Merged(ledger, w.rows)]
<1>1. pc[p] = "merge" /\ UNCHANGED <<files, report, accepted>>
      /\ work' = [work EXCEPT ![p] = v] /\ pc' = [pc EXCEPT ![p] = "truncate_ledger"]
  BY DEF Merge, Goto, history
<1>2. w \in Work /\ Follows(w, "merge") /\ \A q \in Proc \ {p} : pc[q] = "idle"
  BY <1>1, WorkOf, Others
<1>3. v.cmd = w.cmd /\ v.rows = Merged(ledger, w.rows) /\ v.write = w.write /\ work'[p] = v
  BY <1>1, <1>2 DEF Work, DebtInv, TypeOK
<1>4. Listed(Merged(ledger, w.rows)) \subseteq Listed(w.rows) \cup Listed(ledger.rows)
  BY DEF Merged, Listed, NoRows
<1>5. Floored(v.rows, v.write)
  BY <1>2, <1>3, <1>4 DEF Follows, Floored
<1>6. Follows(work[p], "truncate_ledger")'
  BY <1>1, <1>3, <1>5 DEF Follows, Floored, Held, Listed, files, Writing
<1>7. ledger' # Torn /\ snapshot' # Torn /\ \A q \in Proc : Fair(report'[q])
  BY <1>1 DEF FloorsKept, files
<1> QED BY <1>1, <1>2, <1>6, <1>7, OnlyStep DEF Writing, Pc

\* What a command holds of its own is not disturbed by what it writes.
LEMMA Undisturbed ==
  ASSUME DebtInv, NEW p \in Proc, pc[p] # "idle"
  PROVE  Disturbed(p)[p] = work[p]
BY DEF Disturbed

LEMMA TruncateLedgerFloor ==
  ASSUME DebtInv, FloorsKept, NEW p \in Proc, TruncateLedger(p)
  PROVE  FloorsKept'
<1>1. /\ pc[p] = "truncate_ledger" /\ pc' = [pc EXCEPT ![p] = "fill_ledger"]
      /\ ledger' = LedgerText(NoRows) /\ work' = Disturbed(p)
      /\ UNCHANGED <<snapshot, report, accepted>>
  BY DEF TruncateLedger, Goto, history
<1>2. Follows(work[p], "truncate_ledger") /\ \A q \in Proc \ {p} : pc[q] = "idle"
  BY <1>1, Others
<1>3. work'[p] = work[p]
  BY <1>1, Undisturbed
<1>4. Follows(work[p], "fill_ledger")'
  BY <1>1, <1>2, <1>3 DEF Follows, Floored, Held, Listed, Writing
<1>5. ledger' # Torn /\ snapshot' # Torn /\ \A q \in Proc : Fair(report'[q])
  BY <1>1 DEF FloorsKept, LedgerText, Torn
<1> QED BY <1>1, <1>2, <1>4, <1>5, OnlyStep DEF Writing, Pc

LEMMA FillLedgerFloor ==
  ASSUME DebtInv, FloorsKept, NEW p \in Proc, FillLedger(p)
  PROVE  FloorsKept'
<1>1. /\ pc[p] = "fill_ledger" /\ pc' = [pc EXCEPT ![p] = "truncate_snapshot"]
      /\ ledger' \in Filled(ledger, LedgerText(NoRows), LedgerText(work[p].rows))
      /\ work' = Disturbed(p) /\ UNCHANGED <<snapshot, report, accepted>>
  BY DEF FillLedger, Goto, history
<1>2. Follows(work[p], "fill_ledger") /\ \A q \in Proc \ {p} : pc[q] = "idle"
  BY <1>1, Others
<1>3. ledger' = LedgerText(work[p].rows)
  BY <1>1, <1>2 DEF Follows, Filled
<1>4. work'[p] = work[p]
  BY <1>1, Undisturbed
<1>5. Follows(work[p], "truncate_snapshot")'
  BY <1>1, <1>2, <1>3, <1>4 DEF Follows, Floored, Held, Listed, Writing
<1>6. ledger' # Torn /\ snapshot' # Torn /\ \A q \in Proc : Fair(report'[q])
  BY <1>1, <1>3 DEF FloorsKept, LedgerText, Torn
<1> QED BY <1>1, <1>2, <1>5, <1>6, OnlyStep DEF Writing, Pc

LEMMA TruncateSnapshotFloor ==
  ASSUME DebtInv, FloorsKept, NEW p \in Proc, TruncateSnapshot(p)
  PROVE  FloorsKept'
<1>1. /\ pc[p] = "truncate_snapshot" /\ pc' = [pc EXCEPT ![p] = "fill_snapshot"]
      /\ snapshot' = SnapshotText(NoFloors) /\ work' = Disturbed(p)
      /\ UNCHANGED <<ledger, report, accepted>>
  BY DEF TruncateSnapshot, Goto, history
<1>2. Follows(work[p], "truncate_snapshot") /\ \A q \in Proc \ {p} : pc[q] = "idle"
  BY <1>1, Others
<1>3. work'[p] = work[p]
  BY <1>1, Undisturbed
<1>4. Follows(work[p], "fill_snapshot")'
  BY <1>1, <1>2, <1>3 DEF Follows, Floored, Held, Listed, Writing
<1>5. ledger' # Torn /\ snapshot' # Torn /\ \A q \in Proc : Fair(report'[q])
  BY <1>1 DEF FloorsKept, SnapshotText, Torn
<1> QED BY <1>1, <1>2, <1>4, <1>5, OnlyStep DEF Writing, Pc

LEMMA FillSnapshotFloor ==
  ASSUME DebtInv, FloorsKept, NEW p \in Proc, FillSnapshot(p)
  PROVE  FloorsKept'
<1>1. /\ pc[p] = "fill_snapshot" /\ pc' = [pc EXCEPT ![p] = "idle"]
      /\ snapshot' \in Filled(snapshot, SnapshotText(NoFloors),
                              SnapshotText(work[p].write))
      /\ UNCHANGED <<ledger, report, accepted>>
  BY DEF FillSnapshot, Goto, history
<1>2. Follows(work[p], "fill_snapshot") /\ \A q \in Proc \ {p} : pc[q] = "idle"
  BY <1>1, Others
<1>3. snapshot' = SnapshotText(work[p].write) /\ ledger' = LedgerText(work[p].rows)
      /\ Floored(work[p].rows, work[p].write)
  BY <1>1, <1>2 DEF Follows, Filled, Writing
<1>4. snapshot'.floors = work[p].write /\ ledger'.rows = work[p].rows
  BY <1>3 DEF SnapshotText, LedgerText
<1>5. Floored(ledger.rows, snapshot.floors)'
  BY <1>1, <1>3, <1>4 DEF Floored, Held, Listed
<1>6. ledger' # Torn /\ snapshot' # Torn /\ \A q \in Proc : Fair(report'[q])
  BY <1>1, <1>3 DEF FloorsKept, SnapshotText, LedgerText, Torn
<1> QED BY <1>1, <1>2, <1>5, <1>6, OnlyStep DEF Pc

\* A command that dies before it writes leaves everything as it was.
LEMMA StopFloor ==
  ASSUME DebtInv, FloorsKept, NEW p \in Proc, Stop(p), calm'
  PROVE  FloorsKept'
<1>1. pc[p] \notin Writing \cup {"idle"} /\ UNCHANGED accepted
      /\ Goto(p, "idle") /\ report' = [report EXCEPT ![p] = NoReport]
  BY DEF Stop
<1>2. UNCHANGED files
  BY <1>1 DEF Stop, Writing, files
<1> QED BY <1>1, <1>2, EndStep, NothingReported

\* Somebody edits or suppresses, or a day passes.
LEMMA OutsideFloor ==
  ASSUME DebtInv, FloorsKept, NextDay \/ \E i \in Id : EditSource(i) \/ Suppress(i)
  PROVE  FloorsKept'
<1>1. /\ UNCHANGED <<ledger, snapshot, accepted, pc, report>>
      /\ work' \in {work, Disturbed(NoWork)}
  BY DEF EditSource, Suppress, NextDay, files, history
<1>2. ASSUME NEW p \in Proc, pc'[p] # "idle" PROVE Follows(work[p], pc[p])'
  <2>1. pc[p] # "idle" /\ Follows(work[p], pc[p])
    BY <1>1, <1>2 DEF FloorsKept
  <2>2. work[p] \in Work /\ work[p] # NoWork /\ work \in [Proc -> Work \cup {NoWork}]
    BY <2>1, WorkOf DEF DebtInv, TypeOK
  <2>3. Alike(work'[p], work[p])
    <3>1. CASE work' = work
      BY <2>2, <3>1 DEF Alike
    <3>2. CASE work' = Disturbed(NoWork)
      BY <2>2, <3>2, DisturbedAlike
    <3> QED BY <1>1, <3>1, <3>2
  <2> QED BY <1>1, <2>1, <2>3 DEF Follows, Floored, Held, Listed, Alike
<1> QED BY <1>1, <1>2 DEF FloorsKept, Alone, Floored, Held, Listed

\* A row that is new has nothing accepted to keep.
LEMMA HandEditFloor ==
  ASSUME DebtInv, FloorsKept, NEW i \in Id, HandEdit(i)
  PROVE  FloorsKept'
<1>1. PICK row \in Row \cup {NoRow} :
        /\ ledger' = LedgerText([ledger.rows EXCEPT ![i] = row])
        /\ accepted' = IF NoRow \in {row, ledger.rows[i]}
                       THEN [accepted EXCEPT ![i] = NoFloor] ELSE accepted
  BY DEF HandEdit
<1>2. (\A p \in Proc : pc[p] = "idle") /\ UNCHANGED <<snapshot, pc, report>>
  BY DEF HandEdit
<1>3. Floored(ledger.rows, snapshot.floors) /\ ledger.rows \in [Id -> Row \cup {NoRow}]
      /\ accepted \in [Id -> Seam \cup {NoFloor}]
  BY <1>2, Whole DEF FloorsKept, Writing, Rows, DebtInv, TypeOK
<1>4. ledger'.rows = [ledger.rows EXCEPT ![i] = row]
  BY <1>1 DEF LedgerText
<1>5. ASSUME NEW j \in Listed(ledger'.rows), accepted'[j] # NoFloor
      PROVE  snapshot'.floors[j] = Floor(accepted'[j])
  <2>1. j \in Id /\ ledger'.rows[j] # NoRow
    BY <1>5 DEF Listed
  <2>2. CASE j = i
    <3>1. row # NoRow
      BY <1>3, <1>4, <2>1, <2>2
    <3>2. ledger.rows[i] # NoRow /\ accepted' = accepted
      BY <1>1, <1>3, <1>5, <2>2, <3>1
    <3> QED BY <1>2, <1>3, <1>5, <2>2, <3>2 DEF Floored, Held, Listed
  <2>3. CASE j # i
    <3>1. ledger.rows[j] # NoRow /\ accepted'[j] = accepted[j]
      BY <1>1, <1>3, <1>4, <2>1, <2>3
    <3> QED BY <1>2, <1>3, <1>5, <2>1, <3>1 DEF Floored, Held, Listed
  <2> QED BY <2>2, <2>3
<1>6. Floored(ledger.rows, snapshot.floors)'
  BY <1>5 DEF Floored, Held
<1>7. ledger' # Torn
  BY <1>1 DEF LedgerText, Torn
<1> QED BY <1>2, <1>6, <1>7 DEF FloorsKept, Alone

-----------------------------------------------------------------------------
(* The theorem.                                                            *)

LEMMA InitFloor == Init => FloorInv
<1> SUFFICES ASSUME Init PROVE FloorsKept
  BY DEF FloorInv
<1>1. \A p \in Proc : pc[p] = "idle" /\ report[p] = NoReport
  BY DEF Init
<1>2. ledger # Torn /\ snapshot # Torn
  BY DEF Init, LedgerText, SnapshotText, Torn
<1>3. Floored(ledger.rows, snapshot.floors)
  BY DEF Init, LedgerText, NoRows, Listed, Floored
<1> QED BY <1>1, <1>2, <1>3, NothingReported DEF FloorsKept, Alone

\* Nothing calms down again.
LEMMA CalmPast ==
  ASSUME DebtInv, [Next]_vars, calm'
  PROVE  calm
<1>1. ASSUME NEW p \in Proc, Step(p) PROVE calm
  <2>1. CASE Start(p) \/ Stop(p)
    BY <2>1 DEF Start, Stop
  <2>2. CASE OwnFloors(p)
    BY <2>2 DEF OwnFloors
  <2>3. CASE ScanCapture(p)
    BY <2>3 DEF ScanCapture
  <2>4. CASE UNCHANGED history
    BY <2>4 DEF history
  <2> QED
    BY <1>1, <2>1, <2>2, <2>3, <2>4
    DEF Step, ReadLenient, ReadStrict, LoadBaseline, LoadSuppressions, LoadFloors,
        ScanReview, ScanStatus, ScanMiss, Merge, TruncateLedger, FillLedger,
        TruncateSnapshot, FillSnapshot, ReadActive, ReadHealth
<1>2. ASSUME NEW i \in Id, EditSource(i) \/ Suppress(i) \/ HandEdit(i) PROVE calm
  BY <1>2 DEF EditSource, Suppress, HandEdit, history
<1>3. CASE NextDay \/ UNCHANGED vars
  BY <1>3 DEF NextDay, history, vars
<1> QED BY <1>1, <1>2, <1>3 DEF Next

LEMMA NextFloor ==
  ASSUME DebtInv, FloorInv, ~ReInit, [Next]_vars
  PROVE  FloorInv'
<1> SUFFICES ASSUME calm' PROVE FloorsKept'
  BY DEF FloorInv
<1>1. FloorsKept
  BY CalmPast DEF FloorInv
<1>2. ASSUME NEW p \in Proc, Step(p) PROVE FloorsKept'
  BY <1>1, <1>2, StartFloor, LoadFloor, ReportFloor, ScanCaptureFloor, OwnFloorsFloor,
     MergeFloor, TruncateLedgerFloor, FillLedgerFloor, TruncateSnapshotFloor,
     FillSnapshotFloor, StopFloor DEF Step
<1>3. ASSUME NEW i \in Id, EditSource(i) \/ Suppress(i) \/ HandEdit(i) PROVE FloorsKept'
  BY <1>1, <1>3, OutsideFloor, HandEditFloor
<1>4. CASE NextDay
  BY <1>1, <1>4, OutsideFloor
<1>5. CASE UNCHANGED vars
  BY <1>1, <1>5 DEF vars, FloorsKept, Alone, Floored, Held, Follows
<1> QED BY <1>2, <1>3, <1>4, <1>5 DEF Next

\* enforce_policy: where init is run on an empty ledger only, and unless
\* commands overlap or die, no-new-debt does not pass while the coverage of a
\* known card is below what it was when a developer accepted it.
THEOREM FloorsHold == ~ReInit => (Spec => []FloorHeld)
<1> SUFFICES ASSUME ~ReInit PROVE Spec => []FloorHeld
  OBVIOUS
<1>1. DebtInv /\ FloorInv /\ [Next]_vars => FloorInv'
  BY NextFloor
<1>2. FloorInv => FloorHeld
  BY DEF FloorInv, FloorsKept, Fair, FloorHeld, Reviews
<1> QED BY <1>1, <1>2, InitFloor, DebtInvariant, PTL DEF Spec

=============================================================================
