--------------------------- MODULE BaselineLedger ---------------------------
(***************************************************************************)
(* The baseline of accepted debt.  baseline init and add scan the sources  *)
(* and write two files one after the other, the ledger and the coverage    *)
(* snapshot; baseline status and the no-new-debt gate read them, and the   *)
(* suppression ledger, at several points.  Every command is a process of   *)
(* its own and no lock is taken.  Developers edit sources and ledgers.     *)
(*                                                                         *)
(* fs::write is two steps, truncation and filling; an empty file reads as  *)
(* a ledger without entries.                                               *)
(***************************************************************************)
EXTENDS CoverageMovement, Sequences

CONSTANTS
  Proc,         \* processes that may run at the same time
  Id,           \* card identities, ordered
  File,         \* files of the project
  FileOf,       \* the file of each identity
  Slug,         \* the slug of each file, the sequence of its words
  IdFront, IdBack,  \* the words of each identity before and after that slug
  Seam,         \* the evidence a seam may have
  Gone,         \* a site that is not in the sources
  NoRow, NoFloor, NoWork, NoReport,
  Never,        \* expiry of an identity that is not suppressed
  Expiry,       \* expiry dates of suppressions
  Due,          \* review dates of entries
  Flaw,         \* what may be wrong with a hand-edited entry
  MaxDay, MaxEdits, MaxCommands,   \* bounds
  ReInit,       \* whether init is run over an existing baseline
  MayStop       \* whether a command is killed or a write fails

ASSUME LedgerAssumption ==
  /\ Id \subseteq Nat
  /\ Seam \subseteq Evidence
  /\ FileOf \in [Id -> File]
  /\ Slug \in [File -> Seq(STRING)]
  /\ {IdFront, IdBack} \subseteq [Id -> Seq(STRING)]
  /\ NoFloor \notin Seam \cup Coverage
  /\ Expiry \subseteq Nat
  /\ Due \subseteq Nat
  /\ Never \notin Nat
  /\ Flaw \subseteq {"row", "expires"}
  /\ {MaxDay, MaxEdits, MaxCommands} \subseteq Nat
  /\ {ReInit, MayStop} \subseteq BOOLEAN

VARIABLES
  sources,      \* the evidence at each seam
  suppressed,   \* the suppression ledger
  today,
  ledger, snapshot,    \* the two files, as text
  pc, work, report,    \* each command
  edits, commands,     \* for the bounds
  \* history
  owned,        \* identities a developer has ever put into the ledger
  accepted,     \* the evidence an identity had when its entry was captured last
  calm          \* no command was stopped halfway and no two overlapped

files    == <<ledger, snapshot>>
history  == <<owned, accepted, calm>>
outside  == <<sources, suppressed, today>>
bounds   == <<edits, commands>>
vars     == <<sources, suppressed, today, ledger, snapshot, pc, work, report,
              edits, commands, owned, accepted, calm>>

-----------------------------------------------------------------------------
(* The two files.                                                          *)

Torn == [text |-> "torn"]    \* no valid TOML

\* owner, reason and evidence are there, or the entry has a flaw.
Row == [due : Due, copies : 1..2, flaw : Flaw \cup {"none"}]

NoRows   == [i \in Id |-> NoRow]
NoFloors == [i \in Id |-> NoFloor]

LedgerText(rows)     == [text |-> "rows", rows |-> rows]
SnapshotText(floors) == [text |-> "floors", floors |-> floors]

Rows   == [Id -> Row \cup {NoRow}]
Floors == [Id -> Coverage \cup {NoFloor}]

Ledger   == {Torn} \cup [text : {"rows"}, rows : Rows]
Snapshot == {Torn} \cup [text : {"floors"}, floors : Floors]

Listed(rows) == {i \in Id : rows[i] # NoRow}

NoError == [text |-> "none"]

\* load_ledger_entries stops at the first entry that is flawed.
StrictError(file) ==
  LET flawed == {i \in Listed(file.rows) : file.rows[i].flaw # "none"}
  IN  CASE file = Torn -> Torn
        [] file # Torn /\ flawed = {} -> NoError
        [] file # Torn /\ flawed # {} ->
             [text  |-> "flawed",
              first |-> {i \in flawed : \A j \in flawed : i <= j}]

\* Mutant: a new entry is appended and not put in the place of the old one.
MergedAppending(file, new) ==
  LET old == IF StrictError(file) = NoError THEN file.rows ELSE NoRows
  IN  [i \in Id |->
         IF new[i] = NoRow THEN old[i]
         ELSE [new[i] EXCEPT !.copies =
                 IF old[i] = NoRow THEN 1 ELSE old[i].copies + 1]]

\* merge_and_write_baseline_ledger: what does not load counts as empty, and
\* a new entry replaces the first of its identity.
Merged(file, new) ==
  LET old == IF StrictError(file) = NoError THEN file.rows ELSE NoRows
  IN  [i \in Id |->
         IF new[i] = NoRow THEN old[i]
         ELSE [new[i] EXCEPT !.copies =
                 IF old[i] = NoRow THEN 1 ELSE old[i].copies]]

-----------------------------------------------------------------------------
(* One analysis, and the gate.  w is what the command has read.            *)

Command == {"init", "add", "status", "review"}

Open(w) == {i \in Id : w.cards[i] # Gone}

ClassOf(w, i) == CardClass(w.cards[i], i \in w.unwanted, i \in w.known)

CoverageNow(w, i) == CoverageOf(w.cards[i], ClassOf(w, i))

InScope(w, i) == ~w.diff \/ FileOf[i] \in w.scanned

\* Mutant: a gap is new where lines changed, also in a scan without a diff.
NewGapsOnChanges(w) ==
  {i \in Open(w) : IsActionable(ClassOf(w, i)) /\ i \in w.changed}

NewGaps(w) ==
  {i \in Open(w) : IsActionable(ClassOf(w, i)) /\ (~w.diff \/ i \in w.changed)}

WorsenedGaps(w) ==
  {i \in Open(w) :
     /\ ClassOf(w, i) = "baseline_known"
     /\ w.floors[i] # NoFloor
     /\ IsWorsened(w.floors[i], CoverageNow(w, i))}

\* Mutant: every unmatched identity is resolved, scanned or not.
ResolvedGapsAll(w) == w.known \ Open(w)

Candidates(w) == IF w.diff THEN w.scanned ELSE File

\* An identity is a text of words with dashes between them.
Words(i) == IdFront[i] \o Slug[FileOf[i]] \o IdBack[i]

\* The text has the slug of f with a dash before it and a dash after it.
Mentions(i, f) ==
  \E n \in 2..(Len(Words(i)) - Len(Slug[f])) :
    SubSeq(Words(i), n, n + Len(Slug[f]) - 1) = Slug[f]

\* An unmatched identity is resolved when it mentions a scanned file, its own
\* or another.  No scanned file is taken for a scan of everything.
ResolvedGaps(w) ==
  {i \in w.known \ Open(w) :
     Candidates(w) = {} \/ \E f \in Candidates(w) : Mentions(i, f)}

\* Mutant: movement of known cards is reported and not enforced.
PassesWithoutFloor(w) == NewGaps(w) = {}

\* enforce_policy under no-new-debt.
Passes(w) == NewGaps(w) = {} /\ WorsenedGaps(w) = {}

-----------------------------------------------------------------------------
(* baseline status.                                                        *)

\* classify_entry: the first that matches.
EntryBucket(w, i, floors) ==
  LET row == w.lenient[i]
  IN  IF row.copies > 1                  THEN "duplicate_or_conflicting_entry"
      ELSE IF row.flaw = "row"           THEN "identity_unmatched"
      ELSE IF i \in w.active             THEN "suppression_overlap"
      ELSE IF row.due < w.today          THEN "review_due"
      ELSE IF w.cards[i] = Gone          THEN "resolved"
      ELSE IF floors = Torn              THEN "snapshot_missing_or_invalid"
      ELSE IF floors.floors[i] = NoFloor THEN "snapshot_missing_or_invalid"
      ELSE ActiveBucket(floors.floors[i], CoverageNow(w, i))

Unbaselined(w) ==
  {i \in Open(w) : IsActionable(ClassOf(w, i)) /\ w.lenient[i] = NoRow}

FullyHealthy(w, floors) ==
  /\ Unbaselined(w) = {}
  /\ \A i \in Listed(w.lenient) : Healthy(EntryBucket(w, i, floors))

-----------------------------------------------------------------------------
(* Commands.                                                               *)

Pc == {"idle", "lenient", "strict", "baseline", "suppressions", "floors",
       "scan", "own_floors", "merge", "truncate_ledger", "fill_ledger",
       "truncate_snapshot", "fill_snapshot", "active", "health"}

\* Where a command that writes has chosen what it will write.
Writing == {"own_floors", "merge", "truncate_ledger", "fill_ledger",
            "truncate_snapshot", "fill_snapshot"}

NoCards == [i \in Id |-> Gone]

NewWork(cmd) ==
  [cmd |-> cmd, id |-> 0, due |-> 0, today |-> today, still |-> TRUE,
   diff |-> FALSE, scanned |-> {}, changed |-> {},
   lenient |-> NoRows, error |-> NoError, ran |-> FALSE,
   known |-> {}, unwanted |-> {}, active |-> {}, floors |-> NoFloors,
   cards |-> NoCards, rows |-> NoRows, write |-> NoFloors]

\* What a command may be asked to do.
InitRequest(d)    == [NewWork("init") EXCEPT !.due = d]
AddRequest(i, d)  == [NewWork("add") EXCEPT !.id = i, !.due = d]
DiffRequest(f, c) ==
  [NewWork("review") EXCEPT !.diff = TRUE, !.scanned = f,
                            !.changed = {i \in c : FileOf[i] \in f}]

Request ==
  {InitRequest(d) : d \in Due} \cup {AddRequest(i, d) : i \in Id, d \in Due}
    \cup {NewWork("status"), NewWork("review")}
    \cup {DiffRequest(f, c) : f \in SUBSET File, c \in SUBSET Id}

Work ==
  [cmd : Command, id : Nat, due : Nat, today : Nat, still : BOOLEAN,
   diff : BOOLEAN, scanned : SUBSET File, changed : SUBSET Id,
   lenient : Rows, error : {NoError, Torn} \cup [text : {"flawed"}, first : SUBSET Id],
   ran : BOOLEAN, known : SUBSET Id, unwanted : SUBSET Id, active : SUBSET Id,
   floors : Floors, cards : [Id -> Seam \cup {Gone}], rows : Rows,
   write : Floors]

Report ==
  [kind : {"review"}, passed : BOOLEAN, debt : SUBSET Id, fallen : SUBSET Id,
   unreached : SUBSET Id, scanned : SUBSET File, resolvedOpen : SUBSET Id]
  \cup
  [kind : {"status"}, ran : BOOLEAN, still : BOOLEAN, healthy : BOOLEAN,
   passes : BOOLEAN, flagged : BOOLEAN, pruned : SUBSET Id, open : SUBSET Id,
   lowered : SUBSET Id]

ASSUME Sentinels ==
  /\ NoWork \notin Work
  /\ NoReport \notin Report
  /\ NoRow \notin Row
  /\ Gone \notin Seam

Goto(p, label) == pc' = [pc EXCEPT ![p] = label]

Leave(p, result) ==
  /\ Goto(p, "idle")
  /\ work' = [work EXCEPT ![p] = NoWork]
  /\ report' = [report EXCEPT ![p] = result]

Abort(p) == Leave(p, NoReport)

\* Somebody else's change: what p has seen may no longer be so.
Disturbed(except) ==
  [q \in Proc |->
     IF q = except \/ work[q] = NoWork THEN work[q]
     ELSE [work[q] EXCEPT !.still = FALSE]]

Start(p) ==
  /\ pc[p] = "idle"
  /\ commands < MaxCommands
  /\ \E w \in Request :
       /\ w.cmd = "init" /\ ~ReInit => ledger = LedgerText(NoRows)
       /\ work' = [work EXCEPT ![p] = w]
       /\ Goto(p, IF w.cmd = "status" THEN "lenient" ELSE "baseline")
  /\ report' = [report EXCEPT ![p] = NoReport]
  /\ commands' = commands + 1
  /\ calm' = (calm /\ \A q \in Proc : pc[q] = "idle")
  /\ UNCHANGED <<outside, files, edits, owned, accepted>>

-----------------------------------------------------------------------------
(* baseline status reads the ledger twice before it scans.                 *)

ReadLenient(p) ==
  /\ pc[p] = "lenient"
  /\ IF ledger = Torn
     THEN Abort(p)
     ELSE /\ work' = [work EXCEPT ![p].lenient = ledger.rows]
          /\ Goto(p, "strict")
          /\ UNCHANGED report
  /\ UNCHANGED <<outside, files, bounds, history>>

ReadStrict(p) ==
  /\ pc[p] = "strict"
  /\ work' = [work EXCEPT ![p].error = StrictError(ledger)]
  /\ Goto(p, "baseline")
  /\ UNCHANGED <<outside, files, report, bounds, history>>

-----------------------------------------------------------------------------
(* An analysis: PolicyState::load reads three files, then the sources are  *)
(* scanned.                                                                *)

LoadBaseline(p) ==
  LET err == StrictError(ledger)
      w   == work[p]
  IN  /\ pc[p] = "baseline"
      /\ \/ /\ err = NoError
            /\ work' = [work EXCEPT ![p].known = Listed(ledger.rows)]
            /\ Goto(p, "suppressions")
            /\ UNCHANGED report
         \/ \* the failure that baseline status knows already
            /\ err # NoError
            /\ w.cmd = "status" /\ w.error = err
            /\ Goto(p, "active")
            /\ UNCHANGED <<work, report>>
         \/ /\ err # NoError
            /\ ~(w.cmd = "status" /\ w.error = err)
            /\ Abort(p)
      /\ UNCHANGED <<outside, files, bounds, history>>

LoadSuppressions(p) ==
  /\ pc[p] = "suppressions"
  /\ work' = [work EXCEPT ![p].unwanted = {i \in Id : suppressed[i] # Never}]
  /\ Goto(p, "floors")
  /\ UNCHANGED <<outside, files, report, bounds, history>>

LoadFloors(p) ==
  /\ pc[p] = "floors"
  /\ IF snapshot = Torn
     THEN Abort(p)
     ELSE /\ work' = [work EXCEPT ![p].floors = snapshot.floors]
          /\ Goto(p, "scan")
          /\ UNCHANGED report
  /\ UNCHANGED <<outside, files, bounds, history>>

Scanned(w) ==
  [w EXCEPT !.ran = TRUE,
            !.cards = [i \in Id |-> IF InScope(w, i) THEN sources[i] ELSE Gone]]

\* What init captures: open actionable cards, which no known card is.
Captured(w) ==
  IF w.cmd = "add" THEN {w.id} \cap Open(w)
  ELSE {i \in Open(w) : IsActionable(ClassOf(w, i))}

Capture(w) ==
  [w EXCEPT
     !.rows  = [i \in Id |->
                  IF i \in Captured(w)
                  THEN [due |-> w.due, copies |-> 1, flaw |-> "none"]
                  ELSE NoRow],
     !.write = [i \in Id |->
                  IF i \in Captured(w) THEN CoverageNow(w, i) ELSE NoFloor]]

\* Open gaps that nobody has accepted or suppressed.
Debt(w) ==
  {i \in Open(w) : /\ IsActionable(ClassWithReceipts(w.cards[i]))
                   /\ i \notin owned \cup w.unwanted
                   /\ ~w.diff \/ i \in w.changed}

\* Known cards whose evidence, as the rule what compares it, fell below what
\* was accepted.
Fallen(w, what(_, _)) ==
  {i \in Open(w) : /\ ClassOf(w, i) = "baseline_known"
                   /\ accepted[i] # NoFloor
                   /\ what(accepted[i], w.cards[i])}

CoverageFell(old, new) ==
  IsWorsened(CoverageOf(old, "baseline_known"), CoverageOf(new, "baseline_known"))

ReachFell(old, new) == old.reach = "owner_reached" /\ new.reach = "unreached"

Review(w) ==
  [kind |-> "review", passed |-> Passes(w), debt |-> Debt(w),
   fallen |-> Fallen(w, CoverageFell), unreached |-> Fallen(w, ReachFell),
   scanned |-> Candidates(w),
   resolvedOpen |-> {i \in ResolvedGaps(w) : sources[i] # Gone}]

ScanReview(p) ==
  /\ pc[p] = "scan" /\ work[p].cmd = "review"
  /\ Leave(p, Review(Scanned(work[p])))
  /\ UNCHANGED <<outside, files, bounds, history>>

ScanStatus(p) ==
  /\ pc[p] = "scan" /\ work[p].cmd = "status"
  /\ work' = [work EXCEPT ![p] = Scanned(@)]
  /\ Goto(p, "active")
  /\ UNCHANGED <<outside, files, report, bounds, history>>

\* init, and add of a card that the scan finds.
ScanCapture(p) ==
  LET w == Scanned(work[p])
  IN  /\ pc[p] = "scan" /\ w.cmd \in {"init", "add"}
      /\ w.cmd = "add" => w.id \in Open(w)
      /\ work' = [work EXCEPT ![p] = Capture(w)]
      /\ Goto(p, IF w.cmd = "add" THEN "own_floors" ELSE "merge")
      /\ owned' = owned \cup Captured(w)
      /\ accepted' = [i \in Id |-> IF i \in Captured(w) THEN w.cards[i]
                                   ELSE accepted[i]]
      /\ UNCHANGED <<outside, files, report, bounds, calm>>

ScanMiss(p) ==
  /\ pc[p] = "scan" /\ work[p].cmd = "add"
  /\ sources[work[p].id] = Gone
  /\ Abort(p)
  /\ UNCHANGED <<outside, files, bounds, history>>

-----------------------------------------------------------------------------
(* Writing the ledger, then the snapshot.                                  *)

\* baseline add keeps the other floors.
OwnFloors(p) ==
  /\ pc[p] = "own_floors"
  /\ IF snapshot = Torn
     THEN /\ Abort(p)
          /\ calm' = FALSE
     ELSE /\ work' = [work EXCEPT ![p].write =
                        [i \in Id |-> IF @[i] = NoFloor THEN snapshot.floors[i]
                                      ELSE @[i]]]
          /\ Goto(p, "merge")
          /\ UNCHANGED <<report, calm>>
  /\ UNCHANGED <<outside, files, bounds, owned, accepted>>

Merge(p) ==
  /\ pc[p] = "merge"
  /\ work' = [work EXCEPT ![p].rows = Merged(ledger, @)]
  /\ Goto(p, "truncate_ledger")
  /\ UNCHANGED <<outside, files, report, bounds, history>>

TruncateLedger(p) ==
  /\ pc[p] = "truncate_ledger"
  /\ ledger' = LedgerText(NoRows)
  /\ work' = Disturbed(p)
  /\ Goto(p, "fill_ledger")
  /\ UNCHANGED <<outside, snapshot, report, bounds, history>>

\* The file has the text, or a mixture where somebody else filled it first.
Filled(file, empty, text) == IF file = empty THEN {text} ELSE {text, Torn}

FillLedger(p) ==
  /\ pc[p] = "fill_ledger"
  /\ ledger' \in Filled(ledger, LedgerText(NoRows), LedgerText(work[p].rows))
  /\ work' = Disturbed(p)
  /\ Goto(p, "truncate_snapshot")
  /\ UNCHANGED <<outside, snapshot, report, bounds, history>>

TruncateSnapshot(p) ==
  /\ pc[p] = "truncate_snapshot"
  /\ snapshot' = SnapshotText(NoFloors)
  /\ work' = Disturbed(p)
  /\ Goto(p, "fill_snapshot")
  /\ UNCHANGED <<outside, ledger, report, bounds, history>>

FillSnapshot(p) ==
  /\ pc[p] = "fill_snapshot"
  /\ snapshot' \in Filled(snapshot, SnapshotText(NoFloors),
                          SnapshotText(work[p].write))
  /\ work' = [Disturbed(p) EXCEPT ![p] = NoWork]
  /\ Goto(p, "idle")
  /\ UNCHANGED <<outside, ledger, report, bounds, history>>

-----------------------------------------------------------------------------
(* baseline status reports.                                                *)

ReadActive(p) ==
  /\ pc[p] = "active"
  /\ work' = [work EXCEPT ![p].active =
                {i \in Id : suppressed[i] # Never /\ suppressed[i] >= work[p].today}]
  /\ Goto(p, "health")
  /\ UNCHANGED <<outside, files, report, bounds, history>>

Status(w) ==
  [kind    |-> "status", ran |-> w.ran, still |-> w.still,
   healthy |-> FullyHealthy(w, snapshot),
   passes  |-> Passes(w),
   flagged |-> \E i \in Listed(w.lenient) : EntryBucket(w, i, snapshot) \in
                 {"identity_unmatched", "duplicate_or_conflicting_entry"},
   pruned  |-> {i \in Listed(w.lenient) :
                  PlanAction(EntryBucket(w, i, snapshot), w.ran) = "mark_resolved"},
   open    |-> Open(w),
   lowered |-> {i \in Listed(w.lenient) \cap Open(w) :
                  /\ AutoEligible(PlanAction(EntryBucket(w, i, snapshot), w.ran))
                  /\ snapshot # Torn
                  /\ snapshot.floors[i] # NoFloor
                  /\ IsWorsened(snapshot.floors[i], CoverageNow(w, i))}]

ReadHealth(p) ==
  /\ pc[p] = "health"
  /\ Leave(p, Status(work[p]))
  /\ UNCHANGED <<outside, files, bounds, history>>

-----------------------------------------------------------------------------
(* A command is killed, or a write fails.                                  *)

Stop(p) ==
  /\ MayStop
  /\ pc[p] # "idle"
  /\ Goto(p, "idle")
  /\ report' = [report EXCEPT ![p] = NoReport]
  /\ ledger' \in IF pc[p] = "fill_ledger" THEN {ledger, Torn} ELSE {ledger}
  /\ snapshot' \in IF pc[p] = "fill_snapshot" THEN {snapshot, Torn} ELSE {snapshot}
  /\ work' = [(IF UNCHANGED files THEN work ELSE Disturbed(p)) EXCEPT ![p] = NoWork]
  /\ calm' = (calm /\ pc[p] \notin Writing)
  /\ UNCHANGED <<outside, bounds, owned, accepted>>

-----------------------------------------------------------------------------
(* Developers.                                                             *)

EditSource(i) ==
  /\ edits < MaxEdits
  /\ \E e \in (Seam \cup {Gone}) \ {sources[i]} :
       sources' = [sources EXCEPT ![i] = e]
  /\ work' = Disturbed(NoWork)
  /\ edits' = edits + 1
  /\ UNCHANGED <<suppressed, today, files, pc, report, commands, history>>

Suppress(i) ==
  /\ edits < MaxEdits
  /\ \E d \in (Expiry \cup {Never}) \ {suppressed[i]} :
       suppressed' = [suppressed EXCEPT ![i] = d]
  /\ work' = Disturbed(NoWork)
  /\ edits' = edits + 1
  /\ UNCHANGED <<sources, today, files, pc, report, commands, history>>

\* An entry is written, damaged, doubled or deleted by hand.
HandEdit(i) ==
  /\ edits < MaxEdits
  /\ \A p \in Proc : pc[p] = "idle"
  /\ ledger # Torn
  /\ \E row \in (Row \cup {NoRow}) \ {ledger.rows[i]} :
       /\ ledger' = LedgerText([ledger.rows EXCEPT ![i] = row])
       /\ owned' = IF row = NoRow THEN owned ELSE owned \cup {i}
       /\ accepted' = IF NoRow \in {row, ledger.rows[i]}
                      THEN [accepted EXCEPT ![i] = NoFloor]
                      ELSE accepted
  /\ edits' = edits + 1
  /\ UNCHANGED <<outside, snapshot, pc, work, report, commands, calm>>

NextDay ==
  /\ today < MaxDay
  /\ today' = today + 1
  /\ UNCHANGED <<sources, suppressed, files, pc, work, report, bounds, history>>

-----------------------------------------------------------------------------

Init ==
  /\ sources \in [Id -> Seam \cup {Gone}]
  /\ suppressed = [i \in Id |-> Never]
  /\ today = 0
  /\ ledger = LedgerText(NoRows)
  /\ snapshot = SnapshotText(NoFloors)
  /\ pc = [p \in Proc |-> "idle"]
  /\ work = [p \in Proc |-> NoWork]
  /\ report = [p \in Proc |-> NoReport]
  /\ edits = 0
  /\ commands = 0
  /\ owned = {}
  /\ accepted = NoFloors
  /\ calm = TRUE

Step(p) ==
  \/ Start(p)
  \/ ReadLenient(p) \/ ReadStrict(p)
  \/ LoadBaseline(p) \/ LoadSuppressions(p) \/ LoadFloors(p)
  \/ ScanReview(p) \/ ScanStatus(p) \/ ScanCapture(p) \/ ScanMiss(p)
  \/ OwnFloors(p) \/ Merge(p)
  \/ TruncateLedger(p) \/ FillLedger(p)
  \/ TruncateSnapshot(p) \/ FillSnapshot(p)
  \/ ReadActive(p) \/ ReadHealth(p)
  \/ Stop(p)

Next ==
  \/ \E p \in Proc : Step(p)
  \/ \E i \in Id : EditSource(i) \/ Suppress(i) \/ HandEdit(i)
  \/ NextDay

Spec == Init /\ [][Next]_vars

-----------------------------------------------------------------------------
(* Properties.                                                             *)

\* The variables have the types of the code's.
TypeOK ==
  /\ sources \in [Id -> Seam \cup {Gone}]
  /\ suppressed \in [Id -> Expiry \cup {Never}]
  /\ today \in 0..MaxDay
  /\ ledger \in Ledger
  /\ snapshot \in Snapshot
  /\ pc \in [Proc -> Pc]
  /\ work \in [Proc -> Work \cup {NoWork}]
  /\ \A p \in Proc : (work[p] = NoWork) <=> (pc[p] = "idle")
  /\ report \in [Proc -> Report \cup {NoReport}]
  /\ edits \in Nat /\ commands \in Nat
  /\ owned \subseteq Id
  /\ accepted \in [Id -> Seam \cup {NoFloor}]
  /\ calm \in BOOLEAN

Reviews == {p \in Proc : report[p] # NoReport /\ report[p].kind = "review"}
Statuses == {p \in Proc : report[p] # NoReport /\ report[p].kind = "status"}

\* Debt does not slip in: where no-new-debt passes, every open gap in its
\* scope has been accepted by a developer or is suppressed, whatever commands
\* write the ledger meanwhile and wherever they are stopped.
NoDebtSlips == \A p \in Reviews : report[p].passed => report[p].debt = {}

\* No floor is lost: unless commands overlap or die halfway, no-new-debt does
\* not pass while a known card's coverage is below what it was when a
\* developer last accepted it.
FloorHeld ==
  calm => \A p \in Reviews : report[p].passed => report[p].fallen = {}

\* The same of the evidence itself.  It fails: see ReachLevel.
ReachHeld ==
  calm => \A p \in Reviews : report[p].passed => report[p].unreached = {}

\* baseline status and the gate, two readings of the same files, agree: a
\* report that nothing needs attention comes from a scan that passes.
HealthyMeansPass ==
  \A p \in Statuses :
    report[p].ran /\ report[p].still /\ report[p].healthy => report[p].passes

\* The refresh plan prunes an entry only if a scan ran that did not find it.
PrunedIsGone ==
  \A p \in Statuses :
    report[p].pruned # {} => /\ report[p].ran
                             /\ report[p].pruned \cap report[p].open = {}

\* What the plan calls safe to automate lowers no floor.
AutomationKeepsFloors == \A p \in Statuses : report[p].lowered = {}

\* A review that looked into some file counts an identity as resolved though
\* its site is there only by mistaking files: it did not look into the file of
\* the identity, which mentions another one that it looked into.
ScannedResolved ==
  \A p \in Reviews : report[p].scanned # {} =>
    \A i \in report[p].resolvedOpen :
      /\ FileOf[i] \notin report[p].scanned
      /\ \E f \in report[p].scanned : Mentions(i, f)

\* No identity mentions a file that is not its own.
SlugsApart == \A i \in Id, f \in File : Mentions(i, f) => f = FileOf[i]

\* What summary.rs:111 says: a review that looked into some file counts an
\* identity as resolved only when its site is gone.  It fails where slugs are
\* not apart.
ScannedIsGone ==
  \A p \in Reviews : report[p].scanned # {} => report[p].resolvedOpen = {}

\* The same of every review.  It also fails for a diff without Rust files.
ResolvedIsGone == \A p \in Reviews : report[p].resolvedOpen = {}

\* baseline status blames an entry when the ledger keeps its scan from
\* running, unless the ledger changes under it.  It fails for an entry whose
\* only flaw is the date in "expires".
DegradedIsFlagged ==
  calm => \A p \in Statuses : ~report[p].ran => report[p].flagged

=============================================================================
