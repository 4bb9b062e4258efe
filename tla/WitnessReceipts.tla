--------------------------- MODULE WitnessReceipts ---------------------------
(***************************************************************************)
(* Witness receipts: `confirm` (cli/src/execute/confirm.rs) runs a witness *)
(* and saves what it observed; a later review (core/src/analysis/receipts) *)
(* imports the saved receipts that still apply to the code it reviews, and *)
(* first-pr audits them once more in the same command.                     *)
(*                                                                         *)
(* Every process is a command of its own.  They share nothing but the      *)
(* working tree, git and the files under .unsafe-review/receipts, which    *)
(* they and the developer read and write with no lock.                     *)
(*                                                                         *)
(* The modelled cards are not reached by a related test: reach receipts    *)
(* change nothing for the others.                                          *)
(***************************************************************************)
EXTENDS Naturals, Sequences

CONSTANTS
  Proc,           \* commands that may run at once
  Card,           \* ids of review cards
  Subject,        \* digests of the reviewed subject
  NoSubject,      \* the card is not in the tree
  Commit,         \* revisions of the repository
  NoHead,         \* git gave no answer
  Command,        \* parsed invocations
  NoCommand,      \* a route without a command, a receipt without an invocation
  Tool,           \* names of witness tools
  Routes,         \* Routes[card]: its witness routes, best first
  Review,         \* Review[tree][card]: the subject a scan of the tree finds
  NoDraft,        \* no confirm is in progress
  NoBundle,       \* no review is in progress
  OutFiles,       \* file names a developer gives to --out or to an editor
  MaxDay,         \* bound: the last day of a behaviour
  GitMayFail,     \* TRUE lets a git probe time out
  RootInSubdir,   \* TRUE: --root lies below the toplevel of the repository
  MayCrash,       \* TRUE lets a command be killed
  TreeHeldStill   \* TRUE: the developer leaves the tree alone while one runs

HumanReview  == "human-deep-review"
ExternalTest == "external-integration-test"

Strength == {"configured", "ran", "reviewed", "site_reached"}
Scope    == {"diff", "repo"}
Day      == 0 .. MaxDay

\* The sources outside of .unsafe-review: a commit, or a commit with edits.
Tree == [head : Commit, dirty : BOOLEAN]

Route == [tool : Tool, command : Command \cup {NoCommand}]

ASSUME ReceiptAssumption ==
  /\ {HumanReview, ExternalTest} \subseteq Tool
  /\ NoSubject \notin Subject
  /\ NoHead \notin Commit
  /\ NoCommand \notin Command
  /\ Routes \in [Card -> Seq(Route)]
  /\ Review \in [Tree -> [Card -> Subject \cup {NoSubject}]]
  /\ MaxDay \in Nat
  /\ {GitMayFail, RootInSubdir, MayCrash, TreeHeldStill} \subseteq BOOLEAN

VARIABLES
  tree,       \* what is on disk
  today,
  receipts,   \* the readable receipt files
  damaged,    \* the files that do not parse: being written, or cut short
  pc,
  draft,      \* the receipt a confirm has put together so far
  bundle      \* what a review has read and concluded so far

vars == <<tree, today, receipts, damaged, pc, draft, bundle>>

-----------------------------------------------------------------------------
(* Receipts.                                                               *)

File == (Tool \X Card) \cup OutFiles

\* What git says of the tree.
Facts == [head : Commit \cup {NoHead}, dirty : {"clean", "dirty", "unknown"}]

\* SubjectBinding: what a receipt records of the reviewed subject.
Binding == [subject    : Subject \cup {NoSubject},
            invocation : Command \cup {NoCommand},
            scope      : Scope,
            facts      : Facts,
            complete   : BOOLEAN]

\* A saved WitnessReceipt; `bound` is FALSE when it has no SubjectBinding.
\* ranOn is history: the tree the witness really ran on, or was reviewed on.
Receipt == [file     : File,
            card     : Card,
            tool     : Tool,
            strength : Strength,
            expires  : Day,
            bound    : BOOLEAN,
            binding  : Binding,
            ranOn    : Tree]

NoFacts == [head |-> NoHead, dirty |-> "unknown"]

\* imports_witness_evidence, imports_reach_evidence.
Kind(r) ==
  CASE r.tool = ExternalTest /\ r.strength = "site_reached"         -> "reach"
    [] r.tool # ExternalTest /\ r.strength \in {"ran", "site_reached"} -> "witness"
    [] r.tool = HumanReview /\ r.strength = "reviewed"              -> "witness"
    [] OTHER                                                        -> "none"

\* select_route, first_routed_command: the first route that carries a command
\* is the one confirm executes and the one an import expects to have been
\* executed.  The set is empty for a card without one.
FirstRoute(card) ==
  LET commanded == {i \in DOMAIN Routes[card] : Routes[card][i].command # NoCommand}
  IN  {Routes[card][i] : i \in {i \in commanded : \A j \in commanded : i <= j}}

RoutedCommand(card) == {route.command : route \in FirstRoute(card)}

RouteTools(card) == {Routes[card][i].tool : i \in DOMAIN Routes[card]}

\* current_binding_for_parts, minus what only a recording has.
Current(card, at, scope, facts) ==
  [subject    |-> Review[at][card],
   invocation |-> RoutedCommand(card),
   scope      |-> scope,
   facts      |-> facts]

\* skips_invocation_check: reviews and external tests execute no routed command.
SkipsInvocation(r) ==
  \/ r.tool = HumanReview /\ r.strength = "reviewed"
  \/ Kind(r) = "reach"

\* Mutant: two unknown revisions are equal.
AppliesToUnknownHead(r, current) ==
  /\ r.bound
  /\ r.binding.subject = current.subject
  /\ r.binding.scope = current.scope
  /\ SkipsInvocation(r) \/ r.binding.invocation \in current.invocation
  /\ r.binding.facts.head = current.facts.head
  /\ r.binding.facts.dirty = "clean"
  /\ current.facts.dirty = "clean"
  /\ r.binding.complete

\* applicability_for_receipt answers Applicable: the recorded observation is
\* about the current subject.  Stale and Unknown differ in wording only.
Applies(r, current) ==
  /\ r.bound
  /\ r.binding.subject = current.subject
  /\ r.binding.scope = current.scope
  /\ SkipsInvocation(r) \/ r.binding.invocation \in current.invocation
  /\ r.binding.facts.head = current.facts.head
  /\ current.facts.head # NoHead
  /\ r.binding.facts.dirty = "clean"
  /\ current.facts.dirty = "clean"
  /\ r.binding.complete

\* The two receipts claim the same evidence slot of the same card.
SameSlot(r, s) ==
  r # s /\ r.card = s.card /\ Kind(r) = Kind(s) /\ Kind(r) # "none"

\* Two files import the same kind of evidence for one card.
Clash(rs) == \E r \in rs, s \in rs : SameSlot(r, s)

Unexpired(rs, day) == {r \in rs : r.expires >= day}

\* ReceiptIndex::load succeeds: an expired receipt is skipped before anything
\* is looked up, an unreadable file or a duplicate fails the whole analysis.
Loads == damaged = {} /\ ~Clash(Unexpired(receipts, today))

\* validate_receipts succeeds.
Validates == damaged = {} /\ ~Clash(receipts)

\* What witness_evidence_for and reach_evidence_for return for the cards of a
\* scanned tree.
Imported(index, at, scope, facts) ==
  {r \in index :
     /\ Review[at][r.card] # NoSubject
     /\ Kind(r) = "witness" => r.tool \in RouteTools(r.card)
     /\ Applies(r, Current(r.card, at, scope, facts))}

\* Mutant: the audit marks expired receipts too.
AuditedOfAnyAge(saved, day, at, scope, facts) ==
  {r \in Imported(saved, at, scope, facts) :
     /\ Kind(r) # "none"
     /\ ~\E s \in saved : SameSlot(r, s)}

\* The receipts audit_receipts marks as importing evidence.
Audited(saved, day, at, scope, facts) ==
  {r \in Imported(saved, at, scope, facts) :
     /\ Kind(r) # "none"
     /\ r.expires >= day
     /\ ~\E s \in saved : SameSlot(r, s)}

-----------------------------------------------------------------------------

ConfirmPc == {"run", "probeHead", "probeDirty", "create", "write"}

ReviewPc == {"head", "dirty", "scan", "auditScan", "auditRead", "auditHead",
             "auditDirty", "done"}

\* What a review holds: the loaded index, the facts it probed, the tree it
\* scanned and the evidence it put on the cards; then the audit's own reading
\* of the same things.
Bundle == [scope    : Scope,
           index    : SUBSET Receipt,
           facts    : Facts,
           at       : Tree,
           imported : SUBSET Receipt,
           saved    : SUBSET Receipt,
           day      : Day,
           audited  : SUBSET Receipt]

\* Every variable has its type, and a file holds one receipt or none.
TypeOK ==
  /\ tree \in Tree
  /\ today \in Day
  /\ receipts \in SUBSET Receipt
  /\ damaged \in SUBSET File
  /\ pc \in [Proc -> {"idle"} \cup ConfirmPc \cup ReviewPc]
  /\ draft \in [Proc -> Receipt \cup {NoDraft}]
  /\ bundle \in [Proc -> Bundle \cup {NoBundle}]
  /\ \A p \in Proc :
       /\ pc[p] \in ConfirmPc => draft[p] \in Receipt
       /\ pc[p] \notin ConfirmPc => draft[p] = NoDraft
       /\ pc[p] \in ReviewPc => bundle[p] \in Bundle
       /\ pc[p] \notin ReviewPc => bundle[p] = NoBundle
  /\ \A r \in receipts : r.file \notin damaged
  /\ \A r \in receipts, s \in receipts : r.file = s.file => r = s

Init ==
  /\ tree \in Tree
  /\ today = 0
  /\ receipts = {}
  /\ damaged = {}
  /\ pc = [p \in Proc |-> "idle"]
  /\ draft = [p \in Proc |-> NoDraft]
  /\ bundle = [p \in Proc |-> NoBundle]

Quiet == \A p \in Proc : pc[p] = "idle"

Goto(p, label) == pc' = [pc EXCEPT ![p] = label]

\* The command ends, whatever it had in memory.
Exit(p) ==
  /\ Goto(p, "idle")
  /\ draft' = [draft EXCEPT ![p] = NoDraft]
  /\ bundle' = [bundle EXCEPT ![p] = NoBundle]

Without(file) == {r \in receipts : r.file # file}

-----------------------------------------------------------------------------
(* The developer and the clock.                                            *)

\* Edit, commit, check out, stash: the tree becomes another one.
ChangeTree ==
  /\ TreeHeldStill => Quiet
  /\ tree' \in Tree \ {tree}
  /\ UNCHANGED <<today, receipts, damaged, pc, draft, bundle>>

NextDay ==
  /\ TreeHeldStill => Quiet
  /\ today < MaxDay
  /\ today' = today + 1
  /\ UNCHANGED <<tree, receipts, damaged, pc, draft, bundle>>

\* validate_strength_for_tool, for the tools modelled.
ValidStrength(tool, strength) ==
  /\ strength = "reviewed" => tool = HumanReview
  /\ tool = ExternalTest => strength = "site_reached"

BindingNow(card, scope) ==
  [subject    |-> Review[tree][card],
   invocation |-> NoCommand,
   scope      |-> scope,
   facts      |-> [head  |-> tree.head,
                   dirty |-> IF tree.dirty THEN "dirty" ELSE "clean"],
   complete   |-> TRUE]

Unbound == [subject |-> NoSubject, invocation |-> NoCommand, scope |-> "diff",
            facts |-> NoFacts, complete |-> FALSE]

\* A receipt that was not executed by confirm: from `receipt import` or
\* `receipt template`, which bind no subject, or written by a reviewer who
\* binds the present tree.
Author ==
  /\ Quiet
  /\ \E file \in OutFiles, card \in Card, tool \in Tool, strength \in Strength,
        expires \in Day, scope \in Scope, bound \in BOOLEAN :
       /\ ValidStrength(tool, strength)
       /\ bound => tool \in {HumanReview, ExternalTest}
       /\ receipts' = Without(file) \cup
            {[file |-> file, card |-> card, tool |-> tool,
              strength |-> strength, expires |-> expires, bound |-> bound,
              binding |-> IF bound THEN BindingNow(card, scope) ELSE Unbound,
              ranOn |-> tree]}
       /\ damaged' = damaged \ {file}
  /\ UNCHANGED <<tree, today, pc, draft, bundle>>

\* The developer removes a receipt file, the only way out of a store that does
\* not load.
Remove ==
  /\ Quiet
  /\ \E file \in File :
       /\ file \in damaged \/ Without(file) # receipts
       /\ receipts' = Without(file)
       /\ damaged' = damaged \ {file}
  /\ UNCHANGED <<tree, today, pc, draft, bundle>>

-----------------------------------------------------------------------------
(* confirm --allow-heavy.                                                  *)

\* Steps of a confirm that write no file.
ConfirmStep(p, from) ==
  /\ pc[p] = from
  /\ UNCHANGED <<tree, today, receipts, damaged, bundle>>

\* resolve_card analyzes the tree, receipts included, so a store that does not
\* load stops it; then the routed command, or the one given by --command.
Resolve(p) ==
  /\ ConfirmStep(p, "idle")
  /\ Loads
  /\ \E card \in Card, scope \in Scope, command \in Command :
     \E route \in FirstRoute(card) :
       /\ Review[tree][card] # NoSubject
       /\ draft' = [draft EXCEPT ![p] =
            [file     |-> <<route.tool, card>>,
             card     |-> card,
             tool     |-> route.tool,
             strength |-> "ran",
             expires  |-> today,
             bound    |-> TRUE,
             binding  |-> [subject    |-> Review[tree][card],
                           invocation |-> command,
                           scope      |-> scope,
                           facts      |-> NoFacts,
                           complete   |-> TRUE],
             ranOn    |-> tree]]
  /\ Goto(p, "run")

\* execute_with_timeout: the child reads the tree there is now.  A run that
\* times out or cannot be spawned leaves no receipt.
Run(p) ==
  /\ ConfirmStep(p, "run")
  /\ \/ /\ draft' = [draft EXCEPT ![p].ranOn = tree]
        /\ Goto(p, "probeHead")
     \/ /\ draft' = [draft EXCEPT ![p] = NoDraft]
        /\ Goto(p, "idle")

HeadNow == {tree.head} \cup (IF GitMayFail THEN {NoHead} ELSE {})

\* What git status answers about a tree with or without changes.
Status(changed) ==
  {IF changed THEN "dirty" ELSE "clean"}
    \cup (IF GitMayFail THEN {"unknown"} ELSE {})

\* worktree_dirty, asked in the root: the receipt store is excluded.
RootDirty == Status(tree.dirty)

\* Mutant: no store is excluded.
ToplevelDirtyByReceipts ==
  Status(tree.dirty \/ receipts # {} \/ damaged # {})

\* worktree_dirty, asked in the toplevel: the pathspec excludes the store that
\* lies there, and no other.  The store is not ignored by git.
ToplevelDirty ==
  Status(tree.dirty \/ (RootInSubdir /\ (receipts # {} \/ damaged # {})))

\* After the run: the expiry date is fixed and git is asked for HEAD ...
ProbeHead(p) ==
  /\ ConfirmStep(p, "probeHead")
  /\ \E head \in HeadNow, expires \in Day :
       draft' = [draft EXCEPT ![p].expires = expires,
                              ![p].binding.facts.head = head]
  /\ Goto(p, "probeDirty")

\* ... and then for the state of the tree.
ProbeDirty(p) ==
  /\ ConfirmStep(p, "probeDirty")
  /\ \E dirty \in RootDirty :
       draft' = [draft EXCEPT ![p].binding.facts.dirty = dirty]
  /\ Goto(p, "create")

\* Mutant: the name depends on the tool only.
DefaultFileOfTool(r) == <<r.tool, CHOOSE card \in Card : TRUE>>

\* Mutant: every day has a file of its own.
DefaultFileOfDay(r) == <<r.tool, r.card, r.expires>>

\* receipt_output_path without --out.
DefaultFile(r) == <<r.tool, r.card>>

\* The output classifies as evidence, or nothing is written; fs::write then
\* truncates the file before it has any content to show.
Create(p) ==
  /\ pc[p] = "create"
  /\ \/ /\ Exit(p)
        /\ UNCHANGED <<receipts, damaged>>
     \/ \E file \in {DefaultFile(draft[p])} \cup OutFiles :
          /\ draft' = [draft EXCEPT ![p].file = file]
          /\ receipts' = Without(file)
          /\ damaged' = damaged \cup {file}
          /\ Goto(p, "write")
          /\ UNCHANGED bundle
  /\ UNCHANGED <<tree, today>>

\* Mutant: what the file held before is still counted.
WriteBeside(p) ==
  /\ pc[p] = "write"
  /\ receipts' = receipts \cup {draft[p]}
  /\ UNCHANGED damaged
  /\ Exit(p)
  /\ UNCHANGED <<tree, today>>

\* The content arrives.  Where another confirm has finished the same file in
\* the meantime, the rest of a longer text stays behind the new one.
Write(p) ==
  /\ pc[p] = "write"
  /\ \/ /\ receipts' = Without(draft[p].file) \cup {draft[p]}
        /\ damaged' = damaged \ {draft[p].file}
     \/ /\ draft[p].file \notin damaged
        /\ receipts' = Without(draft[p].file)
        /\ damaged' = damaged \cup {draft[p].file}
  /\ Exit(p)
  /\ UNCHANGED <<tree, today>>

-----------------------------------------------------------------------------
(* A review: `repo` analyzes at repo scope, `check` and first-pr at diff   *)
(* scope, and first-pr audits the receipts afterwards.                     *)

ReviewStep(p, from, to) ==
  /\ pc[p] = from
  /\ Goto(p, to)
  /\ UNCHANGED <<tree, today, receipts, damaged, draft>>

\* ReceiptIndex::load, or the whole analysis fails.
Load(p) ==
  /\ ReviewStep(p, "idle", "head")
  /\ Loads
  /\ \E scope \in Scope :
       bundle' = [bundle EXCEPT ![p] =
         [scope |-> scope,
          index |-> {r \in Unexpired(receipts, today) : Kind(r) # "none"},
          facts |-> NoFacts, at |-> tree, imported |-> {}, saved |-> {},
          day |-> today, audited |-> {}]]

AskHead(p, from, to) ==
  /\ ReviewStep(p, from, to)
  /\ \E head \in HeadNow : bundle' = [bundle EXCEPT ![p].facts.head = head]

\* current_repo_facts: git first, the sources are scanned afterwards.
CurrentHead(p) == AskHead(p, "head", "dirty")

CurrentDirty(p) ==
  /\ ReviewStep(p, "dirty", "scan")
  /\ \E dirty \in ToplevelDirty :
       bundle' = [bundle EXCEPT ![p].facts.dirty = dirty]

\* build_card for every card of the scanned tree.
BuildCards(p) ==
  /\ ReviewStep(p, "scan", IF bundle[p].scope = "diff" THEN "auditScan" ELSE "done")
  /\ bundle' = [bundle EXCEPT
       ![p].at = tree,
       ![p].imported = Imported(bundle[p].index, tree, bundle[p].scope,
                                bundle[p].facts)]

\* analyze_without_receipts: the tree is scanned once more ...
AuditScan(p) ==
  /\ ReviewStep(p, "auditScan", "auditRead")
  /\ bundle' = [bundle EXCEPT ![p].at = tree]

\* ... the files are read once more, unreadable ones put aside ...
AuditRead(p) ==
  /\ ReviewStep(p, "auditRead", "auditHead")
  /\ bundle' = [bundle EXCEPT ![p].saved = receipts, ![p].day = today]

\* ... and git is asked once more.
AuditHead(p) == AskHead(p, "auditHead", "auditDirty")

AuditDirty(p) ==
  /\ ReviewStep(p, "auditDirty", "done")
  /\ \E dirty \in ToplevelDirty :
       LET facts == [bundle[p].facts EXCEPT !.dirty = dirty]
       IN  bundle' = [bundle EXCEPT
             ![p].facts = facts,
             ![p].audited = Audited(bundle[p].saved, bundle[p].day,
                                    bundle[p].at, bundle[p].scope, facts)]

\* The artifacts are written and the command ends.
Finish(p) ==
  /\ pc[p] = "done"
  /\ Exit(p)
  /\ UNCHANGED <<tree, today, receipts, damaged>>

\* A command is killed; a file it was writing stays cut short.
Crash(p) ==
  /\ MayCrash
  /\ pc[p] # "idle"
  /\ Exit(p)
  /\ UNCHANGED <<tree, today, receipts, damaged>>

-----------------------------------------------------------------------------

Confirm(p) ==
  \/ Resolve(p) \/ Run(p) \/ ProbeHead(p) \/ ProbeDirty(p)
  \/ Create(p) \/ Write(p)

Reviewing(p) ==
  \/ Load(p) \/ CurrentHead(p) \/ CurrentDirty(p) \/ BuildCards(p)
  \/ AuditScan(p) \/ AuditRead(p) \/ AuditHead(p) \/ AuditDirty(p)
  \/ Finish(p)

Next ==
  \/ ChangeTree \/ NextDay \/ Author \/ Remove
  \/ \E p \in Proc : Confirm(p) \/ Reviewing(p) \/ Crash(p)

Spec == Init /\ [][Next]_vars

-----------------------------------------------------------------------------
(* What a review may believe.                                              *)

Concluded(p) == pc[p] = "done"

\* Evidence on a card was observed on the very tree the review scanned, which
\* is a commit without edits.  Claimed only where the developer leaves the tree
\* alone while a command runs: commands may overlap each other.
EvidenceIsWitnessed ==
  \A p \in Proc : Concluded(p) =>
    \A r \in bundle[p].imported :
      r.ranOn = bundle[p].at /\ ~r.ranOn.dirty

\* The store does not block its own receipts: what confirm observed on the
\* scanned, clean tree with the routed command is imported by a review of the
\* same scope.  Claimed where git answers; it fails where the root is not the
\* toplevel, for the store makes the tree dirty there.
ConfirmedImports ==
  \A p \in Proc : Concluded(p) =>
    \A r \in bundle[p].index :
      /\ r.bound
      /\ r.ranOn = bundle[p].at
      /\ ~r.ranOn.dirty
      /\ r.binding.invocation \in RoutedCommand(r.card)
      /\ r.binding.scope = bundle[p].scope
      => r \in bundle[p].imported

\* What the audit of a first-pr marks as importing is on the cards of the same
\* bundle.  Claimed for one command at a time, where git answers.
AuditedIsImported ==
  \A p \in Proc : Concluded(p) =>
    bundle[p].audited \subseteq bundle[p].imported

\* confirm with its own file names and nobody killed never leaves a store
\* that stops the next analysis.  Claimed for one command at a time.
ConfirmKeepsStoreLoadable == Quiet => Loads

\* A receipt disappears only when a receipt of the same card takes its place,
\* or the developer removes it.
OwnReceiptOnly ==
  [][\A r \in receipts \ receipts' :
       \/ Quiet
       \/ \E p \in Proc : pc[p] \in {"create", "write"} /\ draft[p].card = r.card]_vars

-----------------------------------------------------------------------------
(* What the documents say and the code does not do.                        *)

\* "Observations from dirty trees never count as clean-tree evidence."
NoDirtyEvidence ==
  \A p \in Proc : Concluded(p) =>
    \A r \in bundle[p].imported : ~r.ranOn.dirty

\* "next: re-run check or first-pr to import this receipt": what ConfirmedImports
\* says, for a receipt of either scope.
NextReviewImports ==
  \A p \in Proc : Concluded(p) =>
    \A r \in bundle[p].index :
      /\ r.bound
      /\ r.ranOn = bundle[p].at
      /\ ~r.ranOn.dirty
      /\ r.binding.invocation \in RoutedCommand(r.card)
      => r \in bundle[p].imported

\* receipt validate rejects the receipt files that normal analysis rejects.
ValidateAgrees == Validates <=> Loads

\* The audit marks every receipt that the analysis of the same bundle imported.
ImportedIsAudited ==
  \A p \in Proc : Concluded(p) /\ bundle[p].scope = "diff" =>
    bundle[p].imported \subseteq bundle[p].audited

=============================================================================
