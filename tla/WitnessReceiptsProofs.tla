------------------------ MODULE WitnessReceiptsProofs ------------------------
(***************************************************************************)
(* Proofs about witness receipts, for any number of commands, cards,       *)
(* commits and receipt files and for every review of a tree.               *)
(***************************************************************************)
EXTENDS WitnessReceipts, TLAPS

-----------------------------------------------------------------------------
(* Types.                                                                  *)

LEMMA InitType == Init => TypeOK
  BY ReceiptAssumption DEF Init, TypeOK, Day, ConfirmPc, ReviewPc

\* What git answers is a fact.
LEMMA ProbeTypes ==
  ASSUME TypeOK
  PROVE  /\ HeadNow \subseteq Commit \cup {NoHead}
         /\ RootDirty \subseteq {"clean", "dirty", "unknown"}
        /\ ToplevelDirty \subseteq {"clean", "dirty", "unknown"}
  BY DEF TypeOK, Tree, HeadNow, RootDirty, ToplevelDirty, Status

LEMMA BindingType ==
  ASSUME TypeOK, NEW card \in Card, NEW scope \in Scope
  PROVE  /\ Review[tree][card] \in Subject \cup {NoSubject}
         /\ BindingNow(card, scope) \in Binding
         /\ Unbound \in Binding
<1>1. Review[tree][card] \in Subject \cup {NoSubject}
  BY ReceiptAssumption DEF TypeOK
<1>2. tree.head \in Commit
  BY DEF TypeOK, Tree
<1>3. BindingNow(card, scope) \in Binding
  BY <1>1, <1>2 DEF BindingNow, Binding, Facts
<1>4. Unbound \in Binding
  BY DEF Unbound, NoFacts, Binding, Facts, Scope
<1> QED
  BY <1>1, <1>3, <1>4

LEMMA RouteType ==
  ASSUME NEW card \in Card, NEW route \in FirstRoute(card)
  PROVE  route \in Route
<1>1. Routes[card] \in Seq(Route)
  BY ReceiptAssumption
<1>2. PICK i \in DOMAIN Routes[card] : route = Routes[card][i]
  BY DEF FirstRoute
<1> QED
  BY <1>1, <1>2

\* A command that ends leaves the types alone.
LEMMA ExitType ==
  ASSUME TypeOK, NEW p \in Proc, Exit(p), UNCHANGED <<tree, today>>,
         receipts' \in SUBSET Receipt, damaged' \in SUBSET File,
         \A r \in receipts' : r.file \notin damaged',
         \A r \in receipts', s \in receipts' : r.file = s.file => r = s
  PROVE  TypeOK'
  BY DEF TypeOK, Exit, Goto, ConfirmPc, ReviewPc

\* A step of a confirm, or of the developer.
LEMMA DraftType ==
  ASSUME TypeOK, NEW p \in Proc, NEW label \in ConfirmPc, NEW d \in Receipt,
         Goto(p, label), draft' = [draft EXCEPT ![p] = d],
         UNCHANGED <<tree, today, bundle>>, bundle[p] = NoBundle,
         receipts' \in SUBSET Receipt, damaged' \in SUBSET File,
         \A r \in receipts' : r.file \notin damaged',
         \A r \in receipts', s \in receipts' : r.file = s.file => r = s
  PROVE  TypeOK'
  BY DEF TypeOK, Goto, ConfirmPc, ReviewPc

LEMMA BundleType ==
  ASSUME TypeOK, NEW p \in Proc, NEW label \in ReviewPc, NEW b \in Bundle,
         Goto(p, label), bundle' = [bundle EXCEPT ![p] = b],
         UNCHANGED <<tree, today, receipts, damaged, draft>>,
         draft[p] = NoDraft
  PROVE  TypeOK'
  BY DEF TypeOK, Goto, ConfirmPc, ReviewPc

\* What a file shows after it was replaced by a receipt, or removed.
LEMMA StoreType ==
  ASSUME TypeOK, NEW file \in File, NEW r \in Receipt, r.file = file
  PROVE  /\ Without(file) \in SUBSET Receipt
         /\ Without(file) \cup {r} \in SUBSET Receipt
         /\ \A s \in Without(file) : s.file \notin damaged \cup {file}
         /\ \A s \in Without(file) \cup {r} : s.file \notin damaged \ {file}
         /\ \A s \in Without(file) \cup {r}, t \in Without(file) \cup {r} :
              s.file = t.file => s = t
  BY DEF TypeOK, Without

LEMMA DeveloperType ==
  ASSUME TypeOK, ChangeTree \/ NextDay \/ Author \/ Remove
  PROVE  TypeOK'
<1>1. CASE ChangeTree
  BY <1>1 DEF TypeOK, ChangeTree
<1>2. CASE NextDay
  BY <1>2, ReceiptAssumption DEF TypeOK, NextDay, Day
<1>3. CASE Author
  <2>1. PICK file \in OutFiles, r \in Receipt :
          /\ r.file = file
          /\ receipts' = Without(file) \cup {r}
          /\ damaged' = damaged \ {file}
    <3>1. PICK file \in OutFiles, card \in Card, tool \in Tool,
               strength \in Strength, expires \in Day, scope \in Scope,
               bound \in BOOLEAN :
            /\ receipts' = Without(file) \cup
                 {[file |-> file, card |-> card, tool |-> tool,
                   strength |-> strength, expires |-> expires, bound |-> bound,
                   binding |-> IF bound THEN BindingNow(card, scope) ELSE Unbound,
                   ranOn |-> tree]}
            /\ damaged' = damaged \ {file}
      BY <1>3 DEF Author
    <3> DEFINE r == [file |-> file, card |-> card, tool |-> tool,
                     strength |-> strength, expires |-> expires, bound |-> bound,
                     binding |-> IF bound THEN BindingNow(card, scope) ELSE Unbound,
                     ranOn |-> tree]
    <3>2. (IF bound THEN BindingNow(card, scope) ELSE Unbound) \in Binding
      BY BindingType
    <3>3. r \in Receipt
      BY <3>2 DEF Receipt, File, TypeOK
    <3> QED
      BY <3>1, <3>3
  <2>2. file \in File
    BY DEF File
  <2> QED
    BY <1>3, <2>1, <2>2, StoreType DEF TypeOK, Author
<1>4. CASE Remove
  BY <1>4 DEF TypeOK, Remove, Without
<1> QED
  BY <1>1, <1>2, <1>3, <1>4

LEMMA ConfirmType ==
  ASSUME TypeOK, NEW p \in Proc, Confirm(p)
  PROVE  TypeOK'
<1>1. CASE Resolve(p)
  <2>1. PICK d \in Receipt : draft' = [draft EXCEPT ![p] = d]
    <3> DEFINE Bound(card, scope, command) ==
                 [subject    |-> Review[tree][card],
                  invocation |-> command,
                  scope      |-> scope,
                  facts      |-> NoFacts,
                  complete   |-> TRUE]
               Drafted(card, scope, command, route) ==
                 [file     |-> <<route.tool, card>>,
                  card     |-> card,
                  tool     |-> route.tool,
                  strength |-> "ran",
                  expires  |-> today,
                  bound    |-> TRUE,
                  binding  |-> Bound(card, scope, command),
                  ranOn    |-> tree]
    <3>1. PICK card \in Card, scope \in Scope, command \in Command :
            \E route \in FirstRoute(card) :
              draft' = [draft EXCEPT ![p] = Drafted(card, scope, command, route)]
      BY <1>1 DEF Resolve
    <3>2. PICK route \in FirstRoute(card) :
            draft' = [draft EXCEPT ![p] = Drafted(card, scope, command, route)]
      BY <3>1
    <3>3. route.tool \in Tool
      BY RouteType DEF Route
    <3>4. Bound(card, scope, command) \in Binding
      BY BindingType DEF Binding, NoFacts, Facts
    <3> HIDE DEF Bound
    <3>5. Drafted(card, scope, command, route) \in Receipt
      BY <3>3, <3>4 DEF Receipt, File, Strength, TypeOK
    <3> QED
      BY <3>2, <3>5
  <2> QED
    BY <1>1, <2>1, DraftType
       DEF TypeOK, Resolve, ConfirmStep, ConfirmPc, ReviewPc
<1>2. CASE Run(p)
  <2>1. CASE draft' = [draft EXCEPT ![p].ranOn = tree] /\ Goto(p, "probeHead")
    <3>1. [draft[p] EXCEPT !.ranOn = tree] \in Receipt
      BY <1>2 DEF TypeOK, Run, ConfirmStep, ConfirmPc, Receipt
    <3>2. draft' = [draft EXCEPT ![p] = [draft[p] EXCEPT !.ranOn = tree]]
      BY <2>1
    <3>3. bundle[p] = NoBundle /\ "probeHead" \in ConfirmPc
      BY <1>2 DEF TypeOK, Run, ConfirmStep, ConfirmPc, ReviewPc
    <3> QED
      BY <1>2, <2>1, <3>1, <3>2, <3>3, DraftType DEF TypeOK, Run, ConfirmStep
  <2>2. CASE draft' = [draft EXCEPT ![p] = NoDraft] /\ Goto(p, "idle")
    BY <1>2, <2>2 DEF TypeOK, Run, ConfirmStep, Goto, ConfirmPc, ReviewPc
  <2> QED
    BY <1>2, <2>1, <2>2 DEF Run
<1>3. CASE ProbeHead(p)
  <2>1. PICK head \in HeadNow, expires \in Day :
          draft' = [draft EXCEPT ![p].expires = expires,
                                 ![p].binding.facts.head = head]
    BY <1>3 DEF ProbeHead
  <2>2. draft[p] \in Receipt /\ bundle[p] = NoBundle
    BY <1>3 DEF TypeOK, ProbeHead, ConfirmStep, ConfirmPc, ReviewPc
  <2>3. [draft[p].binding.facts EXCEPT !.head = head] \in Facts
    BY <2>2, ProbeTypes DEF Receipt, Binding, Facts
  <2>4. [draft[p].binding EXCEPT !.facts.head = head] \in Binding
    BY <2>2, <2>3 DEF Receipt, Binding
  <2>5. [draft[p] EXCEPT !.expires = expires, !.binding.facts.head = head]
          \in Receipt
    BY <2>2, <2>4 DEF Receipt
  <2>6. draft' = [draft EXCEPT ![p] =
          [draft[p] EXCEPT !.expires = expires, !.binding.facts.head = head]]
    BY <2>1, <2>2 DEF Receipt, Binding
  <2> QED
    BY <1>3, <2>2, <2>5, <2>6, DraftType
       DEF TypeOK, ProbeHead, ConfirmStep, ConfirmPc
<1>4. CASE ProbeDirty(p)
  <2>1. PICK dirty \in RootDirty :
          draft' = [draft EXCEPT ![p].binding.facts.dirty = dirty]
    BY <1>4 DEF ProbeDirty
  <2>2. draft[p] \in Receipt /\ bundle[p] = NoBundle
    BY <1>4 DEF TypeOK, ProbeDirty, ConfirmStep, ConfirmPc, ReviewPc
  <2>3. [draft[p].binding.facts EXCEPT !.dirty = dirty] \in Facts
    BY <2>2, ProbeTypes DEF Receipt, Binding, Facts
  <2>4. [draft[p].binding EXCEPT !.facts.dirty = dirty] \in Binding
    BY <2>2, <2>3 DEF Receipt, Binding
  <2>5. [draft[p] EXCEPT !.binding.facts.dirty = dirty] \in Receipt
    BY <2>2, <2>4 DEF Receipt
  <2> QED
    BY <1>4, <2>1, <2>2, <2>5, DraftType
       DEF TypeOK, ProbeDirty, ConfirmStep, ConfirmPc
<1>5. CASE Create(p)
  <2>1. draft[p] \in Receipt /\ bundle[p] = NoBundle
    BY <1>5 DEF TypeOK, Create, ConfirmPc, ReviewPc
  <2>2. CASE Exit(p) /\ UNCHANGED <<receipts, damaged>>
    BY <1>5, <2>2, ExitType DEF TypeOK, Create
  <2>3. CASE \E file \in {DefaultFile(draft[p])} \cup OutFiles :
               /\ draft' = [draft EXCEPT ![p].file = file]
               /\ receipts' = Without(file)
               /\ damaged' = damaged \cup {file}
               /\ Goto(p, "write")
               /\ UNCHANGED bundle
    <3>1. PICK file \in {DefaultFile(draft[p])} \cup OutFiles :
               /\ draft' = [draft EXCEPT ![p].file = file]
               /\ receipts' = Without(file)
               /\ damaged' = damaged \cup {file}
               /\ Goto(p, "write")
               /\ UNCHANGED bundle
      BY <2>3
    <3>2. file \in File
      BY <2>1 DEF DefaultFile, File, Receipt
    <3>3. [draft[p] EXCEPT !.file = file] \in Receipt
      BY <2>1, <3>2 DEF Receipt
    <3>4. receipts' \in SUBSET Receipt /\ damaged' \in SUBSET File
      BY <3>1, <3>2 DEF TypeOK, Without
    <3>5. /\ \A r \in receipts' : r.file \notin damaged'
          /\ \A r \in receipts', s \in receipts' : r.file = s.file => r = s
      BY <3>1 DEF TypeOK, Without
    <3> QED
      BY <1>5, <2>1, <3>1, <3>3, <3>4, <3>5, DraftType
         DEF TypeOK, Create, ConfirmPc
  <2> QED
    BY <1>5, <2>2, <2>3 DEF Create
<1>6. CASE Write(p)
  <2>1. draft[p] \in Receipt /\ draft[p].file \in File
    BY <1>6 DEF TypeOK, Write, ConfirmPc, Receipt
  <2>2. receipts' \in SUBSET Receipt /\ damaged' \in SUBSET File
    BY <1>6, <2>1 DEF TypeOK, Write, Without
  <2>3. /\ \A r \in receipts' : r.file \notin damaged'
        /\ \A r \in receipts', s \in receipts' : r.file = s.file => r = s
    BY <1>6, <2>1 DEF TypeOK, Write, Without
  <2> QED
    BY <1>6, <2>2, <2>3, ExitType DEF Write
<1> QED
  BY <1>1, <1>2, <1>3, <1>4, <1>5, <1>6 DEF Confirm

LEMMA ReviewType ==
  ASSUME TypeOK, NEW p \in Proc, Reviewing(p)
  PROVE  TypeOK'
<1>1. ASSUME NEW from \in ReviewPc, NEW to \in ReviewPc, ReviewStep(p, from, to),
             NEW b \in Bundle, bundle' = [bundle EXCEPT ![p] = b]
      PROVE  TypeOK'
  BY <1>1, BundleType DEF TypeOK, ReviewStep, ConfirmPc, ReviewPc
<1>2. ASSUME NEW from \in ReviewPc, pc[p] = from
      PROVE  bundle[p] \in Bundle
  BY <1>2 DEF TypeOK
<1>3. ReviewPc = {"head", "dirty", "scan", "auditScan", "auditRead",
                  "auditHead", "auditDirty", "done"}
  BY DEF ReviewPc
<1>4. CASE Load(p)
  <2>1. PICK scope \in Scope :
          bundle' = [bundle EXCEPT ![p] =
            [scope |-> scope,
             index |-> {r \in Unexpired(receipts, today) : Kind(r) # "none"},
             facts |-> NoFacts, at |-> tree, imported |-> {}, saved |-> {},
             day |-> today, audited |-> {}]]
    BY <1>4 DEF Load
  <2>2. {r \in Unexpired(receipts, today) : Kind(r) # "none"} \in SUBSET Receipt
    BY DEF TypeOK, Unexpired
  <2>3. [scope |-> scope,
         index |-> {r \in Unexpired(receipts, today) : Kind(r) # "none"},
         facts |-> NoFacts, at |-> tree, imported |-> {}, saved |-> {},
         day |-> today, audited |-> {}] \in Bundle
    BY <2>2 DEF Bundle, TypeOK, NoFacts, Facts
  <2> QED
    BY <1>3, <1>4, <2>1, <2>3, BundleType
       DEF Load, ReviewStep, TypeOK, ConfirmPc
<1>5. ASSUME NEW from \in ReviewPc, NEW to \in ReviewPc, AskHead(p, from, to)
      PROVE  TypeOK'
  <2>1. PICK head \in HeadNow : bundle' = [bundle EXCEPT ![p].facts.head = head]
    BY <1>5 DEF AskHead
  <2>2. bundle[p] \in Bundle
    BY <1>2, <1>5 DEF AskHead, ReviewStep
  <2>3. [bundle[p] EXCEPT !.facts.head = head] \in Bundle
    BY <2>2, ProbeTypes DEF Bundle, Facts
  <2> QED
    BY <1>1, <1>5, <2>1, <2>3 DEF AskHead
<1>6. CASE CurrentHead(p) \/ AuditHead(p)
  BY <1>3, <1>5, <1>6 DEF CurrentHead, AuditHead
<1>7. CASE CurrentDirty(p)
  <2>1. PICK dirty \in ToplevelDirty :
          bundle' = [bundle EXCEPT ![p].facts.dirty = dirty]
    BY <1>7 DEF CurrentDirty
  <2>2. bundle[p] \in Bundle
    BY <1>2, <1>3, <1>7 DEF CurrentDirty, ReviewStep
  <2>3. [bundle[p] EXCEPT !.facts.dirty = dirty] \in Bundle
    BY <2>2, ProbeTypes DEF Bundle, Facts
  <2> QED
    BY <1>1, <1>3, <1>7, <2>1, <2>3 DEF CurrentDirty
<1>8. CASE BuildCards(p)
  <2> DEFINE imported == Imported(bundle[p].index, tree, bundle[p].scope,
                                  bundle[p].facts)
  <2>1. bundle[p] \in Bundle
    BY <1>2, <1>3, <1>8 DEF BuildCards, ReviewStep
  <2>2. imported \in SUBSET Receipt
    BY <2>1 DEF Imported, Bundle
  <2> HIDE DEF imported
  <2>3. [bundle[p] EXCEPT !.at = tree, !.imported = imported] \in Bundle
    BY <2>1, <2>2 DEF Bundle, TypeOK
  <2>4. bundle' = [bundle EXCEPT ![p].at = tree, ![p].imported = imported]
    BY <1>8 DEF BuildCards, imported
  <2>5. ReviewStep(p, "scan", IF bundle[p].scope = "diff" THEN "auditScan" ELSE "done")
    BY <1>8 DEF BuildCards
  <2> QED
    BY <1>1, <1>3, <2>3, <2>4, <2>5
<1>9. CASE AuditScan(p)
  <2>1. bundle[p] \in Bundle
    BY <1>2, <1>3, <1>9 DEF AuditScan, ReviewStep
  <2>2. [bundle[p] EXCEPT !.at = tree] \in Bundle
    BY <2>1 DEF Bundle, TypeOK
  <2> QED
    BY <1>1, <1>3, <1>9, <2>2 DEF AuditScan
<1>10. CASE AuditRead(p)
  <2>1. bundle[p] \in Bundle
    BY <1>2, <1>3, <1>10 DEF AuditRead, ReviewStep
  <2>2. [bundle[p] EXCEPT !.saved = receipts, !.day = today] \in Bundle
    BY <2>1 DEF Bundle, TypeOK
  <2> QED
    BY <1>1, <1>3, <1>10, <2>2 DEF AuditRead
<1>11. CASE AuditDirty(p)
  <2>1. bundle[p] \in Bundle
    BY <1>2, <1>3, <1>11 DEF AuditDirty, ReviewStep
  <2>2. PICK dirty \in ToplevelDirty :
          LET facts == [bundle[p].facts EXCEPT !.dirty = dirty]
          IN  bundle' = [bundle EXCEPT
                ![p].facts = facts,
                ![p].audited = Audited(bundle[p].saved, bundle[p].day,
                                       bundle[p].at, bundle[p].scope, facts)]
    BY <1>11 DEF AuditDirty
  <2> DEFINE facts == [bundle[p].facts EXCEPT !.dirty = dirty]
             audited == Audited(bundle[p].saved, bundle[p].day,
                                bundle[p].at, bundle[p].scope, facts)
  <2>3. facts \in Facts
    BY <2>1, ProbeTypes DEF Bundle, Facts
  <2>4. audited \in SUBSET Receipt
    BY <2>1 DEF Audited, Imported, Bundle
  <2>5. bundle' = [bundle EXCEPT ![p].facts = facts, ![p].audited = audited]
    BY <2>2
  <2> HIDE DEF facts, audited
  <2>6. [bundle[p] EXCEPT !.facts = facts, !.audited = audited] \in Bundle
    BY <2>1, <2>3, <2>4 DEF Bundle
  <2>7. ReviewStep(p, "auditDirty", "done")
    BY <1>11 DEF AuditDirty
  <2>8. bundle' = [bundle EXCEPT ![p] =
          [bundle[p] EXCEPT !.facts = facts, !.audited = audited]]
    BY <2>5
  <2> QED
    BY <1>1, <1>3, <2>6, <2>7, <2>8
<1>12. CASE Finish(p)
  BY <1>12, ExitType DEF TypeOK, Finish
<1> QED
  BY <1>4, <1>6, <1>7, <1>8, <1>9, <1>10, <1>11, <1>12 DEF Reviewing

LEMMA CrashType ==
  ASSUME TypeOK, NEW p \in Proc, Crash(p)
  PROVE  TypeOK'
  BY ExitType DEF TypeOK, Crash

\* Whatever commands overlap and die, every variable keeps its type and a
\* file of the receipt store holds one receipt, or is damaged, or is absent.
THEOREM TypeCorrect == Spec => []TypeOK
<1>1. TypeOK /\ [Next]_vars => TypeOK'
  <2> SUFFICES ASSUME TypeOK, [Next]_vars PROVE TypeOK'
    OBVIOUS
  <2>1. CASE Next
    BY <2>1, DeveloperType, ConfirmType, ReviewType, CrashType DEF Next
  <2>2. CASE UNCHANGED vars
    BY <2>2 DEF TypeOK, vars
  <2> QED
    BY <2>1, <2>2
<1> QED
  BY <1>1, InitType, PTL DEF Spec

-----------------------------------------------------------------------------
(* Evidence is witnessed, as long as the developer leaves the tree alone   *)
(* while a command runs.                                                   *)

\* What a receipt says of git is true of the tree the witness ran on.
Honest(r) ==
  r.bound =>
    /\ r.binding.facts.head \in {NoHead, r.ranOn.head}
    /\ r.binding.facts.dirty = "clean" => ~r.ranOn.dirty

ReceiptsHonest == \A r \in receipts : Honest(r)

\* A confirm in progress has run on the tree that is still there.
DraftsHonest ==
  \A p \in Proc : pc[p] \in ConfirmPc =>
    draft[p].ranOn = tree /\ Honest(draft[p])

\* So has what a review in progress read, probed, scanned and concluded.
BundleHonest(b) ==
  /\ \A r \in b.index : Honest(r)
  /\ b.facts.head \in {NoHead, tree.head}
  /\ b.facts.dirty = "clean" => ~tree.dirty
  /\ b.at = tree
  /\ \A r \in b.imported : r.ranOn = tree /\ ~r.ranOn.dirty

BundlesHonest == \A p \in Proc : pc[p] \in ReviewPc => BundleHonest(bundle[p])

WitnessInv == TypeOK /\ ReceiptsHonest /\ DraftsHonest /\ BundlesHonest

\* Two clean trees of one commit are one tree.
LEMMA CleanTree ==
  ASSUME NEW s \in Tree, NEW t \in Tree, s.head = t.head, ~s.dirty, ~t.dirty
  PROVE  s = t
  BY DEF Tree

\* An honest receipt that applies was observed on the tree that is scanned.
LEMMA ImportIsWitnessed ==
  ASSUME NEW index \in SUBSET Receipt, NEW at \in Tree, NEW scope, NEW facts,
         \A r \in index : Honest(r),
         facts.dirty = "clean" => ~at.dirty,
         facts.head \in {NoHead, at.head},
         NEW r \in Imported(index, at, scope, facts)
  PROVE  r.ranOn = at /\ ~r.ranOn.dirty
<1>1. r \in index /\ Applies(r, Current(r.card, at, scope, facts))
  BY DEF Imported
<1>2. /\ r.bound
      /\ r.binding.facts.head = facts.head
      /\ facts.head # NoHead
      /\ r.binding.facts.dirty = "clean"
      /\ facts.dirty = "clean"
  BY <1>1 DEF Applies, Current
<1>3. r.ranOn.head = at.head /\ ~r.ranOn.dirty /\ ~at.dirty
  BY <1>1, <1>2 DEF Honest
<1>4. r.ranOn \in Tree
  BY <1>1 DEF Receipt
<1> QED
  BY <1>3, <1>4, CleanTree

LEMMA WitnessInit == Init => WitnessInv
  BY InitType DEF Init, WitnessInv, ReceiptsHonest, DraftsHonest,
                  BundlesHonest, ConfirmPc, ReviewPc

LEMMA DeveloperWitness ==
  ASSUME TreeHeldStill, WitnessInv, ChangeTree \/ NextDay \/ Author \/ Remove
  PROVE  ReceiptsHonest' /\ DraftsHonest' /\ BundlesHonest'
<1>1. Quiet
  BY DEF ChangeTree, NextDay, Author, Remove
<1>2. UNCHANGED pc
  BY DEF ChangeTree, NextDay, Author, Remove
<1>3. DraftsHonest' /\ BundlesHonest'
  BY <1>1, <1>2 DEF Quiet, DraftsHonest, BundlesHonest, ConfirmPc, ReviewPc
<1>4. CASE UNCHANGED receipts
  BY <1>3, <1>4 DEF WitnessInv, ReceiptsHonest, Honest
<1>5. CASE Author
  <2>1. PICK file \in OutFiles, card \in Card, tool \in Tool,
             strength \in Strength, expires \in Day, scope \in Scope,
             bound \in BOOLEAN :
          receipts' = Without(file) \cup
            {[file |-> file, card |-> card, tool |-> tool,
              strength |-> strength, expires |-> expires, bound |-> bound,
              binding |-> IF bound THEN BindingNow(card, scope) ELSE Unbound,
              ranOn |-> tree]}
    BY <1>5 DEF Author
  <2>2. bound => BindingNow(card, scope).facts.head = tree.head
    BY DEF BindingNow
  <2>3. bound /\ BindingNow(card, scope).facts.dirty = "clean" => ~tree.dirty
    BY DEF BindingNow
  <2>4. Honest([file |-> file, card |-> card, tool |-> tool,
                strength |-> strength, expires |-> expires, bound |-> bound,
                binding |-> IF bound THEN BindingNow(card, scope) ELSE Unbound,
                ranOn |-> tree])
    BY <2>2, <2>3 DEF Honest
  <2>5. \A r \in Without(file) : Honest(r)
    BY DEF WitnessInv, ReceiptsHonest, Without
  <2>6. ReceiptsHonest'
    BY <2>1, <2>4, <2>5 DEF ReceiptsHonest, Honest
  <2> QED
    BY <1>3, <2>6
<1>6. CASE Remove
  <2>1. receipts' \subseteq receipts
    BY <1>6 DEF Remove, Without
  <2> QED
    BY <1>3, <2>1 DEF WitnessInv, ReceiptsHonest, Honest
<1> QED
  BY <1>4, <1>5, <1>6 DEF ChangeTree, NextDay

\* A command that ends leaves an honest store to those that are running.
LEMMA ExitWitness ==
  ASSUME WitnessInv, NEW p \in Proc, Exit(p), UNCHANGED tree,
         \A r \in receipts' : Honest(r)
  PROVE  ReceiptsHonest' /\ DraftsHonest' /\ BundlesHonest'
<1>1. ReceiptsHonest'
  BY DEF ReceiptsHonest, Honest
<1>2. DraftsHonest'
  BY DEF WitnessInv, TypeOK, DraftsHonest, Honest, Exit, Goto, ConfirmPc
<1>3. BundlesHonest'
  BY DEF WitnessInv, TypeOK, BundlesHonest, BundleHonest, Honest, Exit, Goto,
         ReviewPc
<1> QED
  BY <1>1, <1>2, <1>3

LEMMA DraftWitness ==
  ASSUME WitnessInv, NEW p \in Proc, NEW label \in ConfirmPc, NEW d,
         Goto(p, label), draft' = [draft EXCEPT ![p] = d],
         d.ranOn = tree, Honest(d),
         UNCHANGED <<tree, bundle>>, receipts' \subseteq receipts
  PROVE  ReceiptsHonest' /\ DraftsHonest' /\ BundlesHonest'
<1>1. ReceiptsHonest'
  BY DEF WitnessInv, ReceiptsHonest, Honest
<1>2. DraftsHonest'
  BY DEF WitnessInv, TypeOK, DraftsHonest, Honest, Goto
<1>3. BundlesHonest'
  BY DEF WitnessInv, TypeOK, BundlesHonest, BundleHonest, Honest, Goto,
         ConfirmPc, ReviewPc
<1> QED
  BY <1>1, <1>2, <1>3

LEMMA BundleWitness ==
  ASSUME WitnessInv, NEW p \in Proc, NEW from, NEW to \in ReviewPc, NEW b,
         ReviewStep(p, from, to), bundle' = [bundle EXCEPT ![p] = b],
         BundleHonest(b)
  PROVE  ReceiptsHonest' /\ DraftsHonest' /\ BundlesHonest'
<1>1. ReceiptsHonest'
  BY DEF WitnessInv, ReceiptsHonest, Honest, ReviewStep
<1>2. DraftsHonest'
  BY DEF WitnessInv, TypeOK, DraftsHonest, Honest, ReviewStep, Goto,
         ConfirmPc, ReviewPc
<1>3. BundlesHonest'
  BY DEF WitnessInv, TypeOK, BundlesHonest, BundleHonest, Honest, ReviewStep,
         Goto
<1> QED
  BY <1>1, <1>2, <1>3

LEMMA ConfirmWitness ==
  ASSUME WitnessInv, NEW p \in Proc, Confirm(p)
  PROVE  ReceiptsHonest' /\ DraftsHonest' /\ BundlesHonest'
<1>1. ASSUME pc[p] \in ConfirmPc
      PROVE  draft[p] \in Receipt /\ draft[p].ranOn = tree /\ Honest(draft[p])
  BY <1>1 DEF WitnessInv, TypeOK, DraftsHonest
<1>2. {"run", "probeHead", "probeDirty", "create", "write"} = ConfirmPc
  BY DEF ConfirmPc
<1>3. CASE Resolve(p)
  <2> DEFINE Drafted(card, scope, command, route) ==
               [file     |-> <<route.tool, card>>,
                card     |-> card,
                tool     |-> route.tool,
                strength |-> "ran",
                expires  |-> today,
                bound    |-> TRUE,
                binding  |-> [subject    |-> Review[tree][card],
                              invocation |-> command,
                              scope      |-> scope,
                              facts      |-> NoFacts,
                              complete   |-> TRUE],
                ranOn    |-> tree]
  <2>1. PICK card \in Card, scope \in Scope, command \in Command :
          \E route \in FirstRoute(card) :
            draft' = [draft EXCEPT ![p] = Drafted(card, scope, command, route)]
    BY <1>3 DEF Resolve
  <2>2. PICK route :
          draft' = [draft EXCEPT ![p] = Drafted(card, scope, command, route)]
    BY <2>1
  <2> DEFINE d == Drafted(card, scope, command, route)
  <2>3. d.ranOn = tree /\ Honest(d)
    BY DEF Honest, NoFacts
  <2> HIDE DEF Drafted
  <2> QED
    BY <1>2, <1>3, <2>2, <2>3, DraftWitness DEF Resolve, ConfirmStep
<1>4. CASE Run(p)
  <2>1. pc[p] = "run"
    BY <1>4 DEF Run, ConfirmStep
  <2>2. CASE draft' = [draft EXCEPT ![p].ranOn = tree] /\ Goto(p, "probeHead")
    <3> DEFINE d == [draft[p] EXCEPT !.ranOn = tree]
    <3>1. draft' = [draft EXCEPT ![p] = d]
      BY <2>2
    <3>2. d = draft[p]
      BY <1>1, <1>2, <2>1 DEF Receipt
    <3>3. d.ranOn = tree /\ Honest(d)
      BY <1>1, <1>2, <2>1, <3>2
    <3> QED
      BY <1>2, <1>4, <2>2, <3>1, <3>3, DraftWitness DEF Run, ConfirmStep
  <2>3. CASE draft' = [draft EXCEPT ![p] = NoDraft] /\ Goto(p, "idle")
    <3>1. UNCHANGED <<tree, receipts, bundle>>
      BY <1>4 DEF Run, ConfirmStep
    <3> QED
      BY <2>1, <2>3, <3>1
         DEF WitnessInv, TypeOK, ReceiptsHonest, DraftsHonest, BundlesHonest,
             BundleHonest, Honest, Goto, ConfirmPc, ReviewPc
  <2> QED
    BY <1>4, <2>2, <2>3 DEF Run
<1>5. CASE ProbeHead(p)
  <2>1. PICK head \in HeadNow, expires \in Day :
          draft' = [draft EXCEPT ![p].expires = expires,
                                 ![p].binding.facts.head = head]
    BY <1>5 DEF ProbeHead
  <2>2. /\ draft[p] \in Receipt
        /\ draft[p].ranOn = tree
        /\ Honest(draft[p])
    BY <1>1, <1>2, <1>5 DEF ProbeHead, ConfirmStep
  <2>3. head \in {NoHead, tree.head}
    BY DEF HeadNow
  <2> DEFINE d == [draft[p] EXCEPT !.expires = expires,
                                   !.binding.facts.head = head]
  <2>4. draft' = [draft EXCEPT ![p] = d]
    BY <2>1, <2>2 DEF Receipt, Binding
  <2>5. d.ranOn = tree /\ Honest(d)
    BY <2>2, <2>3 DEF Honest, Receipt, Binding, Facts
  <2> QED
    BY <1>2, <1>5, <2>4, <2>5, DraftWitness DEF ProbeHead, ConfirmStep
<1>6. CASE ProbeDirty(p)
  <2>1. PICK dirty \in RootDirty :
          draft' = [draft EXCEPT ![p].binding.facts.dirty = dirty]
    BY <1>6 DEF ProbeDirty
  <2>2. /\ draft[p] \in Receipt
        /\ draft[p].ranOn = tree
        /\ Honest(draft[p])
    BY <1>1, <1>2, <1>6 DEF ProbeDirty, ConfirmStep
  <2>3. dirty = "clean" => ~tree.dirty
    BY DEF RootDirty, Status
  <2> DEFINE d == [draft[p] EXCEPT !.binding.facts.dirty = dirty]
  <2>4. draft' = [draft EXCEPT ![p] = d]
    BY <2>1, <2>2 DEF Receipt, Binding
  <2>5. d.ranOn = tree /\ Honest(d)
    BY <2>2, <2>3 DEF Honest, Receipt, Binding, Facts
  <2> QED
    BY <1>2, <1>6, <2>4, <2>5, DraftWitness DEF ProbeDirty, ConfirmStep
<1>7. CASE Create(p)
  <2>1. CASE Exit(p) /\ UNCHANGED <<receipts, damaged>>
    BY <1>7, <2>1, ExitWitness DEF Create, WitnessInv, ReceiptsHonest
  <2>2. CASE \E file \in {DefaultFile(draft[p])} \cup OutFiles :
               /\ draft' = [draft EXCEPT ![p].file = file]
               /\ receipts' = Without(file)
               /\ damaged' = damaged \cup {file}
               /\ Goto(p, "write")
               /\ UNCHANGED bundle
    <3>1. PICK file : /\ draft' = [draft EXCEPT ![p].file = file]
                      /\ receipts' = Without(file)
                      /\ Goto(p, "write")
                      /\ UNCHANGED bundle
      BY <2>2
    <3> DEFINE d == [draft[p] EXCEPT !.file = file]
    <3>2. draft[p].ranOn = tree /\ Honest(draft[p]) /\ draft[p] \in Receipt
      BY <1>1, <1>2, <1>7 DEF Create
    <3>3. draft' = [draft EXCEPT ![p] = d] /\ d.ranOn = tree /\ Honest(d)
      BY <3>1, <3>2 DEF Honest, Receipt
    <3>4. receipts' \subseteq receipts
      BY <3>1 DEF Without
    <3> QED
      BY <1>2, <1>7, <3>1, <3>3, <3>4, DraftWitness DEF Create
  <2> QED
    BY <1>7, <2>1, <2>2 DEF Create
<1>8. CASE Write(p)
  <2>1. receipts' \subseteq receipts \cup {draft[p]}
    BY <1>8 DEF Write, Without
  <2>2. Honest(draft[p])
    BY <1>1, <1>2, <1>8 DEF Write
  <2>3. \A r \in receipts' : Honest(r)
    BY <2>1, <2>2 DEF WitnessInv, ReceiptsHonest
  <2> QED
    BY <1>8, <2>3, ExitWitness DEF Write
<1> QED
  BY <1>3, <1>4, <1>5, <1>6, <1>7, <1>8 DEF Confirm

LEMMA ReviewWitness ==
  ASSUME WitnessInv, NEW p \in Proc, Reviewing(p)
  PROVE  ReceiptsHonest' /\ DraftsHonest' /\ BundlesHonest'
<1>1. ASSUME pc[p] \in ReviewPc
      PROVE  bundle[p] \in Bundle /\ BundleHonest(bundle[p])
  BY <1>1 DEF WitnessInv, TypeOK, BundlesHonest
<1>2. {"head", "dirty", "scan", "auditScan", "auditRead", "auditHead",
       "auditDirty", "done"} = ReviewPc
  BY DEF ReviewPc
<1>3. CASE Load(p)
  <2> DEFINE index == {r \in Unexpired(receipts, today) : Kind(r) # "none"}
             Loaded(scope) ==
               [scope |-> scope, index |-> index, facts |-> NoFacts,
                at |-> tree, imported |-> {}, saved |-> {},
                day |-> today, audited |-> {}]
  <2>1. PICK scope : bundle' = [bundle EXCEPT ![p] = Loaded(scope)]
    BY <1>3 DEF Load
  <2>2. index \subseteq receipts
    BY DEF Unexpired
  <2> HIDE DEF index
  <2>3. BundleHonest(Loaded(scope))
    BY <2>2 DEF WitnessInv, ReceiptsHonest, BundleHonest, NoFacts
  <2> HIDE DEF Loaded
  <2> QED
    BY <1>2, <1>3, <2>1, <2>3, BundleWitness DEF Load
<1>4. ASSUME NEW from \in ReviewPc, NEW to \in ReviewPc, AskHead(p, from, to)
      PROVE  ReceiptsHonest' /\ DraftsHonest' /\ BundlesHonest'
  <2>1. PICK head \in HeadNow : bundle' = [bundle EXCEPT ![p].facts.head = head]
    BY <1>4 DEF AskHead
  <2>2. bundle[p] \in Bundle /\ BundleHonest(bundle[p])
    BY <1>1, <1>4 DEF AskHead, ReviewStep
  <2> DEFINE b == [bundle[p] EXCEPT !.facts.head = head]
  <2>3. bundle' = [bundle EXCEPT ![p] = b]
    BY <2>1, <2>2 DEF Bundle
  <2>4. head \in {NoHead, tree.head}
    BY DEF HeadNow
  <2>5. BundleHonest(b)
    BY <2>2, <2>4 DEF BundleHonest, Bundle, Facts
  <2> QED
    BY <1>4, <2>3, <2>5, BundleWitness DEF AskHead
<1>5. CASE CurrentHead(p) \/ AuditHead(p)
  BY <1>2, <1>4, <1>5 DEF CurrentHead, AuditHead
<1>6. CASE CurrentDirty(p)
  <2>1. PICK dirty \in ToplevelDirty :
          bundle' = [bundle EXCEPT ![p].facts.dirty = dirty]
    BY <1>6 DEF CurrentDirty
  <2>2. bundle[p] \in Bundle /\ BundleHonest(bundle[p])
    BY <1>1, <1>2, <1>6 DEF CurrentDirty, ReviewStep
  <2> DEFINE b == [bundle[p] EXCEPT !.facts.dirty = dirty]
  <2>3. bundle' = [bundle EXCEPT ![p] = b]
    BY <2>1, <2>2 DEF Bundle
  <2>4. dirty = "clean" => ~tree.dirty
    BY DEF ToplevelDirty, Status
  <2>5. BundleHonest(b)
    BY <2>2, <2>4 DEF BundleHonest, Bundle, Facts
  <2> QED
    BY <1>2, <1>6, <2>3, <2>5, BundleWitness DEF CurrentDirty
<1>7. CASE BuildCards(p)
  <2> DEFINE imported == Imported(bundle[p].index, tree, bundle[p].scope,
                                  bundle[p].facts)
             b == [bundle[p] EXCEPT !.at = tree, !.imported = imported]
  <2>1. bundle[p] \in Bundle /\ BundleHonest(bundle[p])
    BY <1>1, <1>2, <1>7 DEF BuildCards, ReviewStep
  <2>2. bundle[p].index \in SUBSET Receipt /\ tree \in Tree
    BY <2>1 DEF Bundle, WitnessInv, TypeOK
  <2>3. \A r \in imported : r.ranOn = tree /\ ~r.ranOn.dirty
    BY <2>1, <2>2, ImportIsWitnessed DEF BundleHonest
  <2> HIDE DEF imported
  <2>4. BundleHonest(b)
    BY <2>1, <2>3 DEF BundleHonest, Bundle
  <2>5. bundle' = [bundle EXCEPT ![p] = b]
    BY <1>7 DEF BuildCards, imported
  <2>6. ReviewStep(p, "scan", IF bundle[p].scope = "diff" THEN "auditScan" ELSE "done")
    BY <1>7 DEF BuildCards
  <2> QED
    BY <1>2, <2>4, <2>5, <2>6, BundleWitness
<1>8. CASE AuditScan(p)
  <2> DEFINE b == [bundle[p] EXCEPT !.at = tree]
  <2>1. bundle[p] \in Bundle /\ BundleHonest(bundle[p])
    BY <1>1, <1>2, <1>8 DEF AuditScan, ReviewStep
  <2>2. BundleHonest(b)
    BY <2>1 DEF BundleHonest, Bundle
  <2> QED
    BY <1>2, <1>8, <2>2, BundleWitness DEF AuditScan
<1>9. CASE AuditRead(p)
  <2> DEFINE b == [bundle[p] EXCEPT !.saved = receipts, !.day = today]
  <2>1. bundle[p] \in Bundle /\ BundleHonest(bundle[p])
    BY <1>1, <1>2, <1>9 DEF AuditRead, ReviewStep
  <2>2. BundleHonest(b)
    BY <2>1 DEF BundleHonest, Bundle
  <2>3. bundle' = [bundle EXCEPT ![p] = b]
    BY <1>9 DEF AuditRead
  <2> QED
    BY <1>2, <1>9, <2>2, <2>3, BundleWitness DEF AuditRead
<1>10. CASE AuditDirty(p)
  <2>1. PICK dirty \in ToplevelDirty :
          \E audited : bundle' = [bundle EXCEPT ![p].facts =
                                    [bundle[p].facts EXCEPT !.dirty = dirty],
                                  ![p].audited = audited]
    BY <1>10 DEF AuditDirty
  <2>2. PICK audited : bundle' = [bundle EXCEPT ![p].facts =
                                    [bundle[p].facts EXCEPT !.dirty = dirty],
                                  ![p].audited = audited]
    BY <2>1
  <2> DEFINE b == [bundle[p] EXCEPT
                     !.facts = [bundle[p].facts EXCEPT !.dirty = dirty],
                     !.audited = audited]
  <2>3. bundle[p] \in Bundle /\ BundleHonest(bundle[p])
    BY <1>1, <1>2, <1>10 DEF AuditDirty, ReviewStep
  <2>4. dirty = "clean" => ~tree.dirty
    BY DEF ToplevelDirty, Status
  <2>5. BundleHonest(b)
    BY <2>3, <2>4 DEF BundleHonest, Bundle, Facts
  <2>6. bundle' = [bundle EXCEPT ![p] = b]
    BY <2>2
  <2>7. ReviewStep(p, "auditDirty", "done")
    BY <1>10 DEF AuditDirty
  <2> QED
    BY <1>2, <2>5, <2>6, <2>7, BundleWitness
<1>11. CASE Finish(p)
  BY <1>11, ExitWitness DEF Finish, WitnessInv, ReceiptsHonest
<1> QED
  BY <1>3, <1>5, <1>6, <1>7, <1>8, <1>9, <1>10, <1>11 DEF Reviewing

\* No step of the developer or of a command disturbs that.
LEMMA WitnessPreserved ==
  ASSUME TreeHeldStill, WitnessInv, [Next]_vars
  PROVE  WitnessInv'
<1>1. TypeOK'
  BY DeveloperType, ConfirmType, ReviewType, CrashType
     DEF WitnessInv, Next, TypeOK, vars
<1>2. ReceiptsHonest' /\ DraftsHonest' /\ BundlesHonest'
  <2>1. ASSUME NEW p \in Proc, Crash(p)
        PROVE  ReceiptsHonest' /\ DraftsHonest' /\ BundlesHonest'
    BY <2>1, ExitWitness DEF Crash, WitnessInv, ReceiptsHonest
  <2>2. CASE UNCHANGED vars
    BY <2>2 DEF WitnessInv, ReceiptsHonest, DraftsHonest, BundlesHonest,
                BundleHonest, Honest, vars
  <2> QED
    BY <2>1, <2>2, DeveloperWitness, ConfirmWitness, ReviewWitness DEF Next
<1> QED
  BY <1>1, <1>2 DEF WitnessInv

\* However confirms and reviews overlap, are killed or fail to reach git, the
\* evidence a review puts on a card was observed on the tree it scanned, a
\* commit without edits, provided the tree stands still while a command runs.
THEOREM Witnessed ==
  ASSUME TreeHeldStill
  PROVE  Spec => []EvidenceIsWitnessed
<1>1. WitnessInv /\ [Next]_vars => WitnessInv'
  BY WitnessPreserved
<1>2. WitnessInv => EvidenceIsWitnessed
  BY DEF WitnessInv, BundlesHonest, BundleHonest, EvidenceIsWitnessed,
         Concluded, ReviewPc
<1> QED
  BY <1>1, <1>2, WitnessInit, PTL DEF Spec

-----------------------------------------------------------------------------
(* The store of a project where confirm chooses all file names.            *)

\* A receipt lies in the file of its tool and card, and its tool is the one
\* confirm picks for the card.
InItsPlace(r) ==
  /\ r.file = DefaultFile(r)
  /\ \E route \in FirstRoute(r.card) : r.tool = route.tool

StoreInPlace ==
  /\ \A r \in receipts : InItsPlace(r)
  /\ \A p \in Proc : pc[p] \in ConfirmPc => InItsPlace(draft[p])

PlaceInv == TypeOK /\ StoreInPlace

\* A card has one route that confirm executes.
LEMMA OneRoute ==
  ASSUME NEW card \in Card, NEW s \in FirstRoute(card), NEW t \in FirstRoute(card)
  PROVE  s = t
<1>1. DOMAIN Routes[card] \subseteq Nat
  BY ReceiptAssumption
<1> DEFINE commanded == {i \in DOMAIN Routes[card] :
                           Routes[card][i].command # NoCommand}
<1>2. PICK i \in commanded : s = Routes[card][i] /\ \A j \in commanded : i <= j
  BY DEF FirstRoute
<1>3. PICK j \in commanded : t = Routes[card][j] /\ \A k \in commanded : j <= k
  BY DEF FirstRoute
<1>4. i = j
  BY <1>1, <1>2, <1>3
<1> QED
  BY <1>2, <1>3, <1>4

\* What a step of one command owes to the store.
LEMMA PlaceStep ==
  ASSUME PlaceInv, NEW p \in Proc, NEW label, Goto(p, label),
         \A r \in receipts' : InItsPlace(r),
         label \in ConfirmPc => InItsPlace(draft'[p]),
         \A q \in Proc \ {p} : draft'[q] = draft[q]
  PROVE  StoreInPlace'
<1>1. \A q \in Proc \ {p} : pc'[q] = pc[q]
  BY DEF PlaceInv, TypeOK, Goto
<1>2. pc'[p] = label
  BY DEF PlaceInv, TypeOK, Goto
<1>3. \A q \in Proc : pc'[q] \in ConfirmPc => InItsPlace(draft'[q])
  BY <1>1, <1>2 DEF PlaceInv, StoreInPlace
<1> QED
  BY <1>3 DEF StoreInPlace, InItsPlace, DefaultFile

LEMMA ExitPlace ==
  ASSUME PlaceInv, NEW p \in Proc, Exit(p), \A r \in receipts' : InItsPlace(r)
  PROVE  StoreInPlace'
  BY PlaceStep DEF PlaceInv, TypeOK, Exit, ConfirmPc

LEMMA ConfirmPlace ==
  ASSUME OutFiles = {}, PlaceInv, NEW p \in Proc, Confirm(p)
  PROVE  StoreInPlace'
<1>1. \A r \in receipts : InItsPlace(r)
  BY DEF PlaceInv, StoreInPlace
<1>2. ASSUME pc[p] \in ConfirmPc
      PROVE  draft[p] \in Receipt /\ InItsPlace(draft[p])
  BY <1>2 DEF PlaceInv, TypeOK, StoreInPlace
<1>3. {"run", "probeHead", "probeDirty", "create", "write"} = ConfirmPc
  BY DEF ConfirmPc
<1>4. CASE Resolve(p)
  <2>1. InItsPlace(draft'[p])
    <3>1. PICK card \in Card, scope \in Scope, command \in Command :
            \E route \in FirstRoute(card) :
              /\ draft'[p].file = <<route.tool, card>>
              /\ draft'[p].tool = route.tool
              /\ draft'[p].card = card
      BY <1>4 DEF PlaceInv, TypeOK, Resolve
    <3> QED
      BY <3>1 DEF InItsPlace, DefaultFile
  <2>2. \A q \in Proc \ {p} : draft'[q] = draft[q]
    BY <1>4 DEF PlaceInv, TypeOK, Resolve
  <2> QED
    BY <1>1, <1>4, <2>1, <2>2, PlaceStep DEF Resolve, ConfirmStep
<1>5. ASSUME pc[p] \in ConfirmPc, UNCHANGED receipts,
             NEW label \in ConfirmPc, Goto(p, label),
             \A q \in Proc \ {p} : draft'[q] = draft[q],
             draft'[p].file = draft[p].file,
             draft'[p].tool = draft[p].tool,
             draft'[p].card = draft[p].card
      PROVE  StoreInPlace'
  <2>1. InItsPlace(draft'[p])
    BY <1>2, <1>5 DEF InItsPlace, DefaultFile
  <2> QED
    BY <1>1, <1>5, <2>1, PlaceStep
<1>6. CASE Run(p)
  <2>1. \A q \in Proc \ {p} : draft'[q] = draft[q]
    BY <1>6 DEF PlaceInv, TypeOK, Run
  <2>2. CASE draft' = [draft EXCEPT ![p].ranOn = tree] /\ Goto(p, "probeHead")
    <3>1. draft[p] \in Receipt
      BY <1>2, <1>3, <1>6 DEF Run, ConfirmStep
    <3>2. draft'[p] = [draft[p] EXCEPT !.ranOn = tree]
      BY <2>2 DEF PlaceInv, TypeOK
    <3>3. /\ draft'[p].file = draft[p].file
          /\ draft'[p].tool = draft[p].tool
          /\ draft'[p].card = draft[p].card
      BY <3>1, <3>2 DEF Receipt
    <3> QED
      BY <1>3, <1>5, <1>6, <2>1, <2>2, <3>3 DEF Run, ConfirmStep
  <2>3. CASE Goto(p, "idle")
    BY <1>1, <1>6, <2>1, <2>3, PlaceStep DEF Run, ConfirmStep, ConfirmPc
  <2> QED
    BY <1>6, <2>2, <2>3 DEF Run
<1>7. CASE ProbeHead(p)
  <2>1. PICK head, expires :
          draft' = [draft EXCEPT ![p].expires = expires,
                                 ![p].binding.facts.head = head]
    BY <1>7 DEF ProbeHead
  <2>2. draft[p] \in Receipt
    BY <1>2, <1>3, <1>7 DEF ProbeHead, ConfirmStep
  <2>3. /\ \A q \in Proc \ {p} : draft'[q] = draft[q]
        /\ draft'[p].file = draft[p].file
        /\ draft'[p].tool = draft[p].tool
        /\ draft'[p].card = draft[p].card
    BY <2>1, <2>2 DEF PlaceInv, TypeOK, Receipt, Binding
  <2> QED
    BY <1>3, <1>5, <1>7, <2>3 DEF ProbeHead, ConfirmStep
<1>8. CASE ProbeDirty(p)
  <2>1. PICK dirty : draft' = [draft EXCEPT ![p].binding.facts.dirty = dirty]
    BY <1>8 DEF ProbeDirty
  <2>2. draft[p] \in Receipt
    BY <1>2, <1>3, <1>8 DEF ProbeDirty, ConfirmStep
  <2>3. /\ \A q \in Proc \ {p} : draft'[q] = draft[q]
        /\ draft'[p].file = draft[p].file
        /\ draft'[p].tool = draft[p].tool
        /\ draft'[p].card = draft[p].card
    BY <2>1, <2>2 DEF PlaceInv, TypeOK, Receipt, Binding
  <2> QED
    BY <1>3, <1>5, <1>8, <2>3 DEF ProbeDirty, ConfirmStep
<1>9. CASE Create(p)
  <2>1. draft[p] \in Receipt /\ InItsPlace(draft[p])
    BY <1>2, <1>3, <1>9 DEF Create
  <2>2. CASE Exit(p) /\ UNCHANGED <<receipts, damaged>>
    BY <1>1, <2>2, ExitPlace
  <2>3. CASE /\ draft' = [draft EXCEPT ![p].file = DefaultFile(draft[p])]
             /\ receipts' = Without(DefaultFile(draft[p]))
             /\ Goto(p, "write")
    <3>1. draft' = draft
      BY <2>1, <2>3 DEF PlaceInv, TypeOK, InItsPlace, Receipt
    <3>2. \A r \in receipts' : InItsPlace(r)
      BY <1>1, <2>3 DEF Without
    <3> QED
      BY <2>1, <2>3, <3>1, <3>2, PlaceStep
  <2> QED
    BY <1>9, <2>2, <2>3 DEF Create
<1>10. CASE Write(p)
  <2>1. InItsPlace(draft[p])
    BY <1>2, <1>3, <1>10 DEF Write
  <2>2. \A r \in receipts' : InItsPlace(r)
    BY <1>1, <1>10, <2>1 DEF Write, Without
  <2> QED
    BY <1>10, <2>2, ExitPlace DEF Write
<1> QED
  BY <1>4, <1>6, <1>7, <1>8, <1>9, <1>10 DEF Confirm

LEMMA ReviewPlace ==
  ASSUME PlaceInv, NEW p \in Proc, Reviewing(p) \/ Crash(p)
  PROVE  StoreInPlace'
<1>1. \A r \in receipts' : InItsPlace(r)
  BY DEF PlaceInv, StoreInPlace, Reviewing, Load, CurrentHead, AskHead,
         CurrentDirty, BuildCards, AuditScan, AuditRead, AuditHead, AuditDirty,
         ReviewStep, Finish, Crash
<1>2. CASE Exit(p)
  BY <1>1, <1>2, ExitPlace
<1>3. CASE UNCHANGED draft /\ \E label \in ReviewPc : Goto(p, label)
  BY <1>1, <1>3, PlaceStep DEF ConfirmPc, ReviewPc
<1>4. Exit(p) \/ (UNCHANGED draft /\ \E label \in ReviewPc : Goto(p, label))
  BY DEF Reviewing, Load, CurrentHead, AskHead, CurrentDirty, BuildCards,
         AuditScan, AuditRead, AuditHead, AuditDirty, ReviewStep, Finish,
         Crash, ReviewPc
<1> QED
  BY <1>2, <1>3, <1>4

LEMMA PlacePreserved ==
  ASSUME OutFiles = {}, PlaceInv, [Next]_vars
  PROVE  PlaceInv'
<1>1. TypeOK'
  BY DeveloperType, ConfirmType, ReviewType, CrashType
     DEF PlaceInv, Next, TypeOK, vars
<1>2. CASE ChangeTree \/ NextDay \/ Remove \/ UNCHANGED vars
  BY <1>1, <1>2
     DEF PlaceInv, StoreInPlace, InItsPlace, DefaultFile, ChangeTree, NextDay,
         Remove, Without, vars
<1>3. CASE Author
  BY <1>3 DEF Author
<1> QED
  BY <1>1, <1>2, <1>3, ConfirmPlace, ReviewPlace DEF PlaceInv, Next

\* Where no other file names are used, no confirm and no review takes the
\* receipt of another card away, however they overlap.
THEOREM OwnReceipts ==
  ASSUME OutFiles = {}
  PROVE  Spec => OwnReceiptOnly
<1>1. Init => PlaceInv
  BY InitType DEF Init, PlaceInv, StoreInPlace, ConfirmPc
<1>2. PlaceInv /\ [Next]_vars => PlaceInv'
  BY PlacePreserved
<1>3. PlaceInv /\ [Next]_vars =>
        [\A r \in receipts \ receipts' :
           \/ Quiet
           \/ \E p \in Proc :
                pc[p] \in {"create", "write"} /\ draft[p].card = r.card]_vars
  <2> SUFFICES ASSUME PlaceInv, Next, NEW r \in receipts \ receipts', ~Quiet
               PROVE  \E p \in Proc : /\ pc[p] \in {"create", "write"}
                                      /\ draft[p].card = r.card
    BY DEF vars
  <2>1. PICK p \in Proc : Create(p) \/ Write(p)
    BY DEF Next, ChangeTree, NextDay, Author, Remove, Confirm, Resolve, Run,
           ProbeHead, ProbeDirty, ConfirmStep, Reviewing, Load, CurrentHead,
           AskHead, CurrentDirty, BuildCards, AuditScan, AuditRead, AuditHead,
           AuditDirty, ReviewStep, Finish, Crash
  <2>2. pc[p] \in {"create", "write"} /\ InItsPlace(draft[p]) /\ InItsPlace(r)
    BY <2>1 DEF PlaceInv, StoreInPlace, ConfirmPc, Create, Write
  <2>3. r.file = draft[p].file
    BY <2>1, <2>2 DEF Create, Write, Without, InItsPlace
  <2>4. r.card = draft[p].card
    BY <2>2, <2>3 DEF InItsPlace, DefaultFile
  <2> QED
    BY <2>2, <2>4
<1> QED
  BY <1>1, <1>2, <1>3, PTL DEF Spec, OwnReceiptOnly

\* Two receipts in their place do not claim the same slot.
LEMMA NoClashInPlace ==
  ASSUME PlaceInv, NEW rs \in SUBSET receipts
  PROVE  ~Clash(rs)
<1> SUFFICES ASSUME NEW r \in rs, NEW s \in rs, SameSlot(r, s) PROVE FALSE
  BY DEF Clash
<1>1. r # s /\ r.card = s.card
  BY DEF SameSlot
<1>2. r \in Receipt /\ s \in Receipt /\ InItsPlace(r) /\ InItsPlace(s)
  BY DEF PlaceInv, TypeOK, StoreInPlace
<1>3. r.card \in Card
  BY <1>2 DEF Receipt
<1>4. r.tool = s.tool
  BY <1>1, <1>2, <1>3, OneRoute DEF InItsPlace
<1>5. r.file = s.file
  BY <1>1, <1>2, <1>4 DEF InItsPlace, DefaultFile
<1> QED
  BY <1>1, <1>5 DEF PlaceInv, TypeOK

\* A file is damaged only while the one command writes it.
OnlyBeingWritten(p) ==
  damaged = {draft[q].file : q \in {q \in {p} : pc[q] = "write"}}

LEMMA DamagePreserved ==
  ASSUME NEW p, Proc = {p}, ~MayCrash, TypeOK, OnlyBeingWritten(p), [Next]_vars
  PROVE  OnlyBeingWritten(p)'
<1>1. CASE ChangeTree \/ NextDay \/ UNCHANGED vars
  BY <1>1 DEF ChangeTree, NextDay, vars, OnlyBeingWritten
<1>2. CASE Author \/ Remove
  BY <1>2 DEF Author, Remove, Quiet, OnlyBeingWritten
<1>3. ASSUME pc[p] # "write", UNCHANGED damaged, NEW label, label # "write",
             Goto(p, label)
      PROVE  OnlyBeingWritten(p)'
  BY <1>3 DEF OnlyBeingWritten, TypeOK, Goto
<1>4. CASE Resolve(p) \/ Run(p) \/ ProbeHead(p) \/ ProbeDirty(p)
  BY <1>3, <1>4 DEF Resolve, Run, ProbeHead, ProbeDirty, ConfirmStep
<1>5. CASE Create(p)
  <2>1. CASE Exit(p) /\ UNCHANGED <<receipts, damaged>>
    BY <1>3, <1>5, <2>1 DEF Create, Exit
  <2>2. CASE \E file \in {DefaultFile(draft[p])} \cup OutFiles :
               /\ draft' = [draft EXCEPT ![p].file = file]
               /\ damaged' = damaged \cup {file}
               /\ Goto(p, "write")
    <3>1. damaged = {} /\ draft[p] \in Receipt
      BY <1>5 DEF Create, OnlyBeingWritten, TypeOK, ConfirmPc
    <3>2. PICK file : /\ draft' = [draft EXCEPT ![p].file = file]
                      /\ damaged' = {file}
      BY <2>2, <3>1
    <3>3. draft'[p].file = file
      BY <3>1, <3>2 DEF TypeOK, Receipt
    <3>4. pc'[p] = "write"
      BY <2>2 DEF TypeOK, Goto
    <3> QED
      BY <3>2, <3>3, <3>4 DEF OnlyBeingWritten
  <2> QED
    BY <1>5, <2>1, <2>2 DEF Create
<1>6. CASE Write(p)
  <2>1. damaged = {draft[p].file}
    BY <1>6 DEF Write, OnlyBeingWritten
  <2>2. damaged' = {}
    BY <1>6, <2>1 DEF Write
  <2>3. pc'[p] = "idle"
    BY <1>6 DEF Write, Exit, Goto, TypeOK
  <2> QED
    BY <2>2, <2>3 DEF OnlyBeingWritten
<1>7. CASE Reviewing(p)
  BY <1>3, <1>7
     DEF Reviewing, Load, CurrentHead, AskHead, CurrentDirty, BuildCards,
         AuditScan, AuditRead, AuditHead, AuditDirty, ReviewStep, Finish, Exit
<1> QED
  BY <1>1, <1>2, <1>4, <1>5, <1>6, <1>7 DEF Next, Confirm, Crash

\* One command at a time, with confirm choosing the file names and nobody
\* killed, the next analysis can always load the store.
THEOREM StoreLoadable ==
  ASSUME NEW only, Proc = {only}, OutFiles = {}, ~MayCrash
  PROVE  Spec => []ConfirmKeepsStoreLoadable
<1> DEFINE Inv == PlaceInv /\ OnlyBeingWritten(only)
<1>1. Init => Inv
  BY InitType
     DEF Init, PlaceInv, StoreInPlace, OnlyBeingWritten, ConfirmPc
<1>2. Inv /\ [Next]_vars => Inv'
  BY PlacePreserved, DamagePreserved DEF PlaceInv
<1>3. Inv => ConfirmKeepsStoreLoadable
  BY NoClashInPlace
     DEF ConfirmKeepsStoreLoadable, Quiet, Loads, Unexpired, OnlyBeingWritten
<1> QED
  BY <1>1, <1>2, <1>3, PTL DEF Spec

-----------------------------------------------------------------------------
(* What confirm observed is imported, where git answers.                   *)

\* What git status says of the sources of a tree.
Clean(at) == IF at.dirty THEN "dirty" ELSE "clean"

\* Apart from what git says, the receipt tells what confirm has run on.
Observed(r) ==
  /\ r.binding.subject = Review[r.ranOn][r.card]
  /\ r.binding.subject # NoSubject
  /\ r.binding.complete
  /\ r.tool \in RouteTools(r.card)

\* A receipt of an executed command tells the whole truth.  The others record
\* no command.
Recorded(r) ==
  r.bound /\ r.binding.invocation # NoCommand =>
    /\ Observed(r)
    /\ r.binding.facts = [head |-> r.ranOn.head, dirty |-> Clean(r.ranOn)]

ReceiptsRecorded == \A r \in receipts : Recorded(r)

\* A confirm has found out so much when it is at label.
Drafted(d, label) ==
  /\ Observed(d)
  /\ label \in {"probeDirty", "create", "write"} =>
       d.binding.facts.head = tree.head
  /\ label \in {"create", "write"} => d.binding.facts.dirty = Clean(tree)

DraftsRecorded == \A p \in Proc : pc[p] \in ConfirmPc => Drafted(draft[p], pc[p])

IndexRecorded ==
  \A p \in Proc : pc[p] \in ReviewPc => \A r \in bundle[p].index : Recorded(r)

RecordInv == WitnessInv /\ ReceiptsRecorded /\ DraftsRecorded /\ IndexRecorded

\* The developer writes receipts without a command only, and while nobody runs.
LEMMA DeveloperRecord ==
  ASSUME TreeHeldStill, RecordInv, ChangeTree \/ NextDay \/ Author \/ Remove
  PROVE  ReceiptsRecorded' /\ DraftsRecorded' /\ IndexRecorded'
<1>1. Quiet /\ UNCHANGED pc
  BY DEF ChangeTree, NextDay, Author, Remove
<1>2. DraftsRecorded' /\ IndexRecorded'
  BY <1>1 DEF Quiet, DraftsRecorded, IndexRecorded, ConfirmPc, ReviewPc
<1>3. CASE receipts' \subseteq receipts
  BY <1>2, <1>3 DEF RecordInv, ReceiptsRecorded
<1>4. CASE Author
  <2>1. PICK file \in OutFiles, card \in Card, tool \in Tool,
             strength \in Strength, expires \in Day, scope \in Scope,
             bound \in BOOLEAN :
          receipts' = Without(file) \cup
            {[file |-> file, card |-> card, tool |-> tool,
              strength |-> strength, expires |-> expires, bound |-> bound,
              binding |-> IF bound THEN BindingNow(card, scope) ELSE Unbound,
              ranOn |-> tree]}
    BY <1>4 DEF Author
  <2>2. BindingNow(card, scope).invocation = NoCommand
    BY DEF BindingNow
  <2>3. Recorded([file |-> file, card |-> card, tool |-> tool,
                  strength |-> strength, expires |-> expires, bound |-> bound,
                  binding |-> IF bound THEN BindingNow(card, scope) ELSE Unbound,
                  ranOn |-> tree])
    BY <2>2 DEF Recorded
  <2>4. \A r \in Without(file) : Recorded(r)
    BY DEF RecordInv, ReceiptsRecorded, Without
  <2>5. ReceiptsRecorded'
    BY <2>1, <2>3, <2>4 DEF ReceiptsRecorded
  <2> QED
    BY <1>2, <2>5
<1> QED
  BY <1>3, <1>4 DEF ChangeTree, NextDay, Remove, Without

\* A command that ends leaves what it has written.
LEMMA ExitRecord ==
  ASSUME RecordInv, NEW p \in Proc, Exit(p), UNCHANGED tree,
         \A r \in receipts' : Recorded(r)
  PROVE  ReceiptsRecorded' /\ DraftsRecorded' /\ IndexRecorded'
<1>1. pc'[p] = "idle" /\ \A q \in Proc \ {p} : /\ pc'[q] = pc[q]
                                               /\ draft'[q] = draft[q]
                                               /\ bundle'[q] = bundle[q]
  BY DEF RecordInv, WitnessInv, TypeOK, Exit, Goto
<1>2. \A d, label : Drafted(d, label) => Drafted(d, label)'
  BY DEF Drafted, Observed
<1>3. DraftsRecorded'
  BY <1>1, <1>2 DEF RecordInv, DraftsRecorded, ConfirmPc
<1>4. IndexRecorded'
  BY <1>1 DEF RecordInv, IndexRecorded, ReviewPc
<1> QED
  BY <1>3, <1>4 DEF ReceiptsRecorded

LEMMA DraftRecord ==
  ASSUME RecordInv, NEW p \in Proc, NEW label \in ConfirmPc, NEW d,
         Goto(p, label), draft' = [draft EXCEPT ![p] = d], Drafted(d, label),
         UNCHANGED <<tree, bundle>>, receipts' \subseteq receipts
  PROVE  ReceiptsRecorded' /\ DraftsRecorded' /\ IndexRecorded'
<1>1. /\ pc'[p] = label /\ draft'[p] = d
      /\ \A q \in Proc \ {p} : pc'[q] = pc[q] /\ draft'[q] = draft[q]
  BY DEF RecordInv, WitnessInv, TypeOK, Goto
<1>2. \A e, l : Drafted(e, l) => Drafted(e, l)'
  BY DEF Drafted, Observed
<1>3. DraftsRecorded'
  BY <1>1, <1>2 DEF RecordInv, DraftsRecorded
<1>4. IndexRecorded'
  BY <1>1 DEF RecordInv, IndexRecorded, ReviewPc, ConfirmPc
<1>5. ReceiptsRecorded'
  BY DEF RecordInv, ReceiptsRecorded
<1> QED
  BY <1>3, <1>4, <1>5

\* A review that goes on with the receipts it has, or with those there are.
LEMMA BundleRecord ==
  ASSUME RecordInv, NEW p \in Proc, NEW from, NEW to \in ReviewPc, NEW b,
         ReviewStep(p, from, to), bundle' = [bundle EXCEPT ![p] = b],
         \A r \in b.index : Recorded(r)
  PROVE  ReceiptsRecorded' /\ DraftsRecorded' /\ IndexRecorded'
<1>1. /\ pc'[p] = to /\ bundle'[p] = b
      /\ \A q \in Proc \ {p} : pc'[q] = pc[q] /\ bundle'[q] = bundle[q]
  BY DEF RecordInv, WitnessInv, TypeOK, ReviewStep, Goto
<1>2. UNCHANGED <<tree, receipts, draft>>
  BY DEF ReviewStep
<1>3. \A e, l : Drafted(e, l) => Drafted(e, l)'
  BY <1>2 DEF Drafted, Observed
<1>4. DraftsRecorded'
  BY <1>1, <1>2, <1>3 DEF RecordInv, DraftsRecorded, ReviewPc, ConfirmPc
<1>5. IndexRecorded'
  BY <1>1 DEF RecordInv, IndexRecorded
<1> QED
  BY <1>2, <1>4, <1>5 DEF RecordInv, ReceiptsRecorded

\* Where git answers, it says what is so.
LEMMA GitAnswers ==
  ASSUME ~GitMayFail
  PROVE  HeadNow = {tree.head} /\ RootDirty = {Clean(tree)}
  BY DEF HeadNow, RootDirty, Status, Clean

LEMMA ConfirmRecord ==
  ASSUME ~GitMayFail, RecordInv, NEW p \in Proc, Confirm(p)
  PROVE  ReceiptsRecorded' /\ DraftsRecorded' /\ IndexRecorded'
<1>1. ASSUME pc[p] \in ConfirmPc
      PROVE  /\ draft[p] \in Receipt /\ draft[p].ranOn = tree
             /\ Drafted(draft[p], pc[p])
  BY <1>1 DEF RecordInv, WitnessInv, TypeOK, DraftsHonest, DraftsRecorded
<1>2. {"run", "probeHead", "probeDirty", "create", "write"} = ConfirmPc
  BY DEF ConfirmPc
<1>3. CASE Resolve(p)
  <2> DEFINE Bound(card, scope, command) ==
               [subject    |-> Review[tree][card],
                invocation |-> command,
                scope      |-> scope,
                facts      |-> NoFacts,
                complete   |-> TRUE]
             Begun(card, scope, command, route) ==
               [file     |-> <<route.tool, card>>,
                card     |-> card,
                tool     |-> route.tool,
                strength |-> "ran",
                expires  |-> today,
                bound    |-> TRUE,
                binding  |-> Bound(card, scope, command),
                ranOn    |-> tree]
  <2>1. PICK card \in Card, scope \in Scope, command \in Command :
          /\ Review[tree][card] # NoSubject
          /\ \E route \in FirstRoute(card) :
               draft' = [draft EXCEPT ![p] = Begun(card, scope, command, route)]
    BY <1>3 DEF Resolve
  <2>2. PICK route \in FirstRoute(card) :
          draft' = [draft EXCEPT ![p] = Begun(card, scope, command, route)]
    BY <2>1
  <2> DEFINE d == Begun(card, scope, command, route)
  <2>3. route.tool \in RouteTools(card)
    BY <2>2 DEF FirstRoute, RouteTools
  <2>4. Drafted(d, "run")
    BY <2>1, <2>3 DEF Drafted, Observed
  <2> HIDE DEF Begun
  <2> QED
    BY <1>2, <1>3, <2>2, <2>4, DraftRecord DEF Resolve, ConfirmStep
<1>4. CASE Run(p)
  <2>1. pc[p] = "run" /\ UNCHANGED <<tree, receipts, bundle>>
    BY <1>4 DEF Run, ConfirmStep
  <2>2. CASE draft' = [draft EXCEPT ![p].ranOn = tree] /\ Goto(p, "probeHead")
    <3>1. draft' = [draft EXCEPT ![p] = draft[p]]
      BY <1>1, <1>2, <2>1, <2>2 DEF RecordInv, WitnessInv, TypeOK, Receipt
    <3>2. Drafted(draft[p], "probeHead")
      BY <1>1, <1>2, <2>1 DEF Drafted
    <3> QED
      BY <1>2, <2>1, <2>2, <3>1, <3>2, DraftRecord
  <2>3. CASE draft' = [draft EXCEPT ![p] = NoDraft] /\ Goto(p, "idle")
    <3>1. /\ pc'[p] = "idle"
          /\ \A q \in Proc \ {p} : pc'[q] = pc[q] /\ draft'[q] = draft[q]
      BY <2>3 DEF RecordInv, WitnessInv, TypeOK, Goto
    <3>2. \A e, l : Drafted(e, l) => Drafted(e, l)'
      BY <2>1 DEF Drafted, Observed
    <3>3. DraftsRecorded'
      BY <3>1, <3>2 DEF RecordInv, DraftsRecorded, ConfirmPc
    <3>4. IndexRecorded'
      BY <2>1, <3>1 DEF RecordInv, IndexRecorded, ReviewPc
    <3> QED
      BY <2>1, <3>3, <3>4 DEF RecordInv, ReceiptsRecorded
  <2> QED
    BY <1>4, <2>2, <2>3 DEF Run
<1>5. CASE ProbeHead(p)
  <2>1. PICK expires \in Day :
          draft' = [draft EXCEPT ![p].expires = expires,
                                 ![p].binding.facts.head = tree.head]
    BY <1>5, GitAnswers DEF ProbeHead
  <2>2. draft[p] \in Receipt /\ draft[p].ranOn = tree /\ Observed(draft[p])
    BY <1>1, <1>2, <1>5 DEF ProbeHead, ConfirmStep, Drafted
  <2> DEFINE d == [draft[p] EXCEPT !.expires = expires,
                                   !.binding.facts.head = tree.head]
  <2>3. draft' = [draft EXCEPT ![p] = d]
    BY <2>1, <2>2 DEF Receipt, Binding
  <2>4. /\ d.binding.facts.head = tree.head
        /\ d.binding.subject = draft[p].binding.subject
        /\ d.binding.complete = draft[p].binding.complete
        /\ d.tool = draft[p].tool /\ d.card = draft[p].card
        /\ d.ranOn = draft[p].ranOn
    BY <2>2 DEF Receipt, Binding, Facts
  <2> HIDE DEF d
  <2>5. Drafted(d, "probeDirty")
    BY <2>2, <2>4 DEF Drafted, Observed
  <2> QED
    BY <1>2, <1>5, <2>3, <2>5, DraftRecord DEF ProbeHead, ConfirmStep
<1>6. CASE ProbeDirty(p)
  <2>1. draft' = [draft EXCEPT ![p].binding.facts.dirty = Clean(tree)]
    BY <1>6, GitAnswers DEF ProbeDirty
  <2>2. /\ draft[p] \in Receipt /\ draft[p].ranOn = tree /\ Observed(draft[p])
        /\ draft[p].binding.facts.head = tree.head
    BY <1>1, <1>2, <1>6 DEF ProbeDirty, ConfirmStep, Drafted
  <2> DEFINE d == [draft[p] EXCEPT !.binding.facts.dirty = Clean(tree)]
  <2>3. draft' = [draft EXCEPT ![p] = d]
    BY <2>1, <2>2 DEF Receipt, Binding
  <2>4. /\ d.binding.facts.head = tree.head
        /\ d.binding.facts.dirty = Clean(tree)
        /\ d.binding.subject = draft[p].binding.subject
        /\ d.binding.complete = draft[p].binding.complete
        /\ d.tool = draft[p].tool /\ d.card = draft[p].card
        /\ d.ranOn = draft[p].ranOn
    BY <2>2 DEF Receipt, Binding, Facts
  <2> HIDE DEF d
  <2>5. Drafted(d, "create")
    BY <2>2, <2>4 DEF Drafted, Observed
  <2> QED
    BY <1>2, <1>6, <2>3, <2>5, DraftRecord DEF ProbeDirty, ConfirmStep
<1>7. CASE Create(p)
  <2>1. pc[p] = "create" /\ UNCHANGED tree
    BY <1>7 DEF Create
  <2>2. CASE Exit(p) /\ UNCHANGED <<receipts, damaged>>
    BY <2>1, <2>2, ExitRecord DEF RecordInv, ReceiptsRecorded
  <2>3. CASE \E file : /\ draft' = [draft EXCEPT ![p].file = file]
                       /\ receipts' = Without(file)
                       /\ Goto(p, "write")
                       /\ UNCHANGED bundle
    <3>1. PICK file : /\ draft' = [draft EXCEPT ![p].file = file]
                      /\ receipts' = Without(file)
                      /\ Goto(p, "write")
                      /\ UNCHANGED bundle
      BY <2>3
    <3> DEFINE d == [draft[p] EXCEPT !.file = file]
    <3>2. draft[p] \in Receipt /\ Drafted(draft[p], "create")
      BY <1>1, <1>2, <2>1
    <3>3. /\ draft' = [draft EXCEPT ![p] = d]
          /\ d.binding = draft[p].binding /\ d.tool = draft[p].tool
          /\ d.card = draft[p].card /\ d.ranOn = draft[p].ranOn
      BY <3>1, <3>2 DEF Receipt
    <3> HIDE DEF d
    <3>4. Drafted(d, "write")
      BY <3>2, <3>3 DEF Drafted, Observed
    <3>5. receipts' \subseteq receipts
      BY <3>1 DEF Without
    <3> QED
      BY <1>2, <2>1, <3>1, <3>3, <3>4, <3>5, DraftRecord
  <2> QED
    BY <1>7, <2>2, <2>3 DEF Create
<1>8. CASE Write(p)
  <2>1. receipts' \subseteq receipts \cup {draft[p]}
    BY <1>8 DEF Write, Without
  <2>2. /\ draft[p] \in Receipt /\ draft[p].ranOn = tree
        /\ Drafted(draft[p], "write")
    BY <1>1, <1>2, <1>8 DEF Write
  <2>3. draft[p].binding.facts = [head |-> tree.head, dirty |-> Clean(tree)]
    BY <2>2 DEF Drafted, Receipt, Binding, Facts
  <2>4. Recorded(draft[p])
    BY <2>2, <2>3 DEF Recorded, Drafted
  <2>5. \A r \in receipts' : Recorded(r)
    BY <2>1, <2>4 DEF RecordInv, ReceiptsRecorded
  <2> QED
    BY <1>8, <2>5, ExitRecord DEF Write
<1> QED
  BY <1>3, <1>4, <1>5, <1>6, <1>7, <1>8 DEF Confirm

\* A review that goes on changes what it holds, but not its index.
LEMMA SameIndex ==
  ASSUME TypeOK, NEW p \in Proc, Reviewing(p), ~Load(p), ~Finish(p)
  PROVE  \E from, to \in ReviewPc : \E b :
           /\ ReviewStep(p, from, to) /\ pc[p] \in ReviewPc
           /\ bundle' = [bundle EXCEPT ![p] = b] /\ b.index = bundle[p].index
<1>1. {"head", "dirty", "scan", "auditScan", "auditRead", "auditHead",
       "auditDirty", "done"} = ReviewPc
  BY DEF ReviewPc
<1>2. PICK from \in ReviewPc, to \in ReviewPc : ReviewStep(p, from, to)
  BY <1>1 DEF Reviewing, CurrentHead, AskHead, CurrentDirty, BuildCards,
         AuditScan, AuditRead, AuditHead, AuditDirty
<1>3. pc[p] \in ReviewPc /\ bundle[p] \in Bundle
  BY <1>2 DEF ReviewStep, TypeOK
<1>4. \E b : bundle' = [bundle EXCEPT ![p] = b] /\ b.index = bundle[p].index
  <2>1. ASSUME NEW head, bundle' = [bundle EXCEPT ![p].facts.head = head]
        PROVE  \E b : bundle' = [bundle EXCEPT ![p] = b] /\ b.index = bundle[p].index
    <3> DEFINE b == [bundle[p] EXCEPT !.facts.head = head]
    <3>1. bundle' = [bundle EXCEPT ![p] = b] /\ b.index = bundle[p].index
      BY <1>3, <2>1 DEF Bundle
    <3> QED BY <3>1
  <2>2. CASE CurrentDirty(p)
    <3>1. PICK dirty : bundle' = [bundle EXCEPT ![p].facts.dirty = dirty]
      BY <2>2 DEF CurrentDirty
    <3> DEFINE b == [bundle[p] EXCEPT !.facts.dirty = dirty]
    <3>2. bundle' = [bundle EXCEPT ![p] = b] /\ b.index = bundle[p].index
      BY <1>3, <3>1 DEF Bundle
    <3> QED BY <3>2
  <2>3. CASE BuildCards(p)
    <3>1. PICK imported :
            bundle' = [bundle EXCEPT ![p].at = tree, ![p].imported = imported]
      BY <2>3 DEF BuildCards
    <3> DEFINE b == [bundle[p] EXCEPT !.at = tree, !.imported = imported]
    <3>2. bundle' = [bundle EXCEPT ![p] = b] /\ b.index = bundle[p].index
      BY <1>3, <3>1 DEF Bundle
    <3> QED BY <3>2
  <2>4. CASE AuditScan(p)
    <3> DEFINE b == [bundle[p] EXCEPT !.at = tree]
    <3>1. bundle' = [bundle EXCEPT ![p] = b] /\ b.index = bundle[p].index
      BY <1>3, <2>4 DEF AuditScan, Bundle
    <3> QED BY <3>1
  <2>5. CASE AuditRead(p)
    <3> DEFINE b == [bundle[p] EXCEPT !.saved = receipts, !.day = today]
    <3>1. bundle' = [bundle EXCEPT ![p] = b] /\ b.index = bundle[p].index
      BY <1>3, <2>5 DEF AuditRead, Bundle
    <3> QED BY <3>1
  <2>6. CASE AuditDirty(p)
    <3>1. \E facts, audited :
            bundle' = [bundle EXCEPT ![p].facts = facts, ![p].audited = audited]
      BY <2>6 DEF AuditDirty
    <3>2. PICK facts, audited :
            bundle' = [bundle EXCEPT ![p].facts = facts, ![p].audited = audited]
      BY <3>1
    <3> DEFINE b == [bundle[p] EXCEPT !.facts = facts, !.audited = audited]
    <3>3. bundle' = [bundle EXCEPT ![p] = b] /\ b.index = bundle[p].index
      BY <1>3, <3>2 DEF Bundle
    <3> QED BY <3>3
  <2> QED
    BY <2>1, <2>2, <2>3, <2>4, <2>5, <2>6
       DEF Reviewing, CurrentHead, AuditHead, AskHead
<1> QED
  BY <1>2, <1>3, <1>4

LEMMA ReviewRecord ==
  ASSUME RecordInv, NEW p \in Proc, Reviewing(p)
  PROVE  ReceiptsRecorded' /\ DraftsRecorded' /\ IndexRecorded'
<1>1. CASE Load(p)
  <2> DEFINE index == {r \in Unexpired(receipts, today) : Kind(r) # "none"}
             Loaded(scope) ==
               [scope |-> scope, index |-> index, facts |-> NoFacts,
                at |-> tree, imported |-> {}, saved |-> {},
                day |-> today, audited |-> {}]
  <2>1. PICK scope : bundle' = [bundle EXCEPT ![p] = Loaded(scope)]
    BY <1>1 DEF Load
  <2>2. \A r \in index : Recorded(r)
    BY DEF Unexpired, RecordInv, ReceiptsRecorded
  <2>3. Loaded(scope).index = index
    OBVIOUS
  <2> HIDE DEF Loaded, index
  <2> QED
    BY <1>1, <2>1, <2>2, <2>3, BundleRecord DEF Load, ReviewPc
<1>2. CASE Finish(p)
  BY <1>2, ExitRecord DEF Finish, RecordInv, ReceiptsRecorded
<1>3. CASE ~Load(p) /\ ~Finish(p)
  <2>1. PICK from \in ReviewPc, to \in ReviewPc :
         \E b :
           /\ ReviewStep(p, from, to) /\ pc[p] \in ReviewPc
           /\ bundle' = [bundle EXCEPT ![p] = b] /\ b.index = bundle[p].index
    BY <1>3, SameIndex DEF RecordInv, WitnessInv
  <2>2. PICK b :
           /\ ReviewStep(p, from, to) /\ pc[p] \in ReviewPc
           /\ bundle' = [bundle EXCEPT ![p] = b] /\ b.index = bundle[p].index
    BY <2>1
  <2>3. \A r \in b.index : Recorded(r)
    BY <2>2 DEF RecordInv, IndexRecorded
  <2> QED
    BY <2>2, <2>3, BundleRecord
<1> QED
  BY <1>1, <1>2, <1>3

-----------------------------------------------------------------------------
(* What a review knows of git, where git answers.                          *)

\* What git says in the toplevel: below it, the store counts as a change.
GitSays ==
  [head  |-> tree.head,
   dirty |-> IF tree.dirty \/ (RootInSubdir /\ (receipts # {} \/ damaged # {}))
             THEN "dirty" ELSE "clean"]

\* A review at label has asked git, and has put on the cards what follows.
Knows(b, label) ==
  /\ label # "head" => b.facts.head = GitSays.head
  /\ label \notin {"head", "dirty"} => b.facts.dirty = GitSays.dirty
  /\ label \notin {"head", "dirty", "scan"} =>
       b.imported = Imported(b.index, tree, b.scope, GitSays)

BundlesKnow == \A p \in Proc : pc[p] \in ReviewPc => Knows(bundle[p], pc[p])

\* Nobody changes what git says to a review: the tree stands still, and where
\* the store counts there is one command only.
GitSteady ==
  /\ TreeHeldStill /\ ~GitMayFail
  /\ RootInSubdir => \E only : Proc = {only}

\* The others know what they knew, unless the store counts.
LEMMA OthersKnow ==
  ASSUME GitSteady, TypeOK, BundlesKnow, NEW p \in Proc, UNCHANGED tree,
         \/ UNCHANGED <<receipts, damaged>>
         \/ ~RootInSubdir
         \/ \A q \in Proc : q = p,
         \A q \in Proc \ {p} : pc'[q] = pc[q] /\ bundle'[q] = bundle[q],
         pc'[p] \in ReviewPc => Knows(bundle[p], pc[p])'
  PROVE  BundlesKnow'
<1> SUFFICES ASSUME NEW q \in Proc, pc'[q] \in ReviewPc
             PROVE  Knows(bundle[q], pc[q])'
  BY DEF BundlesKnow
<1>1. CASE q = p
  BY <1>1
<1>2. CASE q # p
  <2>1. GitSays' = GitSays
    BY <1>2 DEF GitSays
  <2>2. \A b, label : Knows(b, label) => Knows(b, label)'
    BY <2>1 DEF Knows
  <2>3. pc'[q] = pc[q] /\ bundle'[q] = bundle[q]
    BY <1>2
  <2> QED
    BY <2>2, <2>3 DEF BundlesKnow
<1> QED
  BY <1>1, <1>2

\* Where the store counts, there are no others.
LEMMA Alone ==
  ASSUME GitSteady, NEW p \in Proc
  PROVE  ~RootInSubdir \/ \A q \in Proc : q = p
<1>1. CASE RootInSubdir
  <2>1. PICK only : Proc = {only}
    BY <1>1 DEF GitSteady
  <2> QED
    BY <2>1
<1> QED
  BY <1>1

\* The developer acts while nobody reviews.
LEMMA DeveloperKnows ==
  ASSUME TreeHeldStill, ChangeTree \/ NextDay \/ Author \/ Remove
  PROVE  BundlesKnow'
  BY DEF ChangeTree, NextDay, Author, Remove, Quiet, BundlesKnow, ReviewPc

\* A command that confirms or ends is no review.
LEMMA LeavesKnow ==
  ASSUME GitSteady, TypeOK, BundlesKnow, NEW p \in Proc,
         Confirm(p) \/ Finish(p) \/ Crash(p)
  PROVE  BundlesKnow'
<1>1. UNCHANGED tree
  BY DEF Confirm, Resolve, Run, ProbeHead, ProbeDirty, ConfirmStep, Create,
         Write, Finish, Crash
<1>2. \E label \in ConfirmPc \cup {"idle"} : Goto(p, label)
  BY DEF Confirm, Resolve, Run, ProbeHead, ProbeDirty, Create, Write, Finish,
         Crash, Exit, ConfirmPc
<1>3. UNCHANGED bundle \/ bundle' = [bundle EXCEPT ![p] = NoBundle]
  BY DEF Confirm, Resolve, Run, ProbeHead, ProbeDirty, ConfirmStep, Create,
         Write, Finish, Crash, Exit
<1>4. pc'[p] \notin ReviewPc
  BY <1>2 DEF TypeOK, Goto, ConfirmPc, ReviewPc
<1>5. \A q \in Proc \ {p} : pc'[q] = pc[q] /\ bundle'[q] = bundle[q]
  BY <1>2, <1>3 DEF TypeOK, Goto
<1> QED
  BY <1>1, <1>4, <1>5, Alone, OthersKnow

\* A review that goes on knows what it has just asked.
LEMMA BundleKnows ==
  ASSUME GitSteady, TypeOK, BundlesKnow, NEW p \in Proc, NEW from,
         NEW to \in ReviewPc, NEW b, ReviewStep(p, from, to),
         bundle' = [bundle EXCEPT ![p] = b], Knows(b, to)
  PROVE  BundlesKnow'
<1>1. /\ pc'[p] = to /\ bundle'[p] = b
      /\ \A q \in Proc \ {p} : pc'[q] = pc[q] /\ bundle'[q] = bundle[q]
  BY DEF TypeOK, ReviewStep, Goto
<1>2. UNCHANGED <<tree, receipts, damaged>>
  BY DEF ReviewStep
<1>3. Knows(b, to)'
  BY <1>2 DEF Knows, GitSays
<1>4. Knows(bundle[p], pc[p])'
  BY <1>1, <1>3 DEF Knows
<1> QED
  BY <1>1, <1>2, <1>4, OthersKnow

\* Where git answers, the toplevel has one answer.
LEMMA ToplevelAnswers ==
  ASSUME ~GitMayFail
  PROVE  HeadNow = {GitSays.head} /\ ToplevelDirty = {GitSays.dirty}
  BY DEF HeadNow, ToplevelDirty, Status, GitSays

LEMMA ReviewKnows ==
  ASSUME GitSteady, TypeOK, BundlesKnow, NEW p \in Proc, Reviewing(p)
  PROVE  BundlesKnow'
<1>1. ASSUME pc[p] \in ReviewPc
      PROVE  bundle[p] \in Bundle /\ Knows(bundle[p], pc[p])
  BY <1>1 DEF TypeOK, BundlesKnow
<1>2. {"head", "dirty", "scan", "auditScan", "auditRead", "auditHead",
       "auditDirty", "done"} = ReviewPc
  BY DEF ReviewPc
<1>3. HeadNow = {GitSays.head} /\ ToplevelDirty = {GitSays.dirty}
  BY ToplevelAnswers DEF GitSteady
<1>4. CASE Load(p)
  <2> DEFINE Loaded(scope) ==
               [scope |-> scope,
                index |-> {r \in Unexpired(receipts, today) : Kind(r) # "none"},
                facts |-> NoFacts, at |-> tree, imported |-> {}, saved |-> {},
                day |-> today, audited |-> {}]
  <2>1. PICK scope : bundle' = [bundle EXCEPT ![p] = Loaded(scope)]
    BY <1>4 DEF Load
  <2>2. Knows(Loaded(scope), "head")
    BY DEF Knows
  <2> HIDE DEF Loaded
  <2> QED
    BY <1>2, <1>4, <2>1, <2>2, BundleKnows DEF Load
<1>5. ASSUME NEW from \in {"head", "auditHead"}, NEW to \in ReviewPc,
             AskHead(p, from, to),
             from = "head" => to = "dirty", from = "auditHead" => to = "auditDirty"
      PROVE  BundlesKnow'
  <2>1. ReviewStep(p, from, to) /\ pc[p] = from
    BY <1>5 DEF AskHead, ReviewStep
  <2>2. bundle' = [bundle EXCEPT ![p].facts.head = GitSays.head]
    BY <1>3, <1>5 DEF AskHead
  <2>3. bundle[p] \in Bundle /\ Knows(bundle[p], from)
    BY <1>1, <1>2, <2>1
  <2> DEFINE b == [bundle[p] EXCEPT !.facts.head = GitSays.head]
  <2>4. bundle' = [bundle EXCEPT ![p] = b]
    BY <2>2, <2>3 DEF Bundle
  <2>5. /\ b.facts.head = GitSays.head /\ b.facts.dirty = bundle[p].facts.dirty
        /\ b.imported = bundle[p].imported /\ b.index = bundle[p].index
        /\ b.scope = bundle[p].scope
    BY <2>3 DEF Bundle, Facts
  <2> HIDE DEF b
  <2>6. Knows(b, to)
    BY <1>5, <2>3, <2>5 DEF Knows
  <2> QED
    BY <2>1, <2>4, <2>6, BundleKnows
<1>6. CASE CurrentHead(p) \/ AuditHead(p)
  BY <1>2, <1>5, <1>6 DEF CurrentHead, AuditHead
<1>7. CASE CurrentDirty(p)
  <2>1. ReviewStep(p, "dirty", "scan") /\ pc[p] = "dirty"
    BY <1>7 DEF CurrentDirty, ReviewStep
  <2>2. bundle' = [bundle EXCEPT ![p].facts.dirty = GitSays.dirty]
    BY <1>3, <1>7 DEF CurrentDirty
  <2>3. bundle[p] \in Bundle /\ Knows(bundle[p], "dirty")
    BY <1>1, <1>2, <2>1
  <2> DEFINE b == [bundle[p] EXCEPT !.facts.dirty = GitSays.dirty]
  <2>4. bundle' = [bundle EXCEPT ![p] = b]
    BY <2>2, <2>3 DEF Bundle
  <2>5. b.facts.dirty = GitSays.dirty /\ b.facts.head = bundle[p].facts.head
    BY <2>3 DEF Bundle, Facts
  <2> HIDE DEF b
  <2>6. Knows(b, "scan")
    BY <2>3, <2>5 DEF Knows
  <2> QED
    BY <1>2, <2>1, <2>4, <2>6, BundleKnows
<1>8. CASE BuildCards(p)
  <2> DEFINE imported == Imported(bundle[p].index, tree, bundle[p].scope,
                                  bundle[p].facts)
             b == [bundle[p] EXCEPT !.at = tree, !.imported = imported]
             to == IF bundle[p].scope = "diff" THEN "auditScan" ELSE "done"
  <2>1. ReviewStep(p, "scan", to) /\ pc[p] = "scan"
    BY <1>8 DEF BuildCards, ReviewStep
  <2>2. bundle[p] \in Bundle /\ Knows(bundle[p], "scan")
    BY <1>1, <1>2, <2>1
  <2>3. bundle[p].facts = GitSays
    BY <2>2 DEF Knows, Bundle, Facts, GitSays
  <2>4. imported = Imported(bundle[p].index, tree, bundle[p].scope, GitSays)
    BY <2>3
  <2>5. bundle' = [bundle EXCEPT ![p] = b]
    BY <1>8 DEF BuildCards
  <2> HIDE DEF imported
  <2>6. /\ b.facts = bundle[p].facts /\ b.imported = imported
        /\ b.index = bundle[p].index /\ b.scope = bundle[p].scope
    BY <2>2 DEF Bundle
  <2>7. to \in ReviewPc
    BY <1>2
  <2> HIDE DEF b, to
  <2>8. Knows(b, to)
    BY <2>3, <2>4, <2>6 DEF Knows
  <2> QED
    BY <2>1, <2>5, <2>7, <2>8, BundleKnows
<1>9. ASSUME NEW from \in {"auditScan", "auditRead"}, NEW to \in ReviewPc,
             ReviewStep(p, from, to), NEW b, bundle' = [bundle EXCEPT ![p] = b],
             b.facts = bundle[p].facts, b.imported = bundle[p].imported,
             b.index = bundle[p].index, b.scope = bundle[p].scope
      PROVE  BundlesKnow'
  <2>1. Knows(bundle[p], from)
    BY <1>1, <1>2, <1>9 DEF ReviewStep
  <2>2. Knows(b, to)
    BY <1>9, <2>1 DEF Knows
  <2> QED
    BY <1>9, <2>2, BundleKnows
<1>10. CASE AuditScan(p)
  <2> DEFINE b == [bundle[p] EXCEPT !.at = tree]
  <2>1. bundle[p] \in Bundle
    BY <1>1, <1>2, <1>10 DEF AuditScan, ReviewStep
  <2>2. /\ b.facts = bundle[p].facts /\ b.imported = bundle[p].imported
        /\ b.index = bundle[p].index /\ b.scope = bundle[p].scope
    BY <2>1 DEF Bundle
  <2>3. bundle' = [bundle EXCEPT ![p] = b]
    BY <1>10 DEF AuditScan
  <2> HIDE DEF b
  <2> QED
    BY <1>2, <1>9, <1>10, <2>2, <2>3 DEF AuditScan
<1>11. CASE AuditRead(p)
  <2> DEFINE b == [bundle[p] EXCEPT !.saved = receipts, !.day = today]
  <2>1. bundle[p] \in Bundle
    BY <1>1, <1>2, <1>11 DEF AuditRead, ReviewStep
  <2>2. /\ b.facts = bundle[p].facts /\ b.imported = bundle[p].imported
        /\ b.index = bundle[p].index /\ b.scope = bundle[p].scope
    BY <2>1 DEF Bundle
  <2>3. bundle' = [bundle EXCEPT ![p] = b]
    BY <1>11 DEF AuditRead
  <2> HIDE DEF b
  <2> QED
    BY <1>2, <1>9, <1>11, <2>2, <2>3 DEF AuditRead
<1>12. CASE AuditDirty(p)
  <2>1. ReviewStep(p, "auditDirty", "done") /\ pc[p] = "auditDirty"
    BY <1>12 DEF AuditDirty, ReviewStep
  <2>2. bundle[p] \in Bundle /\ Knows(bundle[p], "auditDirty")
    BY <1>1, <1>2, <2>1
  <2> DEFINE facts == [bundle[p].facts EXCEPT !.dirty = GitSays.dirty]
  <2>3. \E audited : bundle' = [bundle EXCEPT ![p].facts = facts,
                                              ![p].audited = audited]
    BY <1>3, <1>12 DEF AuditDirty
  <2>4. PICK audited : bundle' = [bundle EXCEPT ![p].facts = facts,
                                                ![p].audited = audited]
    BY <2>3
  <2>5. facts.head = bundle[p].facts.head /\ facts.dirty = GitSays.dirty
    BY <2>2 DEF Bundle, Facts
  <2> HIDE DEF facts
  <2> DEFINE b == [bundle[p] EXCEPT !.facts = facts, !.audited = audited]
  <2>6. bundle' = [bundle EXCEPT ![p] = b]
    BY <2>4
  <2>7. /\ b.facts = facts /\ b.imported = bundle[p].imported
        /\ b.index = bundle[p].index /\ b.scope = bundle[p].scope
    BY <2>2 DEF Bundle
  <2> HIDE DEF b
  <2>8. Knows(b, "done")
    BY <2>2, <2>5, <2>7 DEF Knows
  <2> QED
    BY <1>2, <2>1, <2>6, <2>8, BundleKnows
<1>13. CASE Finish(p)
  BY <1>13, LeavesKnow
<1> QED
  BY <1>4, <1>6, <1>7, <1>8, <1>10, <1>11, <1>12, <1>13 DEF Reviewing

LEMMA KnowPreserved ==
  ASSUME GitSteady, TypeOK, BundlesKnow, [Next]_vars
  PROVE  BundlesKnow'
<1>1. CASE UNCHANGED vars
  BY <1>1 DEF BundlesKnow, Knows, GitSays, vars
<1>2. CASE ChangeTree \/ NextDay \/ Author \/ Remove
  BY <1>2, DeveloperKnows DEF GitSteady
<1>3. ASSUME NEW p \in Proc, Confirm(p) \/ Reviewing(p) \/ Crash(p)
      PROVE  BundlesKnow'
  BY <1>3, LeavesKnow, ReviewKnows
<1> QED
  BY <1>1, <1>2, <1>3 DEF Next

\* A routed command is a command.
LEMMA RoutedIsCommand ==
  ASSUME NEW card \in Card
  PROVE  NoCommand \notin RoutedCommand(card)
  BY DEF RoutedCommand, FirstRoute

\* What confirm recorded on a clean tree with the routed command applies to
\* that very tree.
LEMMA RecordedApplies ==
  ASSUME ~RootInSubdir, tree \in Tree, NEW r \in Receipt, Recorded(r), r.bound,
         r.ranOn = tree, ~tree.dirty,
         r.binding.invocation \in RoutedCommand(r.card),
         NEW index, r \in index
  PROVE  r \in Imported(index, tree, r.binding.scope, GitSays)
<1>1. r.card \in Card
  BY DEF Receipt
<1>2. Observed(r) /\ r.binding.facts = [head |-> tree.head, dirty |-> "clean"]
  BY <1>1, RoutedIsCommand DEF Recorded, Clean
<1>3. GitSays = [head |-> tree.head, dirty |-> "clean"]
  BY DEF GitSays
<1>4. tree.head # NoHead
  BY ReceiptAssumption DEF Tree
<1>5. Applies(r, Current(r.card, tree, r.binding.scope, GitSays))
  BY <1>2, <1>3, <1>4 DEF Applies, Current, Observed
<1>6. Review[tree][r.card] # NoSubject /\ r.tool \in RouteTools(r.card)
  BY <1>2 DEF Observed
<1> QED
  BY <1>5, <1>6 DEF Imported

\* Where git answers in the toplevel and the tree stands still while a command
\* runs, the store does not block its own receipts: a review of the same scope
\* imports what confirm observed, however commands overlap and die.
THEOREM ConfirmedApply ==
  ASSUME TreeHeldStill, ~GitMayFail, ~RootInSubdir
  PROVE  Spec => []ConfirmedImports
<1> DEFINE Inv == RecordInv /\ BundlesKnow
<1>1. Init => Inv
  BY WitnessInit DEF Init, RecordInv, ReceiptsRecorded, DraftsRecorded,
         IndexRecorded, BundlesKnow, ConfirmPc, ReviewPc
<1>2. Inv /\ [Next]_vars => Inv'
  <2> SUFFICES ASSUME Inv, [Next]_vars PROVE Inv'
    OBVIOUS
  <2>1. WitnessInv'
    BY WitnessPreserved DEF RecordInv
  <2>2. ReceiptsRecorded' /\ DraftsRecorded' /\ IndexRecorded'
    <3>1. CASE UNCHANGED vars
      BY <3>1 DEF RecordInv, ReceiptsRecorded, DraftsRecorded, IndexRecorded,
                  Recorded, Observed, Drafted, vars
    <3>2. ASSUME NEW p \in Proc, Crash(p)
          PROVE  ReceiptsRecorded' /\ DraftsRecorded' /\ IndexRecorded'
      BY <3>2, ExitRecord DEF Crash, RecordInv, ReceiptsRecorded
    <3> QED
      BY <3>1, <3>2, DeveloperRecord, ConfirmRecord, ReviewRecord DEF Next
  <2>3. BundlesKnow'
    BY KnowPreserved DEF GitSteady, RecordInv, WitnessInv
  <2> QED
    BY <2>1, <2>2, <2>3 DEF RecordInv
<1>3. Inv => ConfirmedImports
  <2> SUFFICES ASSUME Inv, NEW p \in Proc, Concluded(p),
                      NEW r \in bundle[p].index, r.bound,
                      r.ranOn = bundle[p].at, ~r.ranOn.dirty,
                      r.binding.invocation \in RoutedCommand(r.card),
                      r.binding.scope = bundle[p].scope
               PROVE  r \in bundle[p].imported
    BY DEF ConfirmedImports
  <2>1. pc[p] \in ReviewPc /\ pc[p] = "done"
    BY DEF Concluded, ReviewPc
  <2>2. bundle[p] \in Bundle /\ bundle[p].at = tree /\ tree \in Tree
    BY <2>1 DEF RecordInv, WitnessInv, TypeOK, BundlesHonest, BundleHonest
  <2>3. r \in Receipt /\ Recorded(r)
    BY <2>1, <2>2 DEF RecordInv, IndexRecorded, Bundle
  <2>4. bundle[p].imported =
          Imported(bundle[p].index, tree, bundle[p].scope, GitSays)
    BY <2>1 DEF BundlesKnow, Knows
  <2> QED
    BY <2>2, <2>3, <2>4, RecordedApplies
<1> QED
  BY <1>1, <1>2, <1>3, PTL DEF Spec

-----------------------------------------------------------------------------
(* The audit of a first-pr, with one command at a time.                    *)

\* A review has loaded the store that is still there on a day that has not
\* passed, and the audit reads the same store on the same day.
AuditsStore(b, label) ==
  /\ b.index = {r \in Unexpired(receipts, today) : Kind(r) # "none"}
  /\ label \in {"auditHead", "auditDirty"} => b.saved = receipts /\ b.day = today
  /\ label # "done" => b.audited = {}
  /\ label = "done" => b.audited \subseteq b.imported

AuditInv == \A p \in Proc : pc[p] \in ReviewPc => AuditsStore(bundle[p], pc[p])

\* An audit of the store a review has loaded marks what the review imported.
LEMMA AuditOfLoaded ==
  ASSUME NEW at, NEW scope, NEW facts
  PROVE  Audited(receipts, today, at, scope, facts) \subseteq
           Imported({r \in Unexpired(receipts, today) : Kind(r) # "none"},
                    at, scope, facts)
  BY DEF Audited, Imported, Unexpired

LEMMA AuditPreserved ==
  ASSUME NEW only, Proc = {only}, TreeHeldStill, ~GitMayFail,
         WitnessInv, BundlesKnow, AuditInv, [Next]_vars
  PROVE  AuditInv'
<1>1. CASE UNCHANGED vars
  BY <1>1 DEF AuditInv, AuditsStore, vars
<1>2. CASE ChangeTree \/ NextDay \/ Author \/ Remove
  BY <1>2 DEF ChangeTree, NextDay, Author, Remove, Quiet, AuditInv, ReviewPc
<1>3. CASE Confirm(only) \/ Finish(only) \/ Crash(only)
  <2>1. \E label \in ConfirmPc \cup {"idle"} : Goto(only, label)
    BY <1>3 DEF Confirm, Resolve, Run, ProbeHead, ProbeDirty, Create, Write,
           Finish, Crash, Exit, ConfirmPc
  <2>2. pc'[only] \notin ReviewPc
    BY <2>1 DEF WitnessInv, TypeOK, Goto, ConfirmPc, ReviewPc
  <2> QED
    BY <2>2 DEF AuditInv
<1>4. ASSUME NEW from, NEW to \in ReviewPc, ReviewStep(only, from, to),
             NEW b, bundle' = [bundle EXCEPT ![only] = b], AuditsStore(b, to)
      PROVE  AuditInv'
  <2>1. pc'[only] = to /\ bundle'[only] = b
    BY <1>4 DEF WitnessInv, TypeOK, ReviewStep, Goto
  <2>2. UNCHANGED <<receipts, today>>
    BY <1>4 DEF ReviewStep
  <2>3. AuditsStore(b, to)'
    BY <1>4, <2>2 DEF AuditsStore
  <2> QED
    BY <2>1, <2>3 DEF AuditInv, AuditsStore
<1>5. ASSUME pc[only] \in ReviewPc
      PROVE  /\ bundle[only] \in Bundle
             /\ AuditsStore(bundle[only], pc[only])
             /\ Knows(bundle[only], pc[only])
             /\ bundle[only].at = tree
  BY <1>5 DEF WitnessInv, TypeOK, AuditInv, BundlesKnow, BundlesHonest, BundleHonest
<1>6. {"head", "dirty", "scan", "auditScan", "auditRead", "auditHead",
       "auditDirty", "done"} = ReviewPc
  BY DEF ReviewPc
<1>7. CASE Load(only)
  <2> DEFINE index == {r \in Unexpired(receipts, today) : Kind(r) # "none"}
             Loaded(scope) ==
               [scope |-> scope, index |-> index, facts |-> NoFacts,
                at |-> tree, imported |-> {}, saved |-> {},
                day |-> today, audited |-> {}]
  <2>1. PICK scope : bundle' = [bundle EXCEPT ![only] = Loaded(scope)]
    BY <1>7 DEF Load
  <2>2. AuditsStore(Loaded(scope), "head")
    BY DEF AuditsStore
  <2> HIDE DEF Loaded
  <2> QED
    BY <1>4, <1>6, <1>7, <2>1, <2>2 DEF Load
<1>8. ASSUME NEW from \in ReviewPc \ {"done"}, NEW to \in ReviewPc \ {"done"},
             ReviewStep(only, from, to),
             NEW b, bundle' = [bundle EXCEPT ![only] = b],
             b.index = bundle[only].index, b.audited = bundle[only].audited,
             to \in {"auditHead", "auditDirty"} => b.saved = receipts /\ b.day = today
      PROVE  AuditInv'
  <2>1. AuditsStore(bundle[only], from)
    BY <1>5, <1>8 DEF ReviewStep
  <2>2. AuditsStore(b, to)
    BY <1>8, <2>1 DEF AuditsStore
  <2> QED
    BY <1>4, <1>8, <2>2
<1>9. ASSUME NEW from \in {"head", "auditHead"}, NEW to \in {"dirty", "auditDirty"},
             AskHead(only, from, to),
             from = "head" => to = "dirty"
      PROVE  AuditInv'
  <2>1. PICK head : bundle' = [bundle EXCEPT ![only].facts.head = head]
    BY <1>9 DEF AskHead
  <2>2. ReviewStep(only, from, to) /\ pc[only] = from
    BY <1>9 DEF AskHead, ReviewStep
  <2>3. bundle[only] \in Bundle /\ AuditsStore(bundle[only], from)
    BY <1>5, <1>6, <2>2
  <2> DEFINE b == [bundle[only] EXCEPT !.facts.head = head]
  <2>4. /\ bundle' = [bundle EXCEPT ![only] = b]
        /\ b.index = bundle[only].index /\ b.audited = bundle[only].audited
        /\ b.saved = bundle[only].saved /\ b.day = bundle[only].day
    BY <2>1, <2>3 DEF Bundle
  <2> HIDE DEF b
  <2>5. to \in {"auditHead", "auditDirty"} => b.saved = receipts /\ b.day = today
    BY <1>9, <2>3, <2>4 DEF AuditsStore
  <2>6. from \in ReviewPc \ {"done"} /\ to \in ReviewPc \ {"done"}
    BY <1>6
  <2> QED
    BY <1>8, <2>2, <2>4, <2>5, <2>6
<1>10. CASE CurrentHead(only) \/ AuditHead(only)
  BY <1>9, <1>10 DEF CurrentHead, AuditHead
<1>11. CASE CurrentDirty(only)
  <2>1. PICK dirty : bundle' = [bundle EXCEPT ![only].facts.dirty = dirty]
    BY <1>11 DEF CurrentDirty
  <2>2. ReviewStep(only, "dirty", "scan")
    BY <1>11 DEF CurrentDirty
  <2>3. bundle[only] \in Bundle
    BY <1>5, <1>6, <2>2 DEF ReviewStep
  <2> DEFINE b == [bundle[only] EXCEPT !.facts.dirty = dirty]
  <2>4. /\ bundle' = [bundle EXCEPT ![only] = b]
        /\ b.index = bundle[only].index /\ b.audited = bundle[only].audited
    BY <2>1, <2>3 DEF Bundle
  <2> HIDE DEF b
  <2>5. {"dirty", "scan"} \subseteq ReviewPc \ {"done"}
    BY <1>6
  <2> QED
    BY <1>8, <2>2, <2>4, <2>5
<1>12. CASE BuildCards(only)
  <2> DEFINE imported == Imported(bundle[only].index, tree, bundle[only].scope,
                                  bundle[only].facts)
             b == [bundle[only] EXCEPT !.at = tree, !.imported = imported]
             to == IF bundle[only].scope = "diff" THEN "auditScan" ELSE "done"
  <2>1. ReviewStep(only, "scan", to)
    BY <1>12 DEF BuildCards
  <2>2. bundle[only] \in Bundle /\ AuditsStore(bundle[only], "scan")
    BY <1>5, <1>6, <2>1 DEF ReviewStep
  <2>3. bundle' = [bundle EXCEPT ![only] = b]
    BY <1>12 DEF BuildCards
  <2> HIDE DEF imported
  <2>4. b.index = bundle[only].index /\ b.audited = bundle[only].audited
    BY <2>2 DEF Bundle
  <2>5. to \in {"auditScan", "done"}
    OBVIOUS
  <2> HIDE DEF b, to
  <2>6. AuditsStore(b, to)
    BY <2>2, <2>4, <2>5 DEF AuditsStore
  <2> QED
    BY <1>4, <1>6, <2>1, <2>3, <2>5, <2>6
<1>13. CASE AuditScan(only)
  <2>1. ReviewStep(only, "auditScan", "auditRead")
    BY <1>13 DEF AuditScan
  <2>2. bundle[only] \in Bundle
    BY <1>5, <1>6, <2>1 DEF ReviewStep
  <2> DEFINE b == [bundle[only] EXCEPT !.at = tree]
  <2>3. /\ bundle' = [bundle EXCEPT ![only] = b]
        /\ b.index = bundle[only].index /\ b.audited = bundle[only].audited
    BY <1>13, <2>2 DEF AuditScan, Bundle
  <2> HIDE DEF b
  <2>4. {"auditScan", "auditRead"} \subseteq ReviewPc \ {"done"}
    BY <1>6
  <2> QED
    BY <1>8, <2>1, <2>3, <2>4
<1>14. CASE AuditRead(only)
  <2>1. ReviewStep(only, "auditRead", "auditHead")
    BY <1>14 DEF AuditRead
  <2>2. bundle[only] \in Bundle
    BY <1>5, <1>6, <2>1 DEF ReviewStep
  <2> DEFINE b == [bundle[only] EXCEPT !.saved = receipts, !.day = today]
  <2>3. /\ bundle' = [bundle EXCEPT ![only] = b]
        /\ b.index = bundle[only].index /\ b.audited = bundle[only].audited
        /\ b.saved = receipts /\ b.day = today
    BY <1>14, <2>2 DEF AuditRead, Bundle
  <2> HIDE DEF b
  <2> QED
    BY <1>6, <1>8, <2>1, <2>3
<1>15. CASE AuditDirty(only)
  <2>1. ReviewStep(only, "auditDirty", "done") /\ pc[only] = "auditDirty"
    BY <1>15 DEF AuditDirty, ReviewStep
  <2>2. /\ bundle[only] \in Bundle /\ bundle[only].at = tree
        /\ AuditsStore(bundle[only], "auditDirty")
        /\ Knows(bundle[only], "auditDirty")
    BY <1>5, <1>6, <2>1
  <2> DEFINE facts == [bundle[only].facts EXCEPT !.dirty = GitSays.dirty]
             audited == Audited(bundle[only].saved, bundle[only].day,
                                bundle[only].at, bundle[only].scope, facts)
             b == [bundle[only] EXCEPT !.facts = facts, !.audited = audited]
  <2>3. bundle' = [bundle EXCEPT ![only].facts = facts, ![only].audited = audited]
    BY <1>15, ToplevelAnswers DEF AuditDirty
  <2>4. facts = GitSays
    BY <2>2 DEF Knows, Bundle, Facts, GitSays
  <2>5. audited \subseteq bundle[only].imported
    <3>1. audited = Audited(receipts, today, tree, bundle[only].scope, GitSays)
      BY <2>2, <2>4 DEF AuditsStore
    <3>2. bundle[only].imported =
            Imported({r \in Unexpired(receipts, today) : Kind(r) # "none"},
                     tree, bundle[only].scope, GitSays)
      BY <2>2 DEF Knows, AuditsStore
    <3> HIDE DEF audited
    <3> QED
      BY <3>1, <3>2, AuditOfLoaded
  <2> HIDE DEF facts, audited
  <2>6. /\ bundle' = [bundle EXCEPT ![only] = b]
        /\ b.index = bundle[only].index /\ b.imported = bundle[only].imported
        /\ b.audited = audited
    BY <2>2, <2>3 DEF Bundle
  <2> HIDE DEF b
  <2>7. AuditsStore(b, "done")
    BY <2>2, <2>5, <2>6 DEF AuditsStore
  <2> QED
    BY <1>4, <1>6, <2>1, <2>6, <2>7
<1> QED
  BY <1>1, <1>2, <1>3, <1>7, <1>10, <1>11, <1>12, <1>13, <1>14, <1>15
     DEF Next, Reviewing

\* With one command at a time, and where git answers, what the audit of a
\* first-pr marks as importing is on the cards of the same bundle, wherever the
\* root lies.
THEOREM AuditAgrees ==
  ASSUME NEW only, Proc = {only}, TreeHeldStill, ~GitMayFail
  PROVE  Spec => []AuditedIsImported
<1> DEFINE Inv == WitnessInv /\ BundlesKnow /\ AuditInv
<1>1. Init => Inv
  BY WitnessInit DEF Init, BundlesKnow, AuditInv, ReviewPc
<1>2. Inv /\ [Next]_vars => Inv'
  BY WitnessPreserved, KnowPreserved, AuditPreserved DEF GitSteady, WitnessInv
<1>3. Inv => AuditedIsImported
  BY DEF AuditInv, AuditsStore, AuditedIsImported, Concluded, ReviewPc
<1> QED
  BY <1>1, <1>2, <1>3, PTL DEF Spec

=============================================================================
