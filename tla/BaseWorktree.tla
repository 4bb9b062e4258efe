---------------------------- MODULE BaseWorktree ----------------------------
(***************************************************************************)
(* The movement section of first-pr.  After the head has been analysed as  *)
(* far as a diff reaches, the base commit is checked out as a registered   *)
(* worktree in a temporary directory named after the process, analysed     *)
(* whole, joined with the head, and removed again, as far as git and the   *)
(* file system let it.                                                     *)
(*                                                                         *)
(* Several first-pr run on one repository.  A process may be killed, and   *)
(* its number may be used again.  Developers move HEAD and the base ref.   *)
(***************************************************************************)
EXTENDS BaseMovement

CONSTANTS
  Commit,
  MergeBaseOf,    \* the merge base of two commits
  Subject,        \* each in a file of its own; less the name of the package
  Name,           \* names of packages and directories
  NoName,         \* a root whose Cargo.toml names no package
  HeadRoot,       \* the directory that is reviewed, and the one of the base
  BaseRoot,       \* tree: "worktree", unless a directory below it is reviewed
  Copy,           \* places at which a subject may be
  History,        \* what the commits may contain
  Start,          \* where HEAD and base may be at first
  Pid,
  NoCommit,
  Empty, Partial, \* a temporary directory: no checkout yet, or half of one
  NoDir,
  NoCap, Caps,    \* values of --max-cards
  NoSection,
  MaxRuns, MaxMoves,     \* bounds
  MayFail           \* whether git and the file system may refuse

Site == [subject : Subject, copy : Copy, evidence : CardEvidence]

\* What a commit contains.  skipped are the subjects in files that a whole
\* analysis passes over, below vendor, build, dist or generated or ignored by
\* git; one of a diff does not.
Tree == [sites : SUBSET Site, skipped : SUBSET Subject, package : Name \cup {NoName}]

ASSUME WorktreeAssumption ==
  /\ MergeBaseOf \in [Commit \X Commit -> Commit]
  /\ History \subseteq [Commit -> Tree]
  /\ {HeadRoot, BaseRoot} \subseteq Name /\ NoName \notin Name
  /\ Start \subseteq Commit \X Commit
  /\ NoCommit \notin Commit /\ NoSection \notin Movement
  /\ Commit \cap {NoDir, Empty, Partial} = {}
  /\ NoDir \notin {Empty, Partial} /\ Empty # Partial
  /\ Caps \subseteq Nat \cup {NoCap}
  /\ {MaxRuns, MaxMoves} \subseteq Nat
  /\ MayFail \in BOOLEAN

VARIABLES
  tree,         \* the contents of each commit
  head, base,   \* HEAD, which is checked out, and the ref given as --base
  tmp,          \* what is in the temporary directory of each process number
  registered,   \* whether git has a worktree there
  pc, run,      \* each process
  section,      \* the movement section that was written last
  runs, moves,  \* for the bounds
  abandoned     \* history: directories of which a process was killed or a
                \* removal failed

repository == <<tree, head, base>>
disk       == <<tmp, registered, abandoned>>
vars       == <<tree, head, base, tmp, registered, pc, run, section, runs,
                moves, abandoned>>

-----------------------------------------------------------------------------

Pc == {"idle", "analyze_head", "head_sha", "merge_base", "create_dir",
       "add_worktree", "checkout", "analyze_base", "unregister", "remove_dir"}

NoCards == [s \in Subject |-> {}]
Cards   == [Subject -> SUBSET (Copy \X CardEvidence)]

\* What a process knows.  anchor is the merge base that git diff used, sha
\* the one that is checked out, still whether HEAD and base have kept still.
Run ==
  [cap : Caps, anchor : Commit, sha : Commit \cup {NoCommit},
   headSha : Commit \cup {NoCommit}, touched : SUBSET Subject, name : Name,
   cards : Cards, headCapped : BOOLEAN, still : BOOLEAN]

NoRun == [cap |-> NoCap, anchor |-> NoCommit]

\* A section without movements, because something failed.
UnknownSection == [baseSha |-> NoCommit]

SitesOf(sites, s) ==
  {<<x.copy, x.evidence>> : x \in {y \in sites : y.subject = s}}

CardsOf(sites) == [s \in Subject |-> SitesOf(sites, s)]

\* package_name.
PackageName(contents, root) ==
  IF contents.package = NoName THEN root ELSE contents.package

\* spread_select_cards keeps cap of the cards.
Capped(sites, cap) == cap # NoCap /\ Cardinality(sites) > cap

Selections(sites, cap) ==
  IF Capped(sites, cap)
  THEN {kept \in SUBSET sites : Cardinality(kept) = cap}
  ELSE {sites}

Goto(p, label) == pc' = [pc EXCEPT ![p] = label]

-----------------------------------------------------------------------------
(* The head.                                                               *)

\* git diff base...HEAD.
Diff(p) ==
  /\ pc[p] = "idle"
  /\ runs < MaxRuns
  /\ runs' = runs + 1
  /\ \E cap \in Caps :
       run' = [run EXCEPT ![p] =
                 [cap |-> cap, anchor |-> MergeBaseOf[<<base, head>>],
                  sha |-> NoCommit, headSha |-> NoCommit, touched |-> {},
                  name |-> HeadRoot, cards |-> NoCards, headCapped |-> FALSE,
                  still |-> TRUE]]
  /\ Goto(p, "analyze_head")
  /\ UNCHANGED <<repository, disk, section, moves>>

Places(sites) == {<<x.subject, x.copy>> : x \in sites}

\* A card for every site near a changed line: the ones that are new, and any
\* other in the files that have changed.
AnalyzeHead(p) ==
  LET old     == tree[run[p].anchor].sites
      sites   == tree[head].sites
      new     == {x \in sites : <<x.subject, x.copy>> \notin Places(old)}
      gone    == {x \in old : <<x.subject, x.copy>> \notin Places(sites)}
      changed == {x.subject : x \in new \cup gone}
  IN  /\ pc[p] = "analyze_head"
      /\ \E touched \in {t \in SUBSET Subject : changed \subseteq t} :
           /\ \E near \in SUBSET {x \in sites : x.subject \in touched} :
                /\ new \subseteq near
                /\ \E kept \in Selections(near, run[p].cap) :
                     run' = [run EXCEPT ![p].touched = touched,
                                        ![p].name = PackageName(tree[head], HeadRoot),
                                        ![p].cards = CardsOf(kept),
                                        ![p].headCapped = Capped(near, run[p].cap)]
      /\ Goto(p, "head_sha")
      /\ UNCHANGED <<repository, disk, section, runs, moves>>

ResolveHeadSha(p) ==
  /\ pc[p] = "head_sha"
  /\ run' = [run EXCEPT ![p].headSha = head]
  /\ Goto(p, "merge_base")
  /\ UNCHANGED <<repository, disk, section, runs, moves>>

-----------------------------------------------------------------------------
(* materialize_base.                                                       *)

Write(p, movement, sha) ==
  section' = [movement |-> movement, baseSha |-> sha, headSha |-> run[p].headSha,
              anchor |-> run[p].anchor, still |-> run[p].still]

\* Mutant: the base tree is materialised although its commit is not known.
DegradeOnly(p) ==
  /\ section' = UnknownSection
  /\ UNCHANGED run
  /\ Goto(p, "create_dir")

\* The section is unknown, with a cause, and first-pr goes on.
Degrade(p) ==
  /\ section' = UnknownSection
  /\ run' = [run EXCEPT ![p] = NoRun]
  /\ Goto(p, "idle")

\* Mutant: the tip of the base is taken.
BaseTip(r) == base

\* The commit that stands for the base.
BaseSha(r) == MergeBaseOf[<<base, head>>]

ResolveBaseSha(p) ==
  /\ pc[p] = "merge_base"
  /\ \/ /\ run' = [run EXCEPT ![p].sha = BaseSha(run[p])]
        /\ Goto(p, "create_dir")
        /\ UNCHANGED section
     \/ /\ MayFail
        /\ Degrade(p)
  /\ UNCHANGED <<repository, disk, runs, moves>>

\* let _ = remove_dir_all: when it fails, something stays and nobody is told.
Remains(d) ==
  CASE tmp[d] = NoDir -> {}
    [] tmp[d] = Empty -> {Empty}
    [] OTHER          -> {tmp[d], Partial, Empty}

RemoveDirAll(d) ==
  \/ /\ tmp' = [tmp EXCEPT ![d] = NoDir]
     /\ UNCHANGED abandoned
  \/ /\ MayFail
     /\ \E rest \in Remains(d) : tmp' = [tmp EXCEPT ![d] = rest]
     /\ abandoned' = abandoned \cup {d}

\* Mutant: one directory for all processes.
DirOfAll(p) == CHOOSE d \in Pid : TRUE

\* unsafe-review-base-<pid>-<counter>; a process has one.
DirOf(p) == p

\* create_dir_all is content with a directory that exists.
CreateDir(p) ==
  /\ pc[p] = "create_dir"
  /\ \/ /\ tmp' = [tmp EXCEPT ![DirOf(p)] = IF @ = NoDir THEN Empty ELSE @]
        /\ Goto(p, "add_worktree")
        /\ UNCHANGED <<run, section>>
     \/ /\ MayFail
        /\ Degrade(p)
        /\ UNCHANGED tmp
  /\ UNCHANGED <<repository, registered, abandoned, runs, moves>>

\* git worktree add, as far as the record of the worktree.  It refuses a path
\* that is not empty, or that it has on record already.
AddWorktree(p) ==
  LET d == DirOf(p)
  IN  /\ pc[p] = "add_worktree"
      /\ \/ /\ tmp[d] = Empty /\ ~registered[d]
            /\ registered' = [registered EXCEPT ![d] = TRUE]
            /\ tmp' = [tmp EXCEPT ![d] = Partial]
            /\ Goto(p, "checkout")
            /\ UNCHANGED <<abandoned, run, section>>
         \/ /\ tmp[d] # Empty \/ registered[d] \/ MayFail
            /\ RemoveDirAll(d)
            /\ Degrade(p)
            /\ UNCHANGED registered
      /\ UNCHANGED <<repository, runs, moves>>

\* The rest of git worktree add, which strikes out its record when it fails.
Checkout(p) ==
  LET d == DirOf(p)
  IN  /\ pc[p] = "checkout"
      /\ \/ /\ tmp' = [tmp EXCEPT ![d] = run[p].sha]
            /\ Goto(p, "analyze_base")
            /\ UNCHANGED <<registered, abandoned, run, section>>
         \/ /\ MayFail
            /\ registered' = [registered EXCEPT ![d] = FALSE]
            /\ RemoveDirAll(d)
            /\ Degrade(p)
      /\ UNCHANGED <<repository, runs, moves>>

-----------------------------------------------------------------------------
(* The base, and the join.                                                 *)

Evidences(cards) == {c[2] : c \in cards}

\* A card's identity starts with the name of the package.
Identity == Name \X Subject

\* The cards that a side has of an identity.
CardsFor(cards, name, id) == IF id[1] = name THEN cards[id[2]] ELSE {}

\* The movement of each identity that has a card.  Cards of an identity with
\* the same evidence are still several.  A whole analysis passes for one that
\* covers every file.
Joined(r, baseCards, baseName, complete) ==
  [id \in Identity |->
     LET onBase == CardsFor(baseCards, baseName, id)
         onHead == CardsFor(r.cards, r.name, id)
     IN  IF onHead = {} /\ onBase = {} THEN NoSection
         ELSE IF Cardinality(onHead) > 1 \/ Cardinality(onBase) > 1 THEN "unknown"
         ELSE NoResolved(MovementOf(
                [cards |-> Evidences(onBase), complete |-> complete,
                 covers |-> TRUE],
                [cards |-> Evidences(onHead), complete |-> ~r.headCapped,
                 covers |-> id[2] \in r.touched]))]

NoTree == [sites |-> {}, skipped |-> {}, package |-> NoName]

\* The analysis reads what is in the directory, less what a whole analysis
\* passes over.
AnalyzeBase(p) ==
  LET d    == DirOf(p)
      here == IF tmp[d] \in Commit THEN tree[tmp[d]] ELSE NoTree
      seen == {x \in here.sites : x.subject \notin here.skipped}
  IN  /\ pc[p] = "analyze_base"
      /\ \/ \E kept \in Selections(seen, run[p].cap) :
              Write(p, Joined(run[p], CardsOf(kept), PackageName(here, BaseRoot),
                              ~Capped(seen, run[p].cap)),
                    IF tmp[d] \in Commit THEN tmp[d] ELSE NoCommit)
         \/ \* the root is outside of the tree, or the analysis fails
            section' = UnknownSection
      /\ run' = [run EXCEPT ![p] = NoRun]
      /\ Goto(p, "unregister")
      /\ UNCHANGED <<repository, disk, runs, moves>>

\* Drop: git worktree remove --force, which takes the tree away and strikes
\* out the record; when it fails it may have done some of either.
Unregister(p) ==
  LET d == DirOf(p)
  IN  /\ pc[p] = "unregister"
      /\ \/ /\ registered' = [registered EXCEPT ![d] = FALSE]
            /\ tmp' = [tmp EXCEPT ![d] = Empty]
            /\ UNCHANGED abandoned
         \/ /\ MayFail
            /\ \E still \in BOOLEAN : registered' = [registered EXCEPT ![d] = still]
            /\ \E rest \in Remains(d) : tmp' = [tmp EXCEPT ![d] = rest]
            /\ abandoned' = abandoned \cup {d}
      /\ Goto(p, "remove_dir")
      /\ UNCHANGED <<repository, run, section, runs, moves>>

\* Then remove_dir_all.
RemoveDir(p) ==
  /\ pc[p] = "remove_dir"
  /\ RemoveDirAll(DirOf(p))
  /\ Goto(p, "idle")
  /\ UNCHANGED <<repository, registered, run, section, runs, moves>>

-----------------------------------------------------------------------------
(* Everybody else.                                                         *)

Kill(p) ==
  /\ pc[p] # "idle"
  /\ abandoned' = abandoned \cup {DirOf(p)}
  /\ run' = [run EXCEPT ![p] = NoRun]
  /\ Goto(p, "idle")
  /\ UNCHANGED <<repository, tmp, registered, section, runs, moves>>

\* A commit, a checkout or a fetch.
Move ==
  /\ moves < MaxMoves
  /\ moves' = moves + 1
  /\ \/ \E c \in Commit \ {head} : head' = c /\ UNCHANGED base
     \/ \E c \in Commit \ {base} : base' = c /\ UNCHANGED head
  /\ run' = [p \in Pid |-> IF run[p] = NoRun THEN NoRun
                           ELSE [run[p] EXCEPT !.still = FALSE]]
  /\ UNCHANGED <<tree, disk, pc, section, runs>>

Init ==
  /\ tree \in History
  /\ \E start \in Start : head = start[1] /\ base = start[2]
  /\ tmp = [d \in Pid |-> NoDir]
  /\ registered = [d \in Pid |-> FALSE]
  /\ pc = [p \in Pid |-> "idle"]
  /\ run = [p \in Pid |-> NoRun]
  /\ section = NoSection
  /\ runs = 0
  /\ moves = 0
  /\ abandoned = {}

Step(p) ==
  \/ Diff(p) \/ AnalyzeHead(p) \/ ResolveHeadSha(p) \/ ResolveBaseSha(p)
  \/ CreateDir(p) \/ AddWorktree(p) \/ Checkout(p) \/ AnalyzeBase(p)
  \/ Unregister(p) \/ RemoveDir(p)
  \/ Kill(p)

Next == Move \/ \E p \in Pid : Step(p)

Spec == Init /\ [][Next]_vars

-----------------------------------------------------------------------------
(* Properties.                                                             *)

Section ==
  [movement : [Identity -> Movement \cup {NoSection}],
   baseSha : Commit, headSha : Commit,
   anchor : Commit, still : BOOLEAN]

ASSUME SectionAssumption == NoSection \notin Section

\* The variables have the types of the code's.
TypeOK ==
  /\ tree \in [Commit -> Tree]
  /\ head \in Commit /\ base \in Commit
  /\ tmp \in [Pid -> Commit \cup {NoDir, Empty, Partial}]
  /\ registered \in [Pid -> BOOLEAN]
  /\ pc \in [Pid -> Pc]
  /\ run \in [Pid -> Run \cup {NoRun}]
  /\ \A p \in Pid :
       run[p] = NoRun <=> pc[p] \in {"idle", "unregister", "remove_dir"}
  /\ section \in Section \cup {NoSection, UnknownSection}
  /\ runs \in Nat /\ moves \in Nat
  /\ abandoned \subseteq Pid

\* A process analyses the commit that it resolved.
OwnTree == \A p \in Pid : pc[p] = "analyze_base" => tmp[DirOf(p)] = run[p].sha

\* A temporary tree or a registration outlives a process only when the process
\* was killed or a removal failed, its own or one of a namesake before it:
\* no other way out leaves one, whatever was there before.
NoTreeEscapes ==
  \A p \in Pid :
    pc[p] = "idle" /\ p \notin abandoned => tmp[p] = NoDir /\ ~registered[p]

\* Whatever killed processes and failing git commands have left, and whatever
\* other processes clean up, a process reads its own base tree and takes it
\* away with it, unless it is killed or cannot.
TreesApart == OwnTree /\ NoTreeEscapes

\* "No temp tree escapes the command run": a process that comes to its removal
\* leaves no directory.  It does not hold, because the removal may fail and
\* nobody is told.
CleansUp ==
  [][\A p \in Pid :
       pc[p] \in {"add_worktree", "checkout", "remove_dir"} /\ pc'[p] = "idle"
         => Kill(p) \/ tmp'[p] = NoDir]_vars

\* Unless HEAD or the base ref moves meanwhile, both sides are anchored at
\* the same commit: the base tree is the one the diff starts from.
SameAnchor ==
  section \in Section /\ section.still => section.baseSha = section.anchor

\* What the analysis of the base knows by the identity id.
KnownToBase(id) ==
  LET contents == tree[section.baseSha]
  IN  id[1] = PackageName(contents, BaseRoot) /\ id[2] \notin contents.skipped

\* An identity is called introduced only if the base commit that the section
\* names has no site of it, or has it out of sight: in a file that a whole
\* analysis passes over, or in a package by another name.  Nothing else makes
\* an old subject new, neither caps nor copies nor moving refs.
IntroducedIsNew ==
  section \in Section =>
    \A id \in Identity :
      section.movement[id] = "introduced" /\ KnownToBase(id) =>
        SitesOf(tree[section.baseSha].sites, id[2]) = {}

\* What the comments say: present at head, absent from a complete base.  It
\* fails where the base is not complete as it claims to be.
IntroducedIsAbsent ==
  section \in Section =>
    \A id \in Identity :
      section.movement[id] = "introduced" =>
        SitesOf(tree[section.baseSha].sites, id[2]) = {}

\* The converse for what is inherited: the sites of the subject in the head
\* were in the base.  It fails: where a second copy is added out of the
\* reach of the first, the diff shows one card, which is compared with the
\* card of the first.
InheritedWasThere ==
  section \in Section /\ section.still =>
    \A id \in Identity :
      section.movement[id] \in {"inherited", "improved", "worsened"} =>
        \A c \in SitesOf(tree[section.headSha].sites, id[2]) :
          \E b \in SitesOf(tree[section.baseSha].sites, id[2]) : b[1] = c[1]

=============================================================================
