------------------------- MODULE BaseWorktreeProofs -------------------------
(***************************************************************************)
(* Proofs about BaseWorktree, for any number of processes, commits,        *)
(* subjects and histories.                                                 *)
(*                                                                         *)
(* The argument: the temporary directory has the process's name, and a     *)
(* number is given to one process at a time, so that what is in it between *)
(* the checkout and the analysis is that process's own.  Every way out of  *)
(* materialize_base and of its result leads to a removal, so that of a     *)
(* process that is not killed only what could not be removed stays.  Cards *)
(* that the base analysis could know are in a complete selection all there *)
(* (IntroducedMeans, JoinedIntroduced).                                    *)
(***************************************************************************)
EXTENDS BaseWorktree, FiniteSetTheorems, TLAPS

\* Where the base commit is known.
Materialising == {"create_dir", "add_worktree", "checkout", "analyze_base"}

\* Nothing of a process that has not come to its directory is on disk.
Before == {"idle", "analyze_head", "head_sha", "merge_base", "create_dir"}

Resolved(p) ==
  /\ pc[p] \in Materialising => run[p].sha \in Commit
  /\ pc[p] \in Materialising \cup {"merge_base"} => run[p].headSha \in Commit

Own(p) == pc[p] = "analyze_base" => tmp[p] = run[p].sha

Tidy(p) ==
  p \notin abandoned =>
    /\ pc[p] \in Before => tmp[p] = NoDir
    /\ pc[p] \in Before \cup {"add_worktree", "remove_dir"} => ~registered[p]

\* What was resolved while HEAD and base kept still.
Anchored(p) ==
  run[p] # NoRun /\ run[p].still =>
    /\ run[p].anchor = MergeBaseOf[<<base, head>>]
    /\ pc[p] \in Materialising => run[p].sha = run[p].anchor

OfProcess(p) == Resolved(p) /\ Own(p) /\ Tidy(p) /\ Anchored(p)

OfSection == SameAnchor /\ IntroducedIsNew

WorktreeInv == TypeOK /\ (\A p \in Pid : OfProcess(p)) /\ OfSection

-----------------------------------------------------------------------------
(* Types.                                                                  *)

LEMMA NoRunIsNoRun == NoRun \notin Run
<1>1. DOMAIN NoRun = {"cap", "anchor"}
  BY DEF NoRun
<1>2. \A r \in Run : "sha" \in DOMAIN r
  BY DEF Run
<1> QED BY <1>1, <1>2

LEMMA UnknownIsNoSection == WorktreeAssumption => UnknownSection \notin Section
BY DEF WorktreeAssumption, UnknownSection, Section

\* The cards of a set of sites.
LEMMA CardsType ==
  ASSUME NEW sites \in SUBSET Site
  PROVE  CardsOf(sites) \in Cards
BY DEF CardsOf, Cards, SitesOf, Site

\* A selection is of the sites.
LEMMA SelectionsType ==
  ASSUME NEW sites, NEW cap, NEW kept \in Selections(sites, cap)
  PROVE  kept \subseteq sites /\ (~Capped(sites, cap) => kept = sites)
BY DEF Selections

\* A movement is one of the six.
LEMMA MovementType ==
  ASSUME NEW b, NEW h
  PROVE  NoResolved(MovementOf(b, h)) \in Movement
<1>1. \A x, y : CompareSubject(x, y) \in Movement
  BY DEF CompareSubject, CompareEvidence, Movement
<1>2. MovementOf(b, h) \in Movement
  BY <1>1 DEF MovementOf, Movement
<1> QED BY <1>2 DEF NoResolved, Movement

\* Only an absence on a complete base that saw the file is an introduction.
LEMMA IntroducedMeans ==
  ASSUME NEW b, NEW h, NoResolved(MovementOf(b, h)) = "introduced"
  PROVE  b.cards = {} /\ b.complete
<1>1. \A x, y : CompareSubject(x, y) # "introduced"
  BY DEF CompareSubject, CompareEvidence
<1>2. MovementOf(b, h) = "introduced"
  BY DEF NoResolved
<1> QED BY <1>1, <1>2 DEF MovementOf, Licenses

-----------------------------------------------------------------------------
(* Steps of one process.                                                   *)

\* A step of p concerns p's directory alone.
LEMMA OwnStep ==
  ASSUME WorktreeInv, NEW p \in Pid,
         NEW label \in Pc, NEW r \in Run \cup {NoRun},
         NEW t \in Commit \cup {NoDir, Empty, Partial}, NEW g \in BOOLEAN,
         pc' = [pc EXCEPT ![p] = label], run' = [run EXCEPT ![p] = r],
         tmp' = [tmp EXCEPT ![p] = t], registered' = [registered EXCEPT ![p] = g],
         r = NoRun <=> label \in {"idle", "unregister", "remove_dir"},
         abandoned' \in {abandoned, abandoned \cup {p}},
         UNCHANGED repository, runs' \in Nat, moves' \in Nat,
         section' \in Section \cup {NoSection, UnknownSection},
         OfProcess(p)', OfSection'
  PROVE  WorktreeInv'
<1>1. TypeOK'
  BY DEF WorktreeInv, TypeOK, repository
<1>2. ASSUME NEW q \in Pid, q # p
      PROVE  OfProcess(q)'
  <2>1. /\ pc'[q] = pc[q] /\ run'[q] = run[q] /\ tmp'[q] = tmp[q]
        /\ registered'[q] = registered[q]
        /\ q \in abandoned' <=> q \in abandoned
    BY <1>2 DEF WorktreeInv, TypeOK
  <2>2. OfProcess(q) /\ UNCHANGED <<head, base>>
    BY DEF WorktreeInv, repository
  <2> QED BY <2>1, <2>2 DEF OfProcess, Resolved, Own, Tidy, Anchored
<1> QED BY <1>1, <1>2 DEF WorktreeInv

\* What is written last stays true.
LEMMA SameSection ==
  ASSUME WorktreeInv, UNCHANGED <<section, tree>>
  PROVE  OfSection'
BY DEF WorktreeInv, OfSection, SameAnchor, IntroducedIsNew, KnownToBase, Section

LEMMA NoSectionYet ==
  ASSUME WorktreeAssumption, section' = UnknownSection
  PROVE  OfSection'
BY UnknownIsNoSection DEF OfSection, SameAnchor, IntroducedIsNew, Section

\* A package has a name.
LEMMA PackageNameType ==
  ASSUME WorktreeAssumption, NEW contents \in Tree, NEW root \in Name
  PROVE  PackageName(contents, root) \in Name
BY DEF PackageName, Tree

\* git diff base...HEAD.
LEMMA DiffInv ==
  ASSUME WorktreeAssumption, WorktreeInv, NEW p \in Pid, Diff(p)
  PROVE  WorktreeInv'
<1>1. PICK cap \in Caps :
        run' = [run EXCEPT ![p] =
                  [cap |-> cap, anchor |-> MergeBaseOf[<<base, head>>],
                   sha |-> NoCommit, headSha |-> NoCommit, touched |-> {},
                   name |-> HeadRoot, cards |-> NoCards, headCapped |-> FALSE,
                   still |-> TRUE]]
  BY DEF Diff
<1> DEFINE r == [cap |-> cap, anchor |-> MergeBaseOf[<<base, head>>],
                 sha |-> NoCommit, headSha |-> NoCommit, touched |-> {},
                 name |-> HeadRoot, cards |-> NoCards, headCapped |-> FALSE,
                 still |-> TRUE]
<1>2. r \in Run
  <2>1. MergeBaseOf[<<base, head>>] \in Commit /\ HeadRoot \in Name
    BY DEF WorktreeAssumption, WorktreeInv, TypeOK
  <2> QED BY <2>1 DEF Run, Cards, NoCards
<1>3. /\ pc[p] = "idle" /\ pc' = [pc EXCEPT ![p] = "analyze_head"]
      /\ UNCHANGED <<repository, disk, section, moves>> /\ runs' = runs + 1
  BY DEF Diff, Goto
<1>4. OfProcess(p)'
  <2>1. OfProcess(p)
    BY DEF WorktreeInv
  <2>2. pc'[p] = "analyze_head" /\ run'[p] = r
    BY <1>1, <1>3 DEF WorktreeInv, TypeOK
  <2> QED BY <1>3, <2>1, <2>2 DEF OfProcess, Resolved, Own, Tidy, Anchored,
          Materialising, Before, repository, disk
<1>5. OfSection'
  BY <1>3, SameSection DEF repository
<1>6. tmp' = [tmp EXCEPT ![p] = tmp[p]] /\ registered' = [registered EXCEPT ![p] = registered[p]]
      /\ tmp[p] \in Commit \cup {NoDir, Empty, Partial} /\ registered[p] \in BOOLEAN
  BY <1>3 DEF disk, WorktreeInv, TypeOK
<1> HIDE DEF r
<1>7. r # NoRun /\ runs' \in Nat /\ moves' \in Nat /\ abandoned' = abandoned
      /\ section' \in Section \cup {NoSection, UnknownSection}
  BY <1>2, <1>3, NoRunIsNoRun DEF WorktreeInv, TypeOK, disk
<1> QED BY <1>1, <1>2, <1>3, <1>4, <1>5, <1>6, <1>7, OwnStep DEF Pc, r

\* What is there stays there.
LEMMA SameFiles ==
  ASSUME TypeOK, NEW p \in Pid, UNCHANGED <<tmp, registered>>
  PROVE  /\ tmp' = [tmp EXCEPT ![p] = tmp[p]]
         /\ registered' = [registered EXCEPT ![p] = registered[p]]
         /\ tmp[p] \in Commit \cup {NoDir, Empty, Partial} /\ registered[p] \in BOOLEAN
BY DEF TypeOK

\* A process that is at work knows what Run says.
LEMMA HasRun ==
  ASSUME TypeOK, NEW p \in Pid, pc[p] \notin {"idle", "unregister", "remove_dir"}
  PROVE  run[p] \in Run /\ run[p] # NoRun
BY DEF TypeOK

\* The head is analysed.
LEMMA AnalyzeHeadInv ==
  ASSUME WorktreeAssumption, WorktreeInv, NEW p \in Pid, AnalyzeHead(p)
  PROVE  WorktreeInv'
<1>1. /\ pc[p] = "analyze_head" /\ pc' = [pc EXCEPT ![p] = "head_sha"]
      /\ UNCHANGED <<repository, disk, section, runs, moves>>
  BY DEF AnalyzeHead, Goto
<1>2. run[p] \in Run /\ run[p] # NoRun
  BY <1>1, HasRun DEF WorktreeInv
<1> DEFINE name == PackageName(tree[head], HeadRoot)
<1>3. PICK touched \in SUBSET Subject, near \in SUBSET tree[head].sites :
        \E kept \in Selections(near, run[p].cap) :
          run' = [run EXCEPT ![p].touched = touched, ![p].name = name,
                             ![p].cards = CardsOf(kept),
                             ![p].headCapped = Capped(near, run[p].cap)]
  BY DEF AnalyzeHead
<1>12. PICK kept \in Selections(near, run[p].cap) :
         run' = [run EXCEPT ![p].touched = touched, ![p].name = name,
                            ![p].cards = CardsOf(kept),
                            ![p].headCapped = Capped(near, run[p].cap)]
  BY <1>3
<1> DEFINE r == [run[p] EXCEPT !.touched = touched, !.name = name,
                               !.cards = CardsOf(kept),
                               !.headCapped = Capped(near, run[p].cap)]
<1>13. tree[head] \in Tree
  BY DEF WorktreeInv, TypeOK
<1>14. name \in Name
  BY <1>13, PackageNameType DEF WorktreeAssumption
<1> HIDE DEF name
<1>4. CardsOf(kept) \in Cards
  <2>1. tree[head].sites \in SUBSET Site
    BY <1>13 DEF Tree
  <2> QED BY <2>1, CardsType, SelectionsType
<1>5. r \in Run /\ r.still = run[p].still /\ r.anchor = run[p].anchor
  <2>1. Capped(near, run[p].cap) \in BOOLEAN
    BY DEF Capped
  <2> QED BY <1>2, <1>4, <1>14, <2>1 DEF Run
<1>6. run' = [run EXCEPT ![p] = r]
  BY <1>12 DEF WorktreeInv, TypeOK
<1> HIDE DEF r
<1>7. r # NoRun
  BY <1>5, NoRunIsNoRun
<1>8. OfProcess(p)'
  <2>1. pc'[p] = "head_sha" /\ run'[p] = r
    BY <1>1, <1>6 DEF WorktreeInv, TypeOK
  <2>2. OfProcess(p)
    BY DEF WorktreeInv
  <2> QED BY <1>1, <1>2, <1>5, <2>1, <2>2 DEF OfProcess, Resolved, Own, Tidy, Anchored,
          Materialising, Before, repository, disk
<1>9. OfSection'
  BY <1>1, SameSection DEF repository
<1>10. /\ tmp' = [tmp EXCEPT ![p] = tmp[p]]
       /\ registered' = [registered EXCEPT ![p] = registered[p]]
       /\ tmp[p] \in Commit \cup {NoDir, Empty, Partial} /\ registered[p] \in BOOLEAN
  BY <1>1, SameFiles DEF disk, WorktreeInv
<1>11. runs' \in Nat /\ moves' \in Nat /\ abandoned' = abandoned
       /\ section' \in Section \cup {NoSection, UnknownSection}
  BY <1>1 DEF WorktreeInv, TypeOK, disk
<1> QED BY <1>1, <1>5, <1>6, <1>7, <1>8, <1>9, <1>10, <1>11, OwnStep DEF Pc

\* HEAD is resolved.
LEMMA ResolveHeadShaInv ==
  ASSUME WorktreeAssumption, WorktreeInv, NEW p \in Pid, ResolveHeadSha(p)
  PROVE  WorktreeInv'
<1> DEFINE r == [run[p] EXCEPT !.headSha = head]
<1>1. /\ pc[p] = "head_sha" /\ pc' = [pc EXCEPT ![p] = "merge_base"]
      /\ run' = [run EXCEPT ![p] = r]
      /\ UNCHANGED <<repository, disk, section, runs, moves>>
  BY DEF ResolveHeadSha, Goto, WorktreeInv, TypeOK
<1>2. run[p] \in Run /\ run[p] # NoRun
  BY <1>1, HasRun DEF WorktreeInv
<1>3. r \in Run /\ r.still = run[p].still /\ r.anchor = run[p].anchor /\ r.headSha \in Commit
  BY <1>2 DEF Run, WorktreeInv, TypeOK
<1> HIDE DEF r
<1>4. r # NoRun
  BY <1>3, NoRunIsNoRun
<1>5. OfProcess(p)'
  <2>1. pc'[p] = "merge_base" /\ run'[p] = r
    BY <1>1 DEF WorktreeInv, TypeOK
  <2>2. OfProcess(p)
    BY DEF WorktreeInv
  <2> QED BY <1>1, <1>2, <1>3, <2>1, <2>2 DEF OfProcess, Resolved, Own, Tidy, Anchored,
          Materialising, Before, repository, disk
<1>6. OfSection'
  BY <1>1, SameSection DEF repository
<1>7. /\ tmp' = [tmp EXCEPT ![p] = tmp[p]]
      /\ registered' = [registered EXCEPT ![p] = registered[p]]
      /\ tmp[p] \in Commit \cup {NoDir, Empty, Partial} /\ registered[p] \in BOOLEAN
  BY <1>1, SameFiles DEF disk, WorktreeInv
<1>8. runs' \in Nat /\ moves' \in Nat /\ abandoned' = abandoned
      /\ section' \in Section \cup {NoSection, UnknownSection}
  BY <1>1 DEF WorktreeInv, TypeOK, disk
<1> QED BY <1>1, <1>3, <1>4, <1>5, <1>6, <1>7, <1>8, OwnStep DEF Pc

\* Every way in which the section becomes unknown before there is a tree.
LEMMA DegradeInv ==
  ASSUME WorktreeAssumption, WorktreeInv, NEW p \in Pid, Degrade(p),
         NEW t \in Commit \cup {NoDir, Empty, Partial}, NEW g \in {registered[p], FALSE},
         tmp' = [tmp EXCEPT ![p] = t], registered' = [registered EXCEPT ![p] = g],
         abandoned' \in {abandoned, abandoned \cup {p}},
         \/ pc[p] \in {"merge_base", "create_dir"} /\ t = tmp[p]
         \/ pc[p] = "add_worktree" /\ (p \notin abandoned' => t = NoDir)
         \/ pc[p] = "checkout" /\ ~g /\ (p \notin abandoned' => t = NoDir),
         UNCHANGED <<repository, runs, moves>>
  PROVE  WorktreeInv'
<1>1. /\ pc' = [pc EXCEPT ![p] = "idle"] /\ run' = [run EXCEPT ![p] = NoRun]
      /\ section' = UnknownSection
  BY DEF Degrade, Goto
<1>2. OfProcess(p)'
  <2>1. pc'[p] = "idle" /\ run'[p] = NoRun /\ tmp'[p] = t /\ registered'[p] = g
    BY <1>1 DEF WorktreeInv, TypeOK
  <2>2. Tidy(p)
    BY DEF WorktreeInv, OfProcess
  <2>3. Tidy(p)'
    BY <2>1, <2>2 DEF Tidy, Before
  <2> QED BY <2>1, <2>3 DEF OfProcess, Resolved, Own, Anchored, Materialising
<1>3. OfSection'
  BY <1>1, NoSectionYet
<1>4. g \in BOOLEAN /\ runs' \in Nat /\ moves' \in Nat
  BY DEF WorktreeInv, TypeOK
<1> QED BY <1>1, <1>2, <1>3, <1>4, OwnStep DEF Pc

\* What a removal leaves is a directory; where it leaves one, it failed.
LEMMA RemovalLeaves ==
  ASSUME TypeOK, NEW p \in Pid
  PROVE  /\ Remains(p) \subseteq Commit \cup {NoDir, Empty, Partial}
         /\ RemoveDirAll(p) =>
              \E t \in Commit \cup {NoDir, Empty, Partial} :
                /\ tmp' = [tmp EXCEPT ![p] = t]
                /\ abandoned' \in {abandoned, abandoned \cup {p}}
                /\ p \notin abandoned' => t = NoDir
<1>1. tmp[p] \in Commit \cup {NoDir, Empty, Partial}
  BY DEF TypeOK
<1>2. Remains(p) \subseteq Commit \cup {NoDir, Empty, Partial}
  BY <1>1 DEF Remains
<1>3. ASSUME RemoveDirAll(p)
      PROVE  \E t \in Commit \cup {NoDir, Empty, Partial} :
               /\ tmp' = [tmp EXCEPT ![p] = t]
               /\ abandoned' \in {abandoned, abandoned \cup {p}}
               /\ p \notin abandoned' => t = NoDir
  <2>1. CASE tmp' = [tmp EXCEPT ![p] = NoDir] /\ UNCHANGED abandoned
    BY <2>1
  <2>2. CASE \E rest \in Remains(p) :
               tmp' = [tmp EXCEPT ![p] = rest] /\ abandoned' = abandoned \cup {p}
    BY <1>2, <2>2
  <2> QED BY <1>3, <2>1, <2>2 DEF RemoveDirAll
<1> QED BY <1>2, <1>3

\* The base is resolved.
LEMMA ResolveBaseShaInv ==
  ASSUME WorktreeAssumption, WorktreeInv, NEW p \in Pid, ResolveBaseSha(p)
  PROVE  WorktreeInv'
<1>1. pc[p] = "merge_base" /\ UNCHANGED <<repository, disk, runs, moves>>
  BY DEF ResolveBaseSha
<1>2. CASE Degrade(p)
  <2>1. /\ tmp' = [tmp EXCEPT ![p] = tmp[p]]
        /\ registered' = [registered EXCEPT ![p] = registered[p]]
        /\ tmp[p] \in Commit \cup {NoDir, Empty, Partial}
    BY <1>1, SameFiles DEF disk, WorktreeInv
  <2>2. abandoned' = abandoned
    BY <1>1 DEF disk
  <2> QED BY <1>1, <1>2, <2>1, <2>2, DegradeInv
<1>3. CASE ~Degrade(p)
  <2> DEFINE r == [run[p] EXCEPT !.sha = MergeBaseOf[<<base, head>>]]
  <2>1. /\ run' = [run EXCEPT ![p] = r] /\ pc' = [pc EXCEPT ![p] = "create_dir"]
        /\ UNCHANGED section
    BY <1>3 DEF ResolveBaseSha, BaseSha, Goto, WorktreeInv, TypeOK
  <2>2. run[p] \in Run /\ run[p] # NoRun
    BY <1>1, HasRun DEF WorktreeInv
  <2>3. MergeBaseOf[<<base, head>>] \in Commit
    BY DEF WorktreeAssumption, WorktreeInv, TypeOK
  <2>4. r \in Run /\ r.still = run[p].still /\ r.anchor = run[p].anchor
        /\ r.headSha = run[p].headSha /\ r.sha = MergeBaseOf[<<base, head>>]
    BY <2>2, <2>3 DEF Run
  <2> HIDE DEF r
  <2>5. r # NoRun
    BY <2>4, NoRunIsNoRun
  <2>6. OfProcess(p)'
    <3>1. pc'[p] = "create_dir" /\ run'[p] = r
      BY <2>1 DEF WorktreeInv, TypeOK
    <3>2. OfProcess(p)
      BY DEF WorktreeInv
    <3> QED BY <1>1, <2>2, <2>3, <2>4, <3>1, <3>2 DEF OfProcess, Resolved, Own, Tidy,
            Anchored, Materialising, Before, repository, disk
  <2>7. OfSection'
    BY <1>1, <2>1, SameSection DEF repository
  <2>8. /\ tmp' = [tmp EXCEPT ![p] = tmp[p]]
        /\ registered' = [registered EXCEPT ![p] = registered[p]]
        /\ tmp[p] \in Commit \cup {NoDir, Empty, Partial} /\ registered[p] \in BOOLEAN
    BY <1>1, SameFiles DEF disk, WorktreeInv
  <2>9. runs' \in Nat /\ moves' \in Nat /\ abandoned' = abandoned
        /\ section' \in Section \cup {NoSection, UnknownSection}
    BY <1>1, <2>1 DEF WorktreeInv, TypeOK, disk
  <2> QED BY <1>1, <2>1, <2>4, <2>5, <2>6, <2>7, <2>8, <2>9, OwnStep DEF Pc
<1> QED BY <1>2, <1>3

\* The three steps of materialize_base that only the directory tells apart.
LEMMA DirectoryStep ==
  ASSUME WorktreeAssumption, WorktreeInv, NEW p \in Pid, NEW label \in Materialising,
         pc[p] \in Materialising, pc' = [pc EXCEPT ![p] = label], UNCHANGED run,
         NEW t \in Commit \cup {NoDir, Empty, Partial}, NEW g \in BOOLEAN,
         tmp' = [tmp EXCEPT ![p] = t], registered' = [registered EXCEPT ![p] = g],
         label = "analyze_base" => t = run[p].sha,
         label = "add_worktree" => g = registered[p] /\ pc[p] = "create_dir",
         label # "create_dir",
         UNCHANGED <<repository, abandoned, section, runs, moves>>
  PROVE  WorktreeInv'
<1>1. run[p] \in Run /\ run[p] # NoRun /\ run' = [run EXCEPT ![p] = run[p]]
  BY HasRun DEF WorktreeInv, TypeOK, Materialising
<1>2. OfProcess(p)'
  <2>1. /\ pc'[p] = label /\ run'[p] = run[p] /\ tmp'[p] = t /\ registered'[p] = g
    BY DEF WorktreeInv, TypeOK
  <2>2. OfProcess(p)
    BY DEF WorktreeInv
  <2> QED BY <2>1, <2>2 DEF OfProcess, Resolved, Own, Tidy, Anchored, Materialising,
          Before, repository
<1>3. OfSection'
  BY SameSection DEF repository
<1>4. runs' \in Nat /\ moves' \in Nat /\ section' \in Section \cup {NoSection, UnknownSection}
  BY DEF WorktreeInv, TypeOK
<1> QED BY <1>1, <1>2, <1>3, <1>4, OwnStep DEF Pc, Materialising

LEMMA CreateDirInv ==
  ASSUME WorktreeAssumption, WorktreeInv, NEW p \in Pid, CreateDir(p)
  PROVE  WorktreeInv'
<1>1. pc[p] = "create_dir" /\ UNCHANGED <<repository, registered, abandoned, runs, moves>>
  BY DEF CreateDir
<1>2. CASE Degrade(p) /\ UNCHANGED tmp
  <2>1. /\ tmp' = [tmp EXCEPT ![p] = tmp[p]]
        /\ registered' = [registered EXCEPT ![p] = registered[p]]
        /\ tmp[p] \in Commit \cup {NoDir, Empty, Partial}
    BY <1>1, <1>2, SameFiles DEF WorktreeInv
  <2> QED BY <1>1, <1>2, <2>1, DegradeInv
<1>3. CASE ~(Degrade(p) /\ UNCHANGED tmp)
  <2> DEFINE t == IF tmp[p] = NoDir THEN Empty ELSE tmp[p]
  <2>1. /\ tmp' = [tmp EXCEPT ![p] = t] /\ pc' = [pc EXCEPT ![p] = "add_worktree"]
        /\ UNCHANGED <<run, section>>
    BY <1>3 DEF CreateDir, DirOf, Goto
  <2>2. /\ t \in Commit \cup {NoDir, Empty, Partial} /\ registered[p] \in BOOLEAN
        /\ registered' = [registered EXCEPT ![p] = registered[p]]
    BY <1>1 DEF WorktreeInv, TypeOK
  <2> QED BY <1>1, <2>1, <2>2, DirectoryStep DEF Materialising
<1> QED BY <1>2, <1>3

LEMMA AddWorktreeInv ==
  ASSUME WorktreeAssumption, WorktreeInv, NEW p \in Pid, AddWorktree(p)
  PROVE  WorktreeInv'
<1>1. pc[p] = "add_worktree" /\ UNCHANGED <<repository, runs, moves>>
  BY DEF AddWorktree
<1>2. CASE Degrade(p) /\ RemoveDirAll(p) /\ UNCHANGED registered
  <2>1. PICK t \in Commit \cup {NoDir, Empty, Partial} :
               /\ tmp' = [tmp EXCEPT ![p] = t]
               /\ abandoned' \in {abandoned, abandoned \cup {p}}
               /\ p \notin abandoned' => t = NoDir
    BY <1>2, RemovalLeaves DEF WorktreeInv
  <2>2. registered' = [registered EXCEPT ![p] = registered[p]]
    BY <1>2 DEF WorktreeInv, TypeOK
  <2> QED BY <1>1, <1>2, <2>1, <2>2, DegradeInv
<1>3. CASE ~(Degrade(p) /\ RemoveDirAll(p) /\ UNCHANGED registered)
  <2>1. /\ registered' = [registered EXCEPT ![p] = TRUE]
        /\ tmp' = [tmp EXCEPT ![p] = Partial] /\ pc' = [pc EXCEPT ![p] = "checkout"]
        /\ UNCHANGED <<abandoned, run, section>>
    BY <1>3 DEF AddWorktree, DirOf, Goto
  <2> QED BY <1>1, <2>1, DirectoryStep DEF Materialising
<1> QED BY <1>2, <1>3

LEMMA CheckoutInv ==
  ASSUME WorktreeAssumption, WorktreeInv, NEW p \in Pid, Checkout(p)
  PROVE  WorktreeInv'
<1>1. pc[p] = "checkout" /\ UNCHANGED <<repository, runs, moves>>
  BY DEF Checkout
<1>2. CASE Degrade(p) /\ RemoveDirAll(p) /\ registered' = [registered EXCEPT ![p] = FALSE]
  <2>1. PICK t \in Commit \cup {NoDir, Empty, Partial} :
               /\ tmp' = [tmp EXCEPT ![p] = t]
               /\ abandoned' \in {abandoned, abandoned \cup {p}}
               /\ p \notin abandoned' => t = NoDir
    BY <1>2, RemovalLeaves DEF WorktreeInv
  <2> DEFINE g == FALSE
  <2>2. registered' = [registered EXCEPT ![p] = g] /\ g \in {registered[p], FALSE} /\ ~g
    BY <1>2
  <2> HIDE DEF g
  <2> QED BY <1>1, <1>2, <2>1, <2>2, DegradeInv
<1>3. CASE ~(Degrade(p) /\ RemoveDirAll(p) /\ registered' = [registered EXCEPT ![p] = FALSE])
  <2>1. /\ tmp' = [tmp EXCEPT ![p] = run[p].sha] /\ pc' = [pc EXCEPT ![p] = "analyze_base"]
        /\ UNCHANGED <<registered, abandoned, run, section>>
    BY <1>3 DEF Checkout, DirOf, Goto
  <2>2. run[p].sha \in Commit
    BY <1>1 DEF WorktreeInv, OfProcess, Resolved, Materialising
  <2>3. registered[p] \in BOOLEAN /\ registered' = [registered EXCEPT ![p] = registered[p]]
    BY <2>1 DEF WorktreeInv, TypeOK
  <2> QED BY <1>1, <2>1, <2>2, <2>3, DirectoryStep DEF Materialising
<1> QED BY <1>2, <1>3

-----------------------------------------------------------------------------
(* The join, and the rest of a process.                                    *)

\* A join has a movement for each identity that has a card.
LEMMA JoinedType ==
  ASSUME NEW r, NEW baseCards, NEW name, NEW complete
  PROVE  Joined(r, baseCards, name, complete) \in [Identity -> Movement \cup {NoSection}]
<1>1. "unknown" \in Movement
  BY DEF Movement
<1> QED BY <1>1, MovementType DEF Joined

\* What is called introduced has no card in a complete base.
LEMMA JoinedIntroduced ==
  ASSUME WorktreeAssumption, NEW r, NEW baseCards, NEW name, NEW complete,
         NEW id \in Identity, Joined(r, baseCards, name, complete)[id] = "introduced"
  PROVE  CardsFor(baseCards, name, id) = {} /\ complete
<1> DEFINE b == [cards |-> Evidences(CardsFor(baseCards, name, id)),
                 complete |-> complete, covers |-> TRUE]
           h == [cards |-> Evidences(CardsFor(r.cards, r.name, id)),
                 complete |-> ~r.headCapped, covers |-> id[2] \in r.touched]
<1>1. NoSection # "introduced"
  BY DEF WorktreeAssumption, Movement
<1>2. NoResolved(MovementOf(b, h)) = "introduced"
  BY <1>1 DEF Joined
<1>3. b.cards = {} /\ b.complete
  <2> HIDE DEF b, h
  <2> QED BY <1>2, IntroducedMeans
<1> QED BY <1>3 DEF Evidences

\* The base is analysed and the section written.
LEMMA AnalyzeBaseInv ==
  ASSUME WorktreeAssumption, WorktreeInv, NEW p \in Pid, AnalyzeBase(p)
  PROVE  WorktreeInv'
<1>1. /\ pc[p] = "analyze_base" /\ pc' = [pc EXCEPT ![p] = "unregister"]
      /\ run' = [run EXCEPT ![p] = NoRun]
      /\ UNCHANGED <<repository, disk, runs, moves>>
  BY DEF AnalyzeBase, Goto
<1>2. OfProcess(p)
  BY DEF WorktreeInv
<1>3. run[p] \in Run /\ run[p] # NoRun
  BY <1>1, HasRun DEF WorktreeInv
<1>4. /\ tmp[p] \in Commit /\ run[p].headSha \in Commit /\ run[p].anchor \in Commit
      /\ run[p].still \in BOOLEAN /\ (run[p].still => tmp[p] = run[p].anchor)
  BY <1>1, <1>2, <1>3 DEF OfProcess, Resolved, Own, Anchored, Materialising, Run
<1>5. section' \in Section \cup {NoSection, UnknownSection} /\ OfSection'
  <2>1. CASE section' = UnknownSection
    BY <2>1, NoSectionYet
  <2>2. CASE section' # UnknownSection
    <3> DEFINE here == tree[tmp[p]]
               seen == {x \in here.sites : x.subject \notin here.skipped}
               name == PackageName(here, BaseRoot)
    <3>1. PICK kept \in Selections(seen, run[p].cap) :
            Write(p, Joined(run[p], CardsOf(kept), name, ~Capped(seen, run[p].cap)), tmp[p])
      BY <1>4, <2>2 DEF AnalyzeBase, DirOf
    <3> DEFINE joined == Joined(run[p], CardsOf(kept), name, ~Capped(seen, run[p].cap))
    <3>2. joined \in [Identity -> Movement \cup {NoSection}]
      BY JoinedType
    <3>3. ASSUME NEW id \in Identity, joined[id] = "introduced",
                 id[1] = PackageName(tree[tmp[p]], BaseRoot),
                 id[2] \notin tree[tmp[p]].skipped
          PROVE  SitesOf(tree[tmp[p]].sites, id[2]) = {}
      <4> DEFINE complete == ~Capped(seen, run[p].cap)
                 cards == CardsOf(kept)
      <4>1. Joined(run[p], cards, name, complete)[id] = "introduced"
        BY <3>3
      <4>2. id[1] = name /\ id[2] \in Subject
        BY <3>3 DEF Identity
      <4> HIDE DEF complete, cards, name, seen
      <4>3. CardsFor(cards, name, id) = {} /\ complete
        BY <4>1, JoinedIntroduced
      <4>4. CardsOf(kept)[id[2]] = {}
        BY <4>2, <4>3 DEF CardsFor, cards
      <4>5. kept = seen
        BY <4>3, SelectionsType DEF complete
      <4>6. SitesOf(seen, id[2]) = {}
        BY <4>2, <4>4, <4>5 DEF CardsOf
      <4> QED BY <3>3, <4>6 DEF SitesOf, seen
    <3> HIDE DEF joined, name
    <3>4. section' = [movement |-> joined, baseSha |-> tmp[p],
                      headSha |-> run[p].headSha, anchor |-> run[p].anchor,
                      still |-> run[p].still]
      BY <3>1 DEF Write, joined
    <3>5. section' \in Section
      BY <1>4, <3>2, <3>4 DEF Section
    <3>6. tree' = tree
      BY <1>1 DEF repository
    <3>7. SameAnchor'
      BY <1>4, <3>4 DEF SameAnchor
    <3>8. IntroducedIsNew'
      BY <3>3, <3>4, <3>6 DEF IntroducedIsNew, KnownToBase, SitesOf, PackageName
    <3> QED BY <3>5, <3>7, <3>8 DEF OfSection
  <2> QED BY <2>1, <2>2
<1>6. OfProcess(p)'
  <2>1. pc'[p] = "unregister" /\ run'[p] = NoRun
    BY <1>1 DEF WorktreeInv, TypeOK
  <2> QED BY <2>1 DEF OfProcess, Resolved, Own, Tidy, Anchored, Materialising, Before
<1>7. /\ tmp' = [tmp EXCEPT ![p] = tmp[p]]
      /\ registered' = [registered EXCEPT ![p] = registered[p]]
      /\ tmp[p] \in Commit \cup {NoDir, Empty, Partial} /\ registered[p] \in BOOLEAN
  BY <1>1, SameFiles DEF disk, WorktreeInv
<1>8. runs' \in Nat /\ moves' \in Nat /\ abandoned' = abandoned
  BY <1>1 DEF WorktreeInv, TypeOK, disk
<1> QED BY <1>1, <1>5, <1>6, <1>7, <1>8, OwnStep DEF Pc

\* Drop: git worktree remove.
LEMMA UnregisterInv ==
  ASSUME WorktreeAssumption, WorktreeInv, NEW p \in Pid, Unregister(p)
  PROVE  WorktreeInv'
<1>1. /\ pc[p] = "unregister" /\ pc' = [pc EXCEPT ![p] = "remove_dir"]
      /\ UNCHANGED <<repository, run, section, runs, moves>>
  BY DEF Unregister, Goto
<1>2. PICK g \in BOOLEAN, t \in Commit \cup {NoDir, Empty, Partial} :
        /\ registered' = [registered EXCEPT ![p] = g] /\ tmp' = [tmp EXCEPT ![p] = t]
        /\ abandoned' \in {abandoned, abandoned \cup {p}}
        /\ g => p \in abandoned'
  <2>1. CASE /\ registered' = [registered EXCEPT ![p] = FALSE] /\ UNCHANGED abandoned
             /\ tmp' = [tmp EXCEPT ![p] = Empty]
    BY <2>1
  <2>2. CASE /\ \E still \in BOOLEAN : registered' = [registered EXCEPT ![p] = still]
             /\ \E rest \in Remains(p) : tmp' = [tmp EXCEPT ![p] = rest]
             /\ abandoned' = abandoned \cup {p}
    BY <2>2, RemovalLeaves DEF WorktreeInv
  <2> QED BY <2>1, <2>2 DEF Unregister, DirOf
<1>3. run[p] = NoRun /\ run' = [run EXCEPT ![p] = NoRun]
  BY <1>1 DEF WorktreeInv, TypeOK
<1>4. OfProcess(p)'
  <2>1. pc'[p] = "remove_dir" /\ run'[p] = NoRun /\ registered'[p] = g
    BY <1>1, <1>2, <1>3 DEF WorktreeInv, TypeOK
  <2> QED BY <1>2, <2>1 DEF OfProcess, Resolved, Own, Tidy, Anchored, Materialising, Before
<1>5. OfSection'
  BY <1>1, SameSection DEF repository
<1>6. /\ runs' \in Nat /\ moves' \in Nat
      /\ section' \in Section \cup {NoSection, UnknownSection}
  BY <1>1 DEF WorktreeInv, TypeOK
<1> QED BY <1>1, <1>2, <1>3, <1>4, <1>5, <1>6, OwnStep DEF Pc

\* Drop: the directory.
LEMMA RemoveDirInv ==
  ASSUME WorktreeAssumption, WorktreeInv, NEW p \in Pid, RemoveDir(p)
  PROVE  WorktreeInv'
<1>1. /\ pc[p] = "remove_dir" /\ pc' = [pc EXCEPT ![p] = "idle"]
      /\ RemoveDirAll(p)
      /\ UNCHANGED <<repository, registered, run, section, runs, moves>>
  BY DEF RemoveDir, Goto, DirOf
<1>6. PICK t \in Commit \cup {NoDir, Empty, Partial} :
             /\ tmp' = [tmp EXCEPT ![p] = t]
             /\ abandoned' \in {abandoned, abandoned \cup {p}}
             /\ p \notin abandoned' => t = NoDir
  BY <1>1, RemovalLeaves DEF WorktreeInv
<1>2. run[p] = NoRun /\ run' = [run EXCEPT ![p] = NoRun]
  BY <1>1 DEF WorktreeInv, TypeOK
<1>3. OfProcess(p)'
  <2>1. /\ pc'[p] = "idle" /\ run'[p] = NoRun /\ tmp'[p] = t
        /\ registered'[p] = registered[p]
    BY <1>1, <1>2, <1>6 DEF WorktreeInv, TypeOK
  <2>2. OfProcess(p)
    BY DEF WorktreeInv
  <2> QED BY <1>1, <1>6, <2>1, <2>2 DEF OfProcess, Resolved, Own, Tidy, Anchored,
          Materialising, Before
<1>4. OfSection'
  BY <1>1, SameSection DEF repository
<1>5. /\ registered' = [registered EXCEPT ![p] = registered[p]] /\ registered[p] \in BOOLEAN
      /\ runs' \in Nat /\ moves' \in Nat
      /\ section' \in Section \cup {NoSection, UnknownSection}
  BY <1>1 DEF WorktreeInv, TypeOK
<1> QED BY <1>1, <1>2, <1>3, <1>4, <1>5, <1>6, OwnStep DEF Pc

\* A process is killed: it has abandoned what it had.
LEMMA KillInv ==
  ASSUME WorktreeAssumption, WorktreeInv, NEW p \in Pid, Kill(p)
  PROVE  WorktreeInv'
<1>1. /\ pc' = [pc EXCEPT ![p] = "idle"] /\ run' = [run EXCEPT ![p] = NoRun]
      /\ abandoned' = abandoned \cup {p}
      /\ UNCHANGED <<repository, tmp, registered, section, runs, moves>>
  BY DEF Kill, Goto, DirOf
<1>2. OfProcess(p)'
  <2>1. pc'[p] = "idle" /\ run'[p] = NoRun /\ p \in abandoned'
    BY <1>1 DEF WorktreeInv, TypeOK
  <2> QED BY <2>1 DEF OfProcess, Resolved, Own, Tidy, Anchored, Materialising, Before
<1>3. OfSection'
  BY <1>1, SameSection DEF repository
<1>4. /\ tmp' = [tmp EXCEPT ![p] = tmp[p]]
      /\ registered' = [registered EXCEPT ![p] = registered[p]]
      /\ tmp[p] \in Commit \cup {NoDir, Empty, Partial} /\ registered[p] \in BOOLEAN
  BY <1>1, SameFiles DEF WorktreeInv
<1>5. runs' \in Nat /\ moves' \in Nat
      /\ section' \in Section \cup {NoSection, UnknownSection}
  BY <1>1 DEF WorktreeInv, TypeOK
<1> QED BY <1>1, <1>2, <1>3, <1>4, <1>5, OwnStep DEF Pc

\* HEAD or the base ref moves: nobody's anchors are still.
LEMMA MoveInv ==
  ASSUME WorktreeAssumption, WorktreeInv, Move
  PROVE  WorktreeInv'
<1>1. /\ UNCHANGED <<tree, disk, pc, section, runs>> /\ moves' = moves + 1
      /\ head' \in Commit /\ base' \in Commit
  BY DEF Move, WorktreeInv, TypeOK
<1>2. run' = [p \in Pid |-> IF run[p] = NoRun THEN NoRun
                            ELSE [run[p] EXCEPT !.still = FALSE]]
  BY DEF Move
<1>3. ASSUME NEW p \in Pid
      PROVE  /\ run'[p] \in Run \cup {NoRun}
             /\ run'[p] = NoRun <=> run[p] = NoRun
             /\ run[p] # NoRun => /\ run'[p].still = FALSE
                                  /\ run'[p].sha = run[p].sha
                                  /\ run'[p].headSha = run[p].headSha
  <2>1. CASE run[p] = NoRun
    BY <1>2, <2>1
  <2>2. CASE run[p] # NoRun
    <3>1. run[p] \in Run /\ run'[p] = [run[p] EXCEPT !.still = FALSE]
      BY <1>2, <2>2 DEF WorktreeInv, TypeOK
    <3>2. run'[p] \in Run /\ run'[p].still = FALSE /\ run'[p].sha = run[p].sha
          /\ run'[p].headSha = run[p].headSha
      BY <3>1 DEF Run
    <3> QED BY <2>2, <3>2, NoRunIsNoRun
  <2> QED BY <2>1, <2>2
<1>4. TypeOK'
  <2>1. run' \in [Pid -> Run \cup {NoRun}]
    BY <1>2, <1>3
  <2>2. ASSUME NEW p \in Pid
        PROVE  run'[p] = NoRun <=> pc'[p] \in {"idle", "unregister", "remove_dir"}
    BY <1>1, <1>3 DEF WorktreeInv, TypeOK
  <2>3. moves' \in Nat /\ runs' \in Nat
    BY <1>1 DEF WorktreeInv, TypeOK
  <2>4. /\ tree' \in [Commit -> Tree] /\ pc' \in [Pid -> Pc]
        /\ tmp' \in [Pid -> Commit \cup {NoDir, Empty, Partial}]
        /\ registered' \in [Pid -> BOOLEAN] /\ abandoned' \subseteq Pid
        /\ section' \in Section \cup {NoSection, UnknownSection}
    BY <1>1 DEF WorktreeInv, TypeOK, disk
  <2> QED BY <1>1, <2>1, <2>2, <2>3, <2>4 DEF TypeOK
<1>5. ASSUME NEW p \in Pid PROVE OfProcess(p)'
  <2>1. OfProcess(p)
    BY DEF WorktreeInv
  <2>2. pc[p] \in Materialising \cup {"merge_base"} => run[p] # NoRun
    BY DEF WorktreeInv, TypeOK, Materialising
  <2> QED BY <1>1, <1>3, <2>1, <2>2 DEF OfProcess, Resolved, Own, Tidy, Anchored,
          Materialising, disk
<1>6. OfSection'
  BY <1>1, SameSection
<1> QED BY <1>4, <1>5, <1>6 DEF WorktreeInv

-----------------------------------------------------------------------------
(* The theorems.                                                           *)

LEMMA InitInv ==
  ASSUME WorktreeAssumption, Init
  PROVE  WorktreeInv
<1>1. section \notin Section
  <2>1. section = NoSection
    BY DEF Init
  <2> QED BY <2>1, SectionAssumption
<1> QED BY <1>1 DEF WorktreeInv, TypeOK, OfProcess, Resolved, Own, Tidy, Anchored,
        OfSection, SameAnchor, IntroducedIsNew, Init, Pc, Materialising, WorktreeAssumption

LEMMA NextInv ==
  ASSUME WorktreeAssumption, WorktreeInv, [Next]_vars
  PROVE  WorktreeInv'
<1>1. CASE Move
  BY <1>1, MoveInv
<1>2. ASSUME NEW p \in Pid, Step(p) PROVE WorktreeInv'
  BY <1>2, DiffInv, AnalyzeHeadInv, ResolveHeadShaInv, ResolveBaseShaInv, CreateDirInv,
     AddWorktreeInv, CheckoutInv, AnalyzeBaseInv, UnregisterInv, RemoveDirInv, KillInv
     DEF Step
<1>3. CASE UNCHANGED vars
  BY <1>3 DEF vars, WorktreeInv, TypeOK, OfProcess, Resolved, Own, Tidy, Anchored,
     OfSection, SameAnchor, IntroducedIsNew, KnownToBase, Section, SitesOf
<1> QED BY <1>1, <1>2, <1>3 DEF Next

\* The invariant holds throughout.
THEOREM WorktreeInvariant == Spec => []WorktreeInv
BY WorktreeAssumption, InitInv, NextInv, PTL DEF Spec

\* Processes, directories and sections keep their types.
THEOREM TypeCorrect == Spec => []TypeOK
<1>1. WorktreeInv => TypeOK
  BY DEF WorktreeInv
<1> QED BY <1>1, WorktreeInvariant, PTL

\* materialize_base and its Drop: a process analyses the commit it resolved,
\* and a directory or a record stays only of a process number of which one was
\* killed or a removal failed: every other way out, refusals by git and leftovers
\* of others included, takes both away.
THEOREM Apart == Spec => []TreesApart
<1>1. WorktreeInv => TreesApart
  BY DEF WorktreeInv, OfProcess, Own, Tidy, Before, TreesApart, OwnTree, NoTreeEscapes, DirOf
<1> QED BY <1>1, WorktreeInvariant, PTL

\* While HEAD and the base ref keep still, both sides of a section start from
\* one commit, although each is resolved by a git command of its own.
THEOREM OneAnchor == Spec => []SameAnchor
<1>1. WorktreeInv => SameAnchor
  BY DEF WorktreeInv, OfSection
<1> QED BY <1>1, WorktreeInvariant, PTL

\* evaluate_base_head_movement calls an identity introduced only if the base
\* commit of its section does not have it, or has it where a whole analysis
\* does not look or under another package name.
THEOREM Introduced == Spec => []IntroducedIsNew
<1>1. WorktreeInv => IntroducedIsNew
  BY DEF WorktreeInv, OfSection
<1> QED BY <1>1, WorktreeInvariant, PTL

=============================================================================
