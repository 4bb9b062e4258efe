------------------------- MODULE BundleAdapterProofs -------------------------
(***************************************************************************)
(* Proofs about BundleAdapter, for any number of folders, runs of first-pr,*)
(* reads and events under way.                                             *)
(*                                                                         *)
(* The argument: what the editor shows was read where first-pr had written *)
(* it.  A bundle on disk, in a read under way and on display was written   *)
(* by a run into that very place, and the summary there is at least as     *)
(* new, since a run writes the summary first and nobody removes one while  *)
(* a run goes on.  What is on disk comes to be shown since every change of *)
(* it, of the folder or of the settings leaves an event or a read.         *)
(***************************************************************************)
EXTENDS BundleAdapter, SequenceTheorems, TLAPS

\* Run n has written the bundle of place at, and its summary before that.
Backed(at, n) ==
  /\ n \in 1..runs
  /\ at \in Place /\ placeOf[n] = at
  /\ disk[at].summary \in {NoFile, Torn} \cup n..MaxRuns

\* The run that writes has a place, and has written the summary when it is at
\* the bundle.
Home ==
  writer # NoWriter =>
    /\ runs > 0
    /\ placeOf[runs] \in Place
    /\ writer.artifact = 2 => disk[placeOf[runs]].summary = runs

DiskBacked == \A at \in Place : disk[at].lsp \in Run => Backed(at, disk[at].lsp)

ReadBacked(r) == r.text \in Run => Backed(r.at, r.text)

ReadsBacked == \A i \in DOMAIN reads : ReadBacked(reads[i])

ViewBacked == view.shown # Nothing => Backed(view.root, view.shown)

AdapterInv == TypeOK /\ Home /\ DiskBacked /\ ReadsBacked /\ ViewBacked

-----------------------------------------------------------------------------
(* Reads.                                                                  *)

\* clearBundleState shows no bundle.
LEMMA ClearedView ==
  ASSUME TypeOK, NEW message \in Status
  PROVE  Cleared(message) \in View /\ Cleared(message).shown = Nothing
BY DEF TypeOK, View, Cleared

\* Being overtaken changes neither place nor text of a read.
LEMMA OvertakenReads ==
  ASSUME TypeOK, ReadsBacked
  PROVE  /\ Overtaken(reads) \in Seq(Read)
         /\ \A i \in DOMAIN Overtaken(reads) : ReadBacked(Overtaken(reads)[i])
<1>1. DOMAIN reads = 1..Len(reads) /\ Len(reads) \in Nat
  BY LenProperties DEF TypeOK
<1>2. \A i \in DOMAIN reads : reads[i] \in Read
  BY <1>1, ElementOfSeq DEF TypeOK
<1>3. \A i \in DOMAIN reads : /\ [reads[i] EXCEPT !.overtaken = TRUE] \in Read
                              /\ ReadBacked([reads[i] EXCEPT !.overtaken = TRUE])
  BY <1>2 DEF Read, ReadsBacked, ReadBacked
<1>4. Overtaken(reads) \in [1..Len(reads) -> Read]
  BY <1>1, <1>3 DEF Overtaken
<1>5. Overtaken(reads) \in Seq(Read)
  BY <1>1, <1>4, SeqDef
<1> QED BY <1>1, <1>3, <1>5 DEF Overtaken

\* What a refresh that ends leaves of the others.
LEMMA WithoutReads ==
  ASSUME TypeOK, ReadsBacked, NEW r \in DOMAIN reads
  PROVE  /\ Without(r) \in Seq(Read)
         /\ \A i \in DOMAIN Without(r) : ReadBacked(Without(r)[i])
<1>1. DOMAIN reads = 1..Len(reads) /\ Len(reads) \in Nat
  BY LenProperties DEF TypeOK
<1>2. \A i \in DOMAIN reads : reads[i] \in Read
  BY <1>1, ElementOfSeq DEF TypeOK
<1>3. \A i \in DOMAIN reads : /\ [reads[i] EXCEPT !.overtaken = TRUE] \in Read
                              /\ ReadBacked([reads[i] EXCEPT !.overtaken = TRUE])
  BY <1>2 DEF Read, ReadsBacked, ReadBacked
<1> DEFINE left(k) == IF k < r THEN [reads[k] EXCEPT !.overtaken = TRUE]
                      ELSE reads[k + 1]
<1>4. \A k \in 1..(Len(reads) - 1) : left(k) \in Read /\ ReadBacked(left(k))
  BY <1>1, <1>2, <1>3 DEF ReadsBacked
<1>5. Without(r) = [k \in 1..(Len(reads) - 1) |-> left(k)]
  BY DEF Without
<1>6. Len(reads) - 1 \in Nat
  BY <1>1
<1> HIDE DEF left
<1>7. Without(r) \in [1..(Len(reads) - 1) -> Read]
  BY <1>4, <1>5
<1>8. Without(r) \in Seq(Read)
  BY <1>6, <1>7, SeqDef
<1> QED BY <1>4, <1>5, <1>8

\* A refresh that begins reads nothing yet.
LEMMA BegunRead ==
  ASSUME AdapterAssumption, TypeOK, NEW at \in Place, NEW with \in Settings
  PROVE  Begin(at, with) \in Read /\ ReadBacked(Begin(at, with))
BY DEF Begin, Read, Settings, File, ReadBacked, Run, AdapterAssumption

\* refreshBundle up to readFile, wherever it is called.
LEMMA RefreshStep ==
  ASSUME AdapterAssumption, AdapterInv, NEW at \in Place \cup {NoPlace},
         NEW with \in Settings, RefreshBundle(at, with), UNCHANGED outside
  PROVE  /\ reads' \in Seq(Read) /\ view' \in View /\ inOrder' \in BOOLEAN
         /\ ReadsBacked' /\ ViewBacked'
<1> USE DEF AdapterInv
<1>1. CASE at = NoPlace
  <2>1. reads' = Overtaken(reads) /\ view' = Cleared("no workspace open") /\ inOrder' = TRUE
    BY <1>1 DEF RefreshBundle
  <2>2. reads' \in Seq(Read) /\ \A i \in DOMAIN reads' : ReadBacked(reads'[i])
    BY <2>1, OvertakenReads
  <2>3. view' \in View /\ view'.shown = Nothing
    BY <2>1, ClearedView DEF Status
  <2> QED BY <2>1, <2>2, <2>3 DEF ReadsBacked, ViewBacked, ReadBacked, Backed, outside
<1>2. CASE at # NoPlace
  <2>1. reads' = Append(reads, Begin(at, with)) /\ UNCHANGED <<view, inOrder>>
    BY <1>2 DEF RefreshBundle
  <2>2. Begin(at, with) \in Read /\ ReadBacked(Begin(at, with))
    BY <1>2, BegunRead
  <2>3. reads' \in Seq(Read)
    BY <2>1, <2>2 DEF TypeOK
  <2>4. \A i \in DOMAIN reads' : ReadBacked(reads'[i])
    <3> TAKE i \in DOMAIN reads'
    <3>1. \/ i \in DOMAIN reads /\ reads'[i] = reads[i]
          \/ reads'[i] = Begin(at, with)
      BY <2>1, <2>2, LenProperties DEF TypeOK
    <3> QED BY <2>2, <3>1 DEF ReadsBacked
  <2> QED BY <2>1, <2>3, <2>4 DEF ReadsBacked, ViewBacked, ReadBacked, Backed, outside, TypeOK
<1> QED BY <1>1, <1>2

-----------------------------------------------------------------------------
(* Actions of the adapter.                                                 *)

\* Whoever leaves the files and the runs alone leaves what is on disk backed.
LEMMA SameDisk ==
  ASSUME AdapterInv, UNCHANGED outside
  PROVE  Home' /\ DiskBacked'
BY DEF AdapterInv, outside, Home, DiskBacked, Backed

\* What the watcher is made with, and what it forgets.
LEMMA Rewired ==
  ASSUME AdapterAssumption, NEW at \in Place \cup {NoPlace}, NEW with \in Settings,
         RewireBundleWatcher(at, with)
  PROVE  /\ watcher' \in {NoWatcher} \cup [at : Place, auto : BOOLEAN]
         /\ events' \in Seq(Event)
BY EmptySeq DEF RewireBundleWatcher, Settings

\* A refresh on request.
LEMMA RefreshCommandInv ==
  ASSUME AdapterAssumption, AdapterInv, RefreshCommand
  PROVE  AdapterInv'
<1>1. place \in Place \cup {NoPlace} /\ settings \in Settings
  BY DEF AdapterInv, TypeOK
<1>2. UNCHANGED outside /\ RefreshBundle(place, settings)
  BY DEF RefreshCommand
<1>3. Home' /\ DiskBacked'
  BY <1>2, SameDisk
<1>4. /\ reads' \in Seq(Read) /\ view' \in View /\ inOrder' \in BOOLEAN
      /\ ReadsBacked' /\ ViewBacked'
  BY <1>1, <1>2, RefreshStep
<1> QED BY <1>3, <1>4 DEF AdapterInv, TypeOK, RefreshCommand, outside, editor

\* The file system answers: the text is what is on disk there, or nothing.
LEMMA ReadFileInv ==
  ASSUME AdapterAssumption, AdapterInv, NEW r \in 1..MaxReads, ReadFile(r)
  PROVE  AdapterInv'
<1>1. r \in DOMAIN reads /\ DOMAIN reads = 1..Len(reads) /\ reads[r] \in Read
  BY LenProperties, ElementOfSeq DEF AdapterInv, TypeOK, ReadFile
<1>2. PICK text \in {disk[reads[r].at].lsp, Failed} :
        reads' = [reads EXCEPT ![r].done = TRUE, ![r].text = text]
  BY DEF ReadFile
<1> DEFINE new == [reads[r] EXCEPT !.done = TRUE, !.text = text]
<1>3. reads[r].at \in Place /\ text \in File \cup {Failed}
  BY <1>1, <1>2 DEF AdapterInv, TypeOK, Read, Artifact
<1>4. new \in Read /\ new.at = reads[r].at /\ new.text = text
  BY <1>1, <1>3 DEF Read
<1>5. text \in Run => Backed(reads[r].at, text)
  BY <1>2, <1>3 DEF AdapterInv, DiskBacked, AdapterAssumption, Run
<1>6. reads' = [reads EXCEPT ![r] = new]
  BY <1>1, <1>2
<1>7. reads' \in Seq(Read) /\ \A i \in DOMAIN reads' : reads'[i] = IF i = r THEN new ELSE reads[i]
  <2> HIDE DEF new
  <2> QED BY <1>1, <1>4, <1>6, ExceptSeq DEF AdapterInv, TypeOK
<1>8. UNCHANGED <<outside, editor, active, watcher, events, view, rejected, inOrder>>
  BY DEF ReadFile
<1>9. Home' /\ DiskBacked'
  BY <1>8, SameDisk
<1>10. ReadsBacked'
  <2> SUFFICES ASSUME NEW i \in DOMAIN reads', reads'[i].text \in Run
               PROVE  Backed(reads'[i].at, reads'[i].text)
    BY <1>8 DEF ReadsBacked, ReadBacked, Backed, outside
  <2>1. CASE i = r
    BY <2>1, <1>4, <1>5, <1>7
  <2>2. CASE i # r
    <3>1. i \in DOMAIN reads /\ reads'[i] = reads[i]
      BY <2>2, <1>6, <1>7
    <3> QED BY <3>1 DEF AdapterInv, ReadsBacked, ReadBacked
  <2> QED BY <2>1, <2>2
<1>11. ViewBacked'
  BY <1>8 DEF AdapterInv, ViewBacked, Backed, outside
<1> QED BY <1>7, <1>8, <1>9, <1>10, <1>11 DEF AdapterInv, TypeOK, outside, editor

\* A refresh ends: it shows what it has read where it has read it.
LEMMA EndRefreshInv ==
  ASSUME AdapterAssumption, AdapterInv, NEW r \in 1..MaxReads, EndRefresh(r)
  PROVE  AdapterInv'
<1>1. r \in DOMAIN reads /\ reads[r] \in Read /\ ReadBacked(reads[r])
  BY LenProperties, ElementOfSeq DEF AdapterInv, TypeOK, EndRefresh, ReadsBacked
<1>2. UNCHANGED <<outside, editor, active, watcher, events>> /\ reads' = Without(r)
  BY DEF EndRefresh
<1>3. Home' /\ DiskBacked'
  BY <1>2, SameDisk
<1>4. reads' \in Seq(Read) /\ ReadsBacked'
  <2>1. reads' \in Seq(Read) /\ \A i \in DOMAIN reads' : ReadBacked(reads'[i])
    BY <1>1, <1>2, WithoutReads DEF AdapterInv
  <2> QED BY <1>2, <2>1 DEF ReadsBacked, ReadBacked, Backed, outside
<1>5. /\ Apply(reads[r]) \in View
      /\ Apply(reads[r]).shown # Nothing =>
           Backed(Apply(reads[r]).root, Apply(reads[r]).shown)
  <2>1. CASE reads[r].text \notin Run
    <3>1. reads[r].text \in {NoFile, Failed, Torn}
      BY <1>1, <2>1 DEF Read, File
    <3>2. \E message \in Status : Apply(reads[r]) = Cleared(message)
      BY <3>1, <2>1 DEF Apply, Status
    <3> QED BY <3>2, ClearedView DEF AdapterInv
  <2>2. CASE reads[r].text \in Run
    <3>1. reads[r].text \notin {NoFile, Failed, Torn}
      BY <2>2 DEF Run, AdapterAssumption
    <3>2. Apply(reads[r]) = [shown |-> reads[r].text, root |-> reads[r].at,
                             cap |-> reads[r].cap, status |-> "bundle"]
      BY <2>2, <3>1 DEF Apply, Root
    <3> QED BY <1>1, <2>2, <3>2 DEF View, Read, Status, ReadBacked
  <2> QED BY <2>1, <2>2
<1>6. view' \in View /\ ViewBacked' /\ inOrder' \in BOOLEAN /\ rejected' \in BOOLEAN
  <2>1. CASE active
    <3>1. view' = Apply(reads[r]) /\ inOrder' = ~reads[r].overtaken /\ UNCHANGED rejected
      BY <2>1 DEF EndRefresh
    <3> QED BY <1>1, <1>2, <1>5, <3>1
            DEF AdapterInv, TypeOK, ViewBacked, Backed, outside, Read
  <2>2. CASE ~active
    BY <1>2, <2>2 DEF EndRefresh, AdapterInv, TypeOK, ViewBacked, Backed, outside
  <2> QED BY <2>1, <2>2
<1> QED BY <1>2, <1>3, <1>4, <1>6 DEF AdapterInv, TypeOK, outside, editor

\* The watcher's events.
LEMMA ListeningInv ==
  ASSUME AdapterAssumption, AdapterInv, Listening
  PROVE  AdapterInv'
<1>1. /\ place \in Place \cup {NoPlace} /\ settings \in Settings
      /\ events \in Seq(Event)
  BY DEF AdapterInv, TypeOK
<1>2. UNCHANGED <<outside, editor, active, watcher, rejected>>
  BY DEF Listening, OnDidChange, OnDidCreate, OnDidDelete
<1>3. events' \in Seq(Event)
  <2>1. events # <<>> /\ events' = Tail(events)
    BY DEF Listening, OnDidChange, OnDidCreate, OnDidDelete
  <2> QED BY <1>1, <2>1, HeadTailProperties
<1>4. Home' /\ DiskBacked'
  BY <1>2, SameDisk
<1>5. /\ reads' \in Seq(Read) /\ view' \in View /\ inOrder' \in BOOLEAN
      /\ ReadsBacked' /\ ViewBacked'
  <2>1. CASE RefreshBundle(place, settings)
    BY <1>1, <1>2, <2>1, RefreshStep
  <2>2. CASE UNCHANGED <<reads, view, inOrder>>
    BY <1>2, <2>2 DEF AdapterInv, TypeOK, ReadsBacked, ReadBacked, ViewBacked, Backed, outside
  <2>3. CASE OnDidDelete
    <3>1. view' = Cleared("bundle removed") /\ reads' = Overtaken(reads) /\ inOrder' = TRUE
      BY <2>3 DEF OnDidDelete
    <3>2. reads' \in Seq(Read) /\ \A i \in DOMAIN reads' : ReadBacked(reads'[i])
      BY <3>1, OvertakenReads DEF AdapterInv
    <3>3. view' \in View /\ view'.shown = Nothing
      BY <3>1, ClearedView DEF AdapterInv, Status
    <3> QED BY <1>2, <3>1, <3>2, <3>3 DEF ReadsBacked, ReadBacked, ViewBacked, Backed, outside
  <2> QED BY <2>1, <2>2, <2>3 DEF Listening, OnDidChange, OnDidCreate
<1> QED BY <1>2, <1>3, <1>4, <1>5 DEF AdapterInv, TypeOK, outside, editor

\* Settings or the folder change.
LEMMA ChangeInv ==
  ASSUME AdapterAssumption, AdapterInv, ChangeSettings \/ ChangePlace
  PROVE  AdapterInv'
<1>1. place \in Place \cup {NoPlace} /\ settings \in Settings
  BY DEF AdapterInv, TypeOK
<1>2. PICK at \in Place \cup {NoPlace}, with \in Settings :
        /\ place' = at /\ settings' = with
        /\ RewireBundleWatcher(at, with) /\ RefreshBundle(at, with)
  BY <1>1 DEF ChangeSettings, ChangePlace
<1>3. UNCHANGED <<outside, active, rejected>>
  BY DEF ChangeSettings, ChangePlace
<1>4. Home' /\ DiskBacked'
  BY <1>3, SameDisk
<1>5. /\ reads' \in Seq(Read) /\ view' \in View /\ inOrder' \in BOOLEAN
      /\ ReadsBacked' /\ ViewBacked'
  BY <1>2, <1>3, RefreshStep
<1>6. /\ watcher' \in {NoWatcher} \cup [at : Place, auto : BOOLEAN]
      /\ events' \in Seq(Event)
  BY <1>2, Rewired
<1> QED BY <1>2, <1>3, <1>4, <1>5, <1>6 DEF AdapterInv, TypeOK, outside

\* After deactivate nothing is shown.
LEMMA DeactivateInv ==
  ASSUME AdapterAssumption, AdapterInv, Deactivate
  PROVE  AdapterInv'
<1>1. /\ UNCHANGED <<outside, editor, reads, rejected, inOrder>>
      /\ active' = FALSE /\ watcher' = NoWatcher /\ events' = <<>>
      /\ view' = Cleared("idle")
  BY DEF Deactivate
<1>2. view' \in View /\ view'.shown = Nothing
  BY <1>1, ClearedView DEF AdapterInv, Status
<1>3. Home' /\ DiskBacked'
  BY <1>1, SameDisk
<1>4. ReadsBacked' /\ ViewBacked'
  BY <1>1, <1>2 DEF AdapterInv, ReadsBacked, ReadBacked, ViewBacked, Backed, outside
<1> QED BY <1>1, <1>2, <1>3, <1>4, EmptySeq DEF AdapterInv, TypeOK, outside, editor

-----------------------------------------------------------------------------
(* Actions outside of the editor.                                          *)

\* The two artifacts.
LEMMA Artifacts ==
  /\ DOMAIN Order = {1, 2} /\ Len(Order) = 2
  /\ Order[1] = "summary" /\ Order[2] = "lsp"
BY DEF Order

\* A file changes, and nothing else on disk.
LEMMA Becoming ==
  ASSUME TypeOK, NEW at \in Place, NEW artifact \in Artifact, NEW new \in File,
         Become(at, artifact, new)
  PROVE  /\ disk' \in [Place -> [Artifact -> File]] /\ events' \in Seq(Event)
         /\ \A b \in Place, x \in Artifact :
              disk'[b][x] = IF b = at /\ x = artifact THEN new ELSE disk[b][x]
<1>1. disk' = [disk EXCEPT ![at][artifact] = new]
  BY DEF Become
<1>2. disk' \in [Place -> [Artifact -> File]]
      /\ \A b \in Place, x \in Artifact :
           disk'[b][x] = IF b = at /\ x = artifact THEN new ELSE disk[b][x]
  BY <1>1 DEF TypeOK
<1>3. events' \in Seq(Event)
  <2>1. UNCHANGED events \/ \E e \in Event : events' = Append(events, e)
    BY DEF Become, Event
  <2>2. events \in Seq(Event)
    BY DEF TypeOK
  <2> QED BY <2>1, <2>2, AppendProperties
<1> QED BY <1>2, <1>3

\* A run that writes has a place and an artifact.
LEMMA Writer ==
  ASSUME AdapterAssumption, AdapterInv, writer # NoWriter
  PROVE  /\ writer \in [pc : {"truncate", "fill"}, artifact : {1, 2}]
         /\ runs \in Run /\ placeOf[runs] \in Place
         /\ Order[writer.artifact] \in Artifact
         /\ writer.artifact = 2 => disk[placeOf[runs]].summary = runs
BY Artifacts DEF AdapterAssumption, AdapterInv, TypeOK, Home, Run, Artifact

\* first-pr starts.
LEMMA StartRunInv ==
  ASSUME AdapterAssumption, AdapterInv, NEW at \in Place, StartRun(at)
  PROVE  AdapterInv'
<1>1. /\ runs < MaxRuns /\ runs' = runs + 1
      /\ placeOf' = [placeOf EXCEPT ![runs + 1] = at]
      /\ writer' = [pc |-> "truncate", artifact |-> 1]
      /\ UNCHANGED <<disk, editor, adapter, events>>
  BY DEF StartRun
<1>2. runs + 1 \in Run /\ runs \in Nat /\ MaxRuns \in Nat
  BY <1>1 DEF AdapterInv, TypeOK, Run, AdapterAssumption
<1>3. placeOf' \in [Run -> Place \cup {NoPlace}] /\ placeOf'[runs + 1] = at
      /\ \A n \in 1..runs : placeOf'[n] = placeOf[n]
  BY <1>1, <1>2 DEF AdapterInv, TypeOK, Run
<1>4. \A b, n : Backed(b, n) => Backed(b, n)'
  BY <1>1, <1>2, <1>3 DEF Backed, Run
<1>5. Home'
  BY <1>1, <1>2, <1>3 DEF Home
<1>6. DiskBacked' /\ ReadsBacked' /\ ViewBacked'
  BY <1>1, <1>4 DEF AdapterInv, DiskBacked, ReadsBacked, ReadBacked, ViewBacked, adapter
<1>7. TypeOK'
  <2>1. writer' \in [pc : {"truncate", "fill"}, artifact : DOMAIN Order]
    BY <1>1, Artifacts
  <2> QED BY <1>1, <1>2, <1>3, <2>1 DEF AdapterInv, TypeOK, editor, adapter, Run
<1> QED BY <1>5, <1>6, <1>7 DEF AdapterInv

\* Whatever becomes of one artifact of the run that writes.
LEMMA WriteStep ==
  ASSUME AdapterAssumption, AdapterInv, writer # NoWriter,
         NEW new \in {Torn, runs},
         Become(placeOf[runs], Order[writer.artifact], new),
         UNCHANGED <<runs, placeOf, editor, adapter>>
  PROVE  DiskBacked' /\ ReadsBacked' /\ ViewBacked'
<1>1. /\ writer \in [pc : {"truncate", "fill"}, artifact : {1, 2}]
      /\ runs \in Run /\ placeOf[runs] \in Place
      /\ Order[writer.artifact] \in Artifact
      /\ writer.artifact = 2 => disk[placeOf[runs]].summary = runs
  BY Writer
<1>2. \A b \in Place, x \in Artifact :
        disk'[b][x] = IF b = placeOf[runs] /\ x = Order[writer.artifact]
                      THEN new ELSE disk[b][x]
  BY <1>1, Becoming DEF AdapterInv, File
<1>3. runs \in Nat /\ MaxRuns \in Nat /\ runs \in 1..MaxRuns /\ Torn \notin Run
  BY <1>1 DEF Run, AdapterAssumption
<1>4. \A b, n : Backed(b, n) => Backed(b, n)'
  <2> SUFFICES ASSUME NEW b, NEW n, Backed(b, n) PROVE Backed(b, n)'
    OBVIOUS
  <2>1. b \in Place /\ n \in 1..runs
    BY DEF Backed
  <2>2. disk'[b].summary \in {NoFile, Torn} \cup n..MaxRuns
    BY <1>2, <1>3, <2>1 DEF Backed, Artifact
  <2> QED BY <2>1, <2>2 DEF Backed
<1>5. ReadsBacked' /\ ViewBacked'
  BY <1>4 DEF AdapterInv, ReadsBacked, ReadBacked, ViewBacked, adapter
<1>6. DiskBacked'
  <2> SUFFICES ASSUME NEW b \in Place, disk'[b].lsp \in Run
               PROVE  Backed(b, disk[b].lsp)'
    BY DEF DiskBacked
  <2>1. CASE disk'[b].lsp = disk[b].lsp
    BY <1>4, <2>1 DEF AdapterInv, DiskBacked
  <2>2. CASE disk'[b].lsp # disk[b].lsp
    <3>1. b = placeOf[runs] /\ Order[writer.artifact] = "lsp" /\ disk'[b].lsp = new
      BY <1>2, <2>2 DEF Artifact
    <3>2. writer.artifact = 2 /\ new = runs
      BY <1>1, <1>3, <3>1, Artifacts
    <3>3. disk'[b].summary = runs
      BY <1>1, <1>2, <3>1, <3>2 DEF Artifact
    <3> QED BY <1>1, <1>3, <3>1, <3>2, <3>3 DEF Backed, adapter
  <2> QED BY <2>1, <2>2
<1> QED BY <1>5, <1>6

\* An artifact is truncated.
LEMMA TruncateInv ==
  ASSUME AdapterAssumption, AdapterInv, Truncate
  PROVE  AdapterInv'
<1>1. /\ writer # NoWriter
      /\ Become(placeOf[runs], Order[writer.artifact], Torn)
      /\ writer' = [writer EXCEPT !.pc = "fill"]
      /\ UNCHANGED <<runs, placeOf, editor, adapter>>
  BY DEF Truncate, NoWriter
<1>2. /\ writer \in [pc : {"truncate", "fill"}, artifact : {1, 2}]
      /\ runs \in Run /\ placeOf[runs] \in Place
      /\ Order[writer.artifact] \in Artifact
      /\ writer.artifact = 2 => disk[placeOf[runs]].summary = runs
  BY <1>1, Writer
<1>3. DiskBacked' /\ ReadsBacked' /\ ViewBacked'
  BY <1>1, WriteStep
<1>4. /\ disk' \in [Place -> [Artifact -> File]] /\ events' \in Seq(Event)
      /\ \A b \in Place, x \in Artifact :
           disk'[b][x] = IF b = placeOf[runs] /\ x = Order[writer.artifact]
                         THEN Torn ELSE disk[b][x]
  BY <1>1, <1>2, Becoming DEF AdapterInv, File
<1>5. writer' \in [pc : {"truncate", "fill"}, artifact : DOMAIN Order]
      /\ writer'.artifact = writer.artifact
  BY <1>1, <1>2, Artifacts
<1>6. Home'
  <2>1. writer.artifact = 2 => disk'[placeOf[runs]].summary = runs
    BY <1>2, <1>4, Artifacts DEF Artifact
  <2> QED BY <1>1, <1>5, <2>1 DEF AdapterInv, Home
<1> QED BY <1>1, <1>3, <1>4, <1>5, <1>6 DEF AdapterInv, TypeOK, editor, adapter

\* An artifact is filled, and the next one begun.
LEMMA FillInv ==
  ASSUME AdapterAssumption, AdapterInv, Fill
  PROVE  AdapterInv'
<1>1. /\ writer # NoWriter
      /\ Become(placeOf[runs], Order[writer.artifact], runs)
      /\ writer' = IF writer.artifact = 2 THEN NoWriter
                   ELSE [pc |-> "truncate", artifact |-> writer.artifact + 1]
      /\ UNCHANGED <<runs, placeOf, editor, adapter>>
  BY Artifacts DEF Fill, NoWriter
<1>2. /\ writer \in [pc : {"truncate", "fill"}, artifact : {1, 2}]
      /\ runs \in Run /\ placeOf[runs] \in Place
      /\ Order[writer.artifact] \in Artifact
  BY <1>1, Writer
<1>3. DiskBacked' /\ ReadsBacked' /\ ViewBacked'
  BY <1>1, WriteStep
<1>4. /\ disk' \in [Place -> [Artifact -> File]] /\ events' \in Seq(Event)
      /\ \A b \in Place, x \in Artifact :
           disk'[b][x] = IF b = placeOf[runs] /\ x = Order[writer.artifact]
                         THEN runs ELSE disk[b][x]
  BY <1>1, <1>2, Becoming DEF AdapterInv, File
<1>5. writer' \in {NoWriter} \cup [pc : {"truncate", "fill"}, artifact : DOMAIN Order]
  BY <1>1, <1>2, Artifacts
<1>6. Home'
  <2>1. CASE writer.artifact = 2
    BY <1>1, <2>1 DEF Home
  <2>2. CASE writer.artifact = 1
    <3>1. disk'[placeOf[runs]].summary = runs
      BY <1>2, <1>4, <2>2, Artifacts DEF Artifact
    <3> QED BY <1>1, <3>1 DEF AdapterInv, Home
  <2> QED BY <1>2, <2>1, <2>2
<1> QED BY <1>1, <1>3, <1>4, <1>5, <1>6 DEF AdapterInv, TypeOK, editor, adapter

\* first-pr dies.
LEMMA DieInv ==
  ASSUME AdapterInv, Die
  PROVE  AdapterInv'
BY DEF Die, AdapterInv, TypeOK, Home, DiskBacked, ReadsBacked, ReadBacked,
       ViewBacked, Backed, editor, adapter

\* A directory is removed.
LEMMA RemoveInv ==
  ASSUME AdapterAssumption, AdapterInv, NEW at \in Place, Remove(at)
  PROVE  AdapterInv'
<1>1. /\ writer = NoWriter
      /\ disk' = [disk EXCEPT ![at] = [summary |-> NoFile, lsp |-> NoFile]]
      /\ UNCHANGED <<writer, runs, placeOf, editor, adapter>>
  BY DEF Remove
<1>2. [summary |-> NoFile, lsp |-> NoFile] \in [Artifact -> File]
  BY DEF Artifact, File
<1>3. disk' \in [Place -> [Artifact -> File]]
      /\ \A b \in Place : disk'[b] = IF b = at THEN [summary |-> NoFile, lsp |-> NoFile]
                                      ELSE disk[b]
  BY <1>1, <1>2 DEF AdapterInv, TypeOK
<1>4. events' \in Seq(Event)
  <2>1. UNCHANGED events \/ \E e \in Event : events' = Append(events, e)
    BY DEF Remove, Event
  <2>2. events \in Seq(Event)
    BY DEF AdapterInv, TypeOK
  <2> QED BY <2>1, <2>2, AppendProperties
<1>5. \A b, n : Backed(b, n) => Backed(b, n)'
  BY <1>1, <1>3 DEF Backed
<1>6. ReadsBacked' /\ ViewBacked'
  BY <1>1, <1>5 DEF AdapterInv, ReadsBacked, ReadBacked, ViewBacked, adapter
<1>7. DiskBacked'
  <2>1. NoFile \notin Run
    BY DEF AdapterAssumption, Run
  <2> QED BY <1>3, <1>5, <2>1 DEF AdapterInv, DiskBacked
<1>8. Home'
  BY <1>1 DEF Home
<1> QED BY <1>1, <1>3, <1>4, <1>6, <1>7, <1>8 DEF AdapterInv, TypeOK, editor, adapter

-----------------------------------------------------------------------------
(* The invariant.                                                          *)

\* The editor has read nothing, and nobody has written.
LEMMA InitInv ==
  ASSUME AdapterAssumption, Init
  PROVE  AdapterInv
<1>1. Begin(place, settings) \in Read /\ Begin(place, settings).text = NoFile
  BY DEF Init, Begin, Read, Settings, File
<1>2. NoFile \notin Run /\ 0 \in 0..MaxRuns /\ 0 \notin Run
  BY DEF AdapterAssumption, Run
<1>3. reads \in Seq(Read) /\ ReadsBacked
  <2>1. reads = <<Begin(place, settings)>>
    BY DEF Init
  <2> QED BY <1>1, <1>2, <2>1 DEF ReadsBacked, ReadBacked
<1>4. Home /\ DiskBacked /\ ViewBacked
  BY <1>2 DEF Init, Home, DiskBacked, ViewBacked
<1>5. [summary |-> NoFile, lsp |-> NoFile] \in [Artifact -> File]
  BY DEF Artifact, File
<1>6. view \in View
  BY DEF Init, View, Status
<1>7. place \in Place /\ settings \in Settings
      /\ watcher \in [at : Place, auto : BOOLEAN]
  BY DEF Init, Settings
<1>8. /\ disk \in [Place -> [Artifact -> File]]
      /\ runs \in 0..MaxRuns /\ placeOf \in [Run -> Place \cup {NoPlace}]
  BY <1>2, <1>5 DEF Init
<1>9. events \in Seq(Event) /\ writer = NoWriter
      /\ active = TRUE /\ rejected = FALSE /\ inOrder = TRUE
  BY EmptySeq DEF Init
<1> QED BY <1>3, <1>4, <1>6, <1>7, <1>8, <1>9 DEF AdapterInv, TypeOK

\* No step disturbs the invariant.
LEMMA NextInv ==
  ASSUME AdapterAssumption, AdapterInv, [Next]_vars
  PROVE  AdapterInv'
<1>1. CASE Refreshing
  BY <1>1, ReadFileInv, EndRefreshInv DEF Refreshing
<1>2. CASE Listening
  BY <1>2, ListeningInv
<1>3. CASE RefreshCommand
  BY <1>3, RefreshCommandInv
<1>4. CASE ChangeSettings \/ ChangePlace
  BY <1>4, ChangeInv
<1>5. CASE Deactivate
  BY <1>5, DeactivateInv
<1>6. CASE Truncate
  BY <1>6, TruncateInv
<1>7. CASE Fill
  BY <1>7, FillInv
<1>8. CASE Die
  BY <1>8, DieInv
<1>9. ASSUME NEW at \in Place, StartRun(at) PROVE AdapterInv'
  BY <1>9, StartRunInv
<1>10. ASSUME NEW at \in Place, Remove(at) PROVE AdapterInv'
  BY <1>10, RemoveInv
<1>11. CASE UNCHANGED vars
  BY <1>11 DEF vars, AdapterInv, TypeOK, Home, DiskBacked, ReadsBacked, ReadBacked,
     ViewBacked, Backed
<1> QED BY <1>1, <1>2, <1>3, <1>4, <1>5, <1>6, <1>7, <1>8, <1>9, <1>10, <1>11 DEF Next

-----------------------------------------------------------------------------
(* What is shown is what is on disk.  The watcher belongs to the place and *)
(* the settings that hold, so a change of the bundle leaves an event, and  *)
(* the last event leaves a read that nothing has overtaken: whoever ends   *)
(* after it knows that it is late.                                         *)

\* Who has overtaken a read has overtaken all that were begun before it.
LateFirst ==
  \A j, k \in DOMAIN reads : j < k /\ reads[k].overtaken => reads[j].overtaken

\* The watcher is the one of the place and the settings that hold.
Wired ==
  active =>
    /\ watcher = IF place = NoPlace THEN NoWatcher
                 ELSE [at |-> place, auto |-> settings.auto]
    /\ place = NoPlace => events = <<>>

\* A read that ends in what there is to show, if it does not fail.
Fresh(r) ==
  /\ r.at = place /\ r.cap = settings.cap
  /\ r.done => r.text \in {disk[place].lsp, Failed}

\* The read begun last will end in time.
Awaited == reads # <<>> /\ ~reads[Len(reads)].overtaken

\* The last event leads to a read, or the bundle is gone.
LastEvent ==
  \/ events[Len(events)] \in {"create", "change"}
  \/ events[Len(events)] = "delete" /\ disk[place].lsp = NoFile

Settled == inOrder /\ view.status # "bundle read failed" => UpToDate

ShowInv ==
  active =>
    /\ place = NoPlace => ~Awaited
    /\ settings.auto =>
         /\ events # <<>> => LastEvent
         /\ events = <<>> /\ Awaited => Fresh(reads[Len(reads)])
         /\ events = <<>> /\ ~Awaited => Settled

DisplayInv == AdapterInv /\ LateFirst /\ Wired /\ ShowInv

\* Whoever has no reads, or an overtaken last one, has overtaken ones only.
LEMMA AllLate ==
  ASSUME TypeOK, LateFirst, ~Awaited, NEW r \in DOMAIN reads
  PROVE  reads[r].overtaken
<1>1. DOMAIN reads = 1..Len(reads) /\ Len(reads) \in Nat /\ reads # <<>>
  BY LenProperties, EmptySeq DEF TypeOK
<1>2. Len(reads) \in DOMAIN reads /\ reads[Len(reads)].overtaken
  BY <1>1 DEF Awaited
<1>3. r = Len(reads) \/ r < Len(reads)
  BY <1>1
<1> QED BY <1>2, <1>3 DEF LateFirst

\* Being overtaken, for every read.
LEMMA OvertakenLate ==
  ASSUME TypeOK, reads' = Overtaken(reads)
  PROVE  LateFirst' /\ ~Awaited'
<1>1. DOMAIN reads = 1..Len(reads) /\ Len(reads) \in Nat
  BY LenProperties DEF TypeOK
<1>2. DOMAIN reads' = 1..Len(reads) /\ \A i \in 1..Len(reads) : reads'[i].overtaken
  <2>1. \A i \in DOMAIN reads : reads[i] \in Read
    BY <1>1, ElementOfSeq DEF TypeOK
  <2>2. \A i \in DOMAIN reads : reads'[i] = [reads[i] EXCEPT !.overtaken = TRUE]
    BY DEF Overtaken
  <2> QED BY <1>1, <2>1, <2>2 DEF Overtaken, Read
<1>3. LateFirst'
  BY <1>2 DEF LateFirst
<1>4. ~Awaited'
  <2> SUFFICES ASSUME reads' # <<>> PROVE reads'[Len(reads')].overtaken
    BY DEF Awaited
  <2>1. reads' \in [1..Len(reads) -> Read]
    <3>1. \A i \in DOMAIN reads : reads[i] \in Read
      BY <1>1, ElementOfSeq DEF TypeOK
    <3>2. \A i \in DOMAIN reads : [reads[i] EXCEPT !.overtaken = TRUE] \in Read
      BY <3>1 DEF Read
    <3> QED BY <1>1, <3>2 DEF Overtaken
  <2>2. reads' \in Seq(Read) /\ Len(reads') = Len(reads)
    BY <1>1, <2>1, SeqDef, LenProperties
  <2>3. Len(reads') # 0
    BY <2>2, EmptySeq
  <2> QED BY <1>1, <1>2, <2>2, <2>3
<1> QED BY <1>3, <1>4

\* A refresh that begins, with what is open and holds from then on.
LEMMA RefreshShows ==
  ASSUME AdapterAssumption, AdapterInv, LateFirst,
         NEW at \in Place \cup {NoPlace}, NEW with \in Settings,
         RefreshBundle(at, with), place' = at, settings' = with
  PROVE  /\ LateFirst'
         /\ (settings'.auto /\ events' # <<>> => LastEvent') => ShowInv'
<1> USE DEF AdapterInv
<1>1. CASE at = NoPlace
  <2>1. reads' = Overtaken(reads) /\ view' = Cleared("no workspace open")
    BY <1>1 DEF RefreshBundle
  <2>2. LateFirst' /\ ~Awaited'
    BY <2>1, OvertakenLate
  <2>3. view'.shown = Nothing
    BY <2>1, ClearedView DEF Status
  <2>4. Settled'
    BY <1>1, <2>3 DEF Settled, UpToDate, Current
  <2> QED BY <2>2, <2>4 DEF ShowInv
<1>2. CASE at # NoPlace
  <2>1. reads' = Append(reads, Begin(at, with))
    BY <1>2 DEF RefreshBundle
  <2>2. Begin(at, with) \in Read
    BY <1>2, BegunRead
  <2>3. reads \in Seq(Read) /\ Len(reads) \in Nat /\ DOMAIN reads = 1..Len(reads)
    BY LenProperties DEF TypeOK
  <2>4. /\ Len(reads') = Len(reads) + 1 /\ DOMAIN reads' = 1..(Len(reads) + 1)
        /\ \A i \in 1..Len(reads) : reads'[i] = reads[i]
        /\ reads'[Len(reads) + 1] = Begin(at, with)
    BY <2>1, <2>2, <2>3, AppendProperties
  <2>5. ~Begin(at, with).overtaken /\ ~Begin(at, with).done
        /\ Begin(at, with).at = at /\ Begin(at, with).cap = with.cap
    BY DEF Begin
  <2>6. LateFirst'
    <3> SUFFICES ASSUME NEW j \in DOMAIN reads', NEW k \in DOMAIN reads',
                        j < k, reads'[k].overtaken
                 PROVE  reads'[j].overtaken
      BY DEF LateFirst
    <3>1. k # Len(reads) + 1
      BY <2>4, <2>5
    <3>2. j \in DOMAIN reads /\ k \in DOMAIN reads
      BY <2>3, <2>4, <3>1
    <3> QED BY <2>3, <2>4, <3>2 DEF LateFirst
  <2>7. Awaited'
    BY <2>1, <2>2, <2>3, <2>4, <2>5, AppendProperties DEF Awaited
  <2>8. Fresh(reads[Len(reads)])'
    BY <2>4, <2>5 DEF Fresh
  <2> QED BY <1>2, <2>6, <2>7, <2>8 DEF ShowInv
<1> QED BY <1>1, <1>2

\* A refresh that ends leaves the others in their order; the last of them was
\* the last before, or is late now.
LEMMA WithoutLate ==
  ASSUME TypeOK, ReadsBacked, LateFirst, NEW r \in DOMAIN reads, reads' = Without(r)
  PROVE  /\ LateFirst'
         /\ Awaited' => /\ Awaited /\ r # Len(reads)
                        /\ reads'[Len(reads')] = reads[Len(reads)]
         /\ Awaited /\ r # Len(reads) => Awaited'
<1>1. DOMAIN reads = 1..Len(reads) /\ Len(reads) \in Nat /\ Len(reads) - 1 \in Nat
  BY LenProperties DEF TypeOK
<1>2. \A i \in DOMAIN reads : reads[i] \in Read /\ [reads[i] EXCEPT !.overtaken = TRUE] \in Read
  <2>1. \A i \in DOMAIN reads : reads[i] \in Read
    BY <1>1, ElementOfSeq DEF TypeOK
  <2> QED BY <2>1 DEF Read
<1>3. DOMAIN reads' = 1..(Len(reads) - 1)
      /\ \A k \in 1..(Len(reads) - 1) :
           /\ k < r => reads'[k] = [reads[k] EXCEPT !.overtaken = TRUE]
           /\ ~(k < r) => reads'[k] = reads[k + 1]
  BY DEF Without
<1>4. \A k \in 1..(Len(reads) - 1) : k < r => reads'[k].overtaken
  BY <1>1, <1>2, <1>3 DEF Read
<1>5. LateFirst'
  <2> SUFFICES ASSUME NEW j \in DOMAIN reads', NEW k \in DOMAIN reads',
                      j < k, reads'[k].overtaken
               PROVE  reads'[j].overtaken
    BY DEF LateFirst
  <2>1. CASE j < r
    BY <1>3, <1>4, <2>1
  <2>2. CASE ~(j < r)
    <3>1. reads'[k] = reads[k + 1] /\ reads'[j] = reads[j + 1]
      BY <1>1, <1>3, <2>2
    <3>2. j + 1 \in DOMAIN reads /\ k + 1 \in DOMAIN reads /\ j + 1 < k + 1
      BY <1>1, <1>3
    <3> QED BY <3>1, <3>2 DEF LateFirst
  <2> QED BY <2>1, <2>2
<1>6. reads' \in Seq(Read) /\ Len(reads') = Len(reads) - 1
  <2>1. reads' \in Seq(Read)
    BY WithoutReads
  <2>2. DOMAIN reads' = 1..Len(reads') /\ Len(reads') \in Nat
    BY <2>1, LenProperties
  <2>3. 1..Len(reads') = 1..(Len(reads) - 1)
    BY <1>3, <2>2
  <2>4. Len(reads') = Len(reads) - 1
    <3> DEFINE a == Len(reads')
               b == Len(reads) - 1
    <3>1. a \in Nat /\ b \in Nat /\ 1..a = 1..b
      BY <1>1, <2>2, <2>3
    <3> HIDE DEF a, b
    <3>2. (a = 0 \/ a \in 1..b) /\ (b = 0 \/ b \in 1..a)
      BY <3>1
    <3>3. a = b
      BY <3>1, <3>2
    <3> QED BY <3>3 DEF a, b
  <2> QED BY <2>1, <2>4
<1>7. ASSUME Awaited'
      PROVE  Awaited /\ r # Len(reads) /\ reads'[Len(reads')] = reads[Len(reads)]
  <2>1. reads' # <<>> /\ ~reads'[Len(reads')].overtaken
    BY <1>7 DEF Awaited
  <2>2. Len(reads') \in 1..(Len(reads) - 1)
    BY <1>1, <1>6, <2>1, EmptySeq
  <2>3. ~(Len(reads') < r)
    BY <1>4, <2>1, <2>2
  <2>4. reads'[Len(reads')] = reads[Len(reads)] /\ r # Len(reads)
    BY <1>1, <1>3, <1>6, <2>2, <2>3
  <2>5. reads # <<>>
    BY <1>1, EmptySeq
  <2> QED BY <2>1, <2>4, <2>5 DEF Awaited
<1>8. ASSUME Awaited, r # Len(reads)
      PROVE  Awaited'
  <2>1. Len(reads) - 1 \in 1..(Len(reads) - 1) /\ ~(Len(reads) - 1 < r)
    BY <1>1, <1>8
  <2>2. reads'[Len(reads')] = reads[Len(reads)]
    BY <1>1, <1>3, <1>6, <2>1
  <2>3. reads' # <<>>
    BY <1>6, <2>1, EmptySeq
  <2> QED BY <1>8, <2>2, <2>3 DEF Awaited
<1> QED BY <1>5, <1>7, <1>8

\* What is left of the events ends as it did.
LEMMA TailLast ==
  ASSUME NEW queue \in Seq(Event), queue # <<>>
  PROVE  /\ Tail(queue) # <<>> => Tail(queue)[Len(Tail(queue))] = queue[Len(queue)]
         /\ Tail(queue) = <<>> => Head(queue) = queue[Len(queue)]
<1>1. Len(queue) \in Nat /\ Len(queue) # 0
  BY LenProperties, EmptySeq
<1>2. Tail(queue) \in Seq(Event) /\ Len(Tail(queue)) = Len(queue) - 1
      /\ \A i \in 1..Len(Tail(queue)) : Tail(queue)[i] = queue[i + 1]
  BY HeadTailProperties
<1>3. Head(queue) = queue[1]
  OBVIOUS
<1>4. ASSUME Tail(queue) # <<>>
      PROVE  Tail(queue)[Len(Tail(queue))] = queue[Len(queue)]
  <2>1. Len(Tail(queue)) # 0
    BY <1>2, <1>4, EmptySeq
  <2> QED BY <1>1, <1>2, <2>1
<1>5. ASSUME Tail(queue) = <<>>
      PROVE  Head(queue) = queue[Len(queue)]
  <2>1. Len(<<>>) = 0
    BY EmptySeq
  <2>2. Len(Tail(queue)) = 0
    BY <1>5, <2>1, Zenon
  <2>3. 0 = Len(queue) - 1
    BY <1>2, <2>2, Zenon
  <2>4. Len(queue) = 1
    BY <1>1, <2>3
  <2> QED BY <1>3, <2>4
<1> QED BY <1>4, <1>5

\* A refresh on request.
LEMMA RefreshCommandShows ==
  ASSUME AdapterAssumption, DisplayInv, RefreshCommand
  PROVE  LateFirst' /\ Wired' /\ ShowInv'
<1>1. place \in Place \cup {NoPlace} /\ settings \in Settings
  BY DEF DisplayInv, AdapterInv, TypeOK
<1>2. /\ active /\ RefreshBundle(place, settings)
      /\ UNCHANGED <<outside, editor, active, watcher, events, rejected>>
  BY DEF RefreshCommand
<1>3. place' = place /\ settings' = settings
  BY <1>2 DEF editor
<1>4. settings'.auto /\ events' # <<>> => LastEvent'
  BY <1>2, <1>3 DEF DisplayInv, ShowInv, LastEvent, outside
<1>5. LateFirst' /\ ShowInv'
  BY <1>1, <1>2, <1>3, <1>4, RefreshShows DEF DisplayInv
<1>6. Wired'
  BY <1>2, <1>3 DEF DisplayInv, Wired
<1> QED BY <1>5, <1>6

\* The text arrives: it is what is on disk.
LEMMA ReadFileShows ==
  ASSUME AdapterAssumption, DisplayInv, NEW r \in 1..MaxReads, ReadFile(r)
  PROVE  LateFirst' /\ Wired' /\ ShowInv'
<1> USE DEF DisplayInv, AdapterInv
<1>1. r \in DOMAIN reads /\ DOMAIN reads = 1..Len(reads) /\ Len(reads) \in Nat
      /\ reads[r] \in Read
  BY LenProperties, ElementOfSeq DEF TypeOK, ReadFile
<1>2. PICK text \in {disk[reads[r].at].lsp, Failed} :
        reads' = [reads EXCEPT ![r].done = TRUE, ![r].text = text]
  BY DEF ReadFile
<1> DEFINE new == [reads[r] EXCEPT !.done = TRUE, !.text = text]
<1>3. reads' = [reads EXCEPT ![r] = new]
  BY <1>1, <1>2
<1>4. /\ new.at = reads[r].at /\ new.cap = reads[r].cap
      /\ new.overtaken = reads[r].overtaken /\ new.text = text
  BY <1>1 DEF Read
<1>5. DOMAIN reads' = DOMAIN reads
      /\ \A i \in DOMAIN reads : reads'[i] = IF i = r THEN new ELSE reads[i]
  <2> HIDE DEF new
  <2> QED BY <1>1, <1>3
<1>6. \A i \in DOMAIN reads : reads'[i].overtaken = reads[i].overtaken
  BY <1>4, <1>5
<1>7. new \in Read
  <2>1. reads[r].at \in Place /\ text \in File \cup {Failed}
    BY <1>1, <1>2 DEF TypeOK, Read, Artifact
  <2> QED BY <1>1, <2>1 DEF Read
<1>8. reads' \in Seq(Read) /\ Len(reads') = Len(reads)
  <2> HIDE DEF new
  <2> QED BY <1>1, <1>3, <1>7, ExceptSeq DEF TypeOK
<1>9. UNCHANGED <<outside, editor, active, watcher, events, view, rejected, inOrder>>
  BY DEF ReadFile
<1>10. LateFirst'
  BY <1>5, <1>6 DEF LateFirst
<1>11. reads # <<>> /\ reads' # <<>> /\ Len(reads) \in DOMAIN reads
  BY <1>1, <1>8, EmptySeq
<1>12. Awaited' <=> Awaited
  BY <1>6, <1>8, <1>11 DEF Awaited
<1>13. Fresh(reads[Len(reads)]) => Fresh(reads[Len(reads)])'
  <2> SUFFICES ASSUME Fresh(reads[Len(reads)]) PROVE Fresh(reads[Len(reads)])'
    OBVIOUS
  <2>1. CASE r = Len(reads)
    <3>1. reads[r].at = place /\ reads[r].cap = settings.cap
      BY <2>1 DEF Fresh
    <3>2. reads'[Len(reads')] = new /\ text \in {disk[place].lsp, Failed}
      BY <1>1, <1>2, <1>5, <1>8, <2>1, <3>1
    <3> QED BY <1>4, <1>9, <3>1, <3>2 DEF Fresh, outside, editor
  <2>2. CASE r # Len(reads)
    <3>1. reads'[Len(reads')] = reads[Len(reads)]
      BY <1>5, <1>8, <1>11, <2>2
    <3> QED BY <1>9, <3>1 DEF Fresh, outside, editor
  <2> QED BY <2>1, <2>2
<1>14. Settled' <=> Settled
  BY <1>9 DEF Settled, UpToDate, Current, outside, editor
<1>15. LastEvent' <=> LastEvent
  BY <1>9 DEF LastEvent, outside, editor
<1>16. ShowInv'
  BY <1>9, <1>12, <1>13, <1>14, <1>15 DEF ShowInv, editor
<1>17. Wired'
  BY <1>9 DEF Wired, editor
<1> QED BY <1>10, <1>16, <1>17

\* What a fresh read shows is the bundle, unless reading failed.
LEMMA FreshShows ==
  ASSUME AdapterAssumption, TypeOK, NEW r \in Read, Fresh(r), r.done,
         view' = Apply(r), UNCHANGED <<disk, place, settings>>
  PROVE  Settled'
<1>1. r.at = place /\ r.cap = settings.cap /\ r.text \in {disk[place].lsp, Failed}
  BY DEF Fresh
<1>2. place \in Place /\ place # NoPlace /\ r.text \in File \cup {Failed}
  BY <1>1 DEF Read, AdapterAssumption
<1>3. NoFile \notin Run /\ Torn \notin Run /\ Failed \notin Run /\ Nothing \notin Run
      /\ NoFile # Torn /\ Failed # NoFile /\ Failed # Torn
  BY DEF AdapterAssumption, Run
<1>4. CASE r.text = Failed
  <2>1. Apply(r) = Cleared("bundle read failed")
    BY <1>3, <1>4 DEF Apply
  <2>2. view'.status = "bundle read failed"
    BY <2>1 DEF Cleared, TypeOK, View
  <2> QED BY <2>2 DEF Settled
<1>5. CASE r.text # Failed /\ r.text \in Run
  <2>1. Apply(r) = [shown |-> r.text, root |-> place, cap |-> settings.cap,
                    status |-> "bundle"]
    BY <1>1, <1>3, <1>5 DEF Apply, Root
  <2>2. disk[place].lsp = r.text
    BY <1>1, <1>5
  <2> QED BY <1>2, <1>5, <2>1, <2>2 DEF Settled, UpToDate, Current
<1>6. CASE r.text # Failed /\ r.text \notin Run
  <2>1. r.text \in {NoFile, Torn} /\ disk[place].lsp = r.text
    BY <1>1, <1>2, <1>6 DEF File
  <2>2. \E message \in Status : Apply(r) = Cleared(message)
    BY <1>3, <2>1 DEF Apply, Status
  <2>3. view'.shown = Nothing
    BY <2>2, ClearedView
  <2> QED BY <1>2, <1>6, <2>1, <2>3 DEF Settled, UpToDate, Current
<1> QED BY <1>4, <1>5, <1>6

\* A refresh ends: the last one shows the bundle, another one leaves the last
\* one to end, or is late.
LEMMA EndRefreshShows ==
  ASSUME AdapterAssumption, DisplayInv, NEW r \in 1..MaxReads, EndRefresh(r)
  PROVE  LateFirst' /\ Wired' /\ ShowInv'
<1> USE DEF DisplayInv, AdapterInv
<1>1. r \in DOMAIN reads /\ reads[r] \in Read /\ reads[r].done
  BY LenProperties, ElementOfSeq DEF TypeOK, EndRefresh
<1>2. UNCHANGED <<outside, editor, active, watcher, events>> /\ reads' = Without(r)
  BY DEF EndRefresh
<1>3. UNCHANGED <<disk, place, settings, active, watcher, events>>
  BY <1>2 DEF outside, editor
<1>4. /\ LateFirst'
      /\ Awaited' => /\ Awaited /\ r # Len(reads)
                     /\ reads'[Len(reads')] = reads[Len(reads)]
      /\ Awaited /\ r # Len(reads) => Awaited'
  BY <1>1, <1>2, WithoutLate
<1>5. Wired'
  BY <1>3 DEF Wired
<1>6. ASSUME active'
      PROVE  ShowInv'
  <2>1. active /\ view' = Apply(reads[r]) /\ inOrder' = ~reads[r].overtaken
    BY <1>3, <1>6 DEF EndRefresh
  <2>2. place' = NoPlace => ~Awaited'
    BY <1>3, <1>4, <2>1 DEF ShowInv
  <2> SUFFICES ASSUME settings'.auto
               PROVE  /\ events' # <<>> => LastEvent'
                      /\ events' = <<>> /\ Awaited' => Fresh(reads[Len(reads)])'
                      /\ events' = <<>> /\ ~Awaited' => Settled'
    BY <2>2 DEF ShowInv
  <2>3. events' # <<>> => LastEvent'
    BY <1>3, <2>1 DEF ShowInv, LastEvent
  <2>4. ASSUME events' = <<>>, Awaited'
        PROVE  Fresh(reads[Len(reads)])'
    <3>1. Fresh(reads[Len(reads)]) /\ reads'[Len(reads')] = reads[Len(reads)]
      BY <1>3, <1>4, <2>1, <2>4 DEF ShowInv
    <3> QED BY <1>3, <3>1 DEF Fresh
  <2>5. ASSUME events' = <<>>, ~Awaited'
        PROVE  Settled'
    <3>1. CASE Awaited
      <4>1. r = Len(reads)
        BY <1>4, <2>5, <3>1
      <4>2. Fresh(reads[r])
        BY <1>3, <2>1, <2>5, <3>1, <4>1 DEF ShowInv
      <4> QED BY <1>1, <1>3, <2>1, <4>2, FreshShows
    <3>2. CASE ~Awaited
      <4>1. reads[r].overtaken
        BY <1>1, <3>2, AllLate
      <4> QED BY <2>1, <4>1 DEF Settled
    <3> QED BY <3>1, <3>2
  <2> QED BY <2>3, <2>4, <2>5
<1>7. CASE ~active'
  BY <1>4, <1>5, <1>7 DEF ShowInv
<1> QED BY <1>4, <1>5, <1>6, <1>7

\* The watcher's events: each leads to a read or to the bundle that is gone.
LEMMA ListeningShows ==
  ASSUME AdapterAssumption, DisplayInv, Listening
  PROVE  LateFirst' /\ Wired' /\ ShowInv'
<1> USE DEF DisplayInv, AdapterInv
<1>1. /\ place \in Place \cup {NoPlace} /\ settings \in Settings
      /\ events \in Seq(Event)
  BY DEF TypeOK
<1>2. /\ UNCHANGED <<outside, editor, active, watcher, rejected>>
      /\ events # <<>> /\ events' = Tail(events)
  BY DEF Listening, OnDidChange, OnDidCreate, OnDidDelete
<1>3. UNCHANGED <<disk, place, settings, active, watcher>>
  BY <1>2 DEF outside, editor
<1>4. active => place # NoPlace /\ watcher.auto = settings.auto
  BY <1>2 DEF Wired
<1>5. Wired'
  BY <1>3, <1>4 DEF Wired
<1>6. ASSUME active', settings'.auto, events' # <<>>
      PROVE  LastEvent'
  <2>1. events'[Len(events')] = events[Len(events)]
    BY <1>1, <1>2, <1>6, TailLast
  <2> QED BY <1>2, <1>3, <1>6, <2>1 DEF ShowInv, LastEvent
<1>7. CASE RefreshBundle(place, settings)
  <2>1. LateFirst' /\ ((settings'.auto /\ events' # <<>> => LastEvent') => ShowInv')
    BY <1>1, <1>3, <1>7, RefreshShows
  <2>2. CASE active'
    BY <1>5, <1>6, <2>1, <2>2
  <2>3. CASE ~active'
    BY <1>5, <2>1, <2>3 DEF ShowInv
  <2> QED BY <2>2, <2>3
<1>8. CASE OnDidChange /\ ~watcher.auto
  <2>1. UNCHANGED <<reads, view, inOrder>>
    BY <1>8 DEF OnDidChange
  <2>2. LateFirst'
    BY <2>1 DEF LateFirst
  <2>3. ShowInv'
    BY <1>3, <1>4, <1>8 DEF ShowInv
  <2> QED BY <1>5, <2>2, <2>3
<1>9. CASE OnDidDelete
  <2>1. /\ Head(events) = "delete" /\ reads' = Overtaken(reads)
        /\ view' = Cleared("bundle removed")
    BY <1>9 DEF OnDidDelete
  <2>2. LateFirst' /\ ~Awaited'
    BY <2>1, OvertakenLate
  <2>3. ASSUME active', settings'.auto, events' = <<>>
        PROVE  Settled'
    <3>1. events[Len(events)] = "delete"
      BY <1>1, <1>2, <2>1, <2>3, TailLast
    <3>2. disk[place].lsp = NoFile
      BY <1>2, <1>3, <2>3, <3>1 DEF ShowInv, LastEvent
    <3>3. Current' = Nothing
      BY <1>3, <3>2 DEF Current, AdapterAssumption, Run
    <3>4. view'.shown = Nothing
      BY <2>1, ClearedView DEF Status
    <3> QED BY <3>3, <3>4 DEF Settled, UpToDate
  <2> QED BY <1>5, <1>6, <2>2, <2>3 DEF ShowInv
<1> QED BY <1>7, <1>8, <1>9 DEF Listening, OnDidChange, OnDidCreate

\* Settings or the folder change: the watcher changes with them.
LEMMA ChangeShows ==
  ASSUME AdapterAssumption, DisplayInv, ChangeSettings \/ ChangePlace
  PROVE  LateFirst' /\ Wired' /\ ShowInv'
<1>1. place \in Place \cup {NoPlace} /\ settings \in Settings
  BY DEF DisplayInv, AdapterInv, TypeOK
<1>2. PICK at \in Place \cup {NoPlace}, with \in Settings :
        /\ place' = at /\ settings' = with
        /\ RewireBundleWatcher(at, with) /\ RefreshBundle(at, with)
  BY <1>1 DEF ChangeSettings, ChangePlace
<1>3. events' = <<>>
      /\ watcher' = IF at = NoPlace THEN NoWatcher ELSE [at |-> at, auto |-> with.auto]
  BY <1>2 DEF RewireBundleWatcher
<1>4. LateFirst' /\ ShowInv'
  BY <1>2, <1>3, RefreshShows DEF DisplayInv
<1>5. Wired'
  BY <1>2, <1>3 DEF Wired
<1> QED BY <1>4, <1>5

\* After deactivate nothing is claimed.
LEMMA DeactivateShows ==
  ASSUME DisplayInv, Deactivate
  PROVE  LateFirst' /\ Wired' /\ ShowInv'
BY DEF DisplayInv, Deactivate, LateFirst, Wired, ShowInv

\* A change of the bundle that is open leaves an event, another one concerns
\* nothing that is shown.
LEMMA DiskShows ==
  ASSUME DisplayInv, UNCHANGED <<editor, adapter>>,
         active =>
           \/ UNCHANGED events /\ (place # NoPlace => disk'[place].lsp = disk[place].lsp)
           \/ /\ place # NoPlace
              /\ \E e \in Event :
                   /\ events' = Append(events, e)
                   /\ e = "delete" => disk'[place].lsp = NoFile
  PROVE  LateFirst' /\ Wired' /\ ShowInv'
<1> USE DEF DisplayInv, AdapterInv
<1>1. UNCHANGED <<place, settings, active, watcher, reads, view, inOrder>>
  BY DEF editor, adapter
<1>2. LateFirst' /\ (Awaited' <=> Awaited)
  BY <1>1 DEF LateFirst, Awaited
<1>3. CASE ~active
  BY <1>1, <1>2, <1>3 DEF Wired, ShowInv
<1>4. CASE /\ active /\ UNCHANGED events
           /\ place # NoPlace => disk'[place].lsp = disk[place].lsp
  <2>1. Wired'
    BY <1>1, <1>4 DEF Wired
  <2>2. Settled' <=> Settled
    BY <1>1, <1>4 DEF Settled, UpToDate, Current
  <2>3. place # NoPlace /\ Fresh(reads[Len(reads)]) => Fresh(reads[Len(reads)])'
    BY <1>1, <1>4 DEF Fresh
  <2>4. place # NoPlace /\ LastEvent => LastEvent'
    BY <1>1, <1>4 DEF LastEvent
  <2>5. events # <<>> => place # NoPlace
    BY <1>4 DEF Wired
  <2>6. Awaited => place # NoPlace
    BY <1>4 DEF ShowInv
  <2>7. ShowInv'
    BY <1>1, <1>2, <1>4, <2>2, <2>3, <2>4, <2>5, <2>6 DEF ShowInv
  <2> QED BY <1>2, <2>1, <2>7
<1>5. ASSUME active, place # NoPlace, NEW e \in Event, events' = Append(events, e),
             e = "delete" => disk'[place].lsp = NoFile
      PROVE  Wired' /\ ShowInv'
  <2>1. Wired'
    BY <1>1, <1>5 DEF Wired
  <2>2. events' # <<>> /\ events'[Len(events')] = e
    BY <1>5, AppendProperties, EmptySeq DEF TypeOK
  <2>3. LastEvent'
    BY <1>1, <1>5, <2>2 DEF LastEvent, Event
  <2> QED BY <1>1, <1>5, <2>1, <2>2, <2>3 DEF ShowInv
<1> QED BY <1>2, <1>3, <1>4, <1>5

\* The watcher is at the place that is open.
LEMMA WatchedPlace ==
  ASSUME AdapterAssumption, DisplayInv, active, NEW at \in Place
  PROVE  watcher.at = at <=> place = at
BY DEF DisplayInv, Wired, NoWatcher, AdapterAssumption

\* An artifact becomes new.
LEMMA BecomeShows ==
  ASSUME AdapterAssumption, DisplayInv, NEW at \in Place, NEW artifact \in Artifact,
         NEW new \in File, Become(at, artifact, new), UNCHANGED <<editor, adapter>>
  PROVE  LateFirst' /\ Wired' /\ ShowInv'
<1>1. \A b \in Place, x \in Artifact :
        disk'[b][x] = IF b = at /\ x = artifact THEN new ELSE disk[b][x]
  BY Becoming DEF DisplayInv, AdapterInv
<1>2. place \in Place \cup {NoPlace}
  BY DEF DisplayInv, AdapterInv, TypeOK
<1>3. ASSUME active
      PROVE  \/ UNCHANGED events /\ (place # NoPlace => disk'[place].lsp = disk[place].lsp)
             \/ /\ place # NoPlace
                /\ \E e \in Event :
                     /\ events' = Append(events, e)
                     /\ e = "delete" => disk'[place].lsp = NoFile
  <2>1. watcher.at = at <=> place = at
    BY <1>3, WatchedPlace
  <2>2. CASE artifact = "lsp" /\ place = at
    <3>1. PICK e \in {"create", "change"} : events' = Append(events, e)
      BY <2>1, <2>2 DEF Become
    <3>2. e \in Event /\ e # "delete" /\ place # NoPlace
      BY <2>2 DEF Event, AdapterAssumption
    <3> QED BY <3>1, <3>2
  <2>3. CASE ~(artifact = "lsp" /\ place = at)
    <3>1. UNCHANGED events
      BY <2>1, <2>3 DEF Become
    <3>2. place # NoPlace => disk'[place].lsp = disk[place].lsp
      BY <1>1, <1>2, <2>3 DEF Artifact
    <3> QED BY <3>1, <3>2
  <2> QED BY <2>2, <2>3
<1> QED BY <1>3, DiskShows

\* An artifact is truncated or filled.
LEMMA WritingShows ==
  ASSUME AdapterAssumption, DisplayInv, Truncate \/ Fill
  PROVE  LateFirst' /\ Wired' /\ ShowInv'
<1>1. writer # NoWriter
  BY DEF Truncate, Fill, NoWriter
<1>2. runs \in Run /\ placeOf[runs] \in Place /\ Order[writer.artifact] \in Artifact
  BY <1>1, Writer DEF DisplayInv
<1>3. \E new \in File : Become(placeOf[runs], Order[writer.artifact], new)
  BY <1>2 DEF Truncate, Fill, File
<1>4. UNCHANGED <<editor, adapter>>
  BY DEF Truncate, Fill
<1> QED BY <1>2, <1>3, <1>4, BecomeShows

\* A directory is removed.
LEMMA RemoveShows ==
  ASSUME AdapterAssumption, DisplayInv, NEW at \in Place, Remove(at)
  PROVE  LateFirst' /\ Wired' /\ ShowInv'
<1>1. /\ disk' = [disk EXCEPT ![at] = [summary |-> NoFile, lsp |-> NoFile]]
      /\ UNCHANGED <<editor, adapter>>
  BY DEF Remove
<1>2. \A b \in Place : disk'[b].lsp = IF b = at THEN NoFile ELSE disk[b].lsp
  BY <1>1 DEF DisplayInv, AdapterInv, TypeOK
<1>3. place \in Place \cup {NoPlace}
  BY DEF DisplayInv, AdapterInv, TypeOK
<1>4. ASSUME active
      PROVE  \/ UNCHANGED events /\ (place # NoPlace => disk'[place].lsp = disk[place].lsp)
             \/ /\ place # NoPlace
                /\ \E e \in Event :
                     /\ events' = Append(events, e)
                     /\ e = "delete" => disk'[place].lsp = NoFile
  <2>1. watcher.at = at <=> place = at
    BY <1>4, WatchedPlace
  <2>2. CASE place = at
    <3>1. events' = Append(events, "delete") /\ disk'[place].lsp = NoFile
      BY <1>2, <2>1, <2>2 DEF Remove
    <3>2. "delete" \in Event /\ place # NoPlace
      BY <2>2 DEF Event, AdapterAssumption
    <3> QED BY <3>1, <3>2
  <2>3. CASE place # at
    <3>1. UNCHANGED events
      BY <2>1, <2>3 DEF Remove
    <3> QED BY <1>2, <1>3, <2>3, <3>1
  <2> QED BY <2>2, <2>3
<1> QED BY <1>1, <1>4, DiskShows

\* first-pr starts, or dies.
LEMMA RunShows ==
  ASSUME DisplayInv, Die \/ \E at \in Place : StartRun(at)
  PROVE  LateFirst' /\ Wired' /\ ShowInv'
<1>1. UNCHANGED <<disk, editor, adapter, events>>
  BY DEF Die, StartRun
<1> QED BY <1>1, DiskShows

\* What is shown accounts for what is on disk, from activation on.
LEMMA InitDisplay ==
  ASSUME AdapterAssumption, Init
  PROVE  DisplayInv
<1>1. AdapterInv
  BY InitInv
<1>2. reads = <<Begin(place, settings)>> /\ events = <<>> /\ active = TRUE
      /\ place \in Place /\ watcher = [at |-> place, auto |-> settings.auto]
  BY DEF Init
<1>3. Len(reads) = 1 /\ DOMAIN reads = {1} /\ reads[1] = Begin(place, settings)
      /\ reads # <<>>
  BY <1>2
<1>4. ~Begin(place, settings).overtaken /\ Fresh(Begin(place, settings))
  BY DEF Begin, Fresh
<1>5. LateFirst
  BY <1>3 DEF LateFirst
<1>6. Awaited /\ Fresh(reads[Len(reads)])
  BY <1>3, <1>4 DEF Awaited
<1>7. place # NoPlace
  BY <1>2 DEF AdapterAssumption
<1> QED BY <1>1, <1>2, <1>5, <1>6, <1>7 DEF DisplayInv, Wired, ShowInv

\* No step of the adapter, of first-pr or of a user disturbs that.
LEMMA NextDisplay ==
  ASSUME AdapterAssumption, DisplayInv, [Next]_vars
  PROVE  DisplayInv'
<1>1. AdapterInv'
  BY NextInv DEF DisplayInv
<1>2. CASE Refreshing
  BY <1>1, <1>2, ReadFileShows, EndRefreshShows DEF Refreshing, DisplayInv
<1>3. CASE Listening
  BY <1>1, <1>3, ListeningShows DEF DisplayInv
<1>4. CASE RefreshCommand
  BY <1>1, <1>4, RefreshCommandShows DEF DisplayInv
<1>5. CASE ChangeSettings \/ ChangePlace
  BY <1>1, <1>5, ChangeShows DEF DisplayInv
<1>6. CASE Deactivate
  BY <1>1, <1>6, DeactivateShows DEF DisplayInv
<1>7. CASE Truncate \/ Fill
  BY <1>1, <1>7, WritingShows DEF DisplayInv
<1>8. CASE Die \/ \E at \in Place : StartRun(at)
  BY <1>1, <1>8, RunShows DEF DisplayInv
<1>9. CASE \E at \in Place : Remove(at)
  BY <1>1, <1>9, RemoveShows DEF DisplayInv
<1>10. CASE UNCHANGED vars
  <2>1. UNCHANGED <<disk, editor, adapter, events>>
    BY <1>10 DEF vars, editor, adapter
  <2>2. LateFirst' /\ Wired' /\ ShowInv'
    BY <2>1, DiskShows
  <2> QED BY <1>1, <2>2 DEF DisplayInv
<1> QED BY <1>2, <1>3, <1>4, <1>5, <1>6, <1>7, <1>8, <1>9, <1>10 DEF Next

-----------------------------------------------------------------------------
(* The theorems.                                                           *)

\* The invariant holds throughout.
THEOREM AdapterInvariant == Spec => []AdapterInv
BY AdapterAssumption, InitInv, NextInv, PTL DEF Spec

\* The variables of the adapter and of first-pr have their types.
THEOREM TypeCorrect == Spec => []TypeOK
<1>1. AdapterInv => TypeOK
  BY DEF AdapterInv
<1> QED BY <1>1, AdapterInvariant, PTL

\* Diagnostics are resolved against the folder their bundle was written in,
\* whatever folder is opened while refreshBundle waits for its text.
THEOREM OwnFolder == Spec => []DiagnosticsInOwnFolder
<1>1. AdapterInv => DiagnosticsInOwnFolder
  BY DEF AdapterInv, ViewBacked, Backed, DiagnosticsInOwnFolder
<1> QED BY <1>1, AdapterInvariant, PTL

\* While the diagnostics shown are those of the open place, the summary that
\* openBundleSibling finds there is never from an older run, wherever first-pr
\* is stopped among its artifacts.
THEOREM SummaryFresh == Spec => []SummaryNotOlder
<1>1. AdapterInv => SummaryNotOlder
  BY DEF AdapterInv, ViewBacked, Backed, SummaryNotOlder, NotOlder, OpenPrSummary
<1> QED BY <1>1, AdapterInvariant, PTL

\* With automatic refresh, once every event is delivered and every read has
\* ended, the editor shows the bundle on disk in the folder that is open, with
\* the settings that hold, unless an older read ended last or reading failed.
THEOREM ShownOnDisk == Spec => []ShownIsDisk
<1>1. Spec => []DisplayInv
  BY AdapterAssumption, InitDisplay, NextDisplay, PTL DEF Spec
<1>2. DisplayInv => ShownIsDisk
  <2> SUFFICES ASSUME DisplayInv, active, Quiet, settings.auto, inOrder,
                      view.status # "bundle read failed"
               PROVE  UpToDate
    BY DEF ShownIsDisk
  <2>1. events = <<>> /\ ~Awaited
    BY DEF Quiet, Awaited
  <2> QED BY <2>1 DEF DisplayInv, ShowInv, Settled
<1> QED BY <1>1, <1>2, PTL

=============================================================================
