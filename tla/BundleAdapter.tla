--------------------------- MODULE BundleAdapter ---------------------------
(***************************************************************************)
(* The saved-bundle editor adapter and the command that writes what it     *)
(* shows.  first-pr writes its artifacts into a directory one after the    *)
(* other; the adapter reads one of them, lsp.json, on activation, on       *)
(* request, on file events and whenever folder or settings change, and     *)
(* opens another, pr-summary.md, from disk.                                *)
(*                                                                         *)
(* The adapter runs in one thread, and refreshBundle suspends once, at     *)
(* readFile.  What it has determined before (folder and settings) it uses  *)
(* after, and several reads may be under way.                              *)
(***************************************************************************)
EXTENDS Naturals, Sequences

CONSTANTS
  Place,          \* absolute bundle paths: a folder with a configured path
  NoPlace,        \* no workspace is open
  Cap,            \* values of maxDiagnosticsPerFile
  NoFile, Torn, Failed,   \* what a read may find instead of a bundle
  Nothing,        \* no bundle is shown
  MaxRuns, MaxReads, MaxEvents    \* bounds: runs of first-pr, reads and file
                                  \* events under way

Run == 1..MaxRuns

ASSUME AdapterAssumption ==
  /\ {MaxRuns, MaxReads, MaxEvents} \subseteq Nat
  /\ NoPlace \notin Place
  /\ {NoFile, Torn, Failed, Nothing} \cap Nat = {}
  /\ NoFile # Torn /\ Failed \notin {NoFile, Torn}

VARIABLES
  disk,         \* summary and lsp.json of each place
  writer,       \* the running first-pr
  runs,         \* number of runs started
  placeOf,      \* the place each run wrote to
  place,        \* primary folder and bundlePath
  settings,     \* autoRefreshOnSave and maxDiagnosticsPerFile
  active,       \* the extension is not deactivated
  watcher,      \* the place and the settings the watcher was made with
  events,       \* its events that are not delivered
  reads,        \* refreshes that are suspended, oldest first
  view,         \* bundle, diagnostics, hovers and actions, and the status bar
  rejected,     \* a refresh has ended in an unhandled error
  inOrder       \* history: no older read ended after what view shows was begun

outside == <<disk, writer, runs, placeOf>>
editor  == <<place, settings>>
vars    == <<disk, writer, runs, placeOf, place, settings, active, watcher,
             events, reads, view, rejected, inOrder>>

-----------------------------------------------------------------------------

File     == {NoFile, Torn} \cup Run
Artifact == {"summary", "lsp"}
Settings == [auto : BOOLEAN, cap : Cap]
Event    == {"create", "change", "delete"}
Status   == {"idle", "bundle", "no workspace open", "bundle not found",
             "bundle read failed", "bundle parse failed", "bundle removed"}

NoWriter  == [pc |-> "idle"]
NoWatcher == [at |-> NoPlace]

\* A suspended refresh.  text is what readFile has read, if it has.
Read == [at : Place, cap : Cap, done : BOOLEAN,
         text : File \cup {Failed}, overtaken : BOOLEAN]

View == [shown : Run \cup {Nothing}, root : Place \cup {NoPlace},
         cap : Cap \cup {0}, status : Status]

\* clearBundleState and setStatus.  bundleRoot stays.
Cleared(message) ==
  [view EXCEPT !.shown = Nothing, !.status = message]

Overtaken(queue) == [r \in DOMAIN queue |-> [queue[r] EXCEPT !.overtaken = TRUE]]

-----------------------------------------------------------------------------
(* Refreshing.                                                             *)

Begin(at, with) ==
  [at |-> at, cap |-> with.cap, done |-> FALSE, text |-> NoFile,
   overtaken |-> FALSE]

\* refreshBundle up to readFile, in a turn that leaves folder and settings
\* as at and with.
RefreshBundle(at, with) ==
  IF at = NoPlace
  THEN /\ view' = Cleared("no workspace open")
       /\ reads' = Overtaken(reads)
       /\ inOrder' = TRUE
  ELSE /\ Len(reads) < MaxReads
       /\ reads' = Append(reads, Begin(at, with))
       /\ UNCHANGED <<view, inOrder>>

\* Mutant: a watcher is made whether a folder is open or not.
RewireAnyway(at, with) ==
  /\ watcher' = [at |-> at, auto |-> with.auto]
  /\ events' = <<>>

\* rewireBundleWatcher: a disposed watcher delivers no event.
RewireBundleWatcher(at, with) ==
  /\ watcher' = IF at = NoPlace THEN NoWatcher
                ELSE [at |-> at, auto |-> with.auto]
  /\ events' = <<>>

RefreshCommand ==
  /\ active
  /\ RefreshBundle(place, settings)
  /\ UNCHANGED <<outside, editor, active, watcher, events, rejected>>

\* The operating system reads the file, or fails to.
ReadFile(r) ==
  /\ r \in DOMAIN reads
  /\ ~reads[r].done
  /\ \E text \in {disk[reads[r].at].lsp, Failed} :
       reads' = [reads EXCEPT ![r].done = TRUE, ![r].text = text]
  /\ UNCHANGED <<outside, editor, active, watcher, events, view, rejected,
                 inOrder>>

\* Mutant: the folder is asked for again when the text is there.
RootNow(r) == place

\* The folder that bundle paths are resolved against.
Root(r) == r.at

\* refreshBundle after readFile.
Apply(r) ==
  CASE r.text = NoFile  -> Cleared("bundle not found")
    [] r.text = Failed -> Cleared("bundle read failed")
    [] r.text = Torn    -> Cleared("bundle parse failed")
    [] r.text \in Run   -> [shown |-> r.text, root |-> Root(r),
                            cap |-> r.cap, status |-> "bundle"]

\* What a refresh leaves of the others: those begun before it are late now.
Without(r) ==
  [k \in 1..(Len(reads) - 1) |->
     IF k < r THEN [reads[k] EXCEPT !.overtaken = TRUE] ELSE reads[k + 1]]

EndRefresh(r) ==
  /\ r \in DOMAIN reads
  /\ reads[r].done
  /\ reads' = Without(r)
  /\ IF active
     THEN /\ view' = Apply(reads[r])
          /\ inOrder' = ~reads[r].overtaken
          /\ UNCHANGED rejected
     ELSE /\ rejected' = (rejected \/ reads[r].text # NoFile)
          /\ UNCHANGED <<view, inOrder>>
  /\ UNCHANGED <<outside, editor, active, watcher, events>>

\* openBundleSibling, which keeps nothing: what openPrSummary opens is that of
\* the folder and the settings of the moment, whatever is shown.
OpenPrSummary == IF place = NoPlace THEN NoFile ELSE disk[place].summary

-----------------------------------------------------------------------------
(* Events.                                                                 *)

OnDidChange ==
  /\ events # <<>> /\ Head(events) = "change"
  /\ events' = Tail(events)
  /\ IF watcher.auto THEN RefreshBundle(place, settings)
     ELSE UNCHANGED <<reads, view, inOrder>>
  /\ UNCHANGED <<outside, editor, active, watcher, rejected>>

OnDidCreate ==
  /\ events # <<>> /\ Head(events) = "create"
  /\ events' = Tail(events)
  /\ RefreshBundle(place, settings)
  /\ UNCHANGED <<outside, editor, active, watcher, rejected>>

\* clearBundle.
OnDidDelete ==
  /\ events # <<>> /\ Head(events) = "delete"
  /\ events' = Tail(events)
  /\ view' = Cleared("bundle removed")
  /\ reads' = Overtaken(reads)
  /\ inOrder' = TRUE
  /\ UNCHANGED <<outside, editor, active, watcher, rejected>>

\* Mutant: a change of settings only reads the bundle again.
ChangeSettingsOnly ==
  /\ active
  /\ \E s \in Settings \ {settings} :
       /\ settings' = s
       /\ RefreshBundle(place, s)
  /\ UNCHANGED <<outside, place, active, watcher, events, rejected>>

ChangeSettings ==
  /\ active
  /\ \E s \in Settings \ {settings} :
       /\ settings' = s
       /\ RewireBundleWatcher(place, s)
       /\ RefreshBundle(place, s)
  /\ UNCHANGED <<outside, place, active, rejected>>

\* Another first folder, or another bundlePath.
ChangePlace ==
  /\ active
  /\ \E at \in (Place \cup {NoPlace}) \ {place} :
       /\ place' = at
       /\ RewireBundleWatcher(at, settings)
       /\ RefreshBundle(at, settings)
  /\ UNCHANGED <<outside, settings, active, rejected>>

Deactivate ==
  /\ active
  /\ active' = FALSE
  /\ watcher' = NoWatcher
  /\ events' = <<>>
  /\ view' = Cleared("idle")
  /\ UNCHANGED <<outside, editor, reads, rejected, inOrder>>

-----------------------------------------------------------------------------
(* The file system, and first-pr.                                          *)

\* The file in place at becomes new; a watcher of it hears of that.
Become(at, artifact, new) ==
  /\ disk' = [disk EXCEPT ![at][artifact] = new]
  /\ IF artifact = "lsp" /\ watcher.at = at
     THEN /\ Len(events) < MaxEvents
          /\ events' = Append(events, IF disk[at].lsp = NoFile THEN "create" ELSE "change")
     ELSE UNCHANGED events

adapter == <<active, watcher, reads, view, rejected, inOrder>>

StartRun(at) ==
  /\ writer = NoWriter
  /\ runs < MaxRuns
  /\ runs' = runs + 1
  /\ placeOf' = [placeOf EXCEPT ![runs + 1] = at]
  /\ writer' = [pc |-> "truncate", artifact |-> 1]
  /\ UNCHANGED <<disk, editor, adapter, events>>

\* Mutant: the projection for the editor is written first.
OrderForEditors == <<"lsp", "summary">>

\* The order of FIRST_PR_RENDERED_ARTIFACTS.
Order == <<"summary", "lsp">>

\* write_artifact is fs::write: truncation, then filling.
Truncate ==
  /\ writer.pc = "truncate"
  /\ Become(placeOf[runs], Order[writer.artifact], Torn)
  /\ writer' = [writer EXCEPT !.pc = "fill"]
  /\ UNCHANGED <<runs, placeOf, editor, adapter>>

Fill ==
  /\ writer.pc = "fill"
  /\ Become(placeOf[runs], Order[writer.artifact], runs)
  /\ writer' = IF writer.artifact = Len(Order) THEN NoWriter
               ELSE [pc |-> "truncate", artifact |-> writer.artifact + 1]
  /\ UNCHANGED <<runs, placeOf, editor, adapter>>

\* first-pr is killed, or an artifact cannot be written.
Die ==
  /\ writer # NoWriter
  /\ writer' = NoWriter
  /\ UNCHANGED <<disk, runs, placeOf, editor, adapter, events>>

\* cargo clean removes the directory, not in the middle of a run.
Remove(at) ==
  /\ writer = NoWriter
  /\ disk[at].lsp # NoFile
  /\ disk' = [disk EXCEPT ![at] = [summary |-> NoFile, lsp |-> NoFile]]
  /\ IF watcher.at = at
     THEN /\ Len(events) < MaxEvents
          /\ events' = Append(events, "delete")
     ELSE UNCHANGED events
  /\ UNCHANGED <<writer, runs, placeOf, editor, adapter>>

-----------------------------------------------------------------------------

\* activate has run: the watcher is wired and the bundle is being read.
Init ==
  /\ disk = [at \in Place |-> [summary |-> NoFile, lsp |-> NoFile]]
  /\ writer = NoWriter
  /\ runs = 0
  /\ placeOf = [n \in Run |-> NoPlace]
  /\ place \in Place
  /\ settings \in Settings
  /\ active = TRUE
  /\ watcher = [at |-> place, auto |-> settings.auto]
  /\ events = <<>>
  /\ reads = <<Begin(place, settings)>>
  /\ view = [shown |-> Nothing, root |-> NoPlace, cap |-> 0, status |-> "idle"]
  /\ rejected = FALSE
  /\ inOrder = TRUE

Refreshing == \E r \in 1..MaxReads : ReadFile(r) \/ EndRefresh(r)

Listening == OnDidChange \/ OnDidCreate \/ OnDidDelete

Next ==
  \/ Refreshing \/ Listening
  \/ RefreshCommand \/ ChangeSettings \/ ChangePlace \/ Deactivate
  \/ Truncate \/ Fill \/ Die
  \/ \E at \in Place : StartRun(at) \/ Remove(at)

Spec == Init /\ [][Next]_vars

-----------------------------------------------------------------------------
(* Properties.                                                             *)

\* The variables have the types of the code's.
TypeOK ==
  /\ disk \in [Place -> [Artifact -> File]]
  /\ writer \in {NoWriter} \cup
                [pc : {"truncate", "fill"}, artifact : DOMAIN Order]
  /\ runs \in 0..MaxRuns
  /\ placeOf \in [Run -> Place \cup {NoPlace}]
  /\ place \in Place \cup {NoPlace}
  /\ settings \in Settings
  /\ active \in BOOLEAN
  /\ watcher \in {NoWatcher} \cup [at : Place, auto : BOOLEAN]
  /\ events \in Seq(Event)
  /\ reads \in Seq(Read)
  /\ view \in View
  /\ rejected \in BOOLEAN
  /\ inOrder \in BOOLEAN

Quiet == reads = <<>> /\ events = <<>>

\* The bundle of the current place, as far as it can be shown.
Current ==
  IF place = NoPlace THEN Nothing
  ELSE IF disk[place].lsp \in Run THEN disk[place].lsp ELSE Nothing

\* The display agrees with the bundle, as the settings ask.
UpToDate ==
  /\ view.shown = Current
  /\ view.shown # Nothing => view.cap = settings.cap /\ view.root = place

\* With automatic refresh, once every event is delivered and every read has
\* ended, the editor shows what is on disk in the folder that is open, with
\* the settings that hold, unless an older read ended last or reading failed.
ShownIsDisk ==
  active /\ Quiet /\ settings.auto /\ inOrder /\ view.status # "bundle read failed"
    => UpToDate

\* The same without a word about the order of reads.  It fails: nothing
\* orders two reads, and the older one may end last.
ShownIsDiskAlways ==
  active /\ Quiet /\ settings.auto /\ view.status # "bundle read failed"
    => UpToDate

\* A refresh that ends after deactivate does nothing.  It fails: adapter is
\* not looked at again after the read.
NothingRejected == ~rejected

\* Diagnostics are resolved against the folder their bundle was written in,
\* also when another folder is opened while the bundle is read.
DiagnosticsInOwnFolder ==
  view.shown # Nothing => view.root = placeOf[view.shown]

NotOlder(summary) == summary \in {NoFile, Torn} \cup view.shown..MaxRuns

\* While the diagnostics shown are those of the open place (at rest they are,
\* see ShownIsDisk), the summary that the editor opens beside them is never
\* from an older run than they are, wherever first-pr is stopped.
SummaryNotOlder ==
  view.shown # Nothing /\ view.root = place => NotOlder(OpenPrSummary)

\* The same of any diagnostics shown.  It fails: after a change of place, and
\* until the read of the bundle there has ended, the diagnostics are of the
\* old place and the summary of the new one.
SummaryNotOlderAlways == view.shown # Nothing => NotOlder(OpenPrSummary)

=============================================================================
