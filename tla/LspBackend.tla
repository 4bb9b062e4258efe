------------------------------ MODULE LspBackend ------------------------------
(***************************************************************************)
(* The live LSP server of crates/unsafe-review-cli/src/lsp: the handlers   *)
(* of `Backend` and the refresh loop of backend/refresh.rs.                *)
(*                                                                         *)
(* A task is one handler future.  The service polls several of them        *)
(* concurrently from one executor task, so a handler runs alone between    *)
(* two `.await`s and may be suspended at every one of them: a lock of a    *)
(* tokio Mutex, a send to the client, or the blocking analysis.  A step of *)
(* a task is the code between two such points.  Mutexes that stay locked   *)
(* across an await (refresh_generation, live_snapshot and the try-locked   *)
(* refresh_in_flight) are variables; the others are held only inside one   *)
(* step.                                                                   *)
(***************************************************************************)
EXTENDS Naturals

CONSTANTS
  Uri,             \* documents the editor or the analyzer can name
  Tasks,           \* handler futures in flight at once
  NoTask,          \* "this lock is free"
  Messages,        \* kinds of message the editor sends
  MaxMessages,     \* bound: how many messages one behaviour contains
  DiffMode,        \* config: mode = "diff" with a base, so git diff runs
  RefreshOnOpen,   \* config: refresh_on_open
  RefreshOnSave,   \* config: refresh_on_save
  AnalysisMayFail, \* TRUE lets analyze() return an error or panic
  MayCancel        \* TRUE lets the editor cancel the requests it has sent

MessageKinds == {"open", "change", "close", "save", "refresh",
                 "codeAction", "command"}

ASSUME ConfigAssumption ==
  /\ NoTask \notin Tasks
  /\ Messages \subseteq MessageKinds
  /\ MaxMessages \in Nat
  /\ {DiffMode, RefreshOnOpen, RefreshOnSave, AnalysisMayFail, MayCancel}
       \subseteq BOOLEAN

VARIABLES
  \* The editor's side.
  sent,                  \* messages sent so far; stamps document versions
  disk,                  \* the URIs whose saved source has a card
  shown,                 \* per URI, the diagnostics the editor displays
  held,                  \* analysis identities of the actions the editor holds
  \* Backend's fields.
  documents,             \* DocumentStore: version of each open document
  live_snapshot,
  last_diagnostic_uris,
  refresh_generation,
  refresh_in_flight,     \* the task that owns the try-locked guard
  refresh_pending,
  generation_lock,       \* holder of the refresh_generation mutex
  snapshot_lock,         \* holder of the live_snapshot mutex
  \* Handler futures.
  pc,
  local,
  \* What the editor has been told (history).
  told,                  \* a stale or failed notice since the last install
  answer,                \* to the last card command, until the next message
  abandoned              \* the last generation whose begin_refresh was dropped

client  == <<sent, disk, shown, held>>
history == <<told, answer, abandoned>>
locks   == <<refresh_in_flight, generation_lock, snapshot_lock>>
vars    == <<client, documents, live_snapshot, last_diagnostic_uris,
             refresh_generation, refresh_pending, locks, pc, local, history>>

-----------------------------------------------------------------------------

Stamp == 0 .. MaxMessages

\* A document that is not open has version 0; the stamp of the message that
\* opened or changed it is its version otherwise.
Closed == 0

\* `analysis` is the identity of the installed AnalyzeOutput.  analyze() draws
\* a fresh identity on every call and a refresh generation makes one call, so
\* the generation stands for it; 0 is None.
NoAnalysis == 0

Snapshot == [analysis : Nat, diagnostics : SUBSET Uri, current : BOOLEAN]

\* One publishDiagnostics as the editor keeps it: the analysis whose cards it
\* shows, the version it is labelled with, and when that analysis read the disk.
Display == [analysis : Nat, version : Stamp, readAt : Stamp]

Cleared(version) == [analysis |-> NoAnalysis, version |-> version, readAt |-> 0]

\* The local variables of a handler: the stamp of its message, whether that was
\* a request, the generation refresh_once began (or the identity a code action
\* read), the document versions it captured, the output of its analysis, and
\* the publications it still has to send.
Local == [message    : Stamp,
          request    : BOOLEAN,
          generation : Nat,
          versions   : [Uri -> Stamp],
          readAt     : Stamp,
          uris       : SUBSET Uri,
          clear      : SUBSET Uri,
          publish    : SUBSET Uri]

NoLocal == [message    |-> 0,
            request    |-> FALSE,
            generation |-> 0,
            versions   |-> [u \in Uri |-> Closed],
            readAt     |-> 0,
            uris       |-> {},
            clear      |-> {},
            publish    |-> {}]

\* Where a handler that owns refresh_in_flight can be suspended.
RefreshPc == {"begin", "beginSnapshot", "diff", "versions", "analyze",
              "analyzed", "install", "installUris", "installSnapshot",
              "clear", "publish", "failed", "failedShow", "rerun"}

\* Where mark_diagnostics_stale can be suspended.
StalePc == {"staleBegin", "staleBeginSnapshot", "staleTake", "staleSnapshot",
            "staleClear", "staleLog"}

HandlerPc == {"idle", "open", "change", "close", "tryRefresh", "setPending",
              "codeAction", "codeActionReply", "command"}

Pc == HandlerPc \cup RefreshPc \cup StalePc

\* begin_refresh has bumped the generation but not yet reached `current`.
InvalidatingPc == {"beginSnapshot", "staleBeginSnapshot"}

\* Where a handler holds the refresh_generation mutex across an await.
GenerationPc == InvalidatingPc \cup {"installUris", "installSnapshot"}

Answers == {"none", "ok", "analysis_not_current", "stale_analysis"}

NoAnswer == [code |-> "none", analysis |-> NoAnalysis]

\* Every variable has its type.
TypeOK ==
  /\ sent \in Stamp
  /\ disk \in SUBSET Uri
  /\ shown \in [Uri -> Display]
  /\ held \in SUBSET Nat
  /\ documents \in [Uri -> Stamp]
  /\ live_snapshot \in Snapshot
  /\ last_diagnostic_uris \in SUBSET Uri
  /\ refresh_generation \in Nat
  /\ refresh_pending \in BOOLEAN
  /\ refresh_in_flight \in Tasks \cup {NoTask}
  /\ generation_lock \in Tasks \cup {NoTask}
  /\ snapshot_lock \in Tasks \cup {NoTask}
  /\ pc \in [Tasks -> Pc]
  /\ local \in [Tasks -> Local]
  /\ told \in BOOLEAN
  /\ answer \in [code : Answers, analysis : Nat]
  /\ abandoned \in Nat

\* Backend::new, after the `initialize` request has fixed root and config.
Init ==
  /\ sent = 0
  /\ disk \in SUBSET Uri
  /\ shown = [u \in Uri |-> Cleared(Closed)]
  /\ held = {}
  /\ documents = [u \in Uri |-> Closed]
  /\ live_snapshot = [analysis |-> NoAnalysis, diagnostics |-> {},
                      current |-> FALSE]
  /\ last_diagnostic_uris = {}
  /\ refresh_generation = 0
  /\ refresh_pending = FALSE
  /\ refresh_in_flight = NoTask
  /\ generation_lock = NoTask
  /\ snapshot_lock = NoTask
  /\ pc = [t \in Tasks |-> "idle"]
  /\ local = [t \in Tasks |-> NoLocal]
  /\ told = FALSE
  /\ answer = NoAnswer
  /\ abandoned = 0

-----------------------------------------------------------------------------
(* The editor sends a message; the service polls its handler to the first  *)
(* await.                                                                  *)

\* Task t goes on, or is suspended, at `label`.
Goto(t, label) == pc' = [pc EXCEPT ![t] = label]

\* The handler returns: nothing of the future survives.
Return(t) ==
  /\ Goto(t, "idle")
  /\ local' = [local EXCEPT ![t] = NoLocal]

\* The messages the editor waits for an answer to; only these it can cancel.
Requests == {"refresh", "codeAction", "command"}

Dispatch(t, kind, label) ==
  /\ pc[t] = "idle"
  /\ kind \in Messages
  /\ sent < MaxMessages
  /\ sent' = sent + 1
  /\ Goto(t, label)
  /\ local' = [local EXCEPT
                 ![t].message = IF kind \in {"open", "change"} THEN sent' ELSE 0,
                 ![t].request = kind \in Requests]
  /\ answer' = NoAnswer
  /\ UNCHANGED <<shown, held, documents, live_snapshot, last_diagnostic_uris,
                 refresh_generation, refresh_pending, locks, told,
                 abandoned>>

\* did_open, did_change, did_close, code_action, execute_command.
Receive(t) ==
  /\ \E kind \in {"open", "change", "close", "codeAction", "command"} :
       Dispatch(t, kind, kind)
  /\ UNCHANGED disk

\* execute_command(CMD_REFRESH) goes straight to refresh(), and so does
\* initialized, which is such a message that is not cancelled.
ReceiveRefresh(t) ==
  /\ Dispatch(t, "refresh", "tryRefresh")
  /\ UNCHANGED disk

\* The editor has written the file before it sends didSave; did_save refreshes
\* when the config says so and does nothing otherwise.
ReceiveSave(t) ==
  /\ Dispatch(t, "save", IF RefreshOnSave THEN "tryRefresh" ELSE "idle")
  /\ disk' \in SUBSET Uri

-----------------------------------------------------------------------------
(* Document notifications.                                                 *)

DocumentStep(t, label) ==
  /\ Goto(t, label)
  /\ local' = [local EXCEPT ![t] = NoLocal]
  /\ UNCHANGED <<client, live_snapshot, last_diagnostic_uris,
                 refresh_generation, refresh_pending, locks, history>>

\* did_open: upsert, then refresh only when the config asks for it.
DidOpen(t) ==
  /\ pc[t] = "open"
  /\ \E u \in Uri : documents' = [documents EXCEPT ![u] = local[t].message]
  /\ DocumentStep(t, IF RefreshOnOpen THEN "tryRefresh" ELSE "idle")

\* Mutant: did_change labels the document one version too far.
DidChangeOffByOne(t) ==
  /\ pc[t] = "change"
  /\ \E u \in Uri :
       documents' = [documents EXCEPT ![u] = local[t].message + 1]
  /\ DocumentStep(t, "staleBegin")

\* did_change: a full-text change upserts the document; a change without
\* content only moves the version of a document that is open.  Both mark the
\* diagnostics stale, and should_refresh_on_change is always false.
DidChange(t) ==
  /\ pc[t] = "change"
  /\ \/ \E u \in Uri : documents' = [documents EXCEPT ![u] = local[t].message]
     \/ \E u \in Uri : /\ documents[u] = Closed
                       /\ UNCHANGED documents
  /\ DocumentStep(t, "staleBegin")

\* did_close: forget the document and mark the diagnostics stale.
DidClose(t) ==
  /\ pc[t] = "close"
  /\ \E u \in Uri : documents' = [documents EXCEPT ![u] = Closed]
  /\ DocumentStep(t, "staleBegin")

-----------------------------------------------------------------------------
(* refresh(): one scan in flight, one follow-up for all who asked meanwhile.*)

\* Mutant: refresh() scans without asking for the guard.
TryRefreshUnguarded(t) ==
  /\ pc[t] = "tryRefresh"
  /\ refresh_in_flight' = t
  /\ Goto(t, "begin")
  /\ UNCHANGED <<client, documents, live_snapshot, last_diagnostic_uris,
                 refresh_generation, refresh_pending, generation_lock,
                 snapshot_lock, local, history>>

\* try_lock: the winner keeps the guard until it returns.
TryRefresh(t) ==
  /\ pc[t] = "tryRefresh"
  /\ IF refresh_in_flight = NoTask
     THEN /\ refresh_in_flight' = t
          /\ Goto(t, "begin")
     ELSE /\ UNCHANGED refresh_in_flight
          /\ Goto(t, "setPending")
  /\ UNCHANGED <<client, documents, live_snapshot, last_diagnostic_uris,
                 refresh_generation, refresh_pending, generation_lock,
                 snapshot_lock, local, history>>

\* The loser, resumed with the lock of refresh_pending.
SetPending(t) ==
  /\ pc[t] = "setPending"
  /\ refresh_pending' = TRUE
  /\ Return(t)
  /\ UNCHANGED <<client, documents, live_snapshot, last_diagnostic_uris,
                 refresh_generation, locks, history>>

\* The end of one turn of the loop: take the pending flag, go round or return
\* and drop the guard.
Rerun(t) ==
  /\ pc[t] = "rerun"
  /\ refresh_pending' = FALSE
  /\ IF refresh_pending
     THEN /\ Goto(t, "begin")
          /\ UNCHANGED <<refresh_in_flight, local>>
     ELSE /\ refresh_in_flight' = NoTask
          /\ Return(t)
  /\ UNCHANGED <<client, documents, live_snapshot, last_diagnostic_uris,
                 refresh_generation, generation_lock, snapshot_lock, history>>

\* begin_refresh, up to the lock of live_snapshot: the generation is bumped and
\* its mutex stays locked.  `from` tells refresh_once from mark_diagnostics_stale.
BumpGeneration(t, from, to) ==
  /\ pc[t] = from
  /\ generation_lock = NoTask
  /\ generation_lock' = t
  /\ refresh_generation' = refresh_generation + 1
  /\ local' = [local EXCEPT ![t].generation = refresh_generation']
  /\ Goto(t, to)
  /\ UNCHANGED <<client, documents, live_snapshot, last_diagnostic_uris,
                 refresh_pending, refresh_in_flight, snapshot_lock, history>>

\* Mutant: begin_refresh leaves `current` alone.
InvalidateNothing(t, from, to) ==
  /\ pc[t] = from
  /\ generation_lock' = NoTask
  /\ Goto(t, to)
  /\ UNCHANGED <<client, documents, live_snapshot, last_diagnostic_uris,
                 refresh_generation, refresh_pending, refresh_in_flight,
                 snapshot_lock, local, history>>

\* begin_refresh, the rest: the snapshot is no longer current.
InvalidateSnapshot(t, from, to) ==
  /\ pc[t] = from
  /\ snapshot_lock = NoTask
  /\ live_snapshot' = [live_snapshot EXCEPT !.current = FALSE]
  /\ generation_lock' = NoTask
  /\ Goto(t, to)
  /\ UNCHANGED <<client, documents, last_diagnostic_uris, refresh_generation,
                 refresh_pending, refresh_in_flight, snapshot_lock, local,
                 history>>

BeginRefresh(t) ==
  \/ BumpGeneration(t, "begin", "beginSnapshot")
  \/ InvalidateSnapshot(t, "beginSnapshot", "diff")

-----------------------------------------------------------------------------
(* refresh_once().                                                         *)

\* refresh_once returns: of its variables nothing is left.
EndScan(t) ==
  /\ Goto(t, "rerun")
  /\ local' = [local EXCEPT ![t] = [NoLocal EXCEPT !.request = local[t].request]]

\* Steps of refresh_once that change only the handler's own variables.
ScanStep(t, from) ==
  /\ pc[t] = from
  /\ UNCHANGED <<client, documents, live_snapshot, last_diagnostic_uris,
                 refresh_generation, refresh_pending, locks, history>>

\* diff_source: git is asked only in diff mode, and may fail.
ReadDiff(t) ==
  /\ ScanStep(t, "diff")
  /\ \/ Goto(t, "versions")
     \/ DiffMode /\ Goto(t, "failed")
  /\ UNCHANGED local

\* document_versions: captured before the analysis starts.
CaptureVersions(t) ==
  /\ ScanStep(t, "versions")
  /\ Goto(t, "analyze")
  /\ local' = [local EXCEPT ![t].versions = documents]

\* spawn_blocking(analyze): reads the saved sources.
Analyze(t) ==
  /\ ScanStep(t, "analyze")
  /\ Goto(t, "analyzed")
  /\ local' = [local EXCEPT ![t].uris = disk, ![t].readAt = sent]

\* The join: an error or a panic of the analysis is logged, then reported.
Joined(t) ==
  /\ ScanStep(t, "analyzed")
  /\ \/ Goto(t, "install")
     \/ AnalysisMayFail /\ Goto(t, "failed")
  /\ UNCHANGED local

\* mark_diagnostics_failed: everything stays but `current`.
MarkFailed(t) ==
  /\ pc[t] = "failed"
  /\ snapshot_lock = NoTask
  /\ live_snapshot' = [live_snapshot EXCEPT !.current = FALSE]
  /\ Goto(t, "failedShow")
  /\ UNCHANGED <<client, documents, last_diagnostic_uris, refresh_generation,
                 refresh_pending, locks, local, history>>

\* Mutant: a failed refresh is logged on the server only.
ShowNothing(t) ==
  /\ pc[t] = "failedShow"
  /\ EndScan(t)
  /\ UNCHANGED <<client, documents, live_snapshot, last_diagnostic_uris,
                 refresh_generation, refresh_pending, locks, history>>

\* ... and the message that the diagnostics on display are not current.
ShowFailed(t) ==
  /\ pc[t] = "failedShow"
  /\ told' = TRUE
  /\ EndScan(t)
  /\ UNCHANGED <<client, documents, live_snapshot, last_diagnostic_uris,
                 refresh_generation, refresh_pending, locks, answer, abandoned>>

\* Mutant: results are installed whatever their generation.
CheckNothing(t) ==
  /\ pc[t] = "install"
  /\ generation_lock = NoTask
  /\ generation_lock' = t
  /\ Goto(t, "installUris")
  /\ UNCHANGED <<client, documents, live_snapshot, last_diagnostic_uris,
                 refresh_generation, refresh_pending, refresh_in_flight,
                 snapshot_lock, local, history>>

\* install_refresh_result, up to the lock of last_diagnostic_uris: a result of
\* an older generation is discarded.
CheckGeneration(t) ==
  /\ pc[t] = "install"
  /\ generation_lock = NoTask
  /\ IF refresh_generation = local[t].generation
     THEN /\ generation_lock' = t
          /\ Goto(t, "installUris")
          /\ UNCHANGED local
     ELSE /\ UNCHANGED generation_lock
          /\ EndScan(t)
  /\ UNCHANGED <<client, documents, live_snapshot, last_diagnostic_uris,
                 refresh_generation, refresh_pending, refresh_in_flight,
                 snapshot_lock, history>>

\* Mutant: the old URIs are overwritten before they are compared.
InstallUrisSwapped(t) ==
  /\ pc[t] = "installUris"
  /\ local' = [local EXCEPT ![t].publish = local[t].uris]
  /\ last_diagnostic_uris' = local[t].uris
  /\ Goto(t, "installSnapshot")
  /\ UNCHANGED <<client, documents, live_snapshot, refresh_generation,
                 refresh_pending, locks, history>>

\* ... up to the lock of live_snapshot: what to clear and what to publish.
InstallUris(t) ==
  /\ pc[t] = "installUris"
  /\ local' = [local EXCEPT
                 ![t].clear = last_diagnostic_uris \ local[t].uris,
                 ![t].publish = local[t].uris]
  /\ last_diagnostic_uris' = local[t].uris
  /\ Goto(t, "installSnapshot")
  /\ UNCHANGED <<client, documents, live_snapshot, refresh_generation,
                 refresh_pending, locks, history>>

\* ... and the rest: the snapshot is replaced and both mutexes are released.
InstallSnapshot(t) ==
  /\ pc[t] = "installSnapshot"
  /\ snapshot_lock = NoTask
  /\ live_snapshot' = [analysis |-> local[t].generation,
                       diagnostics |-> local[t].uris,
                       current |-> TRUE]
  /\ local' = [local EXCEPT ![t].uris = {}]
  /\ told' = FALSE
  /\ generation_lock' = NoTask
  /\ Goto(t, "clear")
  /\ UNCHANGED <<client, documents, last_diagnostic_uris, refresh_generation,
                 refresh_pending, refresh_in_flight, snapshot_lock, answer,
                 abandoned>>

-----------------------------------------------------------------------------
(* Publishing: one publishDiagnostics per step, each send an await.        *)

Publish(t, u, display) ==
  /\ shown' = [shown EXCEPT ![u] = display]
  /\ UNCHANGED <<sent, disk, held, documents, live_snapshot,
                 last_diagnostic_uris, refresh_generation, refresh_pending,
                 locks, pc, history>>

\* Leave a publishing loop that has nothing left to send.
Leave(t, to) ==
  /\ Goto(t, to)
  /\ UNCHANGED <<client, documents, live_snapshot, last_diagnostic_uris,
                 refresh_generation, refresh_pending, locks, local, history>>

\* refresh_once clears with the versions captured before the analysis.
ClearOld(t) ==
  /\ pc[t] = "clear"
  /\ \/ \E u \in local[t].clear :
          /\ Publish(t, u, Cleared(local[t].versions[u]))
          /\ local' = [local EXCEPT ![t].clear = @ \ {u}]
     \/ local[t].clear = {} /\ Leave(t, "publish")

\* Mutant: displays are labelled with the version at publish time.
PublishNewRelabelled(t) ==
  /\ pc[t] = "publish"
  /\ \/ \E u \in local[t].publish :
          /\ Publish(t, u, [analysis |-> local[t].generation,
                            version  |-> documents[u],
                            readAt   |-> local[t].readAt])
          /\ local' = [local EXCEPT ![t].publish = @ \ {u}]
     \/ local[t].publish = {} /\ Leave(t, "rerun")

\* refresh_once publishes the new diagnostics under the same versions, and
\* returns.
PublishNew(t) ==
  /\ pc[t] = "publish"
  /\ \/ \E u \in local[t].publish :
          /\ Publish(t, u, [analysis |-> local[t].generation,
                            version  |-> local[t].versions[u],
                            readAt   |-> local[t].readAt])
          /\ local' = [local EXCEPT ![t].publish = @ \ {u}]
     \/ /\ local[t].publish = {}
        /\ EndScan(t)
        /\ UNCHANGED <<client, documents, live_snapshot, last_diagnostic_uris,
                       refresh_generation, refresh_pending, locks, history>>

-----------------------------------------------------------------------------
(* mark_diagnostics_stale(), run by did_change and did_close outside of    *)
(* refresh_in_flight.                                                      *)

BeginStale(t) ==
  \/ BumpGeneration(t, "staleBegin", "staleBeginSnapshot")
  \/ InvalidateSnapshot(t, "staleBeginSnapshot", "staleTake")

\* clear_stale_diagnostics: take the published URIs ...
TakeStaleUris(t) ==
  /\ pc[t] = "staleTake"
  /\ local' = [local EXCEPT ![t].clear = last_diagnostic_uris]
  /\ last_diagnostic_uris' = {}
  /\ Goto(t, "staleSnapshot")
  /\ UNCHANGED <<client, documents, live_snapshot, refresh_generation,
                 refresh_pending, locks, history>>

\* ... empty the snapshot, whichever generation it is by now ...
DropSnapshot(t) ==
  /\ pc[t] = "staleSnapshot"
  /\ snapshot_lock = NoTask
  /\ live_snapshot' = [analysis |-> NoAnalysis, diagnostics |-> {},
                       current |-> FALSE]
  /\ Goto(t, "staleClear")
  /\ UNCHANGED <<client, documents, last_diagnostic_uris, refresh_generation,
                 refresh_pending, locks, local, history>>

\* ... and clear the URIs, labelled with the version the document has now.
ClearStale(t) ==
  /\ pc[t] = "staleClear"
  /\ \/ \E u \in local[t].clear :
          /\ Publish(t, u, Cleared(documents[u]))
          /\ local' = [local EXCEPT ![t].clear = @ \ {u}]
     \/ local[t].clear = {} /\ Leave(t, "staleLog")

\* The log message, and the handler returns.
LogStale(t) ==
  /\ pc[t] = "staleLog"
  /\ told' = TRUE
  /\ Return(t)
  /\ UNCHANGED <<client, documents, live_snapshot, last_diagnostic_uris,
                 refresh_generation, refresh_pending, locks, answer, abandoned>>

-----------------------------------------------------------------------------
(* Requests.  hover only reads live_snapshot, in one step, and is left out.*)

\* code_action keeps live_snapshot locked across the lock of action_support.
ReadActions(t) ==
  /\ pc[t] = "codeAction"
  /\ snapshot_lock = NoTask
  /\ snapshot_lock' = t
  /\ local' = [local EXCEPT ![t].generation =
                 IF live_snapshot.current THEN live_snapshot.analysis
                                          ELSE NoAnalysis]
  /\ Goto(t, "codeActionReply")
  /\ UNCHANGED <<client, documents, live_snapshot, last_diagnostic_uris,
                 refresh_generation, refresh_pending, refresh_in_flight,
                 generation_lock, history>>

\* Card actions need an analysis and a cached diagnostic of the document; they
\* carry the identity of the analysis, and the editor may keep them.
ReplyActions(t) ==
  /\ pc[t] = "codeActionReply"
  /\ held' = IF local[t].generation # NoAnalysis /\ live_snapshot.diagnostics # {}
             THEN held \cup {local[t].generation}
             ELSE held
  /\ snapshot_lock' = NoTask
  /\ Return(t)
  /\ UNCHANGED <<sent, disk, shown, documents, live_snapshot,
                 last_diagnostic_uris, refresh_generation, refresh_pending,
                 refresh_in_flight, generation_lock, history>>

\* Mutant: the analysis identity of the arguments is not compared.
CommandAnswerAnyAge(id) ==
  IF ~live_snapshot.current THEN "analysis_not_current"
  ELSE "ok"

\* validate_command_arguments and execute_card_command on the live snapshot.
CommandAnswer(id) ==
  IF ~live_snapshot.current THEN "analysis_not_current"
  ELSE IF id # live_snapshot.analysis THEN "stale_analysis"
  ELSE "ok"

\* execute_command with a card action the editor holds, of whatever age.
Command(t) ==
  /\ pc[t] = "command"
  /\ snapshot_lock = NoTask
  /\ \E id \in held \cup {NoAnalysis} :
       answer' = [code |-> CommandAnswer(id), analysis |-> id]
  /\ Return(t)
  /\ UNCHANGED <<client, documents, live_snapshot, last_diagnostic_uris,
                 refresh_generation, refresh_pending, locks, told, abandoned>>

-----------------------------------------------------------------------------
(* $/cancelRequest: the future of a request is dropped at the await where  *)
(* it is suspended, and with it the guards it holds.  It is a message too, *)
(* so that the answer to an earlier command is not looked at any more.     *)

Released(lock, t) == IF lock = t THEN NoTask ELSE lock

\* Mutant: a dropped future keeps what it has locked.
CancelKeepingLocks(t) ==
  /\ MayCancel
  /\ pc[t] # "idle" /\ local[t].request
  /\ Return(t)
  /\ abandoned' = IF pc[t] \in InvalidatingPc THEN refresh_generation ELSE abandoned
  /\ answer' = NoAnswer
  /\ UNCHANGED <<client, documents, live_snapshot, last_diagnostic_uris,
                 refresh_generation, refresh_pending, locks, told>>

Cancel(t) ==
  /\ MayCancel
  /\ pc[t] # "idle" /\ local[t].request
  /\ Return(t)
  /\ refresh_in_flight' = Released(refresh_in_flight, t)
  /\ generation_lock' = Released(generation_lock, t)
  /\ snapshot_lock' = Released(snapshot_lock, t)
  /\ abandoned' = IF pc[t] \in InvalidatingPc THEN refresh_generation ELSE abandoned
  /\ answer' = NoAnswer
  /\ UNCHANGED <<client, documents, live_snapshot, last_diagnostic_uris,
                 refresh_generation, refresh_pending, told>>

-----------------------------------------------------------------------------

Input(t) == Receive(t) \/ ReceiveRefresh(t) \/ ReceiveSave(t)

Scan(t) ==
  \/ BeginRefresh(t) \/ ReadDiff(t) \/ CaptureVersions(t) \/ Analyze(t)
  \/ Joined(t) \/ MarkFailed(t) \/ ShowFailed(t) \/ CheckGeneration(t)
  \/ InstallUris(t) \/ InstallSnapshot(t) \/ ClearOld(t) \/ PublishNew(t)

Stale(t) ==
  BeginStale(t) \/ TakeStaleUris(t) \/ DropSnapshot(t) \/ ClearStale(t)
  \/ LogStale(t)

\* A handler resumed after an await.
Handle(t) ==
  \/ DidOpen(t) \/ DidChange(t) \/ DidClose(t)
  \/ TryRefresh(t) \/ SetPending(t) \/ Rerun(t)
  \/ Scan(t) \/ Stale(t)
  \/ ReadActions(t) \/ ReplyActions(t) \/ Command(t)

Next == \E t \in Tasks : Input(t) \/ Handle(t) \/ Cancel(t)

Spec == Init /\ [][Next]_vars

\* The executor polls every future that was woken, and every lock is released
\* in the end.  The editor may stay silent for ever, so Input has no fairness.
FairSpec == Spec /\ \A t \in Tasks : WF_vars(Handle(t))

-----------------------------------------------------------------------------
(* Safety.                                                                 *)

Quiescent == \A t \in Tasks : pc[t] = "idle"

\* Somebody has bumped the generation and is on its way to the snapshot, or was
\* dropped on its way.
Invalidating ==
  \/ \E t \in Tasks : pc[t] \in InvalidatingPc
  \/ abandoned = refresh_generation

\* A snapshot that code actions and commands may use is the result of the
\* newest generation: neither a slow scan nor a failed one can make an older
\* result current again.  The one exception is the window in begin_refresh
\* between the two locks, which stays open when its request is cancelled there.
CurrentIsLatest ==
  live_snapshot.current =>
    \/ live_snapshot.analysis = refresh_generation
    \/ Invalidating

\* "Single in-flight refresh guard": at most one handler scans, installs or
\* publishes, and the guard is never leaked by a return.
SingleScan ==
  \A t \in Tasks : pc[t] \in RefreshPc <=> refresh_in_flight = t

\* When nothing runs, a backend whose snapshot is not current has told the
\* editor so (log or warning) since it last installed a result: a failed or
\* superseded refresh never looks like a clean one.
StalenessIsTold ==
  Quiescent /\ refresh_generation > 0 /\ ~live_snapshot.current => told

\* A display is never labelled with a document version that is newer than the
\* moment its analysis read the sources.
VersionPrecedesRead ==
  \A u \in Uri :
    shown[u].analysis # NoAnalysis => shown[u].version <= shown[u].readAt

\* When nothing runs, the editor shows exactly the diagnostics of the snapshot.
\* Claimed only of runs without changes and closes: handlers that mark
\* diagnostics stale publish outside of the generation lock.
EditorMatchesSnapshot ==
  Quiescent =>
    \A u \in Uri :
      shown[u].analysis = IF u \in live_snapshot.diagnostics
                          THEN live_snapshot.analysis
                          ELSE NoAnalysis

\* Whoever asked for a refresh gets a scan that starts after the request: no
\* request is still pending when nothing runs.
NoOrphanedRequest == Quiescent => ~refresh_pending

-----------------------------------------------------------------------------
(* Action properties.                                                      *)

Answered(t, code) ==
  pc[t] = "command" /\ pc'[t] = "idle" /\ answer'.code = code

\* A card command runs only against the very analysis it was offered for, and
\* that one is the newest (or is being invalidated at this moment).
CommandOnLatest ==
  [][\A t \in Tasks : Answered(t, "ok") =>
       /\ answer'.analysis = live_snapshot.analysis
       /\ answer'.analysis = refresh_generation \/ Invalidating]_vars

\* No command runs while a refresh that was requested has yet to begin.
NoCommandWhilePending ==
  [][\A t \in Tasks : Answered(t, "ok") => ~refresh_pending]_vars

\* No diagnostics of an older generation are published.
NoStalePublish ==
  [][\A u \in Uri :
       shown'[u].analysis \in {shown[u].analysis, NoAnalysis,
                               refresh_generation}]_vars

\* A handler never clears a display that a newer generation published.
NoNewerWiped ==
  [][\A t \in Tasks, u \in Uri :
       u \in local[t].clear \ local'[t].clear =>
         shown[u].analysis <= local[t].generation]_vars

-----------------------------------------------------------------------------
(* What the backend implements.                                            *)

\* The stored result is live once begin_refresh has let go of both locks.
Cell == INSTANCE LspSnapshotCell WITH
  latest <- refresh_generation,
  cell   <- live_snapshot.analysis,
  live   <- /\ live_snapshot.current
            /\ live_snapshot.analysis = refresh_generation

\* Generation, snapshot and their two locks behave as one cell: the two-step
\* begin_refresh and the three-step install are atomic to an observer.
CellSpec == Cell!Spec

-----------------------------------------------------------------------------
(* Liveness.                                                               *)

\* Every handler returns: no deadlock among the mutexes, no endless loop of
\* follow-up scans: whatever a handler waits for, it is idle again in the end.
HandlersReturn == \A t \in Tasks : []<>(pc[t] = "idle")

=============================================================================
