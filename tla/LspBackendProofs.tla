-------------------------- MODULE LspBackendProofs --------------------------
(***************************************************************************)
(* Proofs about the LSP backend, for any number of handlers, documents and *)
(* messages and for every configuration.                                   *)
(***************************************************************************)
EXTENDS LspBackend, TLAPS

-----------------------------------------------------------------------------
(* Types.                                                                  *)

LEMMA InitType == Init => TypeOK
<1> SUFFICES ASSUME Init PROVE TypeOK
  OBVIOUS
<1> USE ConfigAssumption
<1>1. 0 \in Stamp
  BY DEF Stamp
<1>2. NoLocal \in Local
  BY <1>1 DEF NoLocal, Local, Closed
<1>3. Cleared(Closed) \in Display
  BY <1>1 DEF Cleared, Display, Closed, NoAnalysis
<1>4. live_snapshot \in Snapshot
  BY DEF Init, Snapshot, NoAnalysis
<1>5. answer \in [code : Answers, analysis : Nat]
  BY DEF Init, Answers, NoAnswer, NoAnalysis
<1>6. pc \in [Tasks -> Pc] /\ local \in [Tasks -> Local]
  BY <1>2 DEF Init, Pc, HandlerPc
<1>7. shown \in [Uri -> Display] /\ documents \in [Uri -> Stamp]
  BY <1>1, <1>3 DEF Init, Closed
<1> QED
  BY <1>1, <1>4, <1>5, <1>6, <1>7 DEF Init, TypeOK

\* Type correctness of the steps by which the editor sends a message.
LEMMA InputType ==
  ASSUME TypeOK, NEW t \in Tasks, Input(t)
  PROVE  TypeOK'
<1> USE ConfigAssumption DEF TypeOK
<1>1. ASSUME NEW kind, NEW label \in Pc, Dispatch(t, kind, label)
      PROVE  /\ sent' \in Stamp
             /\ pc' \in [Tasks -> Pc]
             /\ local' \in [Tasks -> Local]
             /\ answer' \in [code : Answers, analysis : Nat]
             /\ UNCHANGED <<shown, held, documents, live_snapshot,
                            last_diagnostic_uris, refresh_generation,
                            refresh_pending, locks, told, abandoned>>
  <2>1. sent' \in Stamp
    BY <1>1 DEF Dispatch, Stamp
  <2>2. pc' \in [Tasks -> Pc]
    BY <1>1 DEF Dispatch, Goto
  <2> DEFINE stamp == IF kind \in {"open", "change"} THEN sent' ELSE 0
             asked == kind \in Requests
  <2>3. [local[t] EXCEPT !.message = stamp, !.request = asked] \in Local
    <3>1. stamp \in Stamp
      BY <2>1 DEF Stamp
    <3>2. asked \in BOOLEAN
      OBVIOUS
    <3> HIDE DEF stamp, asked
    <3> QED
      BY <3>1, <3>2 DEF Local
  <2>4. local' \in [Tasks -> Local]
    BY <1>1, <2>3 DEF Dispatch
  <2>5. answer' \in [code : Answers, analysis : Nat]
    BY <1>1 DEF Dispatch, NoAnswer, NoAnalysis, Answers
  <2> QED
    BY <1>1, <2>1, <2>2, <2>4, <2>5 DEF Dispatch
<1>2. {"open", "change", "close", "codeAction", "command", "tryRefresh", "idle"}
        \subseteq Pc
  BY DEF Pc, HandlerPc
<1>3. CASE Receive(t)
  BY <1>1, <1>2, <1>3 DEF Receive, locks, history
<1>4. CASE ReceiveRefresh(t)
  BY <1>1, <1>2, <1>4 DEF ReceiveRefresh, locks, history
<1>5. CASE ReceiveSave(t)
  BY <1>1, <1>2, <1>5 DEF ReceiveSave, locks, history
<1> QED
  BY <1>3, <1>4, <1>5 DEF Input

\* Labels and local variables as the helpers of the actions leave them.
LEMMA GotoType ==
  ASSUME TypeOK, NEW t \in Tasks, NEW label \in Pc, Goto(t, label)
  PROVE  pc' \in [Tasks -> Pc]
  BY DEF TypeOK, Goto

LEMMA ReturnType ==
  ASSUME TypeOK, NEW t \in Tasks, Return(t)
  PROVE  pc' \in [Tasks -> Pc] /\ local' \in [Tasks -> Local]
<1>1. NoLocal \in Local
  BY ConfigAssumption DEF NoLocal, Local, Closed, Stamp
<1> QED
  BY <1>1 DEF TypeOK, Return, Goto, Pc, HandlerPc

LEMMA EndScanType ==
  ASSUME TypeOK, NEW t \in Tasks, EndScan(t)
  PROVE  pc' \in [Tasks -> Pc] /\ local' \in [Tasks -> Local]
<1>1. NoLocal \in Local
  BY ConfigAssumption DEF NoLocal, Local, Closed, Stamp
<1>2. [NoLocal EXCEPT !.request = local[t].request] \in Local
  BY <1>1 DEF TypeOK, Local
<1> QED
  BY <1>2 DEF TypeOK, EndScan, Goto, Pc, RefreshPc

\* Type correctness of the document notifications.
LEMMA DocumentType ==
  ASSUME TypeOK, NEW t \in Tasks, DidOpen(t) \/ DidChange(t) \/ DidClose(t)
  PROVE  TypeOK'
<1>1. local[t].message \in Stamp /\ Closed \in Stamp
  BY ConfigAssumption DEF TypeOK, Local, Closed, Stamp
<1>2. NoLocal \in Local
  BY ConfigAssumption DEF NoLocal, Local, Closed, Stamp
<1>3. documents' \in [Uri -> Stamp]
  BY <1>1 DEF TypeOK, DidOpen, DidChange, DidClose
<1>4. ASSUME NEW label \in Pc, DocumentStep(t, label)
      PROVE  TypeOK'
  BY <1>2, <1>3, <1>4
     DEF TypeOK, DocumentStep, Goto, client, locks, history
<1>5. {"tryRefresh", "idle", "staleBegin"} \subseteq Pc
  BY DEF Pc, HandlerPc, StalePc
<1> QED
  BY <1>4, <1>5 DEF DidOpen, DidChange, DidClose

\* Type correctness of refresh() and begin_refresh().
LEMMA RefreshType ==
  ASSUME TypeOK, NEW t \in Tasks,
         TryRefresh(t) \/ SetPending(t) \/ Rerun(t)
           \/ BeginRefresh(t) \/ BeginStale(t)
  PROVE  TypeOK'
<1>1. CASE TryRefresh(t)
  BY <1>1 DEF TypeOK, TryRefresh, Goto, Pc, HandlerPc, RefreshPc,
              client, history
<1>2. CASE SetPending(t)
  BY <1>2, ReturnType DEF TypeOK, SetPending, client, locks, history
<1>3. CASE Rerun(t)
  <2>1. pc' \in [Tasks -> Pc] /\ local' \in [Tasks -> Local]
    BY <1>3, ReturnType DEF TypeOK, Rerun, Goto, Pc, RefreshPc
  <2> QED
    BY <1>3, <2>1 DEF TypeOK, Rerun, client, history
<1>4. ASSUME NEW from, NEW to \in Pc, BumpGeneration(t, from, to)
      PROVE  TypeOK'
  <2>1. refresh_generation' \in Nat /\ generation_lock' \in Tasks
    BY <1>4 DEF TypeOK, BumpGeneration
  <2>2. [local[t] EXCEPT !.generation = refresh_generation'] \in Local
    BY <2>1 DEF TypeOK, Local
  <2>3. local' \in [Tasks -> Local]
    BY <1>4, <2>2 DEF TypeOK, BumpGeneration
  <2>4. pc' \in [Tasks -> Pc]
    BY <1>4, GotoType DEF BumpGeneration
  <2> QED
    BY <1>4, <2>1, <2>3, <2>4 DEF TypeOK, BumpGeneration, client, history
<1>5. ASSUME NEW from, NEW to \in Pc, InvalidateSnapshot(t, from, to)
      PROVE  TypeOK'
  <2>1. live_snapshot' \in Snapshot
    BY <1>5 DEF TypeOK, InvalidateSnapshot, Snapshot
  <2> QED
    BY <1>5, <2>1 DEF TypeOK, InvalidateSnapshot, Goto, client, history
<1>6. {"beginSnapshot", "diff", "staleBeginSnapshot", "staleTake"} \subseteq Pc
  BY DEF Pc, RefreshPc, StalePc
<1> QED
  BY <1>1, <1>2, <1>3, <1>4, <1>5, <1>6 DEF BeginRefresh, BeginStale

\* Type correctness of the steps of refresh_once() up to the publications.
LEMMA ScanType ==
  ASSUME TypeOK, NEW t \in Tasks,
         ReadDiff(t) \/ CaptureVersions(t) \/ Analyze(t) \/ Joined(t)
           \/ MarkFailed(t) \/ ShowFailed(t)
  PROVE  TypeOK'
<1>1. {"versions", "failed", "analyze", "analyzed", "install", "failedShow",
       "rerun"} \subseteq Pc
  BY DEF Pc, RefreshPc
<1>2. CASE ReadDiff(t)
  BY <1>1, <1>2, GotoType
     DEF TypeOK, ReadDiff, ScanStep, client, locks, history
<1>3. CASE CaptureVersions(t)
  <2>1. [local[t] EXCEPT !.versions = documents] \in Local
    BY DEF TypeOK, Local
  <2> QED
    BY <1>1, <1>3, <2>1, GotoType
       DEF TypeOK, CaptureVersions, ScanStep, client, locks, history
<1>4. CASE Analyze(t)
  <2>1. [local[t] EXCEPT !.uris = disk, !.readAt = sent] \in Local
    BY DEF TypeOK, Local
  <2>2. local' \in [Tasks -> Local]
    BY <1>4, <2>1 DEF TypeOK, Analyze
  <2> QED
    BY <1>1, <1>4, <2>2, GotoType
       DEF TypeOK, Analyze, ScanStep, client, locks, history
<1>5. CASE Joined(t)
  BY <1>1, <1>5, GotoType
     DEF TypeOK, Joined, ScanStep, client, locks, history
<1>6. CASE MarkFailed(t)
  <2>1. live_snapshot' \in Snapshot
    BY <1>6 DEF TypeOK, MarkFailed, Snapshot
  <2> QED
    BY <1>1, <1>6, <2>1, GotoType
       DEF TypeOK, MarkFailed, client, locks, history
<1>7. CASE ShowFailed(t)
  BY <1>1, <1>7, EndScanType DEF TypeOK, ShowFailed, client, locks
<1> QED
  BY <1>2, <1>3, <1>4, <1>5, <1>6, <1>7

\* Type correctness of install_refresh_result.
LEMMA InstallType ==
  ASSUME TypeOK, NEW t \in Tasks,
         CheckGeneration(t) \/ InstallUris(t) \/ InstallSnapshot(t)
  PROVE  TypeOK'
<1>1. {"installUris", "rerun", "installSnapshot", "clear"} \subseteq Pc
  BY DEF Pc, RefreshPc
<1>2. local[t].uris \in SUBSET Uri /\ local[t].generation \in Nat
  BY DEF TypeOK, Local
<1>3. CASE CheckGeneration(t)
  <2>1. pc' \in [Tasks -> Pc] /\ local' \in [Tasks -> Local]
    BY <1>1, <1>3, GotoType, EndScanType DEF TypeOK, CheckGeneration
  <2> QED
    BY <1>3, <2>1 DEF TypeOK, CheckGeneration, client, history
<1>4. CASE InstallUris(t)
  <2>1. [local[t] EXCEPT !.clear = last_diagnostic_uris \ local[t].uris,
                         !.publish = local[t].uris] \in Local
    BY <1>2 DEF TypeOK, Local
  <2>2. local' \in [Tasks -> Local]
    BY <1>4, <2>1 DEF TypeOK, InstallUris
  <2> QED
    BY <1>1, <1>2, <1>4, <2>2, GotoType
       DEF TypeOK, InstallUris, client, locks, history
<1>5. CASE InstallSnapshot(t)
  <2>1. live_snapshot' \in Snapshot
    BY <1>2, <1>5 DEF InstallSnapshot, Snapshot
  <2>2. [local[t] EXCEPT !.uris = {}] \in Local
    BY DEF TypeOK, Local
  <2>3. local' \in [Tasks -> Local]
    BY <1>5, <2>2 DEF TypeOK, InstallSnapshot
  <2> QED
    BY <1>1, <1>5, <2>1, <2>3, GotoType DEF TypeOK, InstallSnapshot, client
<1> QED
  BY <1>3, <1>4, <1>5

\* Type correctness of one publication.
LEMMA PublishType ==
  ASSUME TypeOK, NEW t \in Tasks,
         ClearOld(t) \/ PublishNew(t) \/ ClearStale(t)
  PROVE  TypeOK'
<1>1. /\ local[t].versions \in [Uri -> Stamp]
      /\ local[t].readAt \in Stamp
      /\ local[t].generation \in Nat
      /\ local[t].clear \in SUBSET Uri
      /\ local[t].publish \in SUBSET Uri
  BY DEF TypeOK, Local
<1>2. {"publish", "rerun", "staleLog"} \subseteq Pc
  BY DEF Pc, RefreshPc, StalePc
<1>3. ASSUME NEW u \in Uri, NEW display \in Display, Publish(t, u, display),
             \/ local' = [local EXCEPT ![t].clear = @ \ {u}]
             \/ local' = [local EXCEPT ![t].publish = @ \ {u}]
      PROVE  TypeOK'
  <2>1. /\ [local[t] EXCEPT !.clear = @ \ {u}] \in Local
        /\ [local[t] EXCEPT !.publish = @ \ {u}] \in Local
    BY <1>1 DEF TypeOK, Local
  <2>2. local' \in [Tasks -> Local]
    BY <1>3, <2>1 DEF TypeOK
  <2> QED
    BY <1>3, <2>2 DEF TypeOK, Publish, locks, history
<1>4. ASSUME NEW label \in Pc, Leave(t, label)
      PROVE  TypeOK'
  BY <1>4, GotoType DEF TypeOK, Leave, client, locks, history
<1>5. \A v \in Stamp : Cleared(v) \in Display
  BY ConfigAssumption DEF Cleared, Display, Stamp, NoAnalysis
<1>6. CASE ClearOld(t)
  BY <1>1, <1>2, <1>3, <1>4, <1>5, <1>6 DEF ClearOld
<1>7. CASE PublishNew(t)
  <2>1. ASSUME NEW u \in local[t].publish
        PROVE  [analysis |-> local[t].generation,
                version  |-> local[t].versions[u],
                readAt   |-> local[t].readAt] \in Display
    BY <1>1 DEF Display
  <2> QED
    BY <1>1, <1>2, <1>3, <1>7, <2>1, EndScanType
       DEF TypeOK, PublishNew, client, locks, history
<1>8. CASE ClearStale(t)
  <2>1. \A u \in Uri : documents[u] \in Stamp
    BY DEF TypeOK
  <2> QED
    BY <1>1, <1>2, <1>3, <1>4, <1>5, <1>8, <2>1 DEF ClearStale
<1> QED
  BY <1>6, <1>7, <1>8

\* Type correctness of mark_diagnostics_stale() after begin_refresh().
LEMMA StaleType ==
  ASSUME TypeOK, NEW t \in Tasks,
         TakeStaleUris(t) \/ DropSnapshot(t) \/ LogStale(t)
  PROVE  TypeOK'
<1>1. {"staleSnapshot", "staleClear"} \subseteq Pc
  BY DEF Pc, StalePc
<1>2. CASE TakeStaleUris(t)
  <2>1. [local[t] EXCEPT !.clear = last_diagnostic_uris] \in Local
    BY DEF TypeOK, Local
  <2>2. local' \in [Tasks -> Local]
    BY <1>2, <2>1 DEF TypeOK, TakeStaleUris
  <2> QED
    BY <1>1, <1>2, <2>2, GotoType
       DEF TypeOK, TakeStaleUris, client, locks, history
<1>3. CASE DropSnapshot(t)
  <2>1. live_snapshot' \in Snapshot
    BY <1>3 DEF DropSnapshot, Snapshot, NoAnalysis
  <2> QED
    BY <1>1, <1>3, <2>1, GotoType
       DEF TypeOK, DropSnapshot, client, locks, history
<1>4. CASE LogStale(t)
  BY <1>4, ReturnType DEF TypeOK, LogStale, client, locks
<1> QED
  BY <1>2, <1>3, <1>4

\* Type correctness of the requests.
LEMMA RequestType ==
  ASSUME TypeOK, NEW t \in Tasks,
         ReadActions(t) \/ ReplyActions(t) \/ Command(t)
  PROVE  TypeOK'
<1>1. live_snapshot.analysis \in Nat /\ NoAnalysis \in Nat
  BY DEF TypeOK, Snapshot, NoAnalysis
<1>2. CASE ReadActions(t)
  <2> DEFINE read == IF live_snapshot.current THEN live_snapshot.analysis
                                              ELSE NoAnalysis
  <2>1. [local[t] EXCEPT !.generation = read] \in Local
    BY <1>1 DEF TypeOK, Local
  <2>2. local' \in [Tasks -> Local]
    BY <1>2, <2>1 DEF TypeOK, ReadActions
  <2>3. "codeActionReply" \in Pc
    BY DEF Pc, HandlerPc
  <2> QED
    BY <1>2, <2>2, <2>3, GotoType DEF TypeOK, ReadActions, client, history
<1>3. CASE ReplyActions(t)
  <2>1. local[t].generation \in Nat
    BY DEF TypeOK, Local
  <2> QED
    BY <1>3, <2>1, ReturnType DEF TypeOK, ReplyActions, history
<1>4. CASE Command(t)
  <2>1. \A id : CommandAnswer(id) \in Answers
    BY DEF CommandAnswer, Answers
  <2>2. answer' \in [code : Answers, analysis : Nat]
    BY <1>1, <1>4, <2>1 DEF TypeOK, Command
  <2> QED
    BY <1>4, <2>2, ReturnType DEF TypeOK, Command, client, locks
<1> QED
  BY <1>2, <1>3, <1>4

\* Type correctness of a cancellation.
LEMMA CancelType ==
  ASSUME TypeOK, NEW t \in Tasks, Cancel(t)
  PROVE  TypeOK'
<1>1. answer' \in [code : Answers, analysis : Nat]
  BY DEF Cancel, NoAnswer, NoAnalysis, Answers
<1> QED
  BY <1>1, ReturnType DEF TypeOK, Cancel, Released, client

LEMMA NextType == TypeOK /\ [Next]_vars => TypeOK'
<1> SUFFICES ASSUME TypeOK, [Next]_vars
             PROVE  TypeOK'
  OBVIOUS
<1>1. CASE UNCHANGED vars
  BY <1>1 DEF TypeOK, vars, client, locks, history
<1>2. ASSUME NEW t \in Tasks, Input(t) \/ Handle(t) \/ Cancel(t)
      PROVE  TypeOK'
  BY <1>2, InputType, DocumentType, RefreshType, ScanType, InstallType,
     PublishType, StaleType, RequestType, CancelType
     DEF Handle, Scan, Stale
<1> QED
  BY <1>1, <1>2 DEF Next

\* Every reachable state of the backend is well typed.
THEOREM TypeCorrect == Spec => []TypeOK
  BY InitType, NextType, PTL DEF Spec

-----------------------------------------------------------------------------
(* Who holds which lock.                                                   *)

\* A handler is where it holds the refresh_generation mutex iff it holds it.
GenerationLocked ==
  \A t \in Tasks : pc[t] \in GenerationPc <=> generation_lock = t

\* Every step moves at most one handler, and it tells from where to where.
\* The owner of a lock changes only with the steps that lock and unlock it.
LEMMA NextLocked ==
  ASSUME TypeOK, GenerationLocked, SingleScan, [Next]_vars
  PROVE  GenerationLocked' /\ SingleScan'
<1> USE ConfigAssumption
<1>1. CASE UNCHANGED vars
  BY <1>1 DEF GenerationLocked, SingleScan, vars, locks
<1>2. ASSUME NEW t \in Tasks, Input(t) \/ Handle(t) \/ Cancel(t)
      PROVE  GenerationLocked' /\ SingleScan'
  <2>1. pc \in [Tasks -> Pc]
    BY DEF TypeOK
  <2>2. ASSUME NEW label, Goto(t, label),
               label \in GenerationPc <=> pc[t] \in GenerationPc,
               label \in RefreshPc <=> pc[t] \in RefreshPc,
               UNCHANGED <<generation_lock, refresh_in_flight>>
        PROVE  GenerationLocked' /\ SingleScan'
    BY <2>1, <2>2 DEF Goto, GenerationLocked, SingleScan
  <2>3. CASE Input(t)
    BY <2>2, <2>3
       DEF Input, Receive, ReceiveRefresh, ReceiveSave, Dispatch, locks,
           GenerationPc, InvalidatingPc, RefreshPc
  <2>4. CASE DidOpen(t) \/ DidChange(t) \/ DidClose(t)
    BY <2>2, <2>4
       DEF DidOpen, DidChange, DidClose, DocumentStep, locks,
           GenerationPc, InvalidatingPc, RefreshPc
  <2>5. CASE TryRefresh(t)
    BY <2>1, <2>5
       DEF TryRefresh, Goto, GenerationLocked, SingleScan,
           GenerationPc, InvalidatingPc, RefreshPc
  <2>6. CASE SetPending(t)
    BY <2>2, <2>6
       DEF SetPending, Return, locks, GenerationPc, InvalidatingPc, RefreshPc
  <2>7. CASE Rerun(t)
    BY <2>1, <2>7
       DEF Rerun, Return, Goto, GenerationLocked, SingleScan,
           GenerationPc, InvalidatingPc, RefreshPc
  <2>8. CASE BeginRefresh(t)
    BY <2>1, <2>8
       DEF BeginRefresh, BumpGeneration, InvalidateSnapshot, Goto,
           GenerationLocked, SingleScan,
           GenerationPc, InvalidatingPc, RefreshPc
  <2>9. CASE BeginStale(t)
    BY <2>1, <2>9
       DEF BeginStale, BumpGeneration, InvalidateSnapshot, Goto,
           GenerationLocked, SingleScan,
           GenerationPc, InvalidatingPc, RefreshPc
  <2>10. CASE ReadDiff(t) \/ CaptureVersions(t) \/ Analyze(t) \/ Joined(t)
    BY <2>2, <2>10
       DEF ReadDiff, CaptureVersions, Analyze, Joined, ScanStep, locks,
           GenerationPc, InvalidatingPc, RefreshPc
  <2>11. CASE MarkFailed(t) \/ ShowFailed(t)
    BY <2>2, <2>11
       DEF MarkFailed, ShowFailed, EndScan, locks,
           GenerationPc, InvalidatingPc, RefreshPc
  <2>12. CASE CheckGeneration(t)
    BY <2>1, <2>12
       DEF CheckGeneration, EndScan, Goto, GenerationLocked, SingleScan,
           GenerationPc, InvalidatingPc, RefreshPc
  <2>13. CASE InstallUris(t)
    BY <2>2, <2>13
       DEF InstallUris, locks, GenerationPc, InvalidatingPc, RefreshPc
  <2>14. CASE InstallSnapshot(t)
    BY <2>1, <2>14
       DEF InstallSnapshot, Goto, GenerationLocked, SingleScan,
           GenerationPc, InvalidatingPc, RefreshPc
  <2>15. CASE ClearOld(t) \/ PublishNew(t) \/ ClearStale(t)
    <3>1. CASE UNCHANGED <<pc, locks>>
      BY <3>1 DEF locks, GenerationLocked, SingleScan
    <3>2. CASE \E label \in {"publish", "staleLog"} :
                 /\ Leave(t, label)
                 /\ label = "staleLog" <=> pc[t] = "staleClear"
                 /\ pc[t] \in {"clear", "staleClear"}
      BY <2>2, <3>2
         DEF Leave, locks, GenerationPc, InvalidatingPc, RefreshPc
    <3>3. CASE pc[t] = "publish" /\ EndScan(t) /\ UNCHANGED locks
      BY <2>2, <3>3
         DEF EndScan, locks, GenerationPc, InvalidatingPc, RefreshPc
    <3> QED
      BY <2>15, <3>1, <3>2, <3>3 DEF ClearOld, PublishNew, ClearStale, Publish
  <2>16. CASE TakeStaleUris(t) \/ DropSnapshot(t) \/ LogStale(t)
    BY <2>2, <2>16
       DEF TakeStaleUris, DropSnapshot, LogStale, Return, locks,
           GenerationPc, InvalidatingPc, RefreshPc
  <2>17. CASE ReadActions(t) \/ ReplyActions(t) \/ Command(t)
    BY <2>2, <2>17
       DEF ReadActions, ReplyActions, Command, Return, locks,
           GenerationPc, InvalidatingPc, RefreshPc
  <2>18. CASE Cancel(t)
    BY <2>1, <2>18
       DEF Cancel, Released, Return, Goto, GenerationLocked, SingleScan,
           GenerationPc, InvalidatingPc, RefreshPc
  <2> QED
    BY <1>2, <2>3, <2>4, <2>5, <2>6, <2>7, <2>8, <2>9, <2>10, <2>11, <2>12,
       <2>13, <2>14, <2>15, <2>16, <2>17, <2>18 DEF Handle, Scan, Stale
<1> QED
  BY <1>1, <1>2 DEF Next

LEMMA InitLocked == Init => GenerationLocked /\ SingleScan
  BY ConfigAssumption
     DEF Init, GenerationLocked, SingleScan, GenerationPc, InvalidatingPc,
         RefreshPc

\* refresh_in_flight has one owner, the handler that scans, installs or
\* publishes; nobody returns with it.
THEOREM OneScan == Spec => []SingleScan
<1>1. TypeOK /\ GenerationLocked /\ SingleScan /\ [Next]_vars
        => (TypeOK /\ GenerationLocked /\ SingleScan)'
  BY NextType, NextLocked
<1> QED
  BY <1>1, InitType, InitLocked, PTL DEF Spec

-----------------------------------------------------------------------------
(* The generation and the snapshot.                                        *)

\* A handler that holds the generation in order to install has the newest one.
InstallsLatest ==
  \A t \in Tasks :
    pc[t] \in {"installUris", "installSnapshot"} =>
      local[t].generation = refresh_generation

\* No result comes from a generation that nobody has begun.
AnalysisBegun == live_snapshot.analysis <= refresh_generation

\* CurrentIsLatest is not inductive: installing needs InstallsLatest, and that
\* needs the lock to keep others from bumping the generation meanwhile.
CoreInv ==
  /\ TypeOK
  /\ GenerationLocked
  /\ SingleScan
  /\ InstallsLatest
  /\ AnalysisBegun
  /\ CurrentIsLatest

\* Most steps touch neither the generation nor the snapshot, and neither enter
\* the installing part nor leave begin_refresh.
Quiet(t) ==
  /\ UNCHANGED <<refresh_generation, live_snapshot, abandoned>>
  /\ pc[t] \notin InvalidatingPc
  /\ \E label : /\ Goto(t, label)
                /\ label \notin {"installUris", "installSnapshot"}
  /\ \A u \in Tasks \ {t} : local'[u] = local[u]

LEMMA QuietStep ==
  ASSUME CoreInv, NEW t \in Tasks, Quiet(t)
  PROVE  InstallsLatest' /\ AnalysisBegun' /\ CurrentIsLatest'
<1>1. pc \in [Tasks -> Pc]
  BY DEF CoreInv, TypeOK
<1>2. InstallsLatest'
  BY <1>1 DEF CoreInv, InstallsLatest, Quiet, Goto
<1>3. Invalidating => Invalidating'
  BY <1>1 DEF Quiet, Goto, Invalidating
<1> QED
  BY <1>2, <1>3 DEF CoreInv, AnalysisBegun, CurrentIsLatest, Quiet

\* The steps that are quiet.
LEMMA QuietSteps ==
  ASSUME CoreInv, NEW t \in Tasks,
         \/ Input(t)
         \/ DidOpen(t) \/ DidChange(t) \/ DidClose(t)
         \/ TryRefresh(t) \/ SetPending(t) \/ Rerun(t)
         \/ ReadDiff(t) \/ CaptureVersions(t) \/ Analyze(t) \/ Joined(t)
         \/ ShowFailed(t) \/ TakeStaleUris(t) \/ LogStale(t)
         \/ ReadActions(t) \/ ReplyActions(t) \/ Command(t)
  PROVE  Quiet(t)
<1>1. pc \in [Tasks -> Pc] /\ local \in [Tasks -> Local]
  BY DEF CoreInv, TypeOK
<1>2. CASE Input(t)
  BY <1>1, <1>2
     DEF Input, Receive, ReceiveRefresh, ReceiveSave, Dispatch, Quiet, Goto,
         InvalidatingPc, history
<1>3. CASE DidOpen(t) \/ DidChange(t) \/ DidClose(t)
  BY <1>1, <1>3
     DEF DidOpen, DidChange, DidClose, DocumentStep, Quiet, Goto,
         InvalidatingPc, history
<1>4. CASE TryRefresh(t) \/ SetPending(t) \/ Rerun(t)
  BY <1>1, <1>4
     DEF TryRefresh, SetPending, Rerun, Return, Quiet, Goto, InvalidatingPc, history
<1>5. CASE ReadDiff(t) \/ CaptureVersions(t) \/ Analyze(t) \/ Joined(t)
  BY <1>1, <1>5
     DEF ReadDiff, CaptureVersions, Analyze, Joined, ScanStep, Quiet, Goto,
         InvalidatingPc, history
<1>6. CASE ShowFailed(t) \/ TakeStaleUris(t) \/ LogStale(t)
  BY <1>1, <1>6
     DEF ShowFailed, EndScan, TakeStaleUris, LogStale, Return, Quiet, Goto,
         InvalidatingPc, history
<1>7. CASE ReadActions(t) \/ ReplyActions(t) \/ Command(t)
  BY <1>1, <1>7
     DEF ReadActions, ReplyActions, Command, Return, Quiet, Goto,
         InvalidatingPc, history
<1> QED
  BY <1>2, <1>3, <1>4, <1>5, <1>6, <1>7

LEMMA NextCurrent ==
  ASSUME CoreInv, [Next]_vars
  PROVE  InstallsLatest' /\ AnalysisBegun' /\ CurrentIsLatest'
<1>1. /\ pc \in [Tasks -> Pc]
      /\ local \in [Tasks -> Local]
      /\ refresh_generation \in Nat
      /\ live_snapshot \in Snapshot
  BY DEF CoreInv, TypeOK
<1>2. CASE UNCHANGED vars
  BY <1>2 DEF CoreInv, InstallsLatest, AnalysisBegun, CurrentIsLatest,
              Invalidating, vars, history
<1>3. ASSUME NEW t \in Tasks, Input(t) \/ Handle(t) \/ Cancel(t)
      PROVE  InstallsLatest' /\ AnalysisBegun' /\ CurrentIsLatest'
  <2>1. CASE Quiet(t)
    BY <2>1, QuietStep
  <2>2. ASSUME NEW from, NEW to \in InvalidatingPc,
               BumpGeneration(t, from, to)
        PROVE  InstallsLatest' /\ AnalysisBegun' /\ CurrentIsLatest'
    <3>1. pc'[t] \in InvalidatingPc /\ Invalidating'
      BY <1>1, <2>2 DEF BumpGeneration, Goto, Invalidating
    <3>2. \A u \in Tasks :
            pc'[u] \notin {"installUris", "installSnapshot"}
      BY <1>1, <2>2, <3>1, ConfigAssumption
         DEF BumpGeneration, Goto, CoreInv, GenerationLocked, GenerationPc,
             InvalidatingPc
    <3>3. AnalysisBegun'
      BY <1>1, <2>2 DEF BumpGeneration, CoreInv, AnalysisBegun, Snapshot
    <3> QED
      BY <3>1, <3>2, <3>3 DEF InstallsLatest, CurrentIsLatest
  <2>3. ASSUME NEW from, NEW to \in {"diff", "staleTake"},
               InvalidateSnapshot(t, from, to)
        PROVE  InstallsLatest' /\ AnalysisBegun' /\ CurrentIsLatest'
    <3>1. ~live_snapshot'.current /\ AnalysisBegun'
      BY <1>1, <2>3 DEF InvalidateSnapshot, CoreInv, AnalysisBegun, Snapshot
    <3>2. InstallsLatest'
      BY <1>1, <2>3 DEF InvalidateSnapshot, Goto, CoreInv, InstallsLatest
    <3> QED
      BY <3>1, <3>2 DEF CurrentIsLatest
  <2>4. CASE MarkFailed(t)
    <3>1. ~live_snapshot'.current /\ AnalysisBegun'
      BY <1>1, <2>4 DEF MarkFailed, CoreInv, AnalysisBegun, Snapshot
    <3>2. InstallsLatest'
      BY <1>1, <2>4 DEF MarkFailed, Goto, CoreInv, InstallsLatest
    <3> QED
      BY <3>1, <3>2 DEF CurrentIsLatest
  <2>5. CASE DropSnapshot(t)
    <3>1. ~live_snapshot'.current /\ AnalysisBegun'
      BY <1>1, <2>5 DEF DropSnapshot, AnalysisBegun, NoAnalysis
    <3>2. InstallsLatest'
      BY <1>1, <2>5 DEF DropSnapshot, Goto, CoreInv, InstallsLatest
    <3> QED
      BY <3>1, <3>2 DEF CurrentIsLatest
  <2>6. CASE CheckGeneration(t)
    <3>1. InstallsLatest'
      BY <1>1, <2>6
         DEF CheckGeneration, EndScan, Goto, CoreInv, InstallsLatest
    <3>2. Invalidating => Invalidating'
      BY <1>1, <2>6 DEF CheckGeneration, EndScan, Goto, Invalidating,
                        InvalidatingPc, history
    <3> QED
      BY <2>6, <3>1, <3>2
         DEF CheckGeneration, CoreInv, AnalysisBegun, CurrentIsLatest
  <2>7. CASE InstallUris(t)
    <3>1. InstallsLatest'
      BY <1>1, <2>7 DEF InstallUris, Goto, CoreInv, InstallsLatest, Local
    <3>2. Invalidating => Invalidating'
      BY <1>1, <2>7 DEF InstallUris, Goto, Invalidating, InvalidatingPc, history
    <3> QED
      BY <2>7, <3>1, <3>2
         DEF InstallUris, CoreInv, AnalysisBegun, CurrentIsLatest
  <2>8. CASE InstallSnapshot(t)
    <3>1. live_snapshot'.analysis = refresh_generation'
      BY <2>8 DEF InstallSnapshot, CoreInv, InstallsLatest
    <3>2. InstallsLatest'
      <4>1. local'[t].generation = local[t].generation
        BY <1>1, <2>8 DEF InstallSnapshot, Local
      <4> QED
        BY <1>1, <2>8, <4>1
           DEF InstallSnapshot, Goto, CoreInv, InstallsLatest
    <3>3. refresh_generation' \in Nat
      BY <1>1, <2>8 DEF InstallSnapshot
    <3> QED
      BY <3>1, <3>2, <3>3 DEF AnalysisBegun, CurrentIsLatest
  <2>9. CASE ClearOld(t) \/ PublishNew(t) \/ ClearStale(t)
    <3>1. CASE \/ \E label : Leave(t, label) /\ label \in {"publish", "staleLog"}
               \/ /\ EndScan(t)
                  /\ UNCHANGED <<refresh_generation, live_snapshot, history>>
      BY <1>1, <2>9, <3>1, <2>1
         DEF Leave, EndScan, Goto, Quiet, ClearOld, PublishNew, ClearStale,
             InvalidatingPc, history
    <3>2. CASE /\ UNCHANGED <<pc, live_snapshot, refresh_generation, abandoned>>
               /\ \E uris : \/ local' = [local EXCEPT ![t].clear = uris]
                            \/ local' = [local EXCEPT ![t].publish = uris]
      <4>1. ASSUME NEW u \in Tasks
            PROVE  local'[u].generation = local[u].generation
        <5>1. PICK uris : \/ local' = [local EXCEPT ![t].clear = uris]
                          \/ local' = [local EXCEPT ![t].publish = uris]
          BY <3>2
        <5>2. local[u] \in Local
          BY <1>1
        <5>3. \/ local'[u] = local[u]
              \/ local'[u] = [local[u] EXCEPT !.clear = uris]
              \/ local'[u] = [local[u] EXCEPT !.publish = uris]
          BY <1>1, <5>1
        <5> QED
          BY <5>2, <5>3 DEF Local
      <4> QED
        BY <3>2, <4>1
           DEF CoreInv, InstallsLatest, AnalysisBegun, CurrentIsLatest,
               Invalidating
    <3> QED
      BY <2>9, <3>1, <3>2 DEF ClearOld, PublishNew, ClearStale, Publish, history
  <2>10. CASE Cancel(t)
    <3>1. InstallsLatest'
      BY <1>1, <2>10 DEF Cancel, Return, Goto, CoreInv, InstallsLatest
    <3>2. Invalidating => Invalidating'
      BY <1>1, <2>10 DEF Cancel, Return, Goto, Invalidating
    <3> QED
      BY <2>10, <3>1, <3>2 DEF Cancel, CoreInv, AnalysisBegun, CurrentIsLatest
  <2> QED
    BY <1>3, <2>1, <2>2, <2>3, <2>4, <2>5, <2>6, <2>7, <2>8, <2>9, <2>10,
       QuietSteps
       DEF Handle, Scan, Stale, BeginRefresh, BeginStale, InvalidatingPc
<1> QED
  BY <1>2, <1>3 DEF Next

LEMMA InitCore == Init => CoreInv
<1>1. Init => InstallsLatest /\ AnalysisBegun /\ CurrentIsLatest
  BY DEF Init, InstallsLatest, AnalysisBegun, CurrentIsLatest, NoAnalysis
<1> QED
  BY <1>1, InitType, InitLocked DEF CoreInv

LEMMA NextCore == CoreInv /\ [Next]_vars => CoreInv'
<1> SUFFICES ASSUME CoreInv, [Next]_vars
             PROVE  CoreInv'
  OBVIOUS
<1>1. TypeOK'
  BY NextType DEF CoreInv
<1>2. GenerationLocked' /\ SingleScan'
  BY NextLocked DEF CoreInv
<1> QED
  BY <1>1, <1>2, NextCurrent DEF CoreInv

THEOREM CoreCorrect == Spec => []CoreInv
  BY InitCore, NextCore, PTL DEF Spec

\* The snapshot that code actions and commands use is the result of the newest
\* generation, but for the window between the two locks of begin_refresh.
THEOREM CurrentSnapshot == Spec => []CurrentIsLatest
<1>1. CoreInv => CurrentIsLatest
  BY DEF CoreInv
<1> QED
  BY <1>1, CoreCorrect, PTL

-----------------------------------------------------------------------------
(* The backend implements the snapshot cell.                               *)

LEMMA InitImplements == Init => Cell!Init
  BY DEF Init, Cell!Init, NoAnalysis

LEMMA StepImplements ==
  ASSUME CoreInv, [Next]_vars
  PROVE  [Cell!Next]_Cell!vars
<1>1. /\ refresh_generation \in Nat
      /\ live_snapshot \in Snapshot
  BY DEF CoreInv, TypeOK
<1>2. CASE UNCHANGED <<refresh_generation, live_snapshot>>
  BY <1>2 DEF Cell!vars
<1>3. ASSUME NEW t \in Tasks, Input(t) \/ Handle(t) \/ Cancel(t)
      PROVE  [Cell!Next]_Cell!vars
  <2>1. CASE Quiet(t)
    BY <1>2, <2>1 DEF Quiet
  <2>2. ASSUME NEW from, NEW to, BumpGeneration(t, from, to)
        PROVE  Cell!Supersede
    <3>1. live_snapshot.analysis # refresh_generation'
      BY <1>1, <2>2 DEF BumpGeneration, CoreInv, AnalysisBegun, Snapshot
    <3> QED
      BY <1>1, <2>2, <3>1 DEF BumpGeneration, Cell!Supersede
  <2>3. ASSUME NEW from, NEW to, InvalidateSnapshot(t, from, to)
        PROVE  Cell!Fail
    BY <1>1, <2>3 DEF InvalidateSnapshot, Cell!Fail, Snapshot
  <2>4. CASE MarkFailed(t)
    <3>1. Cell!Fail
      BY <1>1, <2>4 DEF MarkFailed, Cell!Fail, Snapshot
    <3> QED
      BY <3>1 DEF Cell!Next
  <2>5. CASE DropSnapshot(t)
    <3>1. Cell!Drop
      BY <1>1, <2>5 DEF DropSnapshot, Cell!Drop, NoAnalysis
    <3> QED
      BY <3>1 DEF Cell!Next
  <2>6. CASE InstallSnapshot(t)
    <3>1. local[t].generation = refresh_generation
      BY <2>6 DEF InstallSnapshot, CoreInv, InstallsLatest
    <3>2. Cell!Install
      BY <1>1, <2>6, <3>1 DEF InstallSnapshot, Cell!Install
    <3> QED
      BY <3>2 DEF Cell!Next
  <2>7. CASE \/ CheckGeneration(t) \/ InstallUris(t)
             \/ ClearOld(t) \/ PublishNew(t) \/ ClearStale(t) \/ Cancel(t)
    BY <1>2, <2>7
       DEF CheckGeneration, InstallUris, ClearOld, PublishNew, ClearStale,
           Publish, Leave, Cancel
  <2>8. BeginRefresh(t) \/ BeginStale(t) => Cell!Next
    BY <2>2, <2>3 DEF BeginRefresh, BeginStale, Cell!Next
  <2> QED
    BY <1>3, <2>1, <2>4, <2>5, <2>6, <2>7, <2>8, QuietSteps
       DEF Handle, Scan, Stale
<1> QED
  BY <1>2, <1>3 DEF Next, vars

\* The backend's generation counter and snapshot, behind their two mutexes,
\* behave as one cell in which only the newest generation's result is live.
THEOREM ImplementsCell == Spec => CellSpec
<1>1. CoreInv /\ [Next]_vars => [Cell!Next]_Cell!vars
  BY StepImplements
<1>2. Spec => Cell!Init /\ [][Cell!Next]_Cell!vars
  BY <1>1, InitImplements, CoreCorrect, PTL DEF Spec
<1> QED
  BY <1>2 DEF CellSpec, Cell!Spec

-----------------------------------------------------------------------------
(* The versions of displays.                                               *)

\* Where refresh_once has read the disk and may still publish what it found.
HasRead == {"analyzed", "install", "installUris", "installSnapshot", "clear", "publish"}

\* Versions are stamps of messages that were sent; the versions of a scan were
\* captured no later than its sources were read.
VersionInv ==
  /\ \A u \in Uri : documents[u] <= sent
  /\ \A t \in Tasks :
       /\ local[t].message <= sent
       /\ pc[t] = "analyze" => \A u \in Uri : local[t].versions[u] <= sent
       /\ pc[t] \in HasRead => \A u \in Uri : local[t].versions[u] <= local[t].readAt
  /\ VersionPrecedesRead

\* A step of handler t, as far as versions are concerned.
LEMMA VersionFrame ==
  ASSUME TypeOK, TypeOK', VersionInv, NEW t \in Tasks,
         sent <= sent',
         \A u \in Uri : documents'[u] <= sent',
         \A s \in Tasks \ {t} : pc'[s] = pc[s] /\ local'[s] = local[s],
         local'[t].message <= sent',
         pc'[t] = "analyze" => \A u \in Uri : local'[t].versions[u] <= sent',
         pc'[t] \in HasRead => \A u \in Uri : local'[t].versions[u] <= local'[t].readAt,
         VersionPrecedesRead'
  PROVE  VersionInv'
<1>1. sent \in Nat /\ sent' \in Nat
  BY ConfigAssumption DEF TypeOK, Stamp
<1>2. \A s \in Tasks : local[s] \in Local
  BY DEF TypeOK
<1>3. ASSUME NEW s \in Tasks \ {t}
      PROVE  /\ local'[s].message <= sent'
             /\ pc'[s] = "analyze" => \A u \in Uri : local'[s].versions[u] <= sent'
             /\ pc'[s] \in HasRead =>
                  \A u \in Uri : local'[s].versions[u] <= local'[s].readAt
  <2>1. local[s].message \in Nat /\ \A u \in Uri : local[s].versions[u] \in Nat
    BY <1>2, ConfigAssumption DEF Local, Stamp
  <2> QED BY <1>1, <1>3, <2>1 DEF VersionInv
<1> QED BY <1>3 DEF VersionInv

\* Most steps leave the editor, the documents and what a scan has read alone.
LEMMA VersionKept ==
  ASSUME TypeOK, TypeOK', VersionInv, NEW t \in Tasks,
         UNCHANGED <<sent, documents>>,
         \A u \in Uri : shown'[u] = shown[u] \/ shown'[u].analysis = NoAnalysis,
         \A s \in Tasks \ {t} : pc'[s] = pc[s] /\ local'[s] = local[s],
         local'[t].message \in {0, local[t].message},
         pc'[t] # "analyze",
         pc'[t] \in HasRead => /\ pc[t] \in HasRead
                               /\ local'[t].versions = local[t].versions
                               /\ local'[t].readAt = local[t].readAt
  PROVE  VersionInv'
<1>1. sent \in Nat
  BY ConfigAssumption DEF TypeOK, Stamp
<1>2. VersionPrecedesRead'
  BY DEF VersionInv, VersionPrecedesRead
<1>3. local'[t].message <= sent'
  BY <1>1 DEF VersionInv
<1>4. pc'[t] \in HasRead => \A u \in Uri : local'[t].versions[u] <= local'[t].readAt
  BY DEF VersionInv
<1>5. \A u \in Uri : documents'[u] <= sent'
  BY DEF VersionInv
<1> QED BY <1>1, <1>2, <1>3, <1>4, <1>5, VersionFrame

LEMMA VersionStep ==
  ASSUME TypeOK, VersionInv, [Next]_vars
  PROVE  VersionInv'
<1>1. /\ pc \in [Tasks -> Pc] /\ local \in [Tasks -> Local]
      /\ documents \in [Uri -> Stamp] /\ shown \in [Uri -> Display]
      /\ sent \in Nat /\ sent \in Stamp
  BY ConfigAssumption DEF TypeOK, Stamp
<1>2. TypeOK'
  BY NextType
<1>3. CASE UNCHANGED vars
  BY <1>3 DEF VersionInv, VersionPrecedesRead, vars, client
<1>4. ASSUME NEW t \in Tasks, Input(t) \/ Handle(t) \/ Cancel(t)
      PROVE  VersionInv'
  <2> DEFINE others == \A s \in Tasks \ {t} : pc'[s] = pc[s] /\ local'[s] = local[s]
  <2>0. local[t] \in Local
    BY <1>1
  <2>1. CASE Input(t)
    <3>1. PICK kind, label : Dispatch(t, kind, label) /\ label \notin HasRead \cup {"analyze"}
      BY <2>1 DEF Input, Receive, ReceiveRefresh, ReceiveSave, HasRead
    <3>2. sent' = sent + 1 /\ UNCHANGED <<documents, shown>> /\ others
      BY <1>1, <3>1 DEF Dispatch, Goto
    <3>3. pc'[t] = label
      BY <1>1, <3>1 DEF Dispatch, Goto
    <3>4. local'[t].message \in {0, sent'}
      BY <1>1, <2>0, <3>1 DEF Dispatch, Local
    <3>5. \A u \in Uri : documents'[u] <= sent'
      BY <1>1, <3>2, ConfigAssumption DEF VersionInv, Stamp
    <3>6. VersionPrecedesRead'
      BY <3>2 DEF VersionInv, VersionPrecedesRead
    <3> QED BY <1>1, <1>2, <3>1, <3>2, <3>3, <3>4, <3>5, <3>6, VersionFrame
  <2>2. CASE DidOpen(t) \/ DidChange(t) \/ DidClose(t)
    <3>1. PICK label : DocumentStep(t, label) /\ label \notin HasRead \cup {"analyze"}
      BY <2>2 DEF DidOpen, DidChange, DidClose, HasRead
    <3>2. UNCHANGED <<sent, shown>> /\ others /\ pc'[t] = label /\ local'[t] = NoLocal
      BY <1>1, <3>1 DEF DocumentStep, Goto, client
    <3>3. \A u \in Uri : documents'[u] \in {documents[u], local[t].message, Closed}
      BY <1>1, <2>2 DEF DidOpen, DidChange, DidClose
    <3>4. \A u \in Uri : documents'[u] <= sent'
      BY <1>1, <3>2, <3>3 DEF VersionInv, Closed
    <3>5. VersionPrecedesRead'
      BY <3>2 DEF VersionInv, VersionPrecedesRead
    <3>6. local'[t].message = 0
      BY <3>2 DEF NoLocal
    <3> QED BY <1>1, <1>2, <3>1, <3>2, <3>4, <3>5, <3>6, VersionFrame
  <2>3. CASE CaptureVersions(t)
    <3>1. /\ UNCHANGED <<sent, documents, shown>> /\ others /\ pc'[t] = "analyze"
          /\ local'[t].versions = documents /\ local'[t].message = local[t].message
      BY <1>1, <2>0, <2>3 DEF CaptureVersions, ScanStep, Goto, client, Local
    <3>2. VersionPrecedesRead'
      BY <3>1 DEF VersionInv, VersionPrecedesRead
    <3> QED BY <1>1, <1>2, <3>1, <3>2, VersionFrame DEF VersionInv, HasRead
  <2>4. CASE Analyze(t)
    <3>1. /\ UNCHANGED <<sent, documents, shown>> /\ others
          /\ pc[t] = "analyze" /\ pc'[t] = "analyzed"
      BY <1>1, <2>4 DEF Analyze, ScanStep, Goto, client
    <3>2. /\ local'[t].versions = local[t].versions /\ local'[t].message = local[t].message
          /\ local'[t].readAt = sent
      BY <1>1, <2>0, <2>4 DEF Analyze, Local
    <3>3. VersionPrecedesRead'
      BY <3>1 DEF VersionInv, VersionPrecedesRead
    <3> QED BY <1>1, <1>2, <3>1, <3>2, <3>3, VersionFrame DEF VersionInv
  <2>5. CASE PublishNew(t) /\ \E u \in local[t].publish : UNCHANGED pc
    <3>1. PICK u \in local[t].publish :
            /\ Publish(t, u, [analysis |-> local[t].generation,
                              version  |-> local[t].versions[u],
                              readAt   |-> local[t].readAt])
            /\ local' = [local EXCEPT ![t].publish = @ \ {u}]
      BY <1>1, <2>5 DEF PublishNew, EndScan, Goto
    <3>2. /\ UNCHANGED <<sent, documents, pc>> /\ others /\ pc[t] = "publish"
          /\ local'[t].versions = local[t].versions /\ local'[t].message = local[t].message
          /\ local'[t].readAt = local[t].readAt
      BY <1>1, <2>0, <2>5, <3>1 DEF Publish, PublishNew, Local
    <3>3. \A v \in Uri : local[t].versions[v] <= local[t].readAt
      BY <3>2 DEF VersionInv, HasRead
    <3>4. VersionPrecedesRead'
      BY <1>1, <3>1, <3>3 DEF Publish, VersionInv, VersionPrecedesRead
    <3> QED BY <1>1, <1>2, <3>2, <3>3, <3>4, VersionFrame DEF VersionInv
  <2>6. CASE \/ TryRefresh(t) \/ SetPending(t) \/ Rerun(t) \/ ReadDiff(t) \/ Joined(t)
             \/ MarkFailed(t) \/ ShowFailed(t)
    <3>1. /\ UNCHANGED <<sent, documents, shown>> /\ others
          /\ local'[t] \in {local[t], NoLocal, [NoLocal EXCEPT !.request = local[t].request]}
      BY <1>1, <2>6
         DEF TryRefresh, SetPending, Rerun, ReadDiff, Joined, MarkFailed, ShowFailed,
             ScanStep, Return, EndScan, Goto, client
    <3>2. pc'[t] # "analyze" /\ (pc'[t] \in HasRead => pc[t] \in HasRead /\ local'[t] = local[t])
      BY <1>1, <2>6
         DEF TryRefresh, SetPending, Rerun, ReadDiff, Joined, MarkFailed, ShowFailed,
             ScanStep, Return, EndScan, Goto, HasRead
    <3>3. local'[t].message \in {0, local[t].message}
      BY <3>1 DEF NoLocal
    <3> QED BY <1>2, <3>1, <3>2, <3>3, VersionKept
  <2>7. CASE BeginRefresh(t) \/ BeginStale(t)
    <3>1. /\ UNCHANGED <<sent, documents, shown>> /\ others
          /\ local'[t].message = local[t].message
      BY <1>1, <2>0, <2>7
         DEF BeginRefresh, BeginStale, BumpGeneration, InvalidateSnapshot, Goto, client, Local
    <3>2. pc'[t] \notin HasRead \cup {"analyze"}
      BY <1>1, <2>7
         DEF BeginRefresh, BeginStale, BumpGeneration, InvalidateSnapshot, Goto, HasRead
    <3> QED BY <1>2, <3>1, <3>2, VersionKept
  <2>8. CASE CheckGeneration(t) \/ InstallUris(t) \/ InstallSnapshot(t)
    <3>1. /\ UNCHANGED <<sent, documents, shown>> /\ others
          /\ pc[t] \in HasRead /\ pc'[t] # "analyze"
      BY <1>1, <2>8
         DEF CheckGeneration, InstallUris, InstallSnapshot, EndScan, Goto, client, HasRead
    <3>2. \/ pc'[t] = "rerun" /\ local'[t].message = 0
          \/ /\ local'[t].versions = local[t].versions /\ local'[t].readAt = local[t].readAt
             /\ local'[t].message = local[t].message
      BY <1>1, <2>0, <2>8
         DEF CheckGeneration, InstallUris, InstallSnapshot, EndScan, Goto, Local, NoLocal
    <3> QED BY <1>2, <3>1, <3>2, VersionKept DEF HasRead
  <2>9. CASE \/ ClearOld(t) \/ ClearStale(t)
             \/ PublishNew(t) /\ EndScan(t) /\ UNCHANGED <<client, documents>>
    <3>1. /\ UNCHANGED <<sent, documents>> /\ others
          /\ \A u \in Uri : shown'[u] = shown[u] \/ shown'[u].analysis = NoAnalysis
      BY <1>1, <2>9
         DEF ClearOld, ClearStale, EndScan, Publish, Leave, Goto, client, Cleared
    <3>2. \/ pc'[t] \notin HasRead \cup {"analyze"} /\ local'[t].message \in {0, local[t].message}
          \/ /\ pc[t] = "clear" /\ pc'[t] \in {"clear", "publish"}
             /\ local'[t].versions = local[t].versions /\ local'[t].readAt = local[t].readAt
             /\ local'[t].message = local[t].message
      BY <1>1, <2>0, <2>9
         DEF ClearOld, ClearStale, EndScan, Publish, Leave, Goto, Local, NoLocal, HasRead
    <3> QED BY <1>2, <3>1, <3>2, VersionKept DEF HasRead
  <2>10. CASE \/ TakeStaleUris(t) \/ DropSnapshot(t) \/ LogStale(t)
              \/ ReadActions(t) \/ ReplyActions(t) \/ Command(t) \/ Cancel(t)
    <3>1. UNCHANGED <<sent, documents, shown>> /\ others
      BY <1>1, <2>10
         DEF TakeStaleUris, DropSnapshot, LogStale, ReadActions, ReplyActions, Command,
             Cancel, Return, Goto, client
    <3>2. pc'[t] \notin HasRead \cup {"analyze"}
      BY <1>1, <2>10
         DEF TakeStaleUris, DropSnapshot, LogStale, ReadActions, ReplyActions, Command,
             Cancel, Return, Goto, HasRead
    <3>3. local'[t].message \in {0, local[t].message}
      BY <1>1, <2>0, <2>10
         DEF TakeStaleUris, DropSnapshot, LogStale, ReadActions, ReplyActions, Command,
             Cancel, Return, Local, NoLocal
    <3> QED BY <1>2, <3>1, <3>2, <3>3, VersionKept
  <2>11. PublishNew(t) => \/ \E u \in local[t].publish : UNCHANGED pc
                          \/ EndScan(t) /\ UNCHANGED <<client, documents>>
    BY DEF PublishNew, Publish
  <2> QED
    BY <1>4, <2>1, <2>2, <2>3, <2>4, <2>5, <2>6, <2>7, <2>8, <2>9, <2>10, <2>11
    DEF Handle, Scan, Stale
<1> QED BY <1>3, <1>4 DEF Next

\* refresh_once labels what it publishes with the versions that documents had
\* before their saved sources were read, however edits and scans interleave.
THEOREM LabelsNotNewer == Spec => []VersionPrecedesRead
<1>1. Init => VersionInv
  BY DEF Init, VersionInv, VersionPrecedesRead, NoLocal, Cleared, Closed, HasRead
<1>2. TypeOK /\ VersionInv /\ [Next]_vars => VersionInv'
  BY VersionStep
<1>3. VersionInv => VersionPrecedesRead
  BY DEF VersionInv
<1> QED
  BY <1>1, <1>2, <1>3, TypeCorrect, PTL DEF Spec

-----------------------------------------------------------------------------
(* Who still has to tell the editor.                                       *)

\* Where refresh_once has begun a generation and not installed it.
Begun == {"beginSnapshot", "diff", "versions", "analyze", "analyzed", "install",
          "installUris", "installSnapshot"}

\* Handlers that will tell, or else install a result.
WillTell(t) ==
  \/ pc[t] \in (StalePc \ {"staleBegin"}) \cup {"failed", "failedShow"}
  \/ pc[t] \in Begun /\ local[t].generation = refresh_generation

\* Whoever ends the currency of a snapshot has bumped the generation, so that
\* only a newer handler can keep it from telling, and that one will.
TellInv ==
  /\ \A t \in Tasks : pc[t] \in InvalidatingPc => local[t].generation = refresh_generation
  /\ refresh_generation > 0 /\ ~live_snapshot.current /\ ~told =>
       \E t \in Tasks : WillTell(t)

\* A step of handler t that leaves what was told and the snapshot's currency
\* alone, or tells, and does not give up its own duty.
LEMMA TellFrame ==
  ASSUME TypeOK, TellInv, NEW t \in Tasks,
         \A s \in Tasks \ {t} : pc'[s] = pc[s] /\ local'[s] = local[s],
         refresh_generation' = refresh_generation,
         live_snapshot'.current = live_snapshot.current \/ live_snapshot'.current,
         told' = told \/ told' = TRUE,
         pc'[t] \in InvalidatingPc => pc[t] \in InvalidatingPc /\ local'[t] = local[t],
         WillTell(t) => WillTell(t)' \/ told' = TRUE \/ live_snapshot'.current
  PROVE  TellInv'
<1>1. told \in BOOLEAN /\ live_snapshot.current \in BOOLEAN
  BY DEF TypeOK, Snapshot
<1>2. \A s \in Tasks \ {t} : WillTell(s) => WillTell(s)'
  BY DEF WillTell
<1>3. \A s \in Tasks : pc'[s] \in InvalidatingPc => local'[s].generation = refresh_generation'
  BY DEF TellInv
<1>4. ASSUME refresh_generation' > 0, ~live_snapshot'.current, ~told'
      PROVE  \E s \in Tasks : WillTell(s)'
  <2>1. ~live_snapshot.current
    BY <1>4
  <2>2. ~told
    <3>1. told' = told
      BY <1>4, Zenon
    <3> QED BY <1>4, <3>1, Zenon
  <2>3. PICK s \in Tasks : WillTell(s)
    BY <1>4, <2>1, <2>2 DEF TellInv
  <2> QED
    BY <1>2, <1>4, <2>3
<1> QED BY <1>3, <1>4 DEF TellInv

\* Who bumps the generation or ends the currency will tell.
LEMMA TellTaken ==
  ASSUME NEW t \in Tasks, WillTell(t)',
         \A s \in Tasks : pc'[s] \in InvalidatingPc => local'[s].generation = refresh_generation'
  PROVE  TellInv'
BY DEF TellInv

LEMMA TellStep ==
  ASSUME ~MayCancel, CoreInv, TellInv, [Next]_vars
  PROVE  TellInv'
<1>1. /\ pc \in [Tasks -> Pc] /\ local \in [Tasks -> Local]
      /\ live_snapshot \in Snapshot /\ told \in BOOLEAN /\ refresh_generation \in Nat
      /\ TypeOK
  BY DEF CoreInv, TypeOK
<1>2. CASE UNCHANGED vars
  BY <1>2 DEF TellInv, WillTell, vars, history
<1>3. ASSUME NEW t \in Tasks, Input(t) \/ Handle(t) \/ Cancel(t)
      PROVE  TellInv'
  <2> DEFINE others == \A s \in Tasks \ {t} : pc'[s] = pc[s] /\ local'[s] = local[s]
             same == UNCHANGED <<refresh_generation, live_snapshot, told>>
  <2>0. local[t] \in Local
    BY <1>1
  <2>1. CASE \/ Input(t) \/ DidOpen(t) \/ DidChange(t) \/ DidClose(t)
             \/ TryRefresh(t) \/ SetPending(t) \/ Rerun(t)
             \/ ReadActions(t) \/ ReplyActions(t) \/ Command(t)
    <3>1. others /\ same
      BY <1>1, <2>1
         DEF Input, Receive, ReceiveRefresh, ReceiveSave, Dispatch, DidOpen, DidChange,
             DidClose, DocumentStep, TryRefresh, SetPending, Rerun, ReadActions,
             ReplyActions, Command, Return, Goto, history
    <3>2. ~WillTell(t) /\ pc'[t] \notin InvalidatingPc
      BY <1>1, <2>1
         DEF Input, Receive, ReceiveRefresh, ReceiveSave, Dispatch, DidOpen, DidChange,
             DidClose, DocumentStep, TryRefresh, SetPending, Rerun, ReadActions,
             ReplyActions, Command, Return, Goto, WillTell, Begun, StalePc, InvalidatingPc
    <3> QED BY <1>1, <3>1, <3>2, TellFrame
  <2>2. CASE \/ ReadDiff(t) \/ CaptureVersions(t) \/ Analyze(t) \/ Joined(t)
             \/ InstallUris(t)
    <3>1. others /\ same /\ local'[t].generation = local[t].generation
      BY <1>1, <2>0, <2>2
         DEF ReadDiff, CaptureVersions, Analyze, Joined, InstallUris, ScanStep, Goto,
             history, Local
    <3>2. /\ pc[t] \in Begun /\ pc[t] \notin StalePc \cup {"failed", "failedShow"}
          /\ pc'[t] \in Begun \cup {"failed"} /\ pc'[t] \notin InvalidatingPc
      BY <1>1, <2>2
         DEF ReadDiff, CaptureVersions, Analyze, Joined, InstallUris, ScanStep, Goto,
             Begun, StalePc, InvalidatingPc
    <3>3. WillTell(t) => WillTell(t)'
      BY <3>1, <3>2 DEF WillTell
    <3> QED BY <1>1, <3>1, <3>2, <3>3, TellFrame
  <2>3. CASE BumpGeneration(t, "begin", "beginSnapshot")
             \/ BumpGeneration(t, "staleBegin", "staleBeginSnapshot")
    <3>1. others /\ local'[t].generation = refresh_generation'
      BY <1>1, <2>0, <2>3 DEF BumpGeneration, Goto, Local
    <3>2. pc'[t] \in InvalidatingPc
      BY <1>1, <2>3 DEF BumpGeneration, Goto, InvalidatingPc
    <3>3. WillTell(t)'
      BY <3>1, <3>2 DEF WillTell, Begun, StalePc, InvalidatingPc
    <3>4. \A s \in Tasks : pc[s] \notin InvalidatingPc
      BY <2>3, ConfigAssumption DEF BumpGeneration, CoreInv, GenerationLocked, GenerationPc
    <3> QED BY <3>1, <3>3, <3>4, TellTaken
  <2>4. CASE InvalidateSnapshot(t, "beginSnapshot", "diff")
             \/ InvalidateSnapshot(t, "staleBeginSnapshot", "staleTake")
    <3>1. others /\ UNCHANGED <<local, refresh_generation>>
      BY <1>1, <2>4 DEF InvalidateSnapshot, Goto
    <3>2. pc[t] \in InvalidatingPc /\ pc'[t] \in {"diff", "staleTake"}
      BY <1>1, <2>4 DEF InvalidateSnapshot, Goto, InvalidatingPc
    <3>3. WillTell(t)'
      BY <3>1, <3>2 DEF TellInv, WillTell, Begun, StalePc
    <3>4. \A s \in Tasks : pc'[s] \in InvalidatingPc => local'[s].generation = refresh_generation'
      BY <3>1, <3>2 DEF TellInv, InvalidatingPc
    <3> QED BY <3>3, <3>4, TellTaken
  <2>5. CASE MarkFailed(t) \/ TakeStaleUris(t) \/ DropSnapshot(t)
    <3>1. /\ others /\ refresh_generation' = refresh_generation
          /\ pc'[t] \in {"failedShow", "staleSnapshot", "staleClear"}
      BY <1>1, <2>5 DEF MarkFailed, TakeStaleUris, DropSnapshot, Goto
    <3>2. WillTell(t)'
      BY <3>1 DEF WillTell, StalePc
    <3>3. \A s \in Tasks : pc'[s] \in InvalidatingPc => local'[s].generation = refresh_generation'
      BY <3>1 DEF TellInv, InvalidatingPc
    <3> QED BY <3>2, <3>3, TellTaken
  <2>6. CASE ShowFailed(t) \/ LogStale(t)
    <3>1. others /\ UNCHANGED <<refresh_generation, live_snapshot>> /\ told' = TRUE
      BY <1>1, <2>6 DEF ShowFailed, LogStale, EndScan, Return, Goto
    <3>2. pc'[t] \notin InvalidatingPc
      BY <1>1, <2>6 DEF ShowFailed, LogStale, EndScan, Return, Goto, InvalidatingPc
    <3> QED BY <1>1, <3>1, <3>2, TellFrame
  <2>7. CASE CheckGeneration(t)
    <3>1. others /\ same /\ pc[t] = "install"
      BY <1>1, <2>7 DEF CheckGeneration, EndScan, Goto, history
    <3>2. \/ /\ local[t].generation = refresh_generation
             /\ pc'[t] = "installUris" /\ local'[t] = local[t]
          \/ local[t].generation # refresh_generation /\ pc'[t] = "rerun"
      BY <1>1, <2>7 DEF CheckGeneration, EndScan, Goto
    <3>3. WillTell(t) => WillTell(t)'
      BY <3>1, <3>2 DEF WillTell, Begun, StalePc
    <3> QED BY <1>1, <3>1, <3>2, <3>3, TellFrame DEF InvalidatingPc
  <2>8. CASE InstallSnapshot(t)
    <3>1. others /\ refresh_generation' = refresh_generation /\ live_snapshot'.current
      BY <1>1, <2>8 DEF InstallSnapshot, Goto
    <3>2. pc'[t] = "clear"
      BY <1>1, <2>8 DEF InstallSnapshot, Goto
    <3>3. \A s \in Tasks : pc'[s] \in InvalidatingPc => local'[s].generation = refresh_generation'
      BY <3>1, <3>2 DEF TellInv, InvalidatingPc
    <3> QED BY <3>1, <3>3 DEF TellInv
  <2>9. CASE ClearOld(t) \/ PublishNew(t)
    <3>1. others /\ same
      BY <1>1, <2>9 DEF ClearOld, PublishNew, EndScan, Publish, Leave, Goto, history
    <3>2. pc[t] \in {"clear", "publish"} /\ pc'[t] \in {"clear", "publish", "rerun"}
      BY <1>1, <2>9 DEF ClearOld, PublishNew, EndScan, Publish, Leave, Goto
    <3>3. ~WillTell(t) /\ pc'[t] \notin InvalidatingPc
      BY <3>2 DEF WillTell, Begun, StalePc, InvalidatingPc
    <3> QED BY <1>1, <3>1, <3>3, TellFrame
  <2>10. CASE ClearStale(t)
    <3>1. others /\ same
      BY <1>1, <2>10 DEF ClearStale, Publish, Leave, Goto, history
    <3>2. pc'[t] \in {"staleClear", "staleLog"}
      BY <1>1, <2>10 DEF ClearStale, Publish, Leave, Goto
    <3>3. WillTell(t)' /\ pc'[t] \notin InvalidatingPc
      BY <3>2 DEF WillTell, StalePc, InvalidatingPc
    <3> QED BY <1>1, <3>1, <3>3, TellFrame
  <2>11. ~Cancel(t)
    BY DEF Cancel
  <2> QED
    BY <1>3, <2>1, <2>2, <2>3, <2>4, <2>5, <2>6, <2>7, <2>8, <2>9, <2>10, <2>11
    DEF Handle, Scan, Stale, BeginRefresh, BeginStale
<1> QED BY <1>2, <1>3 DEF Next

\* A refresh that fails or is superseded never looks like a clean one: when
\* nothing runs, a backend without a current snapshot has said so, whichever
\* handlers overtook each other (mark_diagnostics_failed, mark_diagnostics_stale).
\* A request that is cancelled says nothing, so that none is here.
THEOREM StalenessTold == ~MayCancel => (Spec => []StalenessIsTold)
<1> SUFFICES ASSUME ~MayCancel PROVE Spec => []StalenessIsTold
  OBVIOUS
<1>1. Init => TellInv
  BY DEF Init, TellInv, InvalidatingPc
<1>2. CoreInv /\ TellInv /\ [Next]_vars => TellInv'
  BY TellStep
<1>3. TellInv => StalenessIsTold
  BY DEF TellInv, StalenessIsTold, Quiescent, WillTell, StalePc, Begun
<1> QED
  BY <1>1, <1>2, <1>3, CoreCorrect, PTL DEF Spec

-----------------------------------------------------------------------------
(* What the editor shows.                                                  *)

\* No handler marks diagnostics stale.
OnlyRefreshes == ~MayCancel /\ Messages \cap {"change", "close"} = {}

Agrees(u) ==
  shown[u].analysis = IF u \in live_snapshot.diagnostics THEN live_snapshot.analysis
                                                         ELSE NoAnalysis

\* A handler on its way from the URIs to the last publication accounts for
\* every URI at which editor and snapshot differ.
DisplayInv ==
  /\ \A t \in Tasks : pc[t] \notin StalePc \cup {"change", "close"}
  /\ (\A t \in Tasks : pc[t] # "installSnapshot") =>
       last_diagnostic_uris = live_snapshot.diagnostics
  /\ (\A t \in Tasks : pc[t] \notin {"clear", "publish"}) => \A u \in Uri : Agrees(u)
  /\ \A t \in Tasks :
       /\ pc[t] = "installSnapshot" =>
            /\ last_diagnostic_uris = local[t].uris
            /\ local[t].publish = local[t].uris
            /\ local[t].clear = live_snapshot.diagnostics \ local[t].uris
       /\ pc[t] \in {"clear", "publish"} =>
            /\ local[t].generation = live_snapshot.analysis
            /\ local[t].publish \subseteq live_snapshot.diagnostics
            /\ local[t].clear \cap live_snapshot.diagnostics = {}
            /\ pc[t] = "publish" => local[t].clear = {}
            /\ \A u \in Uri \ (local[t].clear \cup local[t].publish) : Agrees(u)

\* Steps that change neither what is shown nor what there is to show, and are
\* not between the URIs and the last publication.
LEMMA DisplayQuiet ==
  ASSUME TypeOK, DisplayInv, NEW t \in Tasks,
         UNCHANGED <<shown, last_diagnostic_uris>>,
         live_snapshot'.analysis = live_snapshot.analysis,
         live_snapshot'.diagnostics = live_snapshot.diagnostics,
         \A s \in Tasks \ {t} : pc'[s] = pc[s] /\ local'[s] = local[s],
         pc[t] \notin {"installSnapshot", "clear", "publish"},
         pc'[t] \notin {"installSnapshot", "clear", "publish", "change", "close"} \cup StalePc
  PROVE  DisplayInv'
BY DEF DisplayInv, Agrees

LEMMA DisplayStep ==
  ASSUME OnlyRefreshes, TypeOK, SingleScan, DisplayInv, [Next]_vars
  PROVE  DisplayInv'
<1>1. /\ pc \in [Tasks -> Pc] /\ local \in [Tasks -> Local]
      /\ shown \in [Uri -> Display] /\ live_snapshot \in Snapshot
  BY DEF TypeOK
<1>2. CASE UNCHANGED vars
  BY <1>2 DEF DisplayInv, Agrees, vars, client
<1>3. ASSUME NEW t \in Tasks, Input(t) \/ Handle(t) \/ Cancel(t)
      PROVE  DisplayInv'
  <2> DEFINE others == \A s \in Tasks \ {t} : pc'[s] = pc[s] /\ local'[s] = local[s]
             still == /\ UNCHANGED <<shown, last_diagnostic_uris>>
                      /\ live_snapshot'.analysis = live_snapshot.analysis
                      /\ live_snapshot'.diagnostics = live_snapshot.diagnostics
             busy == {"installSnapshot", "clear", "publish"}
             never == {"change", "close"} \cup StalePc
  <2>0. local[t] \in Local /\ pc[t] \notin never
    BY <1>1 DEF DisplayInv
  <2>1. CASE Input(t)
    <3>1. PICK kind \in Messages, label \in HandlerPc :
            Dispatch(t, kind, label) /\ label \notin {"change", "close"}
      BY <2>1 DEF Input, Receive, ReceiveRefresh, ReceiveSave, Dispatch, OnlyRefreshes, HandlerPc
    <3>2. still /\ others /\ pc[t] = "idle" /\ pc'[t] = label
      BY <1>1, <3>1 DEF Dispatch, Goto
    <3>3. label \notin busy \cup never
      BY <3>1 DEF HandlerPc, StalePc
    <3> QED BY <3>2, <3>3, DisplayQuiet
  <2>2. CASE \/ DidOpen(t) \/ TryRefresh(t) \/ SetPending(t) \/ Rerun(t) \/ ReadDiff(t)
             \/ CaptureVersions(t) \/ Analyze(t) \/ Joined(t) \/ ShowFailed(t)
    <3>1. still /\ others
      BY <1>1, <2>2
         DEF DidOpen, DocumentStep, TryRefresh, SetPending, Rerun, ReadDiff, CaptureVersions,
             Analyze, Joined, ShowFailed, ScanStep, Return, EndScan, Goto, client
    <3>2. pc[t] \notin busy /\ pc'[t] \notin busy \cup never
      BY <1>1, <2>2
         DEF DidOpen, DocumentStep, TryRefresh, SetPending, Rerun, ReadDiff, CaptureVersions,
             Analyze, Joined, ShowFailed, ScanStep, Return, EndScan, Goto, StalePc
    <3> QED BY <3>1, <3>2, DisplayQuiet
  <2>3. CASE BeginRefresh(t) \/ MarkFailed(t) \/ CheckGeneration(t)
    <3>1. still /\ others
      BY <1>1, <2>3
         DEF BeginRefresh, BumpGeneration, InvalidateSnapshot, MarkFailed, CheckGeneration,
             EndScan, Goto, client, Snapshot
    <3>2. pc[t] \notin busy /\ pc'[t] \notin busy \cup never
      BY <1>1, <2>3
         DEF BeginRefresh, BumpGeneration, InvalidateSnapshot, MarkFailed, CheckGeneration,
             EndScan, Goto, StalePc
    <3> QED BY <3>1, <3>2, DisplayQuiet
  <2>4. CASE ReadActions(t) \/ ReplyActions(t) \/ Command(t)
    <3>1. still /\ others
      BY <1>1, <2>4 DEF ReadActions, ReplyActions, Command, Return, Goto, client
    <3>2. pc[t] \notin busy /\ pc'[t] \notin busy \cup never
      BY <1>1, <2>4 DEF ReadActions, ReplyActions, Command, Return, Goto, StalePc
    <3> QED BY <3>1, <3>2, DisplayQuiet
  <2>5. ASSUME pc[t] \in RefreshPc
        PROVE  \A s \in Tasks \ {t} : pc[s] \notin busy
    BY <2>5 DEF SingleScan, RefreshPc
  <2>6. CASE InstallUris(t)
    <3>1. others /\ UNCHANGED <<shown, live_snapshot>> /\ last_diagnostic_uris' = local[t].uris
      BY <1>1, <2>6 DEF InstallUris, Goto, client
    <3>2. pc[t] = "installUris" /\ pc'[t] = "installSnapshot"
      BY <1>1, <2>6 DEF InstallUris, Goto
    <3>3. \A s \in Tasks \ {t} : pc[s] \notin busy
      BY <2>5, <3>2 DEF RefreshPc
    <3>4. last_diagnostic_uris = live_snapshot.diagnostics /\ \A u \in Uri : Agrees(u)
      BY <3>2, <3>3 DEF DisplayInv
    <3>5. /\ local'[t].uris = local[t].uris /\ local'[t].publish = local[t].uris
          /\ local'[t].clear = live_snapshot.diagnostics \ local[t].uris
      BY <1>1, <2>0, <2>6, <3>4 DEF InstallUris, Local
    <3> QED BY <2>0, <3>1, <3>2, <3>3, <3>4, <3>5 DEF DisplayInv, Agrees, StalePc
  <2>7. CASE InstallSnapshot(t)
    <3>1. others /\ UNCHANGED <<shown, last_diagnostic_uris>>
      BY <1>1, <2>7 DEF InstallSnapshot, Goto, client
    <3>2. pc[t] = "installSnapshot" /\ pc'[t] = "clear"
      BY <1>1, <2>7 DEF InstallSnapshot, Goto
    <3>3. \A s \in Tasks \ {t} : pc[s] \notin busy
      BY <2>5, <3>2 DEF RefreshPc
    <3>4. /\ live_snapshot'.analysis = local'[t].generation
          /\ live_snapshot'.diagnostics = local[t].uris
          /\ local'[t].publish = local[t].publish /\ local'[t].clear = local[t].clear
      BY <1>1, <2>0, <2>7 DEF InstallSnapshot, Local
    <3>5. /\ last_diagnostic_uris = local[t].uris /\ local[t].publish = local[t].uris
          /\ local[t].clear = live_snapshot.diagnostics \ local[t].uris
          /\ \A u \in Uri : Agrees(u)
      BY <3>2, <3>3 DEF DisplayInv
    <3>6. \A u \in Uri \ (local'[t].clear \cup local'[t].publish) : Agrees(u)'
      BY <3>1, <3>4, <3>5 DEF Agrees
    <3> QED BY <2>0, <3>1, <3>2, <3>3, <3>4, <3>5, <3>6 DEF DisplayInv, StalePc
  <2>8. CASE /\ ClearOld(t) \/ PublishNew(t)
             /\ \E u \in Uri : \E d : Publish(t, u, d)
    <3>1. /\ pc[t] \in {"clear", "publish"}
          /\ UNCHANGED <<pc, live_snapshot, last_diagnostic_uris>>
      BY <2>8 DEF ClearOld, PublishNew, Publish
    <3>2. \A s \in Tasks \ {t} : pc[s] \notin busy
      BY <2>5, <3>1 DEF RefreshPc
    <3>3. /\ local[t].generation = live_snapshot.analysis
          /\ local[t].publish \subseteq live_snapshot.diagnostics
          /\ local[t].clear \cap live_snapshot.diagnostics = {}
          /\ pc[t] = "publish" => local[t].clear = {}
          /\ \A u \in Uri \ (local[t].clear \cup local[t].publish) : Agrees(u)
      BY <3>1 DEF DisplayInv
    <3>4. CASE pc[t] = "clear"
      <4>1. PICK u \in local[t].clear :
              /\ Publish(t, u, Cleared(local[t].versions[u]))
              /\ local' = [local EXCEPT ![t].clear = @ \ {u}]
        BY <1>1, <2>8, <3>4 DEF ClearOld, PublishNew, Leave, Goto, Publish
      <4>2. /\ others /\ local'[t].clear = local[t].clear \ {u}
            /\ local'[t].publish = local[t].publish
            /\ local'[t].generation = local[t].generation
        BY <1>1, <2>0, <3>1, <4>1 DEF Local
      <4>3. /\ u \in Uri /\ shown'[u].analysis = NoAnalysis
            /\ \A v \in Uri \ {u} : shown'[v] = shown[v]
        BY <1>1, <2>0, <4>1 DEF Publish, Cleared, Local
      <4>4. \A v \in Uri \ (local'[t].clear \cup local'[t].publish) : Agrees(v)'
        BY <3>1, <3>3, <4>1, <4>2, <4>3 DEF Agrees
      <4> QED BY <3>1, <3>2, <3>3, <3>4, <4>2, <4>4 DEF DisplayInv
    <3>5. CASE pc[t] = "publish"
      <4>1. PICK u \in local[t].publish :
              /\ Publish(t, u, [analysis |-> local[t].generation,
                                version  |-> local[t].versions[u],
                                readAt   |-> local[t].readAt])
              /\ local' = [local EXCEPT ![t].publish = @ \ {u}]
        BY <1>1, <2>8, <3>5 DEF ClearOld, PublishNew, EndScan, Goto, Publish
      <4>2. /\ others /\ local'[t].clear = local[t].clear
            /\ local'[t].publish = local[t].publish \ {u}
            /\ local'[t].generation = local[t].generation
        BY <1>1, <2>0, <3>1, <4>1 DEF Local
      <4>3. /\ u \in Uri /\ shown'[u].analysis = local[t].generation
            /\ \A v \in Uri \ {u} : shown'[v] = shown[v]
        BY <1>1, <2>0, <4>1 DEF Publish, Local
      <4>4. \A v \in Uri \ (local'[t].clear \cup local'[t].publish) : Agrees(v)'
        BY <3>1, <3>3, <4>1, <4>2, <4>3 DEF Agrees
      <4> QED BY <3>1, <3>2, <3>3, <3>5, <4>2, <4>4 DEF DisplayInv
    <3> QED BY <3>1, <3>4, <3>5
  <2>9. CASE ClearOld(t) /\ Leave(t, "publish")
    <3>1. others /\ UNCHANGED <<local, shown, live_snapshot, last_diagnostic_uris>>
      BY <1>1, <2>9 DEF Leave, Goto, client
    <3>2. pc[t] = "clear" /\ pc'[t] = "publish" /\ local[t].clear = {}
      BY <1>1, <2>9 DEF ClearOld, Leave, Goto, Publish
    <3>3. \A s \in Tasks \ {t} : pc[s] \notin busy
      BY <2>5, <3>2 DEF RefreshPc
    <3> QED BY <2>0, <3>1, <3>2, <3>3 DEF DisplayInv, Agrees, StalePc
  <2>10. CASE PublishNew(t) /\ EndScan(t)
    <3>1. others /\ UNCHANGED <<shown, live_snapshot, last_diagnostic_uris>>
      BY <1>1, <2>10 DEF PublishNew, EndScan, Publish, Goto, client
    <3>2. pc[t] = "publish" /\ pc'[t] = "rerun" /\ local[t].publish = {}
      BY <1>1, <2>10 DEF PublishNew, EndScan, Goto, Publish
    <3>3. \A s \in Tasks \ {t} : pc[s] \notin busy
      BY <2>5, <3>2 DEF RefreshPc
    <3>4. \A u \in Uri : Agrees(u)
      BY <3>2 DEF DisplayInv
    <3>5. last_diagnostic_uris = live_snapshot.diagnostics
      BY <3>2, <3>3 DEF DisplayInv
    <3> QED BY <2>0, <3>1, <3>2, <3>3, <3>4, <3>5 DEF DisplayInv, Agrees, StalePc
  <2>11. ~(DidChange(t) \/ DidClose(t) \/ Stale(t) \/ Cancel(t))
    BY <2>0
    DEF DidChange, DidClose, Stale, BeginStale, BumpGeneration, InvalidateSnapshot,
        TakeStaleUris, DropSnapshot, ClearStale, LogStale, Cancel, OnlyRefreshes, StalePc
  <2>12. ClearOld(t) => (\E u \in Uri : \E d : Publish(t, u, d)) \/ Leave(t, "publish")
    BY <2>0 DEF ClearOld, Local
  <2>13. PublishNew(t) => (\E u \in Uri : \E d : Publish(t, u, d)) \/ EndScan(t)
    BY <2>0 DEF PublishNew, Local
  <2> QED
    BY <1>3, <2>1, <2>2, <2>3, <2>4, <2>6, <2>7, <2>8, <2>9, <2>10, <2>11, <2>12, <2>13
    DEF Handle, Scan
<1> QED BY <1>2, <1>3 DEF Next

\* install_refresh_result and the publications of refresh_once: when nothing
\* runs, the editor shows exactly the diagnostics of the snapshot.  Handlers
\* that mark diagnostics stale publish outside of refresh_in_flight, and a
\* cancelled refresh stops in the middle: neither is here.
THEOREM EditorAgrees == OnlyRefreshes => (Spec => []EditorMatchesSnapshot)
<1> SUFFICES ASSUME OnlyRefreshes PROVE Spec => []EditorMatchesSnapshot
  OBVIOUS
<1>1. Init => DisplayInv
  BY DEF Init, DisplayInv, Agrees, Cleared, StalePc
<1>2. CoreInv /\ DisplayInv /\ [Next]_vars => DisplayInv'
  BY DisplayStep DEF CoreInv
<1>3. DisplayInv => EditorMatchesSnapshot
  BY DEF DisplayInv, EditorMatchesSnapshot, Quiescent, Agrees
<1> QED
  BY <1>1, <1>2, <1>3, CoreCorrect, PTL DEF Spec

-----------------------------------------------------------------------------
(* Commands.                                                               *)

\* execute_card_command runs on the analysis it was offered for, which is the
\* newest, but for the window between the two locks of begin_refresh.
THEOREM LatestCommand == Spec => CommandOnLatest
<1> DEFINE step == \A t \in Tasks : Answered(t, "ok") =>
                     /\ answer'.analysis = live_snapshot.analysis
                     /\ answer'.analysis = refresh_generation \/ Invalidating
<1>1. ASSUME CoreInv, Next, NEW t \in Tasks, Answered(t, "ok")
      PROVE  /\ answer'.analysis = live_snapshot.analysis
             /\ answer'.analysis = refresh_generation \/ Invalidating
  <2>1. /\ pc \in [Tasks -> Pc] /\ live_snapshot.current \in BOOLEAN
    BY <1>1 DEF CoreInv, TypeOK, Snapshot
  <2>2. pc[t] = "command" /\ pc'[t] = "idle" /\ answer'.code = "ok"
    BY <1>1 DEF Answered
  <2>3. PICK s \in Tasks : Input(s) \/ Handle(s) \/ Cancel(s)
    BY <1>1 DEF Next
  <2>4. CASE Command(s)
    <3>1. PICK id : answer' = [code |-> CommandAnswer(id), analysis |-> id]
      BY <2>4 DEF Command
    <3>2. live_snapshot.current /\ id = live_snapshot.analysis
      BY <2>2, <3>1 DEF CommandAnswer
    <3> QED BY <1>1, <3>1, <3>2 DEF CoreInv, CurrentIsLatest
  <2>5. CASE Cancel(s)
    BY <2>2, <2>5 DEF Cancel, NoAnswer
  <2>6. CASE (Input(s) \/ Handle(s)) /\ ~Command(s)
    <3>1. \E label : Goto(s, label) \/ UNCHANGED pc
      BY <2>6
      DEF Input, Receive, ReceiveRefresh, ReceiveSave, Dispatch, Handle, DidOpen, DidChange,
          DidClose, DocumentStep, TryRefresh, SetPending, Rerun, Scan, BeginRefresh,
          BumpGeneration, InvalidateSnapshot, ReadDiff, CaptureVersions, Analyze, Joined,
          MarkFailed, ShowFailed, CheckGeneration, InstallUris, InstallSnapshot, ClearOld,
          PublishNew, Stale, BeginStale, TakeStaleUris, DropSnapshot, ClearStale, LogStale,
          ReadActions, ReplyActions, Return, EndScan, Publish, Leave
    <3>2. s = t
      BY <2>1, <2>2, <3>1 DEF Goto
    <3> QED
      BY <2>2, <2>6, <3>2
      DEF Input, Receive, ReceiveRefresh, ReceiveSave, Dispatch, Handle, DidOpen, DidChange,
          DidClose, TryRefresh, SetPending, Rerun, Scan, BeginRefresh,
          BumpGeneration, InvalidateSnapshot, ReadDiff, CaptureVersions, Analyze, Joined,
          MarkFailed, ShowFailed, CheckGeneration, InstallUris, InstallSnapshot, ClearOld,
          PublishNew, Stale, BeginStale, TakeStaleUris, DropSnapshot, ClearStale, LogStale,
          ReadActions, ReplyActions, ScanStep
  <2> QED BY <2>3, <2>4, <2>5, <2>6
<1>2. CoreInv /\ [Next]_vars => [step]_vars
  BY <1>1
<1>3. Spec => [][step]_vars
  BY <1>2, CoreCorrect, PTL DEF Spec
<1> QED BY <1>3 DEF CommandOnLatest

=============================================================================
