------------------------------ MODULE RepoScan ------------------------------
(***************************************************************************)
(* unsafe-review repo --out: one process after another scans a project and *)
(* keeps four files beside each other, the report <out>, the status        *)
(* sidecar <out>.status.json, the partial report <out>.partial and the     *)
(* gate manifest.  Inside a process the main thread reports every scan     *)
(* event, and a second thread waits for SIGTERM or SIGINT, writes what it  *)
(* finds and ends the process.  Any write may fail, and a process may be   *)
(* killed.                                                                 *)
(*                                                                         *)
(* fs::write is two steps: the file is created or truncated, then the text *)
(* is written through the handle, which follows the file when it is        *)
(* renamed.  Two threads that have one file open may leave a mixture.      *)
(***************************************************************************)
EXTENDS Naturals

CONSTANTS
  Files,      \* number of Rust files in scope
  MaxRuns,    \* bound on the number of processes
  MayFail,    \* whether the analysis and writes may fail
  MaySignal,  \* whether SIGTERM and SIGINT arrive
  MayKill     \* whether a process is killed (SIGKILL, power)

ASSUME ScanAssumption ==
  /\ Files \in Nat
  /\ MaxRuns \in Nat
  /\ {MayFail, MaySignal, MayKill} \subseteq BOOLEAN

VARIABLES
  \* main thread
  run,             \* number of the process that runs, or ran last
  pc,
  event,           \* the RepoScanEvent that is recorded, or was last
  hit_timeout,
  retained,        \* the partial path that repo_incomplete_error passes on
  result,          \* what main returns
  \* shared by the threads
  last_status, partial_output,
  status_locked,   \* main holds the lock of last_status across a write
  \* signal thread
  sig,
  seen,            \* the last_status and partial_output it cloned
  \* the file system
  disk,
  fd,              \* file a thread has open for writing
  \* what an observer knows of the process that ran last
  exit,
  fault            \* a write or rename of it failed

scan   == <<event, hit_timeout, last_status, partial_output>>
thread == <<sig, seen>>
saved  == <<disk, fd, fault>>
vars   == <<run, pc, event, hit_timeout, retained, result, last_status,
            partial_output, status_locked, sig, seen, disk, fd, exit,
            fault>>

-----------------------------------------------------------------------------
(* Events and statuses.                                                    *)

Kinds == {"discovering", "begin", "reading", "snapshot", "complete"}

\* count is the number of files found while discovering, and scanned later.
Event == [kind : Kinds, count : 0..Files, capped : BOOLEAN]

Discovering(n) == [kind |-> "discovering", count |-> n, capped |-> FALSE]

\* Mutant: one file too many is counted.
FollowingOneMore(e) ==
  CASE e.kind = "discovering" ->
         IF e.count < Files + 1 THEN {Discovering(e.count + 1)}
         ELSE {[e EXCEPT !.kind = "begin", !.count = 0]}
    [] e.kind = "reading" ->
         {[e EXCEPT !.kind = "snapshot", !.count = @ + 1]}
    [] e.kind \in {"begin", "snapshot"} ->
         IF e.count < Files THEN {[e EXCEPT !.kind = "reading"]}
         ELSE [kind : {"complete"}, count : {e.count}, capped : BOOLEAN]
    [] OTHER -> {}

\* The order in which analyze_with_receipts emits its events.
Following(e) ==
  CASE e.kind = "discovering" ->
         IF e.count < Files THEN {Discovering(e.count + 1)}
         ELSE {[e EXCEPT !.kind = "begin", !.count = 0]}
    [] e.kind = "reading" ->
         {[e EXCEPT !.kind = "snapshot", !.count = @ + 1]}
    [] e.kind \in {"begin", "snapshot"} ->
         IF e.count < Files THEN {[e EXCEPT !.kind = "reading"]}
         ELSE [kind : {"complete"}, count : {e.count}, capped : BOOLEAN]
    [] OTHER -> {}

CarriesOutput(e) == e.kind \in {"snapshot", "complete"}

Phase(e) == IF e.kind \in {"discovering", "complete"} THEN e.kind ELSE "scanning"

NoStatus == [phase |-> "none", scanned |-> 0, capped |-> FALSE, bytes |-> FALSE]

\* repo_status and repo_status_capped.
StatusOf(e) ==
  [phase   |-> Phase(e),
   scanned |-> IF e.kind = "discovering" THEN 0 ELSE e.count,
   capped  |-> e.capped,
   bytes   |-> FALSE]

ScanStatus == [phase : {"none", "discovering", "scanning", "complete"},
               scanned : 0..Files, capped : BOOLEAN, bytes : BOOLEAN]

NoSnapshot == Files + 1

-----------------------------------------------------------------------------
(* Files.                                                                  *)

Name   == {"status", "partial", "report", "gate"}
Thread == {"main", "signal"}
NoFile == "none"

Absent == [text |-> "absent"]
Empty  == [text |-> "empty"]   \* or cut short
Mixed  == [text |-> "mixed"]

Sidecar ==
  [text : {"status"}, run : 1..MaxRuns,
   phase : {"discovering", "scanning", "complete", "failed", "terminated"},
   scanned : 0..Files,
   stop : {"none", "max_cards", "timeout", "error", "terminated"},
   state : {"in_progress", "complete", "capped", "failed", "terminated"},
   partial : BOOLEAN, bytes : BOOLEAN]

\* A report of the files scanned so far, or of the finished scan.
Report == [text : {"snapshot", "final"}, run : 1..MaxRuns, scanned : 0..Files]

Gate == [text : {"gate"}, run : 1..MaxRuns]

Stub ==
  [text |-> "status", run |-> run, phase |-> "discovering", scanned |-> 0,
   stop |-> "none", state |-> "in_progress", partial |-> FALSE,
   bytes |-> FALSE]

\* render_repo_scan_status: a status that is not capped is "complete".
ScanSidecar(s) ==
  [Stub EXCEPT
     !.phase   = s.phase,
     !.scanned = s.scanned,
     !.stop    = IF s.capped THEN "max_cards" ELSE "none",
     !.state   = IF s.capped THEN "capped" ELSE "complete",
     !.bytes   = s.bytes]

IncompleteSidecar ==
  [Stub EXCEPT
     !.phase   = "failed",
     !.scanned = last_status.scanned,
     !.stop    = IF hit_timeout THEN "timeout" ELSE "error",
     !.state   = "failed",
     !.partial = retained]

InterruptedSidecar ==
  [Stub EXCEPT
     !.phase   = "terminated",
     !.scanned = seen.status.scanned,
     !.stop    = "terminated",
     !.state   = "terminated",
     !.partial = seen.output # NoSnapshot]

SnapshotReport(n) == [text |-> "snapshot", run |-> run, scanned |-> n]
FinalReport       == [text |-> "final", run |-> run, scanned |-> event.count]

\* The first step of fs::write.
Open(t, name) ==
  /\ disk' = [disk EXCEPT ![name] = Empty]
  /\ fd' = [fd EXCEPT ![t] = name]

\* The second: a text written over another one may leave the other's end.
Put(t, text) ==
  /\ \E left \in IF disk[fd[t]] = Empty THEN {text} ELSE {text, Mixed} :
       disk' = [disk EXCEPT ![fd[t]] = left]
  /\ fd' = [fd EXCEPT ![t] = NoFile]

Close(t) == fd' = [fd EXCEPT ![t] = NoFile] /\ UNCHANGED disk

OpenOrFail(name, to, failed) ==
  \/ Open("main", name) /\ pc' = to /\ UNCHANGED fault
  \/ MayFail /\ pc' = failed /\ fault' = TRUE /\ UNCHANGED <<disk, fd>>

PutOrFail(text, to, failed) ==
  \/ Put("main", text) /\ pc' = to /\ UNCHANGED fault
  \/ MayFail /\ Close("main") /\ pc' = failed /\ fault' = TRUE

-----------------------------------------------------------------------------

Pc == {"idle", "stub", "stubWrite",
       "event", "output", "eventOpen", "eventWrite", "clock", "analysis",
       "render", "finalWrite", "rename", "bytes", "bytesWrite",
       "gate", "gateWrite", "policy",
       "failed", "keep", "keepWrite", "incomplete", "incompleteWrite", "drop"}

Signal == {"off", "waiting", "readStatus", "readOutput", "partialOpen",
           "partialWrite", "statusOpen", "statusWrite", "exit", "interrupted"}

NothingSeen == [status |-> NoStatus, output |-> NoSnapshot]

DiskOK ==
  /\ DOMAIN disk = Name
  /\ disk["status"] \in Sidecar \cup {Absent, Empty, Mixed}
  /\ disk["partial"] \in Report \cup {Absent, Empty, Mixed}
  /\ disk["report"] \in Report \cup {Absent, Empty, Mixed}
  /\ disk["gate"] \in Gate \cup {Absent, Empty, Mixed}

TypeOK ==
  /\ run \in 0..MaxRuns
  /\ pc \in Pc
  /\ event \in Event
  /\ {hit_timeout, retained, status_locked, fault} \subseteq BOOLEAN
  /\ result \in {"ok", "policy", "tool"}
  /\ last_status \in ScanStatus
  /\ partial_output \in 0..NoSnapshot
  /\ sig \in Signal
  /\ seen \in [status : ScanStatus, output : 0..NoSnapshot]
  /\ fd \in [Thread -> Name \cup {NoFile}]
  /\ DiskOK
  /\ exit \in {"none", "ok", "policy", "tool", "signal", "killed"}

Init ==
  /\ run = 0
  /\ pc = "idle"
  /\ event = Discovering(0)
  /\ hit_timeout = FALSE
  /\ retained = FALSE
  /\ result = "tool"
  /\ last_status = NoStatus
  /\ partial_output = NoSnapshot
  /\ status_locked = FALSE
  /\ sig = "off"
  /\ seen = NothingSeen
  /\ disk = [name \in Name |-> Absent]
  /\ fd = [t \in Thread |-> NoFile]
  /\ exit = "none"
  /\ fault = FALSE

-----------------------------------------------------------------------------
(* The main thread.                                                        *)

\* A command is given, and RepoStatusReporter::new starts the signal thread.
\* What fails before that touches no file and is left out.
Start ==
  /\ pc = "idle"
  /\ run < MaxRuns
  /\ run' = run + 1
  /\ pc' = "stub"
  /\ event' = Discovering(0)
  /\ hit_timeout' = FALSE
  /\ retained' = FALSE
  /\ result' = "tool"
  /\ last_status' = NoStatus
  /\ partial_output' = NoSnapshot
  /\ sig' = "waiting"
  /\ seen' = NothingSeen
  /\ exit' = "none"
  /\ fault' = FALSE
  /\ UNCHANGED <<status_locked, disk, fd>>

\* A step of main that writes files, or fails to, and nothing else.
Writes(from) ==
  /\ pc = from
  /\ UNCHANGED <<run, scan, retained, result, status_locked, thread, exit>>

StubOpen  == Writes("stub") /\ OpenOrFail("status", "stubWrite", "drop")
StubWrite == Writes("stubWrite") /\ PutOrFail(Stub, "event", "drop")

\* record_event: the status, then the output, each under its own lock ...
SetLastStatus ==
  /\ pc = "event"
  /\ last_status' = StatusOf(event)
  /\ pc' = "output"
  /\ UNCHANGED <<run, event, hit_timeout, partial_output, retained,
                 result, status_locked, thread, saved, exit>>

\* Mutant: an output is stored once and never replaced.
SetPartialOutputOnce ==
  /\ pc = "output"
  /\ partial_output' = IF CarriesOutput(event) /\ partial_output = NoSnapshot
                       THEN event.count ELSE partial_output
  /\ pc' = "eventOpen"
  /\ UNCHANGED <<run, event, hit_timeout, last_status, retained, result,
                 status_locked, thread, saved, exit>>

SetPartialOutput ==
  /\ pc = "output"
  /\ partial_output' = IF CarriesOutput(event) THEN event.count ELSE partial_output
  /\ pc' = "eventOpen"
  /\ UNCHANGED <<run, event, hit_timeout, last_status, retained, result,
                 status_locked, thread, saved, exit>>

\* ... then the sidecar, under neither ...
EventOpen  == Writes("eventOpen") /\ OpenOrFail("status", "eventWrite", "failed")
EventWrite == Writes("eventWrite") /\ PutOrFail(ScanSidecar(last_status), "clock", "failed")

\* Mutant: only the clock is looked at.
TimedOutAnyway(late) == late

\* A scan that is over, capped or not, is not late any more.
TimedOut(late) == late /\ ~event.capped /\ event.kind # "complete"

\* ... and last the clock: once --timeout-seconds have elapsed, the analysis
\* ends with an error.
CheckClock ==
  /\ pc = "clock"
  /\ \E late \in BOOLEAN :
       /\ hit_timeout' = TimedOut(late)
       /\ pc' = IF TimedOut(late) THEN "failed" ELSE "analysis"
  /\ UNCHANGED <<run, event, last_status, partial_output, retained, result,
                 status_locked, thread, saved, exit>>

\* The analysis goes on to its next event, fails, or returns its output.
Analyze ==
  /\ pc = "analysis"
  /\ \/ event' \in Following(event) /\ pc' = "event"
     \/ MayFail /\ event.kind # "complete" /\ pc' = "failed" /\ UNCHANGED event
     \/ event.kind = "complete" /\ pc' = "render" /\ UNCHANGED event
  /\ UNCHANGED <<run, hit_timeout, last_status, partial_output, retained,
                 result, status_locked, thread, saved, exit>>

\* Mutant: the report is written in place.
RenderInPlace == Writes("render") /\ OpenOrFail("report", "finalWrite", "failed")

\* Mutant: an error of the write is dropped.
FinalWriteUnchecked ==
  Writes("finalWrite") /\ PutOrFail(FinalReport, "rename", "rename")

\* write_repo_report: write, then rename.
Render     == Writes("render") /\ OpenOrFail("partial", "finalWrite", "failed")
FinalWrite == Writes("finalWrite") /\ PutOrFail(FinalReport, "rename", "failed")

Promoted ==
  /\ disk' = [disk EXCEPT !["report"] = disk["partial"], !["partial"] = Absent]
  /\ fd' = [t \in Thread |-> IF fd[t] = "partial" THEN "report" ELSE fd[t]]

Promote ==
  /\ Writes("rename")
  /\ \/ Promoted /\ pc' = "bytes" /\ UNCHANGED fault
     \/ MayFail /\ pc' = "failed" /\ fault' = TRUE /\ UNCHANGED <<disk, fd>>

\* record_final_output_bytes, under the lock of last_status; errors are shown.
BytesOpen ==
  /\ pc = "bytes"
  /\ last_status' = [last_status EXCEPT !.bytes = TRUE]
  /\ OpenOrFail("status", "bytesWrite", "gate")
  /\ status_locked' = (pc' = "bytesWrite")
  /\ UNCHANGED <<run, event, hit_timeout, partial_output, retained,
                 result, thread, exit>>

BytesWrite ==
  /\ pc = "bytesWrite"
  /\ PutOrFail(ScanSidecar(last_status), "gate", "gate")
  /\ status_locked' = FALSE
  /\ UNCHANGED <<run, scan, retained, result, thread, exit>>

\* The gate manifest; errors are shown.
GateOpen  == Writes("gate") /\ OpenOrFail("gate", "gateWrite", "policy")
GateWrite == Writes("gateWrite")
             /\ PutOrFail([text |-> "gate", run |-> run], "policy", "policy")

\* enforce_policy and the latency receipt.
Policy ==
  /\ pc = "policy"
  /\ result' \in {"ok", "policy", "tool"}
  /\ pc' = "drop"
  /\ UNCHANGED <<run, scan, retained, status_locked, thread, saved, exit>>

\* Mutant: the error is returned as it is.
FailedUnrecorded ==
  /\ pc = "failed"
  /\ pc' = "drop"
  /\ UNCHANGED <<run, scan, retained, result, status_locked, thread, saved, exit>>

\* repo_incomplete_error: a partial report that is there is retained, else the
\* last output is written.
Failed ==
  /\ pc = "failed"
  /\ retained' = (disk["partial"] # Absent)
  /\ pc' = IF disk["partial"] = Absent /\ partial_output # NoSnapshot
           THEN "keep" ELSE "incomplete"
  /\ UNCHANGED <<run, scan, result, status_locked, thread, saved, exit>>

KeepOpen == Writes("keep") /\ OpenOrFail("partial", "keepWrite", "incomplete")

KeepWrite ==
  /\ pc = "keepWrite"
  /\ pc' = "incomplete"
  /\ \/ /\ Put("main", SnapshotReport(partial_output))
        /\ retained' = TRUE
        /\ UNCHANGED fault
     \/ /\ MayFail
        /\ Close("main")
        /\ fault' = TRUE
        /\ UNCHANGED retained
  /\ UNCHANGED <<run, scan, result, status_locked, thread, exit>>

\* record_incomplete: names the partial report if it is still there.
IncompleteOpen ==
  /\ pc = "incomplete"
  /\ retained' = (retained /\ disk["partial"] # Absent)
  /\ OpenOrFail("status", "incompleteWrite", "drop")
  /\ UNCHANGED <<run, scan, result, status_locked, thread, exit>>

IncompleteWrite ==
  Writes("incompleteWrite") /\ PutOrFail(IncompleteSidecar, "drop", "drop")

Ended(code) ==
  /\ pc' = "idle"
  /\ sig' = IF sig = "waiting" THEN "off" ELSE "interrupted"
  /\ fd' = [t \in Thread |-> NoFile]
  /\ status_locked' = FALSE
  /\ exit' = code

\* Mutant: the handle is not closed before the join.
DropUnclosed ==
  /\ pc = "drop"
  /\ sig = "interrupted"
  /\ Ended(result)
  /\ UNCHANGED <<run, scan, retained, result, seen, disk, fault>>

\* RepoSignalGuard::drop closes the handle, which ends a thread that waits,
\* and joins the thread; main returns.
Drop ==
  /\ pc = "drop"
  /\ sig = "waiting"
  /\ Ended(result)
  /\ UNCHANGED <<run, scan, retained, result, seen, disk, fault>>

-----------------------------------------------------------------------------
(* The signal thread.                                                      *)

Receive ==
  /\ MaySignal
  /\ pc # "idle"
  /\ sig = "waiting"
  /\ sig' = "readStatus"
  /\ UNCHANGED <<run, pc, scan, retained, result, status_locked, seen, saved,
                 exit>>

\* A step of the signal thread.
Handles(from) ==
  /\ sig = from
  /\ UNCHANGED <<run, pc, scan, retained, result, status_locked, exit>>

\* record_interrupted clones the last status ...
ReadStatus ==
  /\ Handles("readStatus")
  /\ ~status_locked
  /\ seen' = [seen EXCEPT !.status = last_status]
  /\ sig' = "readOutput"
  /\ UNCHANGED saved

\* ... then the last output, which may belong to another event, ...
ReadOutput ==
  /\ Handles("readOutput")
  /\ seen' = [seen EXCEPT !.output = partial_output]
  /\ sig' = IF partial_output = NoSnapshot THEN "statusOpen" ELSE "partialOpen"
  /\ UNCHANGED saved

\* ... writes the partial report and then the sidecar; an error stops it.
SignalOpen(from, name, to) ==
  /\ Handles(from)
  /\ \/ Open("signal", name) /\ sig' = to /\ UNCHANGED fault
     \/ MayFail /\ sig' = "exit" /\ fault' = TRUE /\ UNCHANGED <<disk, fd>>
  /\ UNCHANGED seen

SignalWrite(from, text, to) ==
  /\ Handles(from)
  /\ \/ Put("signal", text) /\ sig' = to /\ UNCHANGED fault
     \/ MayFail /\ Close("signal") /\ sig' = "exit" /\ fault' = TRUE
  /\ UNCHANGED seen

InterruptedPartial ==
  \/ SignalOpen("partialOpen", "partial", "partialWrite")
  \/ SignalWrite("partialWrite", SnapshotReport(seen.output), "statusOpen")

InterruptedStatus ==
  \/ SignalOpen("statusOpen", "status", "statusWrite")
  \/ SignalWrite("statusWrite", InterruptedSidecar, "exit")

\* process::exit, wherever the main thread is.
Exit ==
  /\ sig = "exit"
  /\ Ended("signal")
  /\ UNCHANGED <<run, scan, retained, result, seen, disk, fault>>

-----------------------------------------------------------------------------

Kill ==
  /\ MayKill
  /\ pc # "idle"
  /\ Ended("killed")
  /\ UNCHANGED <<run, scan, retained, result, seen, disk, fault>>

Main ==
  \/ StubOpen \/ StubWrite
  \/ SetLastStatus \/ SetPartialOutput \/ EventOpen \/ EventWrite \/ CheckClock
  \/ Analyze \/ Render \/ FinalWrite \/ Promote
  \/ BytesOpen \/ BytesWrite \/ GateOpen \/ GateWrite \/ Policy
  \/ Failed \/ KeepOpen \/ KeepWrite \/ IncompleteOpen \/ IncompleteWrite
  \/ Drop

SignalThread ==
  ReadStatus \/ ReadOutput \/ InterruptedPartial \/ InterruptedStatus \/ Exit

Next == Start \/ Main \/ Receive \/ SignalThread \/ Kill

Spec == Init /\ [][Next]_vars

\* The operating system schedules both threads and every write returns.
\* Commands, signals and kills have no fairness.
FairSpec == Spec /\ WF_vars(Main) /\ WF_vars(SignalThread)

-----------------------------------------------------------------------------
(* Safety.                                                                 *)

\* The signal thread has received a signal in this process.
Signalled == sig \notin {"off", "waiting"}

Over == pc = "idle" /\ run > 0

IsFinalOf(file, n) == file.text = "final" /\ file.run = n

SidecarText == disk["status"].text = "status"

\* Exit 0 and exit 1 (a policy violation) mean that <out> holds the report of
\* this very run over all files, whatever sidecar or manifest write failed.
SuccessHasReport ==
  Over /\ exit \in {"ok", "policy"} =>
    IsFinalOf(disk["report"], run) /\ disk["report"].scanned = Files

\* When no write failed, exit code, sidecar, report and manifest of a run that
\* was neither interrupted nor killed tell the same story: a consumable
\* sidecar with output_bytes beside report and manifest of this run, or a
\* failed one with the report of this run never promoted, which does not say
\* timeout of a scan whose last event had ended it.
ExitIsOnDisk ==
  Over /\ exit \in {"ok", "policy", "tool"} /\ ~fault =>
    LET status   == disk["status"]
        reported == /\ status.state \in {"complete", "capped"}
                    /\ status.bytes
                    /\ IsFinalOf(disk["report"], run)
                    /\ disk["gate"].run = run
        failed   == /\ status.state = "failed"
                    /\ ~IsFinalOf(disk["report"], run)
                    /\ status.stop = "timeout" =>
                         ~event.capped /\ event.kind # "complete"
    IN /\ SidecarText
       /\ status.run = run
       /\ IF exit = "tool" THEN reported \/ failed ELSE reported

\* The sidecar of this run, which no signal interrupted (so far).
OwnSidecar == SidecarText /\ disk["status"].run = run /\ ~Signalled

\* A partial report that the failed sidecar names is there, and when it is of
\* the same run, both describe the same files, although one is written from the
\* last event and the other from the last event with an output.
FailedMatchesPartial ==
  OwnSidecar /\ disk["status"].state = "failed" /\ disk["status"].partial =>
    LET partial == disk["partial"]
    IN /\ partial # Absent
       /\ partial.text \in {"snapshot", "final"} /\ partial.run = run
            => partial.scanned = disk["status"].scanned

\* Unless a signal arrived, <out> changes only from one whole report to the
\* next, of a scan that finished: no reader and no crash sees anything else.
ReportOnlyPromoted ==
  [][disk'["report"] # disk["report"] =>
       Signalled \/ IsFinalOf(disk'["report"], run)]_vars

\* Every process ends: neither the lock that is held across a write nor the
\* join of the signal thread blocks it for ever, and it is idle again in the end.
ProcessEnds == []<>(pc = "idle")

-----------------------------------------------------------------------------
(* What the documents say and the code does not do.                        *)

\* "downstream_consumable is true for states complete and capped - the only
\* states where the scan produced a usable report artifact".
ConsumableHasReport ==
  Over /\ SidecarText /\ disk["status"].state \in {"complete", "capped"} =>
    IsFinalOf(disk["report"], disk["status"].run)

\* "If a normal analysis, timeout, write, or rename error occurs after at least
\* one file completed, the latest completed-file report snapshot is kept".
LatestSnapshotKept ==
  Over /\ exit = "tool" /\ ~fault /\ disk["status"].state = "failed"
       /\ partial_output # NoSnapshot =>
    disk["partial"] = SnapshotReport(partial_output)

\* "Every non-SIGKILL exit path (success, timeout, error, SIGTERM/SIGINT)
\* overwrites the stub with the final or incomplete status".
InterruptIsOnDisk ==
  Over /\ exit = "signal" /\ ~fault =>
    SidecarText /\ disk["status"].phase = "terminated"

\* "renders to <out>.partial and renames that file to <out> only after a
\* successful render".
ReportIsFinal == disk["report"].text \in {"absent", "final"}

=============================================================================
