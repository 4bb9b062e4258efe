--------------------------- MODULE RepoScanProofs ---------------------------
(***************************************************************************)
(* Proofs about RepoScan, for any number of files and processes, and any   *)
(* failures, signals and kills.                                            *)
(*                                                                         *)
(* The argument: a thread has a file open only at the step that writes it, *)
(* and main never has the report open.  Where no signal was received main  *)
(* is alone, so the partial report it wrote is still there when it is      *)
(* renamed, and the report stays as it is until main returns.              *)
(*                                                                         *)
(* What a run leaves on disk tells one story (ExitOnDisk), and a failed    *)
(* sidecar fits the partial report it names (FailedFitsPartial): a file    *)
(* that main opened alone is empty until it writes, texts of earlier       *)
(* processes carry their number, and what the sidecar counts and what the  *)
(* last output has scanned differ only while an event is being recorded.   *)
(***************************************************************************)
EXTENDS RepoScan, TLAPS

\* What main has open, by what it does next.
MainWrites ==
  /\ pc \in {"stubWrite", "eventWrite", "bytesWrite", "incompleteWrite"} =>
       fd["main"] = "status"
  /\ pc \in {"finalWrite", "keepWrite"} => fd["main"] = "partial"
  /\ pc = "gateWrite" => fd["main"] = "gate"
  /\ pc \notin {"stubWrite", "eventWrite", "bytesWrite", "incompleteWrite",
                "finalWrite", "keepWrite", "gateWrite"} => fd["main"] = NoFile

\* The partial report that the signal thread writes may have been promoted.
SignalWrites ==
  /\ sig = "partialWrite" => fd["signal"] \in {"partial", "report"}
  /\ sig = "statusWrite" => fd["signal"] = "status"
  /\ sig \notin {"partialWrite", "statusWrite"} => fd["signal"] = NoFile

\* Main and the signal thread live and end together.
Alive ==
  /\ pc # "idle" => run > 0
  /\ sig \in {"off", "interrupted"} <=> pc = "idle"

AfterScan == {"render", "finalWrite", "rename", "bytes", "bytesWrite",
              "gate", "gateWrite", "policy"}
Reporting == {"bytes", "bytesWrite", "gate", "gateWrite", "policy"}

\* What the scan has told when main and the signal thread write about it.
Told ==
  /\ event.kind = "reading" => event.count < Files
  /\ event.kind = "complete" => event.count = Files
  /\ pc \in {"output", "eventOpen", "eventWrite", "clock", "analysis"} \cup AfterScan =>
       last_status.phase # "none"
  /\ pc \in {"keep", "keepWrite"} => partial_output \in 0..Files
  /\ sig \in {"partialOpen", "partialWrite"} => seen.output \in 0..Files

TypeInv == TypeOK /\ MainWrites /\ SignalWrites /\ Alive /\ Told

\* How far the report of this run has come.
Progress ==
  /\ pc \in AfterScan => event.kind = "complete"
  /\ pc \notin {"idle", "drop"} => result = "tool"
  /\ ~Signalled /\ pc = "finalWrite" => disk["partial"] = Empty
  /\ ~Signalled /\ pc = "rename" => disk["partial"] = FinalReport
  /\ ~Signalled /\ pc \in Reporting => disk["report"] = FinalReport
  /\ ~Signalled /\ pc = "drop" /\ result # "tool" =>
       event.kind = "complete" /\ disk["report"] = FinalReport

ScanInv == TypeInv /\ Progress /\ SuccessHasReport

-----------------------------------------------------------------------------
(* Lemmas about the file system.                                           *)

\* What Open does to the files and handles.
LEMMA OpenFiles ==
  ASSUME TypeOK, NEW t \in Thread, NEW name \in Name, Open(t, name)
  PROVE  /\ DiskOK'
         /\ fd' \in [Thread -> Name \cup {NoFile}]
         /\ fd'[t] = name
         /\ \A u \in Thread \ {t} : fd'[u] = fd[u]
         /\ disk'[name] = Empty
         /\ \A n \in Name \ {name} : disk'[n] = disk[n]
BY DEF TypeOK, DiskOK, Open, Thread, Name

\* A text of its kind keeps the file's type.
Fits(text, name) ==
  \/ name = "status" /\ text \in Sidecar
  \/ name \in {"partial", "report"} /\ text \in Report
  \/ name = "gate" /\ text \in Gate

\* What Put does to the files and handles.
LEMMA PutFiles ==
  ASSUME TypeOK, NEW t \in Thread, NEW text, Put(t, text), Fits(text, fd[t])
  PROVE  /\ DiskOK'
         /\ fd' \in [Thread -> Name \cup {NoFile}]
         /\ fd'[t] = NoFile
         /\ \A u \in Thread \ {t} : fd'[u] = fd[u]
         /\ disk[fd[t]] = Empty => disk'[fd[t]] = text
         /\ \A n \in Name \ {fd[t]} : disk'[n] = disk[n]
<1>1. fd[t] \in Name
  BY DEF Fits, Name
<1>2. PICK left \in {text, Mixed} :
        /\ disk' = [disk EXCEPT ![fd[t]] = left]
        /\ disk[fd[t]] = Empty => left = text
  BY DEF Put
<1>3. DiskOK'
  BY <1>1, <1>2 DEF TypeOK, DiskOK, Fits, Name
<1>4. fd' = [fd EXCEPT ![t] = NoFile]
  BY DEF Put
<1> QED
  BY <1>1, <1>2, <1>3, <1>4 DEF TypeOK, DiskOK, Name

\* What Close does to the files and handles.
LEMMA CloseFiles ==
  ASSUME TypeOK, NEW t \in Thread, Close(t)
  PROVE  /\ disk' = disk
         /\ fd' \in [Thread -> Name \cup {NoFile}]
         /\ fd'[t] = NoFile
         /\ \A u \in Thread \ {t} : fd'[u] = fd[u]
BY DEF TypeOK, Close

\* The rename moves the partial report and the handle that is open on it.
LEMMA PromotedFiles ==
  ASSUME TypeOK, Promoted
  PROVE  /\ DiskOK'
         /\ fd' \in [Thread -> Name \cup {NoFile}]
         /\ \A t \in Thread :
              fd'[t] = IF fd[t] = "partial" THEN "report" ELSE fd[t]
         /\ disk'["report"] = disk["partial"]
BY DEF TypeOK, DiskOK, Promoted, Name

-----------------------------------------------------------------------------
(* The texts that are written have the type of their file.                 *)

LEMMA TextsFit ==
  ASSUME TypeInv, pc # "idle", ScanAssumption
  PROVE  /\ Stub \in Sidecar
         /\ last_status.phase # "none" => ScanSidecar(last_status) \in Sidecar
         /\ IncompleteSidecar \in Sidecar
         /\ InterruptedSidecar \in Sidecar
         /\ FinalReport \in Report
         /\ \A n \in 0..Files : SnapshotReport(n) \in Report
         /\ [text |-> "gate", run |-> run] \in Gate
<1>1. run \in 1..MaxRuns
  BY DEF TypeInv, TypeOK, Alive, ScanAssumption
<1>2. last_status \in ScanStatus /\ seen.status \in ScanStatus /\ event \in Event
  BY DEF TypeInv, TypeOK
<1>3. Stub \in Sidecar
  BY <1>1, ScanAssumption DEF Stub, Sidecar, ScanAssumption
<1>4. last_status.phase # "none" => ScanSidecar(last_status) \in Sidecar
  BY <1>1, <1>2 DEF ScanSidecar, Stub, Sidecar, ScanStatus
<1>5. IncompleteSidecar \in Sidecar
  BY <1>1, <1>2 DEF IncompleteSidecar, Stub, Sidecar, ScanStatus, TypeInv, TypeOK
<1>6. InterruptedSidecar \in Sidecar
  BY <1>1, <1>2 DEF InterruptedSidecar, Stub, Sidecar, ScanStatus, TypeInv, TypeOK
<1>7. FinalReport \in Report /\ \A n \in 0..Files : SnapshotReport(n) \in Report
  BY <1>1, <1>2 DEF FinalReport, SnapshotReport, Report, Event
<1>8. [text |-> "gate", run |-> run] \in Gate
  BY <1>1 DEF Gate
<1> QED
  BY <1>3, <1>4, <1>5, <1>6, <1>7, <1>8

-----------------------------------------------------------------------------
(* Steps that write, or fail to.                                           *)

LEMMA OpenOrFailFiles ==
  ASSUME TypeOK, fd["main"] = NoFile, NEW name \in Name, NEW to, NEW failed,
         OpenOrFail(name, to, failed)
  PROVE  /\ DiskOK' /\ fault' \in BOOLEAN
         /\ fd' \in [Thread -> Name \cup {NoFile}]
         /\ fd'["signal"] = fd["signal"]
         /\ \/ pc' = to /\ fd'["main"] = name /\ disk'[name] = Empty
            \/ pc' = failed /\ fd'["main"] = NoFile
         /\ \A n \in Name \ {name} : disk'[n] = disk[n]
<1>1. CASE Open("main", name) /\ pc' = to /\ UNCHANGED fault
  BY <1>1, OpenFiles DEF Thread, TypeOK
<1>2. CASE pc' = failed /\ fault' = TRUE /\ UNCHANGED <<disk, fd>>
  BY <1>2 DEF TypeOK, DiskOK
<1> QED
  BY <1>1, <1>2 DEF OpenOrFail

LEMMA PutOrFailFiles ==
  ASSUME TypeOK, NEW text, NEW to, NEW failed, PutOrFail(text, to, failed),
         Fits(text, fd["main"])
  PROVE  /\ DiskOK' /\ fault' \in BOOLEAN
         /\ fd' \in [Thread -> Name \cup {NoFile}]
         /\ fd'["main"] = NoFile
         /\ fd'["signal"] = fd["signal"]
         /\ \/ pc' = to /\ (disk[fd["main"]] = Empty => disk'[fd["main"]] = text)
            \/ pc' = failed
         /\ \A n \in Name \ {fd["main"]} : disk'[n] = disk[n]
<1>1. CASE Put("main", text) /\ pc' = to /\ UNCHANGED fault
  BY <1>1, PutFiles DEF Thread, TypeOK
<1>2. CASE Close("main") /\ pc' = failed /\ fault' = TRUE
  BY <1>2, CloseFiles DEF Thread, TypeOK, DiskOK
<1> QED
  BY <1>1, <1>2 DEF PutOrFail

\* A step of main that opens a file keeps the types.
LEMMA OpenTyped ==
  ASSUME TypeInv, NEW from \in Pc, NEW name \in Name, NEW to \in Pc, NEW failed \in Pc,
         Writes(from), OpenOrFail(name, to, failed), fd["main"] = NoFile
  PROVE  TypeOK' /\ SignalWrites'
<1>1. DiskOK' /\ fault' \in BOOLEAN /\ fd' \in [Thread -> Name \cup {NoFile}]
      /\ fd'["signal"] = fd["signal"] /\ pc' \in Pc
  BY OpenOrFailFiles DEF TypeInv
<1> QED
  BY <1>1 DEF TypeInv, TypeOK, SignalWrites, Writes, scan, thread

\* A step of main that writes a text keeps the types.
LEMMA PutTyped ==
  ASSUME TypeInv, NEW from \in Pc, NEW text, NEW to \in Pc, NEW failed \in Pc,
         Writes(from), PutOrFail(text, to, failed), Fits(text, fd["main"])
  PROVE  TypeOK' /\ SignalWrites'
<1>1. DiskOK' /\ fault' \in BOOLEAN /\ fd' \in [Thread -> Name \cup {NoFile}]
      /\ fd'["signal"] = fd["signal"] /\ pc' \in Pc
  BY PutOrFailFiles DEF TypeInv
<1> QED
  BY <1>1 DEF TypeInv, TypeOK, SignalWrites, Writes, scan, thread

-----------------------------------------------------------------------------
(* Types.                                                                  *)

\* What a process starts with.
LEMMA Beginning ==
  ASSUME ScanAssumption
  PROVE  /\ Discovering(0) \in Event
         /\ NoStatus \in ScanStatus
         /\ NoSnapshot \in 0..NoSnapshot
         /\ NothingSeen \in [status : ScanStatus, output : 0..NoSnapshot]
<1>1. Discovering(0) \in Event
  BY DEF Discovering, Event, Kinds, ScanAssumption
<1>2. NoStatus \in ScanStatus
  BY DEF NoStatus, ScanStatus, ScanAssumption
<1>3. NoSnapshot \in 0..NoSnapshot
  BY DEF NoSnapshot, ScanAssumption
<1>4. NothingSeen \in [status : ScanStatus, output : 0..NoSnapshot]
  BY <1>2, <1>3 DEF NothingSeen
<1> QED
  BY <1>1, <1>2, <1>3, <1>4

LEMMA TypeInitially == ASSUME ScanAssumption, Init PROVE TypeInv
<1>1. DiskOK
  BY DEF Init, DiskOK, Name
<1>2. fd \in [Thread -> Name \cup {NoFile}] /\ \A t \in Thread : fd[t] = NoFile
  BY DEF Init
<1>3. run \in 0..MaxRuns
  BY DEF Init, ScanAssumption
<1>4. pc \in Pc /\ sig \in Signal
  BY DEF Init, Pc, Signal
<1>5. TypeOK
  BY <1>1, <1>2, <1>3, <1>4, Beginning DEF Init, TypeOK
<1> QED
  BY <1>2, <1>5 DEF Init, TypeInv, MainWrites, SignalWrites, Alive, Told,
                    AfterScan, Thread, Discovering

LEMMA TypeStart == ASSUME ScanAssumption, TypeInv, Start PROVE TypeInv'
<1>1. DiskOK' /\ fd' = fd
  BY DEF Start, TypeInv, TypeOK, DiskOK
<1>2. run' \in 0..MaxRuns /\ run' > 0
  BY DEF Start, TypeInv, TypeOK, ScanAssumption
<1>3. pc' \in Pc /\ sig' \in Signal
  BY DEF Start, Pc, Signal
<1>4. TypeOK'
  BY <1>1, <1>2, <1>3, Beginning DEF Start, TypeInv, TypeOK
<1>5. Alive' /\ Told'
  BY <1>2 DEF Start, Alive, Told, AfterScan, Discovering
<1> QED
  BY <1>1, <1>4, <1>5 DEF Start, TypeInv, MainWrites, SignalWrites, Alive

\* Main opens a file: what it has open fits what it does next.
LEMMA TypeOpens ==
  ASSUME ScanAssumption, TypeInv,
         StubOpen \/ EventOpen \/ Render \/ GateOpen \/ KeepOpen
  PROVE  TypeInv'
<1> USE DEF TypeInv, Writes, scan, thread
<1>1. CASE StubOpen
  <2>1. TypeOK' /\ SignalWrites'
    BY <1>1, OpenTyped DEF StubOpen, MainWrites, Pc, Name
  <2>2. MainWrites' /\ Alive' /\ Told'
    BY <1>1, OpenOrFailFiles DEF StubOpen, MainWrites, Alive, Told, AfterScan, Name
  <2> QED
    BY <2>1, <2>2
<1>2. CASE EventOpen
  <2>1. TypeOK' /\ SignalWrites'
    BY <1>2, OpenTyped DEF EventOpen, MainWrites, Pc, Name
  <2>2. MainWrites' /\ Alive' /\ Told'
    BY <1>2, OpenOrFailFiles DEF EventOpen, MainWrites, Alive, Told, AfterScan, Name
  <2> QED
    BY <2>1, <2>2
<1>3. CASE Render
  <2>1. TypeOK' /\ SignalWrites'
    BY <1>3, OpenTyped DEF Render, MainWrites, Pc, Name
  <2>2. MainWrites' /\ Alive' /\ Told'
    BY <1>3, OpenOrFailFiles DEF Render, MainWrites, Alive, Told, AfterScan, Name
  <2> QED
    BY <2>1, <2>2
<1>4. CASE GateOpen
  <2>1. TypeOK' /\ SignalWrites'
    BY <1>4, OpenTyped DEF GateOpen, MainWrites, Pc, Name
  <2>2. MainWrites' /\ Alive' /\ Told'
    BY <1>4, OpenOrFailFiles DEF GateOpen, MainWrites, Alive, Told, AfterScan, Name
  <2> QED
    BY <2>1, <2>2
<1>5. CASE KeepOpen
  <2>1. TypeOK' /\ SignalWrites'
    BY <1>5, OpenTyped DEF KeepOpen, MainWrites, Pc, Name
  <2>2. MainWrites' /\ Alive' /\ Told'
    BY <1>5, OpenOrFailFiles DEF KeepOpen, MainWrites, Alive, Told, AfterScan, Name
  <2> QED
    BY <2>1, <2>2
<1> QED
  BY <1>1, <1>2, <1>3, <1>4, <1>5

\* Main writes a text of the kind of the file it has open.
LEMMA TypeWrites ==
  ASSUME ScanAssumption, TypeInv,
         StubWrite \/ EventWrite \/ FinalWrite \/ GateWrite \/ IncompleteWrite
  PROVE  TypeInv'
<1> USE DEF TypeInv
<1>1. CASE StubWrite
  <2>1. Writes("stubWrite") /\ PutOrFail(Stub, "event", "drop") /\ Fits(Stub, fd["main"])
    BY <1>1, TextsFit DEF StubWrite, Writes, MainWrites, Fits
  <2>2. TypeOK' /\ SignalWrites'
    BY <2>1, PutTyped DEF Pc
  <2>3. MainWrites' /\ Alive' /\ Told'
    BY <2>1, PutOrFailFiles DEF Writes, scan, thread, MainWrites, Alive, Told, AfterScan
  <2> QED
    BY <2>2, <2>3
<1>2. CASE EventWrite
  <2>1. /\ Writes("eventWrite") /\ PutOrFail(ScanSidecar(last_status), "clock", "failed")
        /\ Fits(ScanSidecar(last_status), fd["main"])
    BY <1>2, TextsFit DEF EventWrite, Writes, MainWrites, Fits, Told
  <2>2. TypeOK' /\ SignalWrites'
    BY <2>1, PutTyped DEF Pc
  <2>3. MainWrites' /\ Alive' /\ Told'
    BY <2>1, PutOrFailFiles DEF Writes, scan, thread, MainWrites, Alive, Told, AfterScan
  <2> QED
    BY <2>2, <2>3
<1>3. CASE FinalWrite
  <2>1. /\ Writes("finalWrite") /\ PutOrFail(FinalReport, "rename", "failed")
        /\ Fits(FinalReport, fd["main"])
    BY <1>3, TextsFit DEF FinalWrite, Writes, MainWrites, Fits
  <2>2. TypeOK' /\ SignalWrites'
    BY <2>1, PutTyped DEF Pc
  <2>3. MainWrites' /\ Alive' /\ Told'
    BY <2>1, PutOrFailFiles DEF Writes, scan, thread, MainWrites, Alive, Told, AfterScan
  <2> QED
    BY <2>2, <2>3
<1>4. CASE GateWrite
  <2> DEFINE text == [text |-> "gate", run |-> run]
  <2>1. Writes("gateWrite") /\ PutOrFail(text, "policy", "policy") /\ Fits(text, fd["main"])
    BY <1>4, TextsFit DEF GateWrite, Writes, MainWrites, Fits
  <2> HIDE DEF text
  <2>2. TypeOK' /\ SignalWrites'
    BY <2>1, PutTyped DEF Pc
  <2>3. MainWrites' /\ Alive' /\ Told'
    BY <2>1, PutOrFailFiles DEF Writes, scan, thread, MainWrites, Alive, Told, AfterScan
  <2> QED
    BY <2>2, <2>3
<1>5. CASE IncompleteWrite
  <2>1. /\ Writes("incompleteWrite") /\ PutOrFail(IncompleteSidecar, "drop", "drop")
        /\ Fits(IncompleteSidecar, fd["main"])
    BY <1>5, TextsFit DEF IncompleteWrite, Writes, MainWrites, Fits
  <2>2. TypeOK' /\ SignalWrites'
    BY <2>1, PutTyped DEF Pc
  <2>3. MainWrites' /\ Alive' /\ Told'
    BY <2>1, PutOrFailFiles DEF Writes, scan, thread, MainWrites, Alive, Told, AfterScan
  <2> QED
    BY <2>2, <2>3
<1> QED
  BY <1>1, <1>2, <1>3, <1>4, <1>5

\* The sidecar with the size of the report, the kept partial report and the
\* sidecar of a failed run: main changes more than files.
LEMMA TypeRecords ==
  ASSUME ScanAssumption, TypeInv, BytesOpen \/ BytesWrite \/ KeepWrite \/ IncompleteOpen
  PROVE  TypeInv'
<1> USE DEF TypeInv
<1>1. CASE BytesOpen
  <2>1. /\ OpenOrFail("status", "bytesWrite", "gate") /\ fd["main"] = NoFile /\ pc = "bytes"
        /\ UNCHANGED <<run, event, hit_timeout, partial_output, retained, result, sig, seen, exit>>
        /\ status_locked' \in BOOLEAN
    BY <1>1 DEF BytesOpen, MainWrites, thread
  <2>2. last_status' \in ScanStatus /\ last_status'.phase = last_status.phase
    BY <1>1 DEF BytesOpen, TypeOK, ScanStatus
  <2>3. /\ DiskOK' /\ fault' \in BOOLEAN /\ fd' \in [Thread -> Name \cup {NoFile}]
        /\ fd'["signal"] = fd["signal"]
        /\ \/ pc' = "bytesWrite" /\ fd'["main"] = "status"
           \/ pc' = "gate" /\ fd'["main"] = NoFile
    BY <2>1, OpenOrFailFiles DEF Name
  <2>4. TypeOK'
    BY <2>1, <2>2, <2>3 DEF TypeOK, Pc
  <2>5. MainWrites' /\ SignalWrites' /\ Alive' /\ Told'
    BY <2>1, <2>2, <2>3 DEF MainWrites, SignalWrites, Alive, Told, AfterScan
  <2> QED
    BY <2>4, <2>5
<1>2. CASE BytesWrite
  <2>1. /\ PutOrFail(ScanSidecar(last_status), "gate", "gate") /\ pc = "bytesWrite"
        /\ Fits(ScanSidecar(last_status), fd["main"])
        /\ UNCHANGED <<run, event, hit_timeout, last_status, partial_output, retained, result,
                       sig, seen, exit>>
        /\ status_locked' \in BOOLEAN
    BY <1>2, TextsFit DEF BytesWrite, MainWrites, Fits, Told, AfterScan, scan, thread
  <2>2. /\ DiskOK' /\ fault' \in BOOLEAN /\ fd' \in [Thread -> Name \cup {NoFile}]
        /\ fd'["signal"] = fd["signal"] /\ fd'["main"] = NoFile /\ pc' = "gate"
    BY <2>1, PutOrFailFiles
  <2>3. TypeOK'
    BY <2>1, <2>2 DEF TypeOK, Pc
  <2>4. MainWrites' /\ SignalWrites' /\ Alive' /\ Told'
    BY <2>1, <2>2 DEF MainWrites, SignalWrites, Alive, Told, AfterScan
  <2> QED
    BY <2>3, <2>4
<1>3. CASE KeepWrite
  <2>1. /\ pc = "keepWrite" /\ pc' = "incomplete"
        /\ Fits(SnapshotReport(partial_output), fd["main"])
        /\ UNCHANGED <<run, event, hit_timeout, last_status, partial_output, result,
                       status_locked, sig, seen, exit>>
    BY <1>3, TextsFit DEF KeepWrite, MainWrites, Fits, Told, scan, thread
  <2>2. /\ DiskOK' /\ fault' \in BOOLEAN /\ fd' \in [Thread -> Name \cup {NoFile}]
        /\ fd'["signal"] = fd["signal"] /\ fd'["main"] = NoFile /\ retained' \in BOOLEAN
    <3>1. CASE Put("main", SnapshotReport(partial_output)) /\ retained' = TRUE /\ UNCHANGED fault
      BY <2>1, <3>1, PutFiles DEF Thread, TypeOK
    <3>2. CASE Close("main") /\ fault' = TRUE /\ UNCHANGED retained
      BY <3>2, CloseFiles DEF Thread, TypeOK, DiskOK
    <3> QED
      BY <1>3, <3>1, <3>2 DEF KeepWrite
  <2>3. TypeOK'
    BY <2>1, <2>2 DEF TypeOK, Pc
  <2>4. MainWrites' /\ SignalWrites' /\ Alive' /\ Told'
    BY <2>1, <2>2 DEF MainWrites, SignalWrites, Alive, Told, AfterScan
  <2> QED
    BY <2>3, <2>4
<1>4. CASE IncompleteOpen
  <2>1. /\ OpenOrFail("status", "incompleteWrite", "drop") /\ fd["main"] = NoFile
        /\ pc = "incomplete" /\ retained' \in BOOLEAN
        /\ UNCHANGED <<run, event, hit_timeout, last_status, partial_output, result,
                       status_locked, sig, seen, exit>>
    BY <1>4 DEF IncompleteOpen, MainWrites, TypeOK, scan, thread
  <2>2. /\ DiskOK' /\ fault' \in BOOLEAN /\ fd' \in [Thread -> Name \cup {NoFile}]
        /\ fd'["signal"] = fd["signal"]
        /\ \/ pc' = "incompleteWrite" /\ fd'["main"] = "status"
           \/ pc' = "drop" /\ fd'["main"] = NoFile
    BY <2>1, OpenOrFailFiles DEF Name
  <2>3. TypeOK'
    BY <2>1, <2>2 DEF TypeOK, Pc
  <2>4. MainWrites' /\ SignalWrites' /\ Alive' /\ Told'
    BY <2>1, <2>2 DEF MainWrites, SignalWrites, Alive, Told, AfterScan
  <2> QED
    BY <2>3, <2>4
<1> QED
  BY <1>1, <1>2, <1>3, <1>4

\* The events follow one another within the scan.
LEMMA FollowingTold ==
  ASSUME ScanAssumption, NEW e \in Event, e.kind = "reading" => e.count < Files,
         NEW f \in Following(e)
  PROVE  /\ f \in Event
         /\ f.kind = "reading" => f.count < Files
         /\ f.kind = "complete" => f.count = Files
<1>0. e.kind \in Kinds /\ e.count \in 0..Files /\ e.capped \in BOOLEAN
  BY DEF Event
<1>1. CASE e.kind = "discovering"
  <2>1. CASE e.count < Files
    <3>1. f = [kind |-> "discovering", count |-> e.count + 1, capped |-> FALSE]
      BY <1>1, <2>1 DEF Following, Discovering
    <3>2. f.count \in 0..Files
      BY <1>0, <2>1, <3>1 DEF ScanAssumption
    <3> QED
      BY <3>1, <3>2 DEF Event, Kinds
  <2>2. CASE ~(e.count < Files)
    <3>1. f = [e EXCEPT !.kind = "begin", !.count = 0]
      BY <1>1, <2>2 DEF Following
    <3>2. f = [kind |-> "begin", count |-> 0, capped |-> e.capped]
      BY <3>1 DEF Event
    <3> QED
      BY <1>0, <3>2 DEF Event, Kinds, ScanAssumption
  <2> QED
    BY <2>1, <2>2
<1>2. CASE e.kind = "reading"
  <2>1. f = [e EXCEPT !.kind = "snapshot", !.count = @ + 1]
    BY <1>2 DEF Following
  <2>2. e.count + 1 \in 0..Files
    BY <1>0, <1>2 DEF ScanAssumption
  <2> QED
    BY <2>1, <2>2 DEF Event, Kinds
<1>3. CASE e.kind \in {"begin", "snapshot"}
  <2>1. CASE e.count < Files
    <3>1. f = [e EXCEPT !.kind = "reading"]
      BY <1>3, <2>1 DEF Following
    <3> QED
      BY <2>1, <3>1 DEF Event, Kinds
  <2>2. CASE ~(e.count < Files)
    <3>1. f \in [kind : {"complete"}, count : {e.count}, capped : BOOLEAN]
      BY <1>3, <2>2 DEF Following
    <3>2. e.count = Files
      BY <1>0, <2>2 DEF ScanAssumption
    <3> QED
      BY <1>0, <3>1, <3>2 DEF Event, Kinds
  <2> QED
    BY <2>1, <2>2
<1>4. CASE e.kind = "complete"
  BY <1>4 DEF Following
<1> QED
  BY <1>0, <1>1, <1>2, <1>3, <1>4 DEF Kinds

LEMMA StatusTyped ==
  ASSUME ScanAssumption, NEW e \in Event
  PROVE  StatusOf(e) \in ScanStatus /\ StatusOf(e).phase # "none"
<1>1. Phase(e) \in {"discovering", "scanning", "complete"}
  BY DEF Phase
<1>2. (IF e.kind = "discovering" THEN 0 ELSE e.count) \in 0..Files
  BY DEF Event, ScanAssumption
<1> QED
  BY <1>1, <1>2 DEF StatusOf, ScanStatus, Event

\* Main changes what it remembers, and no file.
LEMMA TypeRemembers ==
  ASSUME ScanAssumption, TypeInv,
         SetLastStatus \/ SetPartialOutput \/ CheckClock \/ Analyze \/ Policy \/ Failed
  PROVE  TypeInv'
<1> USE DEF TypeInv, saved, thread
<1>0. ASSUME UNCHANGED disk PROVE DiskOK'
  BY <1>0 DEF TypeOK, DiskOK
<1>1. CASE SetLastStatus
  <2>1. last_status' \in ScanStatus /\ last_status'.phase # "none"
    BY <1>1, StatusTyped DEF SetLastStatus, TypeOK
  <2>2. TypeOK'
    BY <1>0, <1>1, <2>1 DEF SetLastStatus, TypeOK, Pc
  <2>3. MainWrites' /\ SignalWrites' /\ Alive' /\ Told'
    BY <1>1, <2>1 DEF SetLastStatus, MainWrites, SignalWrites, Alive, Told, AfterScan
  <2> QED
    BY <2>2, <2>3
<1>2. CASE SetPartialOutput
  <2>1. partial_output' \in 0..NoSnapshot
    BY <1>2 DEF SetPartialOutput, TypeOK, Event, NoSnapshot, ScanAssumption
  <2>2. TypeOK'
    BY <1>0, <1>2, <2>1 DEF SetPartialOutput, TypeOK, Pc
  <2>3. MainWrites' /\ SignalWrites' /\ Alive' /\ Told'
    BY <1>2 DEF SetPartialOutput, MainWrites, SignalWrites, Alive, Told, AfterScan
  <2> QED
    BY <2>2, <2>3
<1>3. CASE CheckClock
  <2>1. hit_timeout' \in BOOLEAN /\ pc' \in {"failed", "analysis"}
    BY <1>3 DEF CheckClock, TimedOut
  <2>2. TypeOK'
    BY <1>0, <1>3, <2>1 DEF CheckClock, TypeOK, Pc
  <2>3. MainWrites' /\ SignalWrites' /\ Alive' /\ Told'
    BY <1>3, <2>1 DEF CheckClock, MainWrites, SignalWrites, Alive, Told, AfterScan
  <2> QED
    BY <2>2, <2>3
<1>4. CASE Analyze
  <2>1. /\ event' \in Event
        /\ event'.kind = "reading" => event'.count < Files
        /\ event'.kind = "complete" => event'.count = Files
    BY <1>4, FollowingTold DEF Analyze, TypeOK, Told
  <2>2. pc' \in {"event", "failed", "render"}
    BY <1>4 DEF Analyze
  <2>3. TypeOK'
    BY <1>0, <1>4, <2>1, <2>2 DEF Analyze, TypeOK, Pc
  <2>4. MainWrites' /\ SignalWrites' /\ Alive' /\ Told'
    BY <1>4, <2>1, <2>2 DEF Analyze, MainWrites, SignalWrites, Alive, Told, AfterScan
  <2> QED
    BY <2>3, <2>4
<1>5. CASE Policy
  <2>1. TypeOK'
    BY <1>0, <1>5 DEF Policy, TypeOK, Pc, scan
  <2>2. MainWrites' /\ SignalWrites' /\ Alive' /\ Told'
    BY <1>5 DEF Policy, MainWrites, SignalWrites, Alive, Told, AfterScan, scan
  <2> QED
    BY <2>1, <2>2
<1>6. CASE Failed
  <2>1. /\ pc' \in {"keep", "incomplete"} /\ retained' \in BOOLEAN
        /\ pc' = "keep" => partial_output # NoSnapshot
    BY <1>6 DEF Failed
  <2>2. pc' = "keep" => partial_output \in 0..Files
    BY <2>1 DEF TypeOK, NoSnapshot, ScanAssumption
  <2>3. TypeOK'
    BY <1>0, <1>6, <2>1 DEF Failed, TypeOK, Pc, scan
  <2>4. MainWrites' /\ SignalWrites' /\ Alive' /\ Told'
    BY <1>6, <2>1, <2>2 DEF Failed, MainWrites, SignalWrites, Alive, Told, AfterScan, scan
  <2> QED
    BY <2>3, <2>4
<1> QED
  BY <1>1, <1>2, <1>3, <1>4, <1>5, <1>6

\* The rename.
LEMMA TypePromote == ASSUME ScanAssumption, TypeInv, Promote PROVE TypeInv'
<1> USE DEF TypeInv
<1>1. pc = "rename" /\ fd["main"] = NoFile
  BY DEF Promote, Writes, MainWrites
<1>2. UNCHANGED <<run, event, hit_timeout, last_status, partial_output, retained, result,
                  status_locked, sig, seen, exit>>
  BY DEF Promote, Writes, scan, thread
<1>3. /\ DiskOK' /\ fault' \in BOOLEAN /\ fd' \in [Thread -> Name \cup {NoFile}]
      /\ fd'["main"] = NoFile
      /\ fd'["signal"] = fd["signal"] \/ (fd["signal"] = "partial" /\ fd'["signal"] = "report")
      /\ pc' \in {"bytes", "failed"}
  <2>1. CASE Promoted /\ pc' = "bytes" /\ UNCHANGED fault
    <3>1. /\ DiskOK' /\ fd' \in [Thread -> Name \cup {NoFile}]
          /\ \A t \in Thread :
               fd'[t] = IF fd[t] = "partial" THEN "report" ELSE fd[t]
      BY <2>1, PromotedFiles
    <3>2. fd'["main"] = NoFile
      BY <1>1, <3>1 DEF Thread, NoFile
    <3> QED
      BY <2>1, <3>1, <3>2 DEF Thread, TypeOK
  <2>2. CASE pc' = "failed" /\ fault' = TRUE /\ UNCHANGED <<disk, fd>>
    BY <1>1, <2>2 DEF TypeOK, DiskOK
  <2> QED
    BY <2>1, <2>2 DEF Promote
<1>4. TypeOK'
  BY <1>2, <1>3 DEF TypeOK, Pc
<1>5. SignalWrites'
  BY <1>2, <1>3 DEF SignalWrites, NoFile
<1>6. MainWrites' /\ Alive' /\ Told'
  BY <1>1, <1>2, <1>3 DEF MainWrites, Alive, Told, AfterScan
<1> QED
  BY <1>4, <1>5, <1>6

\* The process ends: on its own, by the signal thread or killed.
LEMMA TypeEnds ==
  ASSUME ScanAssumption, TypeInv, Drop \/ Exit \/ Kill
  PROVE  TypeInv'
<1> USE DEF TypeInv
<1>1. PICK code \in {"none", "ok", "policy", "tool", "signal", "killed"} : Ended(code)
  BY DEF Drop, Exit, Kill, TypeOK
<1>2. UNCHANGED <<run, event, hit_timeout, last_status, partial_output, retained, result,
                  seen, disk, fault>>
  BY DEF Drop, Exit, Kill, scan
<1>3. /\ pc' = "idle" /\ sig' \in {"off", "interrupted"}
      /\ fd' = [t \in Thread |-> NoFile] /\ status_locked' = FALSE /\ exit' = code
  BY <1>1 DEF Ended
<1>4. fd' \in [Thread -> Name \cup {NoFile}] /\ fd'["main"] = NoFile /\ fd'["signal"] = NoFile
  BY <1>3 DEF Thread
<1>5. DiskOK'
  BY <1>2 DEF TypeOK, DiskOK
<1>6. TypeOK'
  BY <1>2, <1>3, <1>4, <1>5 DEF TypeOK, Pc, Signal
<1>7. MainWrites' /\ SignalWrites' /\ Alive' /\ Told'
  BY <1>2, <1>3, <1>4 DEF MainWrites, SignalWrites, Alive, Told, AfterScan
<1> QED
  BY <1>6, <1>7

\* The signal thread reads.
LEMMA TypeReads ==
  ASSUME ScanAssumption, TypeInv, Receive \/ ReadStatus \/ ReadOutput
  PROVE  TypeInv'
<1> USE DEF TypeInv
<1>1. /\ UNCHANGED <<run, pc, event, hit_timeout, last_status, partial_output, retained, result,
                     status_locked, disk, fd, fault, exit>>
      /\ sig \in {"waiting", "readStatus", "readOutput"}
      /\ sig' \in {"readStatus", "readOutput", "statusOpen", "partialOpen"}
  BY DEF Receive, ReadStatus, ReadOutput, Handles, scan, saved
<1>2. seen' \in [status : ScanStatus, output : 0..NoSnapshot]
  BY DEF Receive, ReadStatus, ReadOutput, TypeOK
<1>3. sig' = "partialOpen" => seen'.output \in 0..Files
  <2>1. CASE ReadOutput
    BY <2>1 DEF ReadOutput, TypeOK, NoSnapshot, ScanAssumption
  <2>2. CASE Receive \/ ReadStatus
    BY <2>2 DEF Receive, ReadStatus
  <2> QED
    BY <2>1, <2>2
<1>4. DiskOK'
  BY <1>1 DEF TypeOK, DiskOK
<1>5. TypeOK'
  BY <1>1, <1>2, <1>4 DEF TypeOK, Signal
<1>6. pc # "idle"
  BY <1>1 DEF Alive
<1>7. MainWrites' /\ SignalWrites' /\ Alive' /\ Told'
  BY <1>1, <1>3, <1>6 DEF MainWrites, SignalWrites, Alive, Told, AfterScan
<1> QED
  BY <1>5, <1>7

\* The signal thread writes, or fails to.
LEMMA SignalOpenFiles ==
  ASSUME TypeOK, fd["signal"] = NoFile, NEW from, NEW name \in Name, NEW to,
         SignalOpen(from, name, to)
  PROVE  /\ DiskOK' /\ fault' \in BOOLEAN
         /\ fd' \in [Thread -> Name \cup {NoFile}]
         /\ fd'["main"] = fd["main"]
         /\ \/ sig' = to /\ fd'["signal"] = name
            \/ sig' = "exit" /\ fd'["signal"] = NoFile
<1>1. CASE Open("signal", name) /\ sig' = to /\ UNCHANGED fault
  BY <1>1, OpenFiles DEF Thread, TypeOK
<1>2. CASE sig' = "exit" /\ fault' = TRUE /\ UNCHANGED <<disk, fd>>
  BY <1>2 DEF TypeOK, DiskOK
<1> QED
  BY <1>1, <1>2 DEF SignalOpen

LEMMA SignalWriteFiles ==
  ASSUME TypeOK, NEW from, NEW text, NEW to, SignalWrite(from, text, to),
         Fits(text, fd["signal"])
  PROVE  /\ DiskOK' /\ fault' \in BOOLEAN
         /\ fd' \in [Thread -> Name \cup {NoFile}]
         /\ fd'["main"] = fd["main"]
         /\ fd'["signal"] = NoFile
         /\ sig' \in {to, "exit"}
<1>1. CASE Put("signal", text) /\ sig' = to /\ UNCHANGED fault
  BY <1>1, PutFiles DEF Thread, TypeOK
<1>2. CASE Close("signal") /\ sig' = "exit" /\ fault' = TRUE
  BY <1>2, CloseFiles DEF Thread, TypeOK, DiskOK
<1> QED
  BY <1>1, <1>2 DEF SignalWrite

LEMMA TypeSignalWrites ==
  ASSUME ScanAssumption, TypeInv, InterruptedPartial \/ InterruptedStatus
  PROVE  TypeInv'
<1> USE DEF TypeInv
<1>1. /\ UNCHANGED <<run, pc, event, hit_timeout, last_status, partial_output, retained, result,
                     status_locked, seen, exit>>
      /\ pc # "idle"
      /\ sig \in {"partialOpen", "partialWrite", "statusOpen", "statusWrite"}
  BY DEF InterruptedPartial, InterruptedStatus, SignalOpen, SignalWrite, Handles, scan, Alive
<1>2. /\ DiskOK' /\ fault' \in BOOLEAN
      /\ fd' \in [Thread -> Name \cup {NoFile}]
      /\ fd'["main"] = fd["main"]
      /\ \/ sig' = "partialWrite" /\ fd'["signal"] = "partial" /\ sig = "partialOpen"
         \/ sig' = "statusWrite" /\ fd'["signal"] = "status"
         \/ sig' \in {"statusOpen", "exit"} /\ fd'["signal"] = NoFile
  <2>1. CASE SignalOpen("partialOpen", "partial", "partialWrite")
    <3>1. fd["signal"] = NoFile /\ "partial" \in Name /\ sig = "partialOpen"
      BY <2>1 DEF SignalOpen, Handles, SignalWrites, Name
    <3> QED
      BY <2>1, <3>1, SignalOpenFiles
  <2>2. CASE SignalWrite("partialWrite", SnapshotReport(seen.output), "statusOpen")
    <3>1. sig = "partialWrite"
      BY <2>2 DEF SignalWrite, Handles
    <3>2. SnapshotReport(seen.output) \in Report /\ fd["signal"] \in {"partial", "report"}
      BY <1>1, <3>1, TextsFit DEF Told, SignalWrites
    <3> QED
      BY <2>2, <3>2, SignalWriteFiles DEF Fits
  <2>3. CASE SignalOpen("statusOpen", "status", "statusWrite")
    <3>1. fd["signal"] = NoFile /\ "status" \in Name
      BY <2>3 DEF SignalOpen, Handles, SignalWrites, Name
    <3> QED
      BY <2>3, <3>1, SignalOpenFiles
  <2>4. CASE SignalWrite("statusWrite", InterruptedSidecar, "exit")
    <3>1. sig = "statusWrite"
      BY <2>4 DEF SignalWrite, Handles
    <3>2. InterruptedSidecar \in Sidecar /\ fd["signal"] = "status"
      BY <1>1, <3>1, TextsFit DEF SignalWrites
    <3> QED
      BY <2>4, <3>2, SignalWriteFiles DEF Fits
  <2> QED
    BY <2>1, <2>2, <2>3, <2>4 DEF InterruptedPartial, InterruptedStatus
<1>3. TypeOK'
  BY <1>1, <1>2 DEF TypeOK, Signal
<1>4. MainWrites' /\ SignalWrites' /\ Alive' /\ Told'
  BY <1>1, <1>2 DEF MainWrites, SignalWrites, Alive, Told, AfterScan
<1> QED
  BY <1>3, <1>4

LEMMA TypeStep == ASSUME ScanAssumption, TypeInv, [Next]_vars PROVE TypeInv'
<1>1. CASE Main
  BY <1>1, TypeOpens, TypeWrites, TypeRecords, TypeRemembers, TypePromote, TypeEnds
     DEF Main
<1>2. CASE SignalThread
  BY <1>2, TypeReads, TypeSignalWrites, TypeEnds DEF SignalThread
<1>3. CASE UNCHANGED vars
  BY <1>3 DEF vars, TypeInv, TypeOK, DiskOK, MainWrites, SignalWrites, Alive, Told
<1> QED
  BY <1>1, <1>2, <1>3, TypeStart, TypeReads, TypeEnds DEF Next

\* The state of the two threads and the four files has its type, whatever
\* fails, is interrupted or killed: sidecar, report and manifest hold their
\* own texts, an empty or cut-short one, or a mixture of two writers.
THEOREM TypeCorrect == Spec => []TypeOK
<1>1. Init => TypeInv
  BY ScanAssumption, TypeInitially
<1>2. TypeInv /\ [Next]_vars => TypeInv'
  BY ScanAssumption, TypeStep
<1>3. TypeInv => TypeOK
  BY DEF TypeInv
<1> QED
  BY <1>1, <1>2, <1>3, PTL DEF Spec

-----------------------------------------------------------------------------
(* The report.                                                             *)

\* Main never writes the report: it appears by the rename.
LEMMA MainKeepsReport ==
  ASSUME ScanAssumption, TypeInv, Main, ~Promote
  PROVE  disk'["report"] = disk["report"]
<1> USE DEF TypeInv, Name
<1>1. CASE StubOpen \/ EventOpen \/ BytesOpen \/ IncompleteOpen
  <2>1. PICK to, failed \in Pc : OpenOrFail("status", to, failed) /\ fd["main"] = NoFile
    BY <1>1 DEF StubOpen, EventOpen, BytesOpen, IncompleteOpen, Writes, MainWrites, Pc
  <2> QED
    BY <2>1, OpenOrFailFiles
<1>2. CASE Render \/ KeepOpen
  <2>1. PICK to, failed \in Pc : OpenOrFail("partial", to, failed) /\ fd["main"] = NoFile
    BY <1>2 DEF Render, KeepOpen, Writes, MainWrites, Pc
  <2> QED
    BY <2>1, OpenOrFailFiles
<1>3. CASE GateOpen
  BY <1>3, OpenOrFailFiles DEF GateOpen, Writes, MainWrites
<1>4. CASE \/ StubWrite \/ EventWrite \/ FinalWrite \/ BytesWrite \/ GateWrite
           \/ KeepWrite \/ IncompleteWrite
  <2>1. fd["main"] \in {"status", "partial", "gate"}
    BY <1>4 DEF StubWrite, EventWrite, FinalWrite, BytesWrite, GateWrite, KeepWrite,
                IncompleteWrite, Writes, MainWrites
  <2>2. disk' = disk \/ \E left : disk' = [disk EXCEPT ![fd["main"]] = left]
    BY <1>4 DEF StubWrite, EventWrite, FinalWrite, BytesWrite, GateWrite, KeepWrite,
                IncompleteWrite, PutOrFail, Put, Close
  <2> QED
    BY <2>1, <2>2 DEF TypeOK, DiskOK
<1>5. CASE SetLastStatus \/ SetPartialOutput \/ CheckClock \/ Analyze \/ Policy \/ Failed \/ Drop
  BY <1>5 DEF SetLastStatus, SetPartialOutput, CheckClock, Analyze, Policy, Failed, Drop, saved
<1> QED
  BY <1>1, <1>2, <1>3, <1>4, <1>5 DEF Main

\* The report that main is about to write is the same before and after a step
\* that leaves the scan where it is.
LEMMA SameReport ==
  ASSUME run' = run, event' = event
  PROVE  FinalReport' = FinalReport
BY DEF FinalReport

\* Main on its way to the report.
LEMMA ProgressReports ==
  ASSUME ScanAssumption, TypeInv, Progress, Render \/ FinalWrite \/ Promote
  PROVE  Progress'
<1> USE DEF TypeInv
<1>1. /\ run' = run /\ event' = event /\ result' = result /\ sig' = sig
      /\ event.kind = "complete" /\ result = "tool"
  BY DEF Render, FinalWrite, Promote, Writes, scan, thread, Progress, AfterScan
<1>2. FinalReport' = FinalReport
  BY <1>1, SameReport
<1>3. CASE Render
  <2>1. \/ pc' = "finalWrite" /\ disk'["partial"] = Empty
        \/ pc' = "failed"
    BY <1>3, OpenOrFailFiles DEF Render, Writes, MainWrites, Name
  <2> QED
    BY <1>1, <2>1 DEF Progress, AfterScan, Reporting
<1>4. CASE FinalWrite
  <2>1. pc = "finalWrite" /\ fd["main"] = "partial" /\ Fits(FinalReport, "partial")
    BY <1>4, TextsFit DEF FinalWrite, Writes, MainWrites, Fits
  <2>2. \/ pc' = "rename" /\ (disk["partial"] = Empty => disk'["partial"] = FinalReport)
        \/ pc' = "failed"
    BY <1>4, <2>1, PutOrFailFiles DEF FinalWrite
  <2>3. ~Signalled => disk["partial"] = Empty
    BY <2>1 DEF Progress
  <2> QED
    BY <1>1, <1>2, <2>2, <2>3 DEF Progress, AfterScan, Reporting, Signalled
<1>5. CASE Promote
  <2>1. \/ pc' = "bytes" /\ disk'["report"] = disk["partial"]
        \/ pc' = "failed"
    BY <1>5, PromotedFiles DEF Promote
  <2>2. ~Signalled => disk["partial"] = FinalReport
    BY <1>5 DEF Progress, Promote, Writes
  <2> QED
    BY <1>1, <1>2, <2>1, <2>2 DEF Progress, AfterScan, Reporting, Signalled
<1> QED
  BY <1>3, <1>4, <1>5

\* Main with the report in place.
LEMMA ProgressReported ==
  ASSUME ScanAssumption, TypeInv, Progress,
         BytesOpen \/ BytesWrite \/ GateOpen \/ GateWrite \/ Policy
  PROVE  Progress'
<1> USE DEF TypeInv
<1>1. disk'["report"] = disk["report"]
  <2>1. Main
    BY DEF Main
  <2>2. ~Promote
    BY DEF BytesOpen, BytesWrite, GateOpen, GateWrite, Policy, Promote, Writes
  <2> QED
    BY <2>1, <2>2, MainKeepsReport
<1>2. /\ run' = run /\ event' = event /\ sig' = sig
      /\ pc \in Reporting /\ pc' \in {"bytesWrite", "gate", "gateWrite", "policy", "drop"}
      /\ pc' # "drop" => result' = result
  BY DEF BytesOpen, BytesWrite, GateOpen, GateWrite, Policy, Writes, OpenOrFail,
         PutOrFail, scan, thread, Reporting
<1>3. FinalReport' = FinalReport
  BY <1>2, SameReport
<1>4. event.kind = "complete" /\ result = "tool" /\ (~Signalled => disk["report"] = FinalReport)
  BY <1>2 DEF Progress, AfterScan, Reporting
<1> QED
  BY <1>1, <1>2, <1>3, <1>4 DEF Progress, AfterScan, Reporting, Signalled

\* Main before the report, and after a failure.
LEMMA ProgressElsewhere ==
  ASSUME ScanAssumption, TypeInv, Progress,
         \/ StubOpen \/ StubWrite \/ SetLastStatus \/ SetPartialOutput
         \/ EventOpen \/ EventWrite \/ CheckClock \/ Analyze \/ Failed
         \/ KeepOpen \/ KeepWrite \/ IncompleteOpen \/ IncompleteWrite
  PROVE  Progress'
<1> USE DEF TypeInv
<1>1. result' = result /\ pc \notin {"idle", "drop"}
  BY DEF StubOpen, StubWrite, SetLastStatus, SetPartialOutput, EventOpen, EventWrite,
         CheckClock, Analyze, Failed, KeepOpen, KeepWrite, IncompleteOpen,
         IncompleteWrite, Writes
<1>2. result' = "tool"
  BY <1>1 DEF Progress
<1>3. /\ pc' \notin AfterScan \ {"render"}
      /\ pc' = "render" => event'.kind = "complete"
  BY DEF StubOpen, StubWrite, SetLastStatus, SetPartialOutput, EventOpen, EventWrite,
         CheckClock, Analyze, Failed, KeepOpen, KeepWrite, IncompleteOpen,
         IncompleteWrite, Writes, OpenOrFail, PutOrFail, AfterScan
<1> QED
  BY <1>2, <1>3 DEF Progress, AfterScan, Reporting

LEMMA ProgressStep == ASSUME ScanAssumption, TypeInv, Progress, [Next]_vars PROVE Progress'
<1>1. CASE Start
  BY <1>1 DEF Start, Progress, AfterScan, Reporting
<1>2. CASE Main
  <2>1. CASE Drop
    BY <2>1 DEF Drop, Ended, Progress, AfterScan, Reporting
  <2> QED
    BY <1>2, <2>1, ProgressReports, ProgressReported, ProgressElsewhere DEF Main
<1>3. CASE Receive
  <2>1. Signalled'
    BY <1>3 DEF Receive, Signalled
  <2> QED
    BY <1>3, <2>1 DEF Receive, Progress, scan
<1>4. CASE SignalThread
  <2>1. CASE Exit
    BY <2>1 DEF Exit, Ended, Progress, AfterScan, Reporting
  <2>2. CASE ReadStatus \/ ReadOutput \/ InterruptedPartial \/ InterruptedStatus
    <3>1. UNCHANGED <<run, pc, event, result>>
      BY <2>2 DEF ReadStatus, ReadOutput, InterruptedPartial, InterruptedStatus,
                  SignalOpen, SignalWrite, Handles, scan
    <3>2. Signalled'
      BY <2>2 DEF ReadStatus, ReadOutput, InterruptedPartial, InterruptedStatus,
                  SignalOpen, SignalWrite, Signalled
    <3> QED
      BY <3>1, <3>2 DEF Progress
  <2> QED
    BY <1>4, <2>1, <2>2 DEF SignalThread
<1>5. CASE Kill
  BY <1>5 DEF Kill, Ended, Progress, AfterScan, Reporting
<1>6. CASE UNCHANGED vars
  BY <1>6 DEF vars, Progress, FinalReport, Signalled
<1> QED
  BY <1>1, <1>2, <1>3, <1>4, <1>5, <1>6 DEF Next

LEMMA SuccessStep ==
  ASSUME ScanAssumption, ScanInv, [Next]_vars
  PROVE  SuccessHasReport'
<1> USE DEF ScanInv, TypeInv
<1>1. TypeInv'
  BY TypeStep
<1>2. CASE Start
  BY <1>2 DEF Start, SuccessHasReport, Over
<1>3. CASE Drop
  <2>1. /\ exit' = result /\ run' = run /\ disk' = disk
        /\ pc = "drop" /\ ~Signalled
    BY <1>3 DEF Drop, Ended, Signalled
  <2>2. CASE result = "tool"
    BY <2>1, <2>2 DEF SuccessHasReport
  <2>3. CASE result # "tool"
    <3>1. event.kind = "complete" /\ disk["report"] = FinalReport
      BY <2>1, <2>3 DEF Progress
    <3>2. /\ disk["report"].text = "final" /\ disk["report"].run = run
          /\ disk["report"].scanned = Files
      BY <3>1 DEF FinalReport, Told
    <3> QED
      BY <2>1, <3>2 DEF SuccessHasReport, IsFinalOf
  <2> QED
    BY <2>2, <2>3
<1>4. CASE Exit \/ Kill
  BY <1>4 DEF Exit, Kill, Ended, SuccessHasReport
<1>5. CASE Receive \/ (SignalThread /\ ~Exit)
  BY <1>5 DEF Receive, SignalThread, ReadStatus, ReadOutput, InterruptedPartial,
              InterruptedStatus, SignalOpen, SignalWrite, Handles, Alive,
              SuccessHasReport, Over
<1>6. CASE Main /\ ~Drop
  <2>1. sig' = sig /\ pc # "idle"
    BY <1>6 DEF Main, StubOpen, StubWrite, SetLastStatus, SetPartialOutput, EventOpen,
         EventWrite, CheckClock, Analyze, Render, FinalWrite, Promote, BytesOpen,
         BytesWrite, GateOpen, GateWrite, Policy, Failed, KeepOpen, KeepWrite,
         IncompleteOpen, IncompleteWrite, Writes, thread
  <2>2. pc' # "idle"
    BY <1>1, <2>1 DEF Alive
  <2> QED
    BY <2>2 DEF SuccessHasReport, Over
<1>7. CASE UNCHANGED vars
  BY <1>7 DEF vars, SuccessHasReport, Over, IsFinalOf
<1> QED
  BY <1>2, <1>3, <1>4, <1>5, <1>6, <1>7 DEF Next

LEMMA ScanInitially == ASSUME ScanAssumption, Init PROVE ScanInv
<1>1. TypeInv
  BY TypeInitially
<1>2. Progress /\ SuccessHasReport
  BY DEF Init, Progress, AfterScan, Reporting, SuccessHasReport, Over
<1> QED
  BY <1>1, <1>2 DEF ScanInv

LEMMA ScanStep == ASSUME ScanAssumption, ScanInv, [Next]_vars PROVE ScanInv'
BY TypeStep, ProgressStep, SuccessStep DEF ScanInv

\* Exit 0 and exit 1 mean that <out> holds the report of this very process over
\* all files in scope, whatever failed to be written beside it.
THEOREM SuccessReported == Spec => []SuccessHasReport
<1>1. Init => ScanInv
  BY ScanAssumption, ScanInitially
<1>2. ScanInv /\ [Next]_vars => ScanInv'
  BY ScanAssumption, ScanStep
<1>3. ScanInv => SuccessHasReport
  BY DEF ScanInv
<1> QED
  BY <1>1, <1>2, <1>3, PTL DEF Spec

LEMMA ReportStep ==
  ASSUME ScanAssumption, ScanInv, Next, disk'["report"] # disk["report"]
  PROVE  Signalled \/ IsFinalOf(disk'["report"], run)
<1> USE DEF ScanInv, TypeInv
<1>1. CASE Start \/ Receive \/ Kill
  BY <1>1 DEF Start, Receive, Kill, saved
<1>2. CASE SignalThread
  BY <1>2 DEF SignalThread, ReadStatus, ReadOutput, InterruptedPartial, InterruptedStatus,
              SignalOpen, SignalWrite, Exit, Handles, Signalled
<1>3. CASE Main
  <2>1. Promote
    BY <1>3, MainKeepsReport
  <2>2. disk'["report"] = disk["partial"]
    BY <2>1, PromotedFiles DEF Promote
  <2>3. ~Signalled => disk["partial"] = FinalReport
    BY <2>1 DEF Promote, Writes, Progress
  <2> QED
    BY <2>2, <2>3 DEF IsFinalOf, FinalReport
<1> QED
  BY <1>1, <1>2, <1>3 DEF Next

\* Unless a signal arrived, <out> changes only by the rename of a whole report
\* of a finished scan: no failure and no kill, at any step, shows another one.
THEOREM ReportPromoted == Spec => ReportOnlyPromoted
<1>1. Init => ScanInv
  BY ScanAssumption, ScanInitially
<1>2. ScanInv /\ [Next]_vars => ScanInv'
  BY ScanAssumption, ScanStep
<1>3. ScanInv /\ [Next]_vars =>
        [disk'["report"] # disk["report"] => Signalled \/ IsFinalOf(disk'["report"], run)]_vars
  BY ScanAssumption, ReportStep
<1> QED
  BY <1>1, <1>2, <1>3, PTL DEF Spec, ReportOnlyPromoted

-----------------------------------------------------------------------------
(* What is left on disk.                                                   *)

Unreported == Pc \ ({"idle", "drop"} \cup Reporting)

WholeReport(name) == disk[name].text \in {"snapshot", "final"}

\* No text is of a process to come.
NotAhead ==
  /\ SidecarText => disk["status"].run <= run
  /\ \A name \in {"partial", "report"} : WholeReport(name) => disk[name].run <= run

\* What the last output may have scanned.
ToldOf(e) == IF e.kind \in {"discovering", "begin"} THEN {NoSnapshot} ELSE {NoSnapshot, e.count}

\* What was told of the event: the status first, then the output.
Counted ==
  /\ pc \in {"stub", "stubWrite"} => event = Discovering(0)
  /\ pc \notin {"idle", "drop"} /\ ~(pc \in {"event", "output"} /\ event.kind = "snapshot") =>
       partial_output \in ToldOf(event)
  /\ pc \notin {"idle", "drop", "stub", "stubWrite", "event"} =>
       last_status.scanned = StatusOf(event).scanned

OwnText == SidecarText /\ disk["status"].run = run

Recorded ==
  OwnText /\ disk["status"].state \in {"complete", "capped"} /\ disk["status"].bytes

GaveUp == OwnText /\ disk["status"].state = "failed"

\* What main has written, as long as it is alone.
Written ==
  /\ pc \in {"stubWrite", "eventWrite", "bytesWrite", "incompleteWrite"} =>
       disk["status"] = Empty
  /\ pc = "gateWrite" => disk["gate"] = Empty
  /\ pc = "keepWrite" => disk["partial"] = Empty
  /\ pc \in Unreported => ~IsFinalOf(disk["report"], run)
  /\ pc = "bytesWrite" => last_status.bytes

\* The end of a run whose writes succeeded.
Ending ==
  /\ pc \in {"gate", "gateWrite", "policy"} => Recorded
  /\ pc = "policy" => disk["gate"].run = run
  /\ pc = "drop" =>
       \/ Recorded /\ IsFinalOf(disk["report"], run) /\ disk["gate"].run = run
       \/ GaveUp /\ ~IsFinalOf(disk["report"], run) /\ result = "tool"

\* A partial report of this run is what the failed sidecar will say.
Retained ==
  /\ pc \notin {"idle", "drop"} => ~GaveUp
  /\ pc \notin {"idle", "drop"} /\ WholeReport("partial") /\ disk["partial"].run = run =>
       /\ pc \in {"rename", "failed", "incomplete", "incompleteWrite"}
       /\ disk["partial"].scanned = last_status.scanned
  /\ pc = "incompleteWrite" /\ retained => disk["partial"] # Absent

AloneInv == ~Signalled => Written /\ Retained /\ (~fault => Ending)

Failing == {"failed", "keep", "keepWrite", "incomplete", "incompleteWrite"}

\* What a timeout means, and that the sidecar does not make one up.
Timely ==
  /\ hit_timeout => /\ pc \in Failing \cup {"drop", "idle"}
                    /\ ~event.capped /\ event.kind # "complete"
  /\ OwnText /\ disk["status"].stop = "timeout" => hit_timeout

SidecarInv ==
  /\ ScanInv /\ NotAhead /\ Counted /\ AloneInv /\ Timely
  /\ ExitIsOnDisk /\ FailedMatchesPartial

-----------------------------------------------------------------------------
(* Texts and writes.                                                       *)

\* What the texts say.
LEMMA Texts ==
  /\ Stub.text = "status" /\ Stub.run = run /\ Stub.state = "in_progress"
  /\ Stub.stop # "timeout" /\ InterruptedSidecar.stop # "timeout"
  /\ IncompleteSidecar.stop = "timeout" => hit_timeout
  /\ \A s \in ScanStatus : ScanSidecar(s).stop # "timeout"
  /\ \A s \in ScanStatus :
       /\ ScanSidecar(s).text = "status" /\ ScanSidecar(s).run = run
       /\ ScanSidecar(s).state \in {"complete", "capped"} /\ ScanSidecar(s).bytes = s.bytes
  /\ IncompleteSidecar.text = "status" /\ IncompleteSidecar.run = run
  /\ IncompleteSidecar.state = "failed" /\ IncompleteSidecar.partial = retained
  /\ IncompleteSidecar.scanned = last_status.scanned
  /\ InterruptedSidecar.text = "status" /\ InterruptedSidecar.run = run
  /\ FinalReport.text = "final" /\ FinalReport.run = run /\ FinalReport.scanned = event.count
  /\ \A n : /\ SnapshotReport(n).text = "snapshot" /\ SnapshotReport(n).run = run
            /\ SnapshotReport(n).scanned = n
BY DEF Stub, ScanSidecar, IncompleteSidecar, InterruptedSidecar, FinalReport, SnapshotReport

\* What main opens is empty, if it can be opened.
LEMMA MainOpens ==
  ASSUME TypeOK, NEW name \in Name, NEW to, NEW failed, OpenOrFail(name, to, failed)
  PROVE  \/ pc' = to /\ fault' = fault /\ disk' = [disk EXCEPT ![name] = Empty]
         \/ pc' = failed /\ fault' = TRUE /\ disk' = disk
BY DEF OpenOrFail, Open

\* An empty file gets the text that main writes, or stays empty.
LEMMA MainPuts ==
  ASSUME TypeOK, NEW name \in Name, NEW text, NEW to, NEW failed,
         PutOrFail(text, to, failed), fd["main"] = name, disk[name] = Empty
  PROVE  \/ pc' = to /\ fault' = fault /\ disk' = [disk EXCEPT ![name] = text]
         \/ pc' = failed /\ fault' = TRUE /\ disk' = disk
BY DEF PutOrFail, Put, Close

-----------------------------------------------------------------------------
(* Process numbers.                                                        *)

\* One file is opened or written by a thread of this process.
LEMMA OneText ==
  ASSUME TypeOK, NotAhead, run' = run, NEW name \in Name, NEW text,
         disk' = [disk EXCEPT ![name] = text],
         text \in {Empty, Mixed} \/ text.run = run
  PROVE  NotAhead'
<1>1. \A n \in Name : disk'[n] = IF n = name THEN text ELSE disk[n]
  BY DEF TypeOK, DiskOK
<1>2. run \in Nat
  BY ScanAssumption DEF TypeOK
<1> QED
  BY <1>1, <1>2 DEF NotAhead, SidecarText, WholeReport, Name, Empty, Mixed

LEMMA NotAheadStep ==
  ASSUME ScanInv, NotAhead, [Next]_vars
  PROVE  NotAhead'
<1> USE DEF ScanInv, TypeInv
<1>1. run \in Nat
  BY ScanAssumption DEF TypeOK
<1>2. CASE Start
  <2>1. run' = run + 1 /\ disk' = disk
    BY <1>2 DEF Start
  <2>2. SidecarText => disk["status"].run \in Nat
    BY ScanAssumption DEF TypeOK, DiskOK, SidecarText, Sidecar, Absent, Empty, Mixed
  <2>3. \A name \in {"partial", "report"} : WholeReport(name) => disk[name].run \in Nat
    BY ScanAssumption DEF TypeOK, DiskOK, WholeReport, Report, Absent, Empty, Mixed
  <2>4. SidecarText' => disk'["status"].run <= run'
    BY <1>1, <2>1, <2>2 DEF NotAhead, SidecarText
  <2>5. \A name \in {"partial", "report"} : WholeReport(name)' => disk'[name].run <= run'
    BY <1>1, <2>1, <2>3 DEF NotAhead, WholeReport
  <2> QED BY <2>4, <2>5 DEF NotAhead
<1>3. CASE disk' = disk /\ run' = run
  BY <1>3 DEF NotAhead, SidecarText, WholeReport
<1>4. CASE \/ StubOpen \/ EventOpen \/ Render \/ BytesOpen \/ GateOpen \/ KeepOpen
           \/ IncompleteOpen
  <2>1. run' = run
    BY <1>4 DEF StubOpen, EventOpen, Render, BytesOpen, GateOpen, KeepOpen, IncompleteOpen,
                Writes
  <2>2. disk' = disk \/ \E name \in Name : disk' = [disk EXCEPT ![name] = Empty]
    BY <1>4 DEF StubOpen, EventOpen, Render, BytesOpen, GateOpen, KeepOpen, IncompleteOpen,
                OpenOrFail, Open, Name
  <2> QED BY <1>3, <2>1, <2>2, OneText
<1>5. CASE \/ StubWrite \/ EventWrite \/ FinalWrite \/ BytesWrite \/ GateWrite
           \/ KeepWrite \/ IncompleteWrite
  <2>1. run' = run /\ fd["main"] \in Name
    BY <1>5 DEF StubWrite, EventWrite, FinalWrite, BytesWrite, GateWrite, KeepWrite,
                IncompleteWrite, Writes, MainWrites, Name
  <2>2. PICK text : /\ text.run = run
                    /\ \/ disk' = disk
                       \/ \E left \in {text, Mixed} : disk' = [disk EXCEPT ![fd["main"]] = left]
    <3>1. CASE StubWrite
      BY <3>1, Texts DEF StubWrite, PutOrFail, Put, Close
    <3>2. CASE EventWrite \/ BytesWrite
      <4>1. last_status \in ScanStatus
        BY DEF TypeOK
      <4> QED BY <3>2, <4>1, Texts DEF EventWrite, BytesWrite, PutOrFail, Put, Close
    <3>3. CASE FinalWrite
      BY <3>3, Texts DEF FinalWrite, PutOrFail, Put, Close
    <3>4. CASE GateWrite
      <4>1. [text |-> "gate", run |-> run].run = run
        OBVIOUS
      <4> QED BY <3>4, <4>1 DEF GateWrite, PutOrFail, Put, Close
    <3>5. CASE KeepWrite
      <4>1. SnapshotReport(partial_output).run = run
        BY Texts
      <4> QED BY <3>5, <4>1 DEF KeepWrite, Put, Close
    <3>6. CASE IncompleteWrite
      BY <3>6, Texts DEF IncompleteWrite, PutOrFail, Put, Close
    <3> QED BY <1>5, <3>1, <3>2, <3>3, <3>4, <3>5, <3>6
  <2> QED BY <1>3, <2>1, <2>2, OneText
<1>6. CASE Promote
  <2>1. CASE Promoted /\ run' = run
    BY <2>1 DEF Promoted, NotAhead, SidecarText, WholeReport, Name, TypeOK, DiskOK, Absent
  <2> QED BY <1>3, <1>6, <2>1 DEF Promote, Writes
<1>7. CASE InterruptedPartial \/ InterruptedStatus
  <2>1. run' = run
    BY <1>7 DEF InterruptedPartial, InterruptedStatus, SignalOpen, SignalWrite, Handles
  <2>2. CASE \E from, name, to :
               name \in Name /\ SignalOpen(from, name, to)
    BY <1>3, <2>1, <2>2, OneText DEF SignalOpen, Open
  <2>3. CASE \/ SignalWrite("partialWrite", SnapshotReport(seen.output), "statusOpen")
             \/ SignalWrite("statusWrite", InterruptedSidecar, "exit")
    <3>1. fd["signal"] \in Name
      BY <2>3 DEF SignalWrite, Handles, SignalWrites, Name
    <3>2. PICK text : /\ text.run = run
                      /\ \/ disk' = disk
                         \/ \E left \in {text, Mixed} :
                              disk' = [disk EXCEPT ![fd["signal"]] = left]
      BY <2>3, Texts DEF SignalWrite, Put, Close
    <3> QED BY <1>3, <2>1, <3>1, <3>2, OneText
  <2> QED BY <1>7, <2>2, <2>3 DEF InterruptedPartial, InterruptedStatus, Name
<1>8. CASE \/ SetLastStatus \/ SetPartialOutput \/ CheckClock \/ Analyze \/ Policy
           \/ Failed \/ Drop \/ Receive \/ ReadStatus \/ ReadOutput \/ Exit \/ Kill
           \/ UNCHANGED vars
  BY <1>3, <1>8 DEF SetLastStatus, SetPartialOutput, CheckClock, Analyze, Policy, Failed, Drop,
     Receive, ReadStatus, ReadOutput, Exit, Kill, Handles, saved, vars
<1> QED
  BY <1>2, <1>4, <1>5, <1>6, <1>7, <1>8 DEF Next, Main, SignalThread

-----------------------------------------------------------------------------
(* Counts.                                                                 *)

LEMMA CountedStep ==
  ASSUME ScanInv, Counted, [Next]_vars
  PROVE  Counted'
<1> USE DEF ScanInv, TypeInv
<1>1. CASE Start
  BY <1>1 DEF Start, Counted, ToldOf, Discovering
<1>2. CASE SetLastStatus
  BY <1>2 DEF SetLastStatus, Counted
<1>3. CASE SetPartialOutput
  <2>1. event.kind \in Kinds
    BY DEF TypeOK, Event
  <2> QED BY <1>3, <2>1 DEF SetPartialOutput, Counted, ToldOf, CarriesOutput, Kinds
<1>4. CASE Analyze
  <2>1. pc = "analysis" /\ UNCHANGED <<partial_output, last_status>>
        /\ partial_output \in ToldOf(event)
    BY <1>4 DEF Analyze, Counted
  <2>2. CASE pc' \in {"failed", "render"} /\ event' = event
    BY <2>1, <2>2 DEF Counted
  <2>3. CASE event' \in Following(event) /\ pc' = "event"
    <3>1. event'.kind = "snapshot" \/ partial_output \in ToldOf(event')
      <4>1. event \in Event
        BY DEF TypeOK
      <4> QED BY <2>1, <2>3, <4>1 DEF Following, Discovering, ToldOf, Event, Kinds
    <3> QED BY <2>1, <2>3, <3>1 DEF Counted
  <2> QED BY <1>4, <2>2, <2>3 DEF Analyze
<1>5. CASE BytesOpen
  <2>1. last_status'.scanned = last_status.scanned
    BY <1>5 DEF BytesOpen, TypeOK, ScanStatus
  <2> QED BY <1>5, <2>1 DEF BytesOpen, OpenOrFail, Counted
<1>6. CASE \/ StubOpen \/ StubWrite \/ EventOpen \/ EventWrite \/ CheckClock \/ Render
           \/ FinalWrite \/ Promote \/ BytesWrite \/ GateOpen \/ GateWrite \/ Policy
           \/ Failed \/ KeepOpen \/ KeepWrite \/ IncompleteOpen \/ IncompleteWrite
  <2>1. UNCHANGED <<event, last_status, partial_output>>
    BY <1>6 DEF StubOpen, StubWrite, EventOpen, EventWrite, CheckClock, Render,
         FinalWrite, Promote, BytesWrite, GateOpen, GateWrite, Policy, Failed, KeepOpen,
         KeepWrite, IncompleteOpen, IncompleteWrite, Writes, scan
  <2>2. \/ pc = "stub" /\ pc' \in {"stubWrite", "drop"}
        \/ pc = "stubWrite" /\ pc' = "drop"
        \/ pc = "stubWrite" /\ pc' = "event" 
        \/ /\ pc \notin {"idle", "drop", "stub", "stubWrite", "event", "output"}
           /\ pc' \notin {"idle", "stub", "stubWrite", "event", "output"}
    BY <1>6 DEF StubOpen, StubWrite, EventOpen, EventWrite, CheckClock, Render,
         FinalWrite, Promote, BytesWrite, GateOpen, GateWrite, Policy, Failed, KeepOpen,
         KeepWrite, IncompleteOpen, IncompleteWrite, Writes, OpenOrFail, PutOrFail
  <2> QED BY <2>1, <2>2 DEF Counted, Discovering
<1>7. CASE Drop \/ Exit \/ Kill
  BY <1>7 DEF Drop, Exit, Kill, Ended, Counted
<1>8. CASE Receive \/ ReadStatus \/ ReadOutput \/ InterruptedPartial \/ InterruptedStatus
           \/ UNCHANGED vars
  <2>1. UNCHANGED <<pc, event, last_status, partial_output>>
    BY <1>8 DEF Receive, ReadStatus, ReadOutput, InterruptedPartial, InterruptedStatus,
         SignalOpen, SignalWrite, Handles, scan, vars
  <2> QED BY <2>1 DEF Counted
<1> QED
  BY <1>1, <1>2, <1>3, <1>4, <1>5, <1>6, <1>7, <1>8 DEF Next, Main, SignalThread

-----------------------------------------------------------------------------
(* Main alone.                                                             *)

\* Steps of main that touch no file.
LEMMA AloneReads ==
  ASSUME ScanInv, Counted, AloneInv, ~Signalled,
         SetLastStatus \/ SetPartialOutput \/ CheckClock \/ Analyze \/ Policy \/ Failed
  PROVE  Written' /\ Retained' /\ (~fault' => Ending')
<1> USE DEF ScanInv, TypeInv
<1>1. Written /\ Retained /\ (~fault => Ending)
  BY DEF AloneInv
<1>2. UNCHANGED <<run, disk, fault>>
  BY DEF SetLastStatus, SetPartialOutput, CheckClock, Analyze, Policy, Failed, saved
<1>3. /\ pc \notin {"idle", "drop"}
      /\ \/ pc' \in {"output", "eventOpen", "analysis", "event", "render", "failed"}
            /\ pc \in {"event", "output", "clock", "analysis"}
         \/ pc = "failed" /\ pc' \in {"keep", "incomplete"} /\ last_status' = last_status
            /\ (pc' = "keep" => disk["partial"] = Absent)
         \/ pc = "policy" /\ pc' = "drop"
  BY DEF SetLastStatus, SetPartialOutput, CheckClock, Analyze, Policy, Failed, scan
<1>4. pc = "policy" => ~Signalled /\ disk["report"] = FinalReport
  BY DEF Progress, Reporting
<1>5. Written'
  BY <1>1, <1>2, <1>3 DEF Written, Unreported, Reporting, IsFinalOf, Pc
<1>6. Retained'
  BY <1>1, <1>2, <1>3 DEF Retained, GaveUp, OwnText, SidecarText, WholeReport, Absent
<1>7. ASSUME ~fault PROVE Ending'
  <2>1. CASE pc = "policy"
    <3>1. IsFinalOf(disk["report"], run)
      BY <1>4, <2>1, Texts DEF IsFinalOf
    <3> QED BY <1>1, <1>2, <1>3, <1>7, <2>1, <3>1 DEF Ending, Recorded, OwnText, SidecarText, IsFinalOf
  <2>2. CASE pc # "policy"
    BY <1>3, <2>2 DEF Ending
  <2> QED BY <2>1, <2>2
<1> QED BY <1>2, <1>5, <1>6, <1>7

\* Steps of main that open a file.
LEMMA AloneOpens ==
  ASSUME ScanInv, Counted, AloneInv, ~Signalled,
         \/ StubOpen \/ EventOpen \/ Render \/ BytesOpen \/ GateOpen \/ KeepOpen
         \/ IncompleteOpen
  PROVE  Written' /\ Retained' /\ (~fault' => Ending')
<1> USE DEF ScanInv, TypeInv
<1>1. Written /\ Retained /\ (~fault => Ending)
  BY DEF AloneInv
<1>2. run' = run /\ last_status'.scanned = last_status.scanned /\ result' = result
  BY DEF StubOpen, EventOpen, Render, BytesOpen, GateOpen, KeepOpen, IncompleteOpen, Writes,
         scan, TypeOK, ScanStatus
<1>3. CASE StubOpen \/ EventOpen \/ BytesOpen \/ IncompleteOpen
  <2>1. \/ /\ disk' = [disk EXCEPT !["status"] = Empty] /\ fault' = fault
           /\ pc' \in {"stubWrite", "eventWrite", "bytesWrite", "incompleteWrite"}
        \/ disk' = disk /\ fault' = TRUE /\ pc' \in {"drop", "failed", "gate"}
    BY <1>3, MainOpens DEF StubOpen, EventOpen, BytesOpen, IncompleteOpen, Writes, Name
  <2>2. /\ pc \in {"stub", "eventOpen", "bytes", "incomplete"}
        /\ pc = "stub" => pc' \in {"stubWrite", "drop"}
        /\ pc = "eventOpen" => pc' \in {"eventWrite", "failed"}
        /\ pc = "bytes" => pc' \in {"bytesWrite", "gate"} /\ last_status'.bytes
        /\ pc = "incomplete" => /\ pc' \in {"incompleteWrite", "drop"}
                                /\ retained' = (retained /\ disk["partial"] # Absent)
    BY <1>3 DEF StubOpen, EventOpen, BytesOpen, IncompleteOpen, Writes, OpenOrFail, TypeOK,
                ScanStatus
  <2>3. /\ \A name \in Name \ {"status"} : disk'[name] = disk[name]
        /\ disk'["status"] \in {disk["status"], Empty}
        /\ pc' \in {"stubWrite", "eventWrite", "bytesWrite", "incompleteWrite"} =>
             disk'["status"] = Empty
    BY <2>1 DEF TypeOK, DiskOK, Name
  <2>4. Written'
    BY <1>1, <1>2, <2>2, <2>3 DEF Written, Unreported, Reporting, IsFinalOf, Pc, Name
  <2>5. Retained'
    <3>1. ~GaveUp'
      BY <1>1, <1>2, <2>2, <2>3 DEF Retained, GaveUp, OwnText, SidecarText, Empty
    <3>2. disk'["partial"] = disk["partial"]
      BY <2>3 DEF Name
    <3>3. WholeReport("partial") /\ disk["partial"].run = run =>
            pc = "incomplete" /\ disk["partial"].scanned = last_status.scanned
      BY <1>1, <2>2 DEF Retained
    <3> QED BY <1>2, <2>2, <3>1, <3>2, <3>3 DEF Retained, WholeReport
  <2>6. ~fault' => Ending'
    BY <2>1 DEF Ending
  <2> QED BY <2>4, <2>5, <2>6
<1>4. CASE Render \/ KeepOpen
  <2>1. \/ /\ disk' = [disk EXCEPT !["partial"] = Empty] /\ fault' = fault
           /\ pc' \in {"finalWrite", "keepWrite"}
        \/ disk' = disk /\ fault' = TRUE /\ pc' \in {"failed", "incomplete"}
    BY <1>4, MainOpens DEF Render, KeepOpen, Name
  <2>2. /\ pc \in {"render", "keep"}
        /\ pc = "render" => pc' \in {"finalWrite", "failed"}
        /\ pc = "keep" => pc' \in {"keepWrite", "incomplete"}
    BY <1>4 DEF Render, KeepOpen, Writes, OpenOrFail
  <2>3. /\ \A name \in Name \ {"partial"} : disk'[name] = disk[name]
        /\ disk'["partial"] \in {disk["partial"], Empty}
        /\ pc' \in {"finalWrite", "keepWrite"} => disk'["partial"] = Empty
    BY <2>1 DEF TypeOK, DiskOK, Name
  <2>4. Written'
    BY <1>1, <1>2, <2>2, <2>3 DEF Written, Unreported, Reporting, IsFinalOf, Pc, Name
  <2>5. Retained'
    BY <1>1, <1>2, <2>2, <2>3 DEF Retained, GaveUp, OwnText, SidecarText, WholeReport, Name, Empty
  <2>6. ~fault' => Ending'
    BY <2>1 DEF Ending
  <2> QED BY <2>4, <2>5, <2>6
<1>5. CASE GateOpen
  <2>1. /\ pc = "gate"
        /\ \/ /\ disk' = [disk EXCEPT !["gate"] = Empty] /\ fault' = fault
              /\ pc' = "gateWrite"
           \/ disk' = disk /\ fault' = TRUE /\ pc' = "policy"
    BY <1>5, MainOpens DEF GateOpen, Name, Writes
  <2>2. /\ \A name \in Name \ {"gate"} : disk'[name] = disk[name]
        /\ pc' = "gateWrite" => disk'["gate"] = Empty
    BY <2>1 DEF TypeOK, DiskOK, Name
  <2>3. Written'
    BY <1>1, <1>2, <2>1, <2>2 DEF Written, Unreported, Reporting, IsFinalOf, Pc, Name
  <2>4. Retained'
    BY <1>1, <1>2, <2>1, <2>2 DEF Retained, GaveUp, OwnText, SidecarText, WholeReport, Name
  <2>5. ~fault' => Ending'
    BY <1>1, <1>2, <2>1, <2>2 DEF Ending, Recorded, OwnText, SidecarText, Name
  <2> QED BY <2>3, <2>4, <2>5
<1> QED BY <1>3, <1>4, <1>5

\* Main writes a sidecar of a run that has not failed.
LEMMA SidecarPut ==
  ASSUME ScanInv, Written, Retained, UNCHANGED <<run, last_status, result>>,
         NEW text, NEW to, NEW failed, PutOrFail(text, to, failed),
         text.text = "status", text.run = run, text.state # "failed",
         \/ pc = "stubWrite" /\ to = "event" /\ failed = "drop"
         \/ pc = "eventWrite" /\ to = "clock" /\ failed = "failed"
         \/ /\ pc = "bytesWrite" /\ to = "gate" /\ failed = "gate"
            /\ text.bytes /\ text.state \in {"complete", "capped"}
  PROVE  Written' /\ Retained' /\ (~fault' => Ending')
<1> USE DEF ScanInv, TypeInv
<1>1. fd["main"] = "status" /\ disk["status"] = Empty
  BY DEF MainWrites, Written
<1>2. \/ pc' = to /\ fault' = fault /\ disk' = [disk EXCEPT !["status"] = text]
      \/ pc' = failed /\ fault' = TRUE /\ disk' = disk
  BY <1>1, MainPuts DEF Name
<1>3. /\ \A name \in Name \ {"status"} : disk'[name] = disk[name]
      /\ disk'["status"] \in {disk["status"], text}
      /\ fault' # TRUE => disk'["status"] = text /\ pc' = to
  BY <1>2 DEF TypeOK, DiskOK, Name
<1>4. Written'
  BY <1>2, <1>3 DEF Written, Unreported, Reporting, IsFinalOf, Pc, Name
<1>5. ~GaveUp'
  BY <1>3 DEF Retained, GaveUp, OwnText, SidecarText
<1>6. ~(WholeReport("partial") /\ disk["partial"].run = run)'
  BY <1>3 DEF Retained, WholeReport, Name
<1>7. Retained'
  BY <1>2, <1>5, <1>6 DEF Retained
<1>8. ~fault' => Ending'
  BY <1>3 DEF Ending, Recorded, OwnText, SidecarText
<1> QED BY <1>4, <1>7, <1>8

\* Steps of main that write a file.
LEMMA AlonePuts ==
  ASSUME ScanInv, Counted, AloneInv, ~Signalled,
         \/ StubWrite \/ EventWrite \/ FinalWrite \/ BytesWrite \/ GateWrite
         \/ KeepWrite \/ IncompleteWrite
  PROVE  Written' /\ Retained' /\ (~fault' => Ending')
<1> USE DEF ScanInv, TypeInv
<1>1. Written /\ Retained /\ (~fault => Ending)
  BY DEF AloneInv
<1>2. UNCHANGED <<run, event, last_status, result>>
  BY DEF StubWrite, EventWrite, FinalWrite, BytesWrite, GateWrite, KeepWrite,
         IncompleteWrite, Writes, scan
<1>3. last_status \in ScanStatus
  BY DEF TypeOK
<1>4. CASE StubWrite \/ EventWrite \/ BytesWrite
  <2> DEFINE told == ScanSidecar(last_status)
  <2>1. Stub.text = "status" /\ Stub.run = run /\ Stub.state # "failed"
    BY Texts
  <2>2. /\ told.text = "status" /\ told.run = run /\ told.bytes = last_status.bytes
        /\ told.state \in {"complete", "capped"}
    BY <1>3, Texts
  <2>3. CASE StubWrite
    BY <1>1, <1>2, <2>1, <2>3, SidecarPut DEF StubWrite, Writes
  <2>4. CASE EventWrite
    <3>1. pc = "eventWrite" /\ PutOrFail(told, "clock", "failed")
      BY <2>4 DEF EventWrite, Writes
    <3> HIDE DEF told
    <3> QED BY <1>1, <1>2, <2>2, <3>1, SidecarPut
  <2>5. CASE BytesWrite
    <3>1. pc = "bytesWrite" /\ PutOrFail(told, "gate", "gate") /\ told.bytes
      BY <1>1, <2>2, <2>5 DEF BytesWrite, Written
    <3> HIDE DEF told
    <3> QED BY <1>1, <1>2, <2>2, <3>1, SidecarPut
  <2> QED BY <1>4, <2>3, <2>4, <2>5
<1>5. CASE FinalWrite
  <2>1. /\ pc = "finalWrite" /\ fd["main"] = "partial" /\ disk["partial"] = Empty
        /\ PutOrFail(FinalReport, "rename", "failed")
    BY <1>5 DEF FinalWrite, Writes, MainWrites, Progress
  <2>2. \/ pc' = "rename" /\ disk' = [disk EXCEPT !["partial"] = FinalReport]
        \/ pc' = "failed" /\ disk' = disk
    BY <2>1, MainPuts DEF Name
  <2>3. /\ \A name \in Name \ {"partial"} : disk'[name] = disk[name]
        /\ disk'["partial"] \in {Empty, FinalReport}
    BY <2>1, <2>2 DEF TypeOK, DiskOK, Name
  <2>4. FinalReport.scanned = last_status.scanned
    <3>1. event.kind = "complete"
      BY <2>1 DEF Progress, AfterScan
    <3>2. last_status.scanned = event.count
      BY <2>1, <3>1 DEF Counted, StatusOf
    <3> QED BY <3>2, Texts
  <2>5. Written'
    BY <1>1, <1>2, <2>1, <2>2, <2>3 DEF Written, Unreported, Reporting, IsFinalOf, Pc, Name
  <2>6. ~GaveUp'
    BY <1>1, <1>2, <2>1, <2>3 DEF Retained, GaveUp, OwnText, SidecarText, Name
  <2>7. Retained'
    BY <1>2, <2>2, <2>3, <2>4, <2>6 DEF Retained, WholeReport, Empty
  <2> QED BY <2>2, <2>5, <2>7 DEF Ending
<1>6. CASE GateWrite
  <2> DEFINE text == [text |-> "gate", run |-> run]
  <2>1. /\ pc = "gateWrite" /\ fd["main"] = "gate" /\ disk["gate"] = Empty
        /\ PutOrFail(text, "policy", "policy") /\ text.run = run
    BY <1>1, <1>6 DEF GateWrite, Writes, MainWrites, Written
  <2> HIDE DEF text
  <2>2. /\ pc' = "policy"
        /\ \/ fault' = fault /\ disk' = [disk EXCEPT !["gate"] = text]
           \/ fault' = TRUE /\ disk' = disk
    BY <2>1, MainPuts DEF Name
  <2>3. /\ \A name \in Name \ {"gate"} : disk'[name] = disk[name]
        /\ fault' # TRUE => fault' = fault /\ disk'["gate"].run = run
    BY <2>1, <2>2 DEF TypeOK, DiskOK, Name
  <2>4. Written'
    BY <2>2 DEF Written, Unreported, Reporting
  <2>5. Retained'
    BY <1>1, <1>2, <2>1, <2>2, <2>3 DEF Retained, GaveUp, OwnText, SidecarText, WholeReport, Name
  <2>6. ASSUME ~fault' PROVE Ending'
    <3>1. disk'["gate"].run = run
      <4>1. fault' # TRUE
        BY <2>6, Zenon
      <4> QED BY <2>3, <4>1
    <3>2. ~fault
      <4>1. fault' = fault
        BY <2>2, <2>6, Zenon
      <4> QED BY <2>6, <4>1, Zenon
    <3>3. Recorded'
      BY <1>1, <1>2, <2>1, <2>3, <3>1, <3>2 DEF Ending, Recorded, OwnText, SidecarText, Name
    <3> QED BY <1>2, <2>2, <3>1, <3>2, <3>3 DEF Ending
  <2> QED BY <2>4, <2>5, <2>6
<1>7. CASE KeepWrite
  <2>1. /\ pc = "keepWrite" /\ pc' = "incomplete"
        /\ fd["main"] = "partial" /\ disk["partial"] = Empty
    BY <1>1, <1>7 DEF KeepWrite, MainWrites, Written
  <2>2. \/ disk' = [disk EXCEPT !["partial"] = SnapshotReport(partial_output)]
        \/ disk' = disk
    BY <1>7, <2>1 DEF KeepWrite, Put, Close
  <2>3. /\ \A name \in Name \ {"partial"} : disk'[name] = disk[name]
        /\ disk'["partial"] \in {Empty, SnapshotReport(partial_output)}
    BY <2>1, <2>2 DEF TypeOK, DiskOK, Name
  <2>4. SnapshotReport(partial_output).scanned = last_status.scanned
    <3>1. partial_output \in 0..Files /\ partial_output \in ToldOf(event)
      BY <2>1 DEF Told, Counted
    <3>2. event.kind \notin {"discovering", "begin"} /\ partial_output = event.count
      BY <3>1, ScanAssumption DEF ToldOf, NoSnapshot
    <3>3. last_status.scanned = event.count
      BY <2>1, <3>2 DEF Counted, StatusOf
    <3>4. SnapshotReport(partial_output).scanned = partial_output
      BY Texts
    <3> QED BY <3>2, <3>3, <3>4
  <2>5. Written'
    BY <1>1, <1>2, <2>1, <2>3 DEF Written, Unreported, Reporting, IsFinalOf, Pc, Name
  <2>6. ~GaveUp'
    BY <1>1, <1>2, <2>1, <2>3 DEF Retained, GaveUp, OwnText, SidecarText, Name
  <2>7. Retained'
    BY <1>2, <2>1, <2>3, <2>4, <2>6 DEF Retained, WholeReport, Empty
  <2> QED BY <2>1, <2>5, <2>7 DEF Ending
<1>8. CASE IncompleteWrite
  <2>1. /\ pc = "incompleteWrite" /\ fd["main"] = "status" /\ disk["status"] = Empty
        /\ PutOrFail(IncompleteSidecar, "drop", "drop") /\ pc' = "drop"
    BY <1>1, <1>8 DEF IncompleteWrite, Writes, MainWrites, Written, PutOrFail
  <2>2. \/ fault' = fault /\ disk' = [disk EXCEPT !["status"] = IncompleteSidecar]
        \/ fault' = TRUE /\ disk' = disk
    BY <2>1, MainPuts DEF Name
  <2>3. /\ \A name \in Name \ {"status"} : disk'[name] = disk[name]
        /\ fault' # TRUE => disk'["status"] = IncompleteSidecar
    BY <2>1, <2>2 DEF TypeOK, DiskOK, Name
  <2>4. ~fault' => Ending'
    <3>1. ~IsFinalOf(disk["report"], run)' /\ result' = "tool"
      BY <1>1, <1>2, <2>1, <2>3
         DEF Written, Unreported, Reporting, IsFinalOf, Pc, Name, Progress
    <3>2. ASSUME ~fault' PROVE GaveUp'
      BY <1>2, <2>3, <3>2, Texts DEF GaveUp, OwnText, SidecarText
    <3> QED BY <2>1, <3>1, <3>2 DEF Ending
  <2> QED BY <2>1, <2>4 DEF Written, Retained, Unreported
<1> QED BY <1>4, <1>5, <1>6, <1>7, <1>8

LEMMA AlonePromotes ==
  ASSUME ScanInv, Counted, AloneInv, ~Signalled, Promote
  PROVE  Written' /\ Retained' /\ (~fault' => Ending')
<1> USE DEF ScanInv, TypeInv
<1>1. Written /\ Retained
  BY DEF AloneInv
<1>2. pc = "rename" /\ UNCHANGED <<run, last_status>>
  BY DEF Promote, Writes, scan
<1>3. CASE Promoted /\ pc' = "bytes"
  <2>1. disk'["status"] = disk["status"] /\ disk'["partial"] = Absent
    BY <1>3 DEF Promoted, TypeOK, DiskOK, Name
  <2> QED BY <1>1, <1>2, <1>3, <2>1
    DEF Written, Retained, Ending, GaveUp, OwnText, SidecarText, WholeReport, Absent,
        Unreported, Reporting
<1>4. CASE pc' = "failed" /\ disk' = disk
  BY <1>1, <1>2, <1>4
  DEF Written, Retained, Ending, GaveUp, OwnText, SidecarText, WholeReport, IsFinalOf,
      Unreported, Reporting, Pc
<1> QED BY <1>3, <1>4 DEF Promote

LEMMA AloneStart ==
  ASSUME ScanInv, NotAhead, Start
  PROVE  Written' /\ Retained' /\ Ending'
<1> USE DEF ScanInv, TypeInv
<1>1. run \in Nat /\ run' = run + 1 /\ disk' = disk /\ pc' = "stub"
  BY ScanAssumption DEF Start, TypeOK
<1>2. ~OwnText'
  BY <1>1 DEF NotAhead, OwnText, SidecarText
<1>3. \A name \in {"partial", "report"} : WholeReport(name) => disk[name].run # run'
  BY <1>1 DEF NotAhead
<1> QED BY <1>1, <1>2, <1>3
  DEF Written, Retained, Ending, GaveUp, WholeReport, IsFinalOf

LEMMA AloneStep ==
  ASSUME ScanInv, NotAhead, Counted, AloneInv, [Next]_vars
  PROVE  AloneInv'
<1> SUFFICES ASSUME ~Signalled' PROVE Written' /\ Retained' /\ (~fault' => Ending')
  BY DEF AloneInv
<1> USE DEF ScanInv, TypeInv
<1>1. CASE Start
  BY <1>1, AloneStart
<1>2. CASE Main /\ ~Drop
  <2>1. ~Signalled
    BY <1>2 DEF Main, StubOpen, StubWrite, SetLastStatus, SetPartialOutput, EventOpen,
       EventWrite, CheckClock, Analyze, Render, FinalWrite, Promote, BytesOpen, BytesWrite,
       GateOpen, GateWrite, Policy, Failed, KeepOpen, KeepWrite, IncompleteOpen,
       IncompleteWrite, Writes, thread, Signalled
  <2> QED BY <1>2, <2>1, AloneReads, AloneOpens, AlonePuts, AlonePromotes DEF Main
<1>3. CASE Drop \/ Exit \/ Kill
  BY <1>3 DEF Drop, Exit, Kill, Ended, Written, Retained, Ending, Unreported
<1>4. CASE Receive \/ ReadStatus \/ ReadOutput \/ InterruptedPartial \/ InterruptedStatus
  BY <1>4 DEF Receive, ReadStatus, ReadOutput, InterruptedPartial, InterruptedStatus,
     SignalOpen, SignalWrite, Signalled
<1>5. CASE UNCHANGED vars
  BY <1>5 DEF vars, AloneInv, Written, Retained, Ending, GaveUp, Recorded, OwnText,
     SidecarText, WholeReport, IsFinalOf, Signalled
<1> QED BY <1>1, <1>2, <1>3, <1>4, <1>5 DEF Next, Main, SignalThread

-----------------------------------------------------------------------------
(* The clock.                                                              *)

\* A file that is not the sidecar, or a sidecar that says timeout only of a
\* run that had one.
LEMMA TimelyText ==
  ASSUME TypeOK, Timely, NEW name \in Name, NEW text,
         disk' = [disk EXCEPT ![name] = text], run' = run, hit_timeout' = hit_timeout,
         name # "status" \/ text \in {Empty, Mixed} \/ (text.stop = "timeout" => hit_timeout)
  PROVE  OwnText' /\ disk'["status"].stop = "timeout" => hit_timeout'
<1>1. disk'["status"] = IF name = "status" THEN text ELSE disk["status"]
  BY DEF TypeOK, DiskOK
<1> QED BY <1>1 DEF Timely, OwnText, SidecarText, Empty, Mixed

LEMMA TimelyWrites ==
  ASSUME ScanInv, Timely,
         \/ StubWrite \/ EventWrite \/ FinalWrite \/ BytesWrite \/ GateWrite
         \/ KeepWrite \/ IncompleteWrite
  PROVE  Timely'
<1> USE DEF ScanInv, TypeInv
<1>1. /\ UNCHANGED <<run, event, hit_timeout>> /\ fd["main"] \in Name
      /\ fd["main"] # "status" <=> FinalWrite \/ GateWrite \/ KeepWrite
  BY DEF StubWrite, EventWrite, FinalWrite, BytesWrite, GateWrite, KeepWrite,
     IncompleteWrite, Writes, scan, MainWrites, Name
<1>2. pc \in Failing => pc' \in Failing \cup {"drop"}
  BY DEF StubWrite, EventWrite, FinalWrite, BytesWrite, GateWrite, KeepWrite,
     IncompleteWrite, Writes, PutOrFail, Failing
<1>3. pc \notin {"drop", "idle"}
  BY DEF StubWrite, EventWrite, FinalWrite, BytesWrite, GateWrite, KeepWrite,
     IncompleteWrite, Writes
<1>4. disk' = disk \/ \E text : /\ disk' = [disk EXCEPT ![fd["main"]] = text]
                                /\ \/ fd["main"] # "status" \/ text = Mixed
                                   \/ text.stop = "timeout" => hit_timeout
  <2>1. CASE StubWrite
    BY <2>1, Texts DEF StubWrite, PutOrFail, Put, Close
  <2>2. CASE EventWrite \/ BytesWrite
    <3>1. last_status \in ScanStatus
      BY DEF TypeOK
    <3> QED BY <2>2, <3>1, Texts DEF EventWrite, BytesWrite, PutOrFail, Put, Close
  <2>3. CASE FinalWrite \/ GateWrite \/ KeepWrite
    BY <1>1, <2>3 DEF FinalWrite, GateWrite, KeepWrite, PutOrFail, Put, Close
  <2>4. CASE IncompleteWrite
    BY <2>4, Texts DEF IncompleteWrite, PutOrFail, Put, Close
  <2> QED BY <2>1, <2>2, <2>3, <2>4
<1>5. OwnText' /\ disk'["status"].stop = "timeout" => hit_timeout'
  BY <1>1, <1>4, TimelyText DEF Timely, OwnText, SidecarText
<1> QED BY <1>1, <1>2, <1>3, <1>5 DEF Timely

LEMMA TimelyStep ==
  ASSUME ScanInv, NotAhead, Timely, [Next]_vars
  PROVE  Timely'
<1> USE DEF ScanInv, TypeInv
<1>1. CASE Start
  <2>1. run \in Nat /\ run' = run + 1 /\ disk' = disk /\ hit_timeout' = FALSE
    BY <1>1, ScanAssumption DEF Start, TypeOK
  <2> QED BY <2>1 DEF NotAhead, OwnText, SidecarText, Timely
<1>2. CASE /\ UNCHANGED <<run, event, hit_timeout>>
           /\ disk' = disk \/ \E name \in Name : disk' = [disk EXCEPT ![name] = Empty]
           /\ pc' = pc \/ pc' \in Failing \cup {"drop", "idle"} \/ pc \notin Failing \cup {"drop", "idle"}
  <2>1. OwnText' /\ disk'["status"].stop = "timeout" => hit_timeout'
    BY <1>2, TimelyText DEF Timely, OwnText, SidecarText
  <2> QED BY <1>2, <2>1 DEF Timely
<1>3. CASE \/ StubOpen \/ EventOpen \/ Render \/ BytesOpen \/ GateOpen \/ KeepOpen
           \/ IncompleteOpen
  BY <1>2, <1>3 DEF StubOpen, EventOpen, Render, BytesOpen, GateOpen, KeepOpen,
     IncompleteOpen, Writes, OpenOrFail, Open, scan, Name, Failing
<1>4. CASE \/ StubWrite \/ EventWrite \/ FinalWrite \/ BytesWrite \/ GateWrite
           \/ KeepWrite \/ IncompleteWrite
  BY <1>4, TimelyWrites
<1>5. CASE SetLastStatus \/ SetPartialOutput \/ Policy \/ Failed \/ Drop \/ Kill
  BY <1>2, <1>5 DEF SetLastStatus, SetPartialOutput, Policy, Failed, Drop, Kill, Ended,
     saved, scan, Failing
<1>6. CASE CheckClock
  <2>1. /\ pc = "clock" /\ UNCHANGED <<run, event, disk>> /\ ~hit_timeout
        /\ hit_timeout' => pc' = "failed" /\ ~event.capped /\ event.kind # "complete"
    BY <1>6 DEF CheckClock, TimedOut, saved, Timely, Failing
  <2> QED BY <2>1 DEF Timely, OwnText, SidecarText, Failing
<1>7. CASE Analyze
  <2>1. pc = "analysis" /\ UNCHANGED <<run, hit_timeout, disk>> /\ ~hit_timeout
    BY <1>7 DEF Analyze, saved, Timely, Failing
  <2> QED BY <2>1 DEF Timely, OwnText, SidecarText
<1>8. CASE Promote
  <2>1. CASE Promoted
    <3>1. /\ disk'["status"] = disk["status"] /\ UNCHANGED <<run, event, hit_timeout>>
          /\ pc = "rename"
      BY <1>8, <2>1 DEF Promote, Promoted, Writes, scan, TypeOK, DiskOK, Name
    <3> QED BY <3>1 DEF Timely, OwnText, SidecarText, Failing
  <2> QED BY <1>2, <1>8, <2>1 DEF Promote, Writes, scan, Failing
<1>9. CASE InterruptedPartial \/ InterruptedStatus
  <2>1. UNCHANGED <<run, event, hit_timeout, pc>>
    BY <1>9 DEF InterruptedPartial, InterruptedStatus, SignalOpen, SignalWrite, Handles, scan
  <2>2. CASE \E from, name, to : name \in Name /\ SignalOpen(from, name, to)
    BY <1>2, <2>1, <2>2 DEF SignalOpen, Open
  <2>3. CASE SignalWrite("partialWrite", SnapshotReport(seen.output), "statusOpen")
    <3>1. fd["signal"] \in {"partial", "report"}
      BY <2>3 DEF SignalWrite, Handles, SignalWrites
    <3>2. disk' = disk \/ \E text : disk' = [disk EXCEPT ![fd["signal"]] = text]
      BY <2>3, <3>1 DEF SignalWrite, Put, Close
    <3> QED BY <1>2, <2>1, <3>1, <3>2, TimelyText DEF Timely, Name
  <2>4. CASE SignalWrite("statusWrite", InterruptedSidecar, "exit")
    <3>1. fd["signal"] = "status"
      BY <2>4 DEF SignalWrite, Handles, SignalWrites
    <3>2. disk' = disk \/ \E text \in {InterruptedSidecar, Mixed} :
                             disk' = [disk EXCEPT !["status"] = text]
      BY <2>4, <3>1 DEF SignalWrite, Put, Close
    <3>3. InterruptedSidecar.stop # "timeout"
      BY Texts
    <3> QED BY <1>2, <2>1, <3>2, <3>3, TimelyText DEF Timely, Name
  <2> QED BY <1>9, <2>2, <2>3, <2>4 DEF InterruptedPartial, InterruptedStatus, Name
<1>10. CASE Receive \/ ReadStatus \/ ReadOutput \/ Exit \/ UNCHANGED vars
  BY <1>2, <1>10 DEF Receive, ReadStatus, ReadOutput, Exit, Ended, Handles, scan, saved, vars
<1> QED
  BY <1>1, <1>3, <1>4, <1>5, <1>6, <1>7, <1>8, <1>9, <1>10 DEF Next, Main, SignalThread

-----------------------------------------------------------------------------
(* The theorems.                                                           *)

\* What main leaves when it returns, of a run whose writes succeeded.
LEMMA EndStepExit ==
  ASSUME ScanInv, AloneInv, Timely, Drop
  PROVE  ExitIsOnDisk'
<1> USE DEF ScanInv, TypeInv
<1>1. /\ pc = "drop" /\ ~Signalled /\ UNCHANGED <<disk, run, fault, event>>
      /\ exit' = result
  BY DEF Drop, Ended, Signalled, scan
<1>2. ~fault => \/ Recorded /\ IsFinalOf(disk["report"], run) /\ disk["gate"].run = run
                \/ GaveUp /\ ~IsFinalOf(disk["report"], run) /\ result = "tool"
  BY <1>1 DEF AloneInv, Ending
<1>3. OwnText /\ disk["status"].stop = "timeout" => ~event.capped /\ event.kind # "complete"
  BY DEF Timely
<1> QED BY <1>1, <1>2, <1>3 DEF ExitIsOnDisk, Recorded, GaveUp, OwnText, SidecarText, IsFinalOf

LEMMA ExitStep ==
  ASSUME ScanInv, AloneInv, Timely, ExitIsOnDisk, [Next]_vars
  PROVE  ExitIsOnDisk'
<1> USE DEF ScanInv, TypeInv
<1>1. TypeInv'
  BY TypeStep, ScanAssumption
<1>2. CASE Start
  BY <1>2 DEF Start, ExitIsOnDisk, Over
<1>3. CASE Drop
  BY <1>3, EndStepExit
<1>4. CASE Exit \/ Kill
  BY <1>4 DEF Exit, Kill, Ended, ExitIsOnDisk
<1>5. CASE Receive \/ (SignalThread /\ ~Exit)
  BY <1>5 DEF Receive, SignalThread, ReadStatus, ReadOutput, InterruptedPartial,
              InterruptedStatus, SignalOpen, SignalWrite, Handles, Alive,
              ExitIsOnDisk, Over
<1>6. CASE Main /\ ~Drop
  <2>1. sig' = sig /\ pc # "idle"
    BY <1>6 DEF Main, StubOpen, StubWrite, SetLastStatus, SetPartialOutput, EventOpen,
         EventWrite, CheckClock, Analyze, Render, FinalWrite, Promote, BytesOpen,
         BytesWrite, GateOpen, GateWrite, Policy, Failed, KeepOpen, KeepWrite,
         IncompleteOpen, IncompleteWrite, Writes, thread
  <2>2. pc' # "idle"
    BY <1>1, <2>1 DEF Alive
  <2> QED BY <2>2 DEF ExitIsOnDisk, Over
<1>7. CASE UNCHANGED vars
  BY <1>7 DEF vars, ExitIsOnDisk, Over, IsFinalOf, SidecarText
<1> QED
  BY <1>2, <1>3, <1>4, <1>5, <1>6, <1>7 DEF Next

\* The failed sidecar as it is written, and as it stays.
LEMMA FailedStep ==
  ASSUME SidecarInv, AloneInv', [Next]_vars
  PROVE  FailedMatchesPartial'
<1> USE DEF SidecarInv, ScanInv, TypeInv
<1> SUFFICES ASSUME ~Signalled', GaveUp', disk'["status"].partial
             PROVE  /\ disk'["partial"] # Absent
                    /\ WholeReport("partial")' /\ disk'["partial"].run = run' =>
                         disk'["partial"].scanned = disk'["status"].scanned
  BY DEF FailedMatchesPartial, OwnSidecar, GaveUp, OwnText, WholeReport
<1>1. pc' \in {"idle", "drop"}
  BY DEF AloneInv, Retained
<1>2. CASE disk' = disk /\ run' = run /\ ~Signalled
  <2>1. GaveUp /\ OwnSidecar /\ disk["status"].partial
    BY <1>2 DEF GaveUp, OwnText, OwnSidecar, SidecarText
  <2> QED BY <1>2, <2>1 DEF FailedMatchesPartial, GaveUp, WholeReport
<1>3. CASE IncompleteWrite
  <2>1. /\ pc = "incompleteWrite" /\ fd["main"] = "status" /\ ~Signalled
        /\ PutOrFail(IncompleteSidecar, "drop", "drop") /\ run' = run
    BY <1>3 DEF IncompleteWrite, Writes, MainWrites, thread, Signalled
  <2>2. Written /\ Retained /\ disk["status"] = Empty
    BY <2>1 DEF AloneInv, Written
  <2>3. \/ disk' = [disk EXCEPT !["status"] = IncompleteSidecar]
        \/ disk' = disk
    BY <2>1, <2>2, MainPuts DEF Name
  <2>4. CASE disk' = [disk EXCEPT !["status"] = IncompleteSidecar]
    <3>1. disk'["status"] = IncompleteSidecar /\ disk'["partial"] = disk["partial"]
      BY <2>4 DEF TypeOK, DiskOK, Name
    <3>2. retained /\ IncompleteSidecar.scanned = last_status.scanned
      BY <3>1, Texts
    <3> QED BY <2>1, <2>2, <3>1, <3>2 DEF Retained, WholeReport
  <2> QED BY <1>2, <2>1, <2>3, <2>4
<1>4. CASE StubOpen \/ StubWrite \/ IncompleteOpen \/ Policy
  <2>1. /\ pc' = "drop" /\ run' = run /\ ~Signalled
    BY <1>1, <1>4 DEF StubOpen, StubWrite, IncompleteOpen, Policy, Writes, OpenOrFail,
       PutOrFail, thread, Signalled
  <2>2. pc # "drop" /\ pc # "idle"
    BY <1>4 DEF StubOpen, StubWrite, IncompleteOpen, Policy, Writes
  <2>3. ~GaveUp
    BY <2>1, <2>2 DEF AloneInv, Retained
  <2>4. CASE StubWrite
    <3>1. pc = "stubWrite" /\ PutOrFail(Stub, "event", "drop") /\ fd["main"] = "status"
      BY <2>4 DEF StubWrite, Writes, MainWrites
    <3>2. disk["status"] = Empty
      BY <2>1, <3>1 DEF AloneInv, Written
    <3>3. disk' = disk
      BY <2>1, <3>1, <3>2, MainPuts DEF Name
    <3> QED BY <1>2, <2>1, <3>3
  <2>5. CASE StubOpen \/ IncompleteOpen \/ Policy
    <3>1. disk' = disk
      BY <2>1, <2>5 DEF StubOpen, IncompleteOpen, Policy, OpenOrFail, saved
    <3> QED BY <1>2, <2>1, <3>1
  <2> QED BY <1>4, <2>4, <2>5
<1>5. CASE Drop \/ Kill
  <2>1. disk' = disk /\ run' = run
    BY <1>5 DEF Drop, Kill
  <2>2. ~Signalled
    BY <1>5 DEF Drop, Kill, Ended, Signalled
  <2> QED BY <1>2, <2>1, <2>2
<1>6. CASE Start
  BY <1>1, <1>6 DEF Start
<1>7. CASE Receive \/ SignalThread
  BY <1>7 DEF Receive, SignalThread, ReadStatus, ReadOutput, InterruptedPartial,
     InterruptedStatus, Exit, SignalOpen, SignalWrite, Ended, Signalled
<1>8. CASE UNCHANGED vars
  BY <1>2, <1>8 DEF vars, Signalled
<1>9. CASE \/ SetLastStatus \/ SetPartialOutput \/ EventOpen \/ EventWrite \/ CheckClock
           \/ Analyze \/ Render \/ FinalWrite \/ Promote \/ BytesOpen \/ BytesWrite
           \/ GateOpen \/ GateWrite \/ Failed \/ KeepOpen \/ KeepWrite
  BY <1>1, <1>9 DEF SetLastStatus, SetPartialOutput, EventOpen, EventWrite, CheckClock,
     Analyze, Render, FinalWrite, Promote, BytesOpen, BytesWrite, GateOpen, GateWrite,
     Failed, KeepOpen, KeepWrite, OpenOrFail, PutOrFail
<1> QED
  BY <1>3, <1>4, <1>5, <1>6, <1>7, <1>8, <1>9 DEF Next, Main

LEMMA SidecarInitially == Init => SidecarInv
<1> SUFFICES ASSUME Init PROVE SidecarInv
  OBVIOUS
<1>1. ScanInv
  BY ScanInitially, ScanAssumption
<1>2. \A name \in Name : disk[name] = Absent
  BY DEF Init
<1>3. pc = "idle" /\ exit = "none" /\ hit_timeout = FALSE
  BY DEF Init
<1> QED
  BY <1>1, <1>2, <1>3
  DEF SidecarInv, Timely, OwnText, NotAhead, Counted, AloneInv, Written, Retained, Ending, Unreported,
      ExitIsOnDisk, FailedMatchesPartial, OwnSidecar, SidecarText, WholeReport, Absent, Name

LEMMA SidecarStep == SidecarInv /\ [Next]_vars => SidecarInv'
<1> SUFFICES ASSUME SidecarInv, [Next]_vars PROVE SidecarInv'
  OBVIOUS
<1>1. ScanInv' /\ NotAhead' /\ Counted' /\ AloneInv' /\ Timely' /\ ExitIsOnDisk'
  BY ScanStep, NotAheadStep, CountedStep, AloneStep, TimelyStep, ExitStep, ScanAssumption
     DEF SidecarInv
<1>2. FailedMatchesPartial'
  BY <1>1, FailedStep
<1> QED BY <1>1, <1>2 DEF SidecarInv

\* main and repo_incomplete_error: where no write failed, exit code, sidecar,
\* report and manifest of a run that was not interrupted tell the same story.
THEOREM ExitOnDisk == Spec => []ExitIsOnDisk
<1>1. SidecarInv => ExitIsOnDisk
  BY DEF SidecarInv
<1> QED
  BY <1>1, SidecarInitially, SidecarStep, PTL DEF Spec

\* record_incomplete: the partial report that a failed sidecar names is there
\* and has scanned what the sidecar says, whatever failed before.
THEOREM FailedFitsPartial == Spec => []FailedMatchesPartial
<1>1. SidecarInv => FailedMatchesPartial
  BY DEF SidecarInv
<1> QED
  BY <1>1, SidecarInitially, SidecarStep, PTL DEF Spec

=============================================================================
