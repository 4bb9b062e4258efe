# unsafe-review in TLA+

A verification development for **unsafe-review**, a static reviewer of unsafe
Rust: it finds unsafe seams in a change or in a whole project, decides which
contract, guard and witness evidence each has, and reports the gaps as review
cards. Most of the program is a sequential analysis; what is hard in it sits
around the analysis: an LSP server whose handlers interleave at every `await`,
a store of witness receipts that several commands and a developer share with no
lock, a scan that a second thread may end at any moment, and ledgers, bundles
and worktrees that outlive the process that wrote them. These modules model
those parts, check them with TLC on small instances, and prove the most
important results with TLAPS for every value of the constants.

Paths below are relative to `src/`; `cli` is `crates/unsafe-review-cli/src`,
`core` is `crates/unsafe-review-core/src`.

| read first | to learn |
| --- | --- |
| [Inventory](#inventory) | the system's parts, their state and what makes them correct |
| [Modules](#modules) | which module models what, and how it corresponds to the code |
| [Runs](#runs) | what TLC checks, the bounds, the fairness |
| [Divergences](#divergences) | where code and documents disagree, and how to see it |
| [Proofs](#proofs) | what is proved, and along which argument |
| [Plan](#plan) | what comes next, in which order |

## Inventory

### How the parts work together

```
 editor ──messages──▶ Live LSP server ──analyze()──▶ ┌───────────────┐
 editor ◀─diagnostics─┘                              │ scan pipeline │
 VS Code extension ◀─reads── saved bundle ◀─writes── │ (core)        │
 user ─▶ repo --out ─▶ reporter + signal thread ─────│  seams        │
            │            │ events                    │  hazards      │
            ▼            ▼                           │  obligations  │
   <out>, .partial, .status.json, gate manifest      │  evidence     │
 user ─▶ confirm ─▶ witness run ─▶ receipts ─────────│  classes      │
 user ─▶ baseline init/add ─▶ ledgers ───────────────│  cards        │
 user ─▶ first-pr ─▶ base worktree ─▶ movement ──────└───────────────┘
```

Every command is a process of its own. Processes share nothing but the file
system and git: the sources, `.unsafe-review/receipts`, the policy ledgers, the
output directory, the temporary worktrees. Inside a process there are two kinds
of concurrency: the handler futures of the LSP server, which one executor task
polls, and the signal thread of `repo --out`.

### Components

For each component: its state, its operations, what is hard, what makes it
correct. The status is that of `PROJECT.json`.

**Live LSP server** (`cli/lsp.rs`, `cli/lsp/backend.rs`, `cli/lsp/backend/refresh.rs`,
`cli/lsp/state.rs`, `cli/lsp/actions.rs`) - *modelled*.
State: the document store, the live snapshot, the URIs last published, the
refresh generation, the in-flight guard and the pending flag, each behind a
tokio mutex of its own. Operations: didOpen, didChange, didClose, didSave,
initialized, the refresh command, code actions, card commands, hover; the editor
may cancel a request. Hard: handlers are suspended, and may be dropped, at every
lock, every send and the blocking analysis; a scan of seconds comes back to a
world that has moved on; two mutexes are taken in sequence. Correct: a snapshot in
use is the newest generation's; one scan at a time; a command runs only on the
analysis it was offered for; the editor shows what the snapshot holds, or has been
told it is stale; every handler returns.

**Witness receipts** (`cli/execute/confirm.rs`, `cli/execute/card_lookup.rs`,
`core/analysis/receipts.rs`, `core/domain/receipt.rs`, the tree probes of
`core/input/scope_git.rs`) - *partly modelled*.
State: JSON files under `.unsafe-review/receipts`, the tree and its commit.
Operations: `confirm`, hand-written receipts, `receipt validate`, `receipt
audit`, the import by an analysis, the audit inside first-pr. Hard: a witness
runs for minutes and is stamped with what git says afterwards; the store is read
and written by several processes with no lock; one file that does not parse, or
one duplicate, makes every analysis fail; loader, validator and audit decide
separately which receipts count. Correct: imported evidence was observed on the
scanned, clean tree; what confirm saw is imported; a confirm neither blocks the
store nor takes another card's receipt.

**Repository scan** (`repo --out` in `cli/execute.rs`) - *partly modelled*.
State: last status and last output behind mutexes, the sidecar, the partial
report, the report and the gate manifest on disk. Operations: start stub, one
record per scan event, time limit, final write, promotion by rename, byte count,
manifest, failure path, signal path. Hard: every write may fail, the process may
be killed between two steps, the signal thread writes the same files with no
common lock. Correct: exit code and the four files tell the same story; the
report is promoted whole; the process ends.

**Scan events and pipeline** (`core/analysis/pipeline`) - *partly modelled*.
State: within one analysis, the sites in scope, the counters of identities, the
cards and the cap. Hard: scope by a window around added lines, identities that
depend on what else is in scope, a selection by swaps. Correct: a seam on an
added line has a card, accepted cards keep their identity, a cap keeps what
matters most; the events of a scan count what it has found.

**Baseline and suppression ledgers** (`core/policy/mod.rs`,
`core/policy/baseline_health.rs`, `core/api.rs`) - *partly modelled*.
State: the baseline ledger, the coverage snapshot, the suppression ledger.
Operations: `baseline init`, `add`, `status` with the refresh preview, the
policy report of an analysis, the no-new-debt gate. Hard: two files written one
after the other and in place; a strict and a lenient loader of one file, and
three readings of it in one command; expiry; identities that vanish because nobody
looked. Correct: no debt passes that nobody accepted; nothing that got worse
passes as inherited; health and gate agree; resolved means gone.

**Saved-bundle editor adapter** (`editors/vscode/src/extension.ts`) - *partly
modelled*. State: the bundle and its diagnostics, folder, settings, watcher.
Operations: activation, refresh, file events, changes of folder and settings,
deactivation. Hard: refreshes overlap at `await readFile`; folder and settings of
before are used after it. Correct: the editor shows the bundle that is on disk,
laid over the folder it belongs to.

**first-pr bundle** (`cli/execute/first_pr.rs`, `cli/execute.rs`) - *partly modelled*:
the order in which its artifacts are written, which the adapter reads meanwhile.
The rest of it renders.

**Base and head movement** (`cli/execute/base_materialization.rs`,
`cli/execute/movement_section.rs`, `core/analysis/movement.rs`) - *modelled*.
State: a registered git worktree in a temporary directory. Operations: resolve,
create, register, check out, analyse, join, remove. Hard: a process dies in
between and its number is used again; HEAD and base move; capped sides. Correct: a
process reads and removes its own tree; both sides are anchored at one commit; an
absence that proves nothing is not called introduced.

**Classification and evidence coverage** (`core/analysis/classify.rs`,
`core/domain/coverage.rs`, `core/domain/classification.rs`) - *partly modelled*: the
class of a card, its missing evidence, its coverage slots and its readiness for an
agent, as operators. The texts are left out.

**Diff, aperture and staged input** (`core/input`) - *partly modelled*: the unified
diff, its parser and the queries of its index. The aperture, stages, impact and
changeset render inventories of one analysis and keep nothing.

**Comment plan and outcome** (`core/output/comment_plan`) - *partly modelled*: which
cards are planned as comments. Reasons, texts and the comparison of two saved
card sets are left out.

**cfg evaluation**, **Seam scanner, hazards, obligations and evidence detectors**,
**Witness routing**, **Outputs**, **Manual candidates**, **Command line, init and
latency**, **xtask, fuzz targets and CI scripts** - *not modelled*, see
[Plan](#plan).

The hazards of all components, each at its line, are in `PROJECT.json`.

## Modules

| module | models | extends |
| --- | --- | --- |
| `LspBackend` | the LSP handlers, the refresh loop, the editor | |
| `LspSnapshotCell` | the abstract specification: an atomic cell with generations | |
| `LspBackendProofs` | theorems about `LspBackend` | `LspBackend`, `TLAPS` |
| `WitnessReceipts` | confirm, the store, reviews and audits | |
| `WitnessReceiptsProofs` | theorems about `WitnessReceipts` | `WitnessReceipts`, `TLAPS` |
| `RepoScan` | `repo --out`: two threads, four files, scan events | |
| `RepoScanProofs` | theorems about `RepoScan` | `RepoScan`, `TLAPS` |
| `CardEvidence` | the class, the coverage and the readiness of a card | |
| `CoverageMovement` | coverage against its floor, the health of a ledger entry | `CardEvidence` |
| `BaselineLedger` | ledger and snapshot, the commands that read and write them, the gate | `CoverageMovement` |
| `BaselineLedgerProofs` | theorems about `BaselineLedger` | `BaselineLedger`, `TLAPS` |
| `DiffText` | a unified diff and its parser | `Ordering` |
| `CardSelection` | cap and comment plan, and what may be expected of them | `Ordering` |
| `CardSelectionProofs` | what sorting, folding, a cap and a comment plan do to cards | `CardSelection`, theorem libraries, `TLAPS` |
| `DiffReview` | a review from the diff to the gate, while the tree is edited | `DiffText`, `CardSelection` |
| `DiffReviewProofs` | theorems about `DiffReview` | `DiffReview`, `CardSelectionProofs` |
| `Ordering` | positions in order, as Rust's sorts give them | |
| `BaseMovement` | the movement of one subject between two analyses | |
| `BaseWorktree` | the temporary base tree over several processes | `BaseMovement` |
| `BaseWorktreeProofs` | theorems about `BaseWorktree` | `BaseWorktree`, `TLAPS` |
| `BundleAdapter` | the VS Code adapter, and first-pr writing the bundle | |
| `BundleAdapterProofs` | theorems about `BundleAdapter` | `BundleAdapter`, `TLAPS` |
| `MC...` | the constants of the runs, symmetry | the module they check |

Operators whose comment begins with "Mutant:" are not part of a specification.
Each is a plausible bug in the definition after it, with which TLC finds the
property of `PROJECT.json`'s "mutants" violated.

### LspBackend

A *task* is a handler future. tower-lsp polls several of them from one executor
task, so a step of the model is the code between two awaits, and every await is
a possible suspension: a tokio lock (also when it is free: the cooperative
budget), a client send (suspended after it was enqueued: the channel holds one
message) and the blocking analysis. A mutex that stays locked across an await is
a variable with its holder; one that is taken and released between two awaits is
part of a step. `diff_source` runs git synchronously: one step.

| variable | code |
| --- | --- |
| `documents` | `DocumentStore`: the version of each open document |
| `live_snapshot` | `LiveSnapshot`; the generation stands for the analysis identity |
| `last_diagnostic_uris`, `refresh_generation`, `refresh_pending` | the fields of `Backend` |
| `refresh_in_flight`, `generation_lock`, `snapshot_lock` | who holds the mutex |
| `pc`, `local` | where each handler is suspended, and its local variables |
| `sent`, `disk`, `shown`, `held` | the editor: messages, saved sources, displayed diagnostics, kept actions |
| `told`, `answer`, `abandoned` | history: stale or failed notice since the last install; the answer to the last command, until the next message, a cancellation included; the last generation whose `begin_refresh` was dropped between its locks |

| action | code |
| --- | --- |
| `Receive`, `ReceiveRefresh`, `ReceiveSave` | a message arrives and a handler starts |
| `DidOpen`, `DidChange`, `DidClose` | the handlers, up to their first refresh or stale step |
| `TryRefresh`, `SetPending`, `Rerun` | `Backend::refresh`: try_lock, hand over, follow-up scans |
| `BeginRefresh`, `ReadDiff`, `CaptureVersions`, `Analyze`, `Joined` | `refresh_once` up to the result |
| `MarkFailed`, `ShowFailed` | `mark_diagnostics_failed` |
| `CheckGeneration`, `InstallUris`, `InstallSnapshot` | `install_refresh_result` |
| `ClearOld`, `PublishNew` | one publishDiagnostics per step |
| `BeginStale`, `TakeStaleUris`, `DropSnapshot`, `ClearStale`, `LogStale` | `mark_diagnostics_stale` |
| `ReadActions`, `ReplyActions`, `Command` | `code_action`, `execute_command` |
| `Cancel` | the editor cancels a request: tower-lsp drops its future at an await, guards and all |

Abstractions: document versions are message stamps; the sources change on disk
only by a save; hover reads the snapshot in one step, changes nothing and is left
out. A blocking analysis whose handler was dropped runs to its end and nobody hears
of it: `Cancel` leaves no trace of it. Notifications cannot be cancelled.

`LspSnapshotCell` is what the rest of the server relies on: a cell with a latest
generation and a flag, and the four atomic operations `Supersede`, `Install`,
`Fail`, `Drop`. `LspBackend` reaches the same effect with two mutexes and several
awaits; `Cell` in it is the refinement mapping: the snapshot counts as live when
its flag is set *and* its analysis is the newest generation's.

### WitnessReceipts

| variable | code |
| --- | --- |
| `tree`, `today` | the checked-out commit with or without edits; the date |
| `receipts`, `damaged` | the files that parse; the files that do not (being written, or cut short) |
| `pc`, `draft` | how far a `confirm` has come, and its receipt so far |
| `bundle` | what a review has read and concluded so far |

| action | code |
| --- | --- |
| `ChangeTree`, `NextDay`, `Author`, `Remove` | the developer: edits and commits, a day, a receipt written by hand, a file deleted |
| `Resolve` | `resolve_card` and `select_route`, with the analysis inside |
| `Run` | `execute_with_timeout` |
| `ProbeHead`, `ProbeDirty` | git is asked, after the run |
| `Create`, `Write` | `fs::write`: truncate, then fill |
| `Load`, `CurrentHead`, `CurrentDirty`, `BuildCards` | an analysis: `ReceiptIndex::load`, `current_repo_facts`, `build_card` |
| `AuditScan`, `AuditRead`, `AuditHead`, `AuditDirty`, `Finish` | the audit of first-pr: a second scan, a second read |
| `Crash` | a killed command |

`Applies` is `applicability_for_receipt`, `Clash` the duplicate rule, `Validates`
and `Loads` what validator and loader accept, `Audited` the audit's verdict.

Abstractions: a subject, an invocation and a commit are model values; the routes
of a card are a function of the card; reading the directory is one step, and so is
`resolve_card`'s analysis; the developer edits the *store* only between commands.
Left out: metadata messages, verdict texts, `--dry-run`, manual-candidate
receipts, cards that a related test reaches (for them reach receipts change
nothing); `test_targeted` has the strength of `ran`. `ranOn` is history: the tree a
witness really ran on. A repository with an unborn HEAD answers "no head" and
"clean", which the model has too.

### RepoScan

| variable | code |
| --- | --- |
| `run`, `pc`, `event`, `hit_timeout`, `retained`, `result` | the main thread of the process that runs, or ran last |
| `last_status`, `partial_output`, `status_locked` | `RepoStatusReporter`'s mutexes; whether main keeps the first across a write |
| `sig`, `seen` | the signal thread and what it cloned |
| `disk`, `fd` | the four files; which of them a thread has open |
| `exit`, `fault` | what an observer sees of the process that ran last |

| action | code |
| --- | --- |
| `Start`, `StubOpen`, `StubWrite` | `run_repo_check` and `write_scan_start_stub` |
| `SetLastStatus`, `SetPartialOutput`, `EventOpen`, `EventWrite`, `CheckClock` | `record_event` |
| `Analyze` | the analysis up to its next event, or its error |
| `Render`, `FinalWrite`, `Promote` | `write_repo_report` |
| `BytesOpen`, `BytesWrite`, `GateOpen`, `GateWrite`, `Policy` | `record_final_output_bytes`, the manifest, the gate |
| `Failed`, `KeepOpen`, `KeepWrite`, `IncompleteOpen`, `IncompleteWrite` | `repo_incomplete_error` |
| `Drop` | `RepoSignalGuard::drop` joins the signal thread |
| `Receive`, `ReadStatus`, `ReadOutput`, `InterruptedPartial`, `InterruptedStatus`, `Exit` | the signal thread |
| `Kill` | SIGKILL or a power failure |

`fs::write` is two steps, and its handle follows a renamed file: `Empty` is an
empty or cut-short file, `Mixed` one that two threads wrote at once. The clock is a
free choice at `CheckClock`. `Start` leaves out what fails before the reporter
exists. Left out: poisoned locks, `--progress`, elapsed times, per-file timings,
`repo` without `--out`, `--list-files`.

### CardEvidence, CoverageMovement, BaselineLedger

`CardEvidence` has the pure functions from the evidence of a seam to its class
(`classify`, then the receipts, then the ledgers), its missing evidence, its four
coverage slots and its readiness. Evidence is a record of what the rules tell
apart; the operation family stands for the groups of families the rules name.
`CoverageMovement` has `is_worsened` and `is_improved`, the bucket of a ledger entry
and what the refresh plan proposes for it.

| variable | code |
| --- | --- |
| `sources` | the evidence at each seam, or `Gone` |
| `suppressed`, `today` | the suppression ledger with its expiry dates; the date |
| `ledger`, `snapshot` | the two files of the baseline, as text |
| `pc`, `work` | each command: its arguments, and what it has read and computed so far |
| `report` | what a review or `baseline status` has said |
| `owned`, `accepted`, `calm` | history: who has ever been in the ledger by a developer's decision; the evidence an identity had when it was captured last, unless its entry was written or deleted by hand since; no command was stopped and none overlapped |

| action | code |
| --- | --- |
| `Start` | `baseline init`, `baseline add`, `baseline status`, a review of everything or of a diff |
| `ReadLenient`, `ReadStrict` | `baseline status` reads the ledger for its rows, and once more for its errors |
| `LoadBaseline`, `LoadSuppressions`, `LoadFloors` | `PolicyState::load` |
| `ScanReview`, `ScanStatus`, `ScanCapture`, `ScanMiss` | the analysis and what each command takes from it: policy report and gate; cards; the captured cards; an unknown card |
| `OwnFloors` | `baseline add` reads the other floors |
| `Merge`, `TruncateLedger`, `FillLedger` | `merge_and_write_baseline_ledger` |
| `TruncateSnapshot`, `FillSnapshot` | `write_coverage_snapshot` |
| `ReadActive`, `ReadHealth` | `baseline status`: suppressions in force, snapshot, health and refresh plan |
| `Stop` | a command is killed, or a write fails |
| `EditSource`, `Suppress`, `HandEdit`, `NextDay` | developers |

Abstractions: `Torn` stands for any text that is no valid TOML, and an empty file
reads as no entries; entries are kept per identity, `copies` of it and one flaw at most;
the first flawed entry is that of the least identity. An identity lies in one file
and keeps it. Its text is the words of its package, of its file's slug and of its seam,
and `resolved_gaps` looks for the words of a scanned file among them (`Mentions`), which
may be those of another file: `Slug` need not be one to one. Left out: malformed suppressions, `--max-cards`, other paths than the
default ones, files under review that do not exist. Ledgers are edited by hand only
while no command runs. The analysis reads the sources in one step, after the three
ledgers.

### DiffText, CardSelection, DiffReview, Ordering

`DiffText` builds the diff of two texts (`Hunks`, for every alignment git could
choose) and reads it with `ParseUnifiedDiff`, a fold as in the code.
`CardSelection` has the two selections as the code computes them, by swaps
(`SpreadSelectCards`) and by a budget (`Consider` for each of the `Candidates`), and
next to them what a user may expect of any selection:
`KeepsTheBest` and `PlansTheBest`. `KeepsTheBest` asks for no more than what
`card_rank_key` and its comment agree on; it lets either decide between cards as urgent
as each other in two files (`DropsByFile` is the comment's order). `Ordering` sorts positions by their `Rank`, the
number of those that come before.

| variable | code |
| --- | --- |
| `base`, `head`, `work` | the tree the change starts from, HEAD, the working tree: a sequence of lines for each file |
| `ledger` | the accepted identities |
| `review` | the review in progress: the diff index, files left to scan, cards, gate and plan |

| action | code |
| --- | --- |
| `Edit`, `Commit`, `Accept` | developers: a line more or less, a commit, `baseline init` |
| `Begin` | `git diff base...HEAD`, `parse_unified_diff`, the files it names |
| `Scan` | one file is scanned: `site_in_scope`, `site_on_added_lines`, `card_id` |
| `Finish` | `spread_select_cards`, the gate, `CommentPlan::from` |

Abstractions: a line is a seam or not, and at most one; what the analysis finds out
about a seam is the constant `Profile`, by its text; files are paths in their order
and hold one function, so that the owner part of an identity is in the seam's text. An
identity has the `Slug` of its file, which several files may share, and the counter runs
over all of them: copies of a seam are counted per slug. There is one review per behaviour. Left out: an added line whose content begins with
`++ b/`, which the parser takes for a header, plain diffs without `diff --git`
lines, deleted and renamed files.

### BaseMovement, BaseWorktree

`BaseMovement` is `compare_evidence` and `evaluate_base_head_movement` for one
subject, an identity without its counter.

| variable | code |
| --- | --- |
| `tree`, `head`, `base` | each commit: its sites, which of them a whole analysis passes over, the package's name; HEAD and the base ref |
| `tmp`, `registered` | the temporary directory of each process number; git's record of worktrees |
| `pc`, `run` | each process and what it knows |
| `section` | the movement section written last |
| `abandoned` | history: directories of a process that was killed or could not remove something |

| action | code |
| --- | --- |
| `Diff`, `AnalyzeHead` | first-pr: `git diff`, the analysis of the head |
| `ResolveHeadSha`, `ResolveBaseSha` | `rev-parse HEAD`, `merge-base` |
| `CreateDir`, `AddWorktree`, `Checkout` | `materialize_base` |
| `AnalyzeBase` | the base analysis and the join, with the no-resolved rule |
| `Unregister`, `RemoveDir` | `Drop` of the materialised base |
| `Kill` | a killed process, whose number may come again |
| `Move` | HEAD or the base ref moves |

`Degrade` is every way in which the section becomes unknown and first-pr goes on.
Removals are best effort, as in the code: `git worktree remove` and `RemoveDirAll` may
fail with any part still there, and nobody is told. A subject of the diff need not be
one of the base analysis, which runs at repo scope: that passes over what lies below
`vendor`, `build`, `dist` or `generated` or is ignored by git (`skipped`), and counts as
covering every file. Cards are joined by `Identity`, which begins with the package's
name; where Cargo.toml has none it is the name of the analysed directory (`HeadRoot`,
and `worktree` for the base).
Abstractions: the working tree is HEAD's commit; a subject has a file of its own; a
process materialises one base, so the counter in the directory's name is left out,
as is a failing `rev-parse HEAD`.

### BundleAdapter

| variable | code |
| --- | --- |
| `disk` | `pr-summary.md` and `lsp.json` of each place, by the run that wrote them |
| `writer`, `runs`, `placeOf` | the running first-pr |
| `place`, `settings` | primary folder with `bundlePath`; `autoRefreshOnSave`, `maxDiagnosticsPerFile` |
| `active`, `watcher`, `events` | the extension, its watcher and the events not yet delivered |
| `reads` | refreshes suspended at `readFile` |
| `view` | bundle, bundle root, diagnostics and status bar |
| `rejected`, `inOrder` | history: a refresh ended in an unhandled error; no older read ended after what is shown was begun |

| action | code |
| --- | --- |
| `RefreshCommand`, `ReadFile`, `EndRefresh` | `refreshBundle` up to the await, the file system, the rest |
| `OnDidChange`, `OnDidCreate`, `OnDidDelete` | the watcher's callbacks |
| `ChangeSettings`, `ChangePlace` | `onDidChangeConfiguration`, `onDidChangeWorkspaceFolders`: rewire, then refresh |
| `Deactivate` | `deactivate` |
| `StartRun`, `Truncate`, `Fill`, `Die`, `Remove` | first-pr writes two of its artifacts in their order, dies; somebody removes the directory |

`OpenPrSummary` is what `openBundleSibling` opens: the summary of the place that holds
when the command comes, whatever bundle is shown.

Abstractions: the watcher delivers what happens after it was made, in order and
without loss; one first-pr at a time. Left out: the commands that open files or copy
text, and the parsing in `bundle.ts`.

## Runs

Passing runs, the states TLC finds and what is shown. Every property has a mutant
of the code that violates it under the same bounds.

| run | states | bounds |
| --- | --- | --- |
| `lsp_refreshes` | 3.8 M | 2 documents, 3 handlers, 4 messages, git diff and analysis may fail |
| `lsp_returns` | 0.8 M | 1 document, 2 handlers, 4 messages, cancellation anywhere, analysis may fail |
| `receipts_sequential` | 1.1 M | 1 card, 2 commits with and without edits, 2 days, one file name of the developer's, kills |
| `receipts_store` | 8.3 M | 2 cards, 2 days, any git probe may fail |
| `repo_scans` | 0.9 M | 2 files, 2 processes, failures, signals, kills |
| `baseline` | 4.0 M | 2 cards in 2 files, 3 commands one after the other, 2 edits of sources or ledgers, 2 days |
| `baseline_concurrent` | 1.5 M | 1 card, 2 processes, 3 commands, kills and failed writes anywhere, 1 edit |
| `bundle` | 3.2 M | 2 folders, 2 runs of first-pr, 2 reads and 3 events under way |
| `worktree` | 3.1 M | 3 commits in 4 histories, 2 processes, 1 move of HEAD or base, caps, failing removals, a file the base analysis passes over, a manifest without a name |
| `review` | 546 k | 2 trees of 3 files of up to 5 lines, two of the files with one slug, 2 edits, caps 2 and 3 |

**lsp_refreshes.** `SingleScan`: one handler scans, installs or publishes, and none
returns with the guard. `VersionPrecedesRead`: no display is labelled with a document
version newer than the moment its analysis read the sources. `StalenessIsTold`: at
rest, a snapshot that is not current has been announced. `EditorMatchesSnapshot`: at
rest, the editor shows exactly the snapshot's diagnostics, whatever failed. The last
two are claimed without changes, closes and cancellation; with them the divergences
below bite.

**lsp_returns.** `CurrentIsLatest`: a snapshot that commands may use is the newest
generation's, but for the window between the two locks of `begin_refresh`, which a
cancellation can leave open. `CommandOnLatest`: a card command runs only on the
analysis it was offered for, and that is the newest. `CellSpec`: the server implements
`LspSnapshotCell`. `HandlersReturn`: under fair polling every handler is idle again in
the end, so the mutexes never deadlock, not even when their holder is dropped, and
follow-up scans end.

**receipts_sequential.** `ConfirmedImports`: what confirm observed with the routed
command on the scanned clean tree is imported by the review of the same scope.
`AuditedIsImported`: what the audit marks as importing is on the cards of the same
bundle.

**receipts_store.** `EvidenceIsWitnessed`: imported evidence was observed on the tree
the review scanned, a commit without edits. `ConfirmKeepsStoreLoadable`: confirms under
their own file names leave a store that the next analysis loads. `OwnReceiptOnly`: no
command takes away another card's receipt.

**repo_scans.** `SuccessHasReport`: exit 0 and 1 mean that `<out>` holds the report
of this process over all files. `ExitIsOnDisk`: with no failed write, exit code,
sidecar, report and manifest agree, and a scan that had ended is not told as a timeout.
`FailedMatchesPartial`: a failed sidecar and the
partial report it names describe the same files. `ReportOnlyPromoted`: without a
signal `<out>` changes only from one whole report to the next. `ProcessEnds`: neither
the lock held across a write nor the join blocks.

**baseline.** `NoDebtSlips`: where no-new-debt passes, every open gap in its scope was
accepted or is suppressed, and so it is in **baseline_concurrent**, where two commands
overlap and each may be stopped between any two steps. `FloorHeld`: no-new-debt does
not pass while a known card's coverage is below what was accepted (one init; see
the divergences for a second one). `HealthyMeansPass`: a health report without
complaints comes from a scan that passes. `PrunedIsGone`, `AutomationKeepsFloors`: the
refresh plan removes only what a scan did not find and lowers no floor.
`ScannedResolved`: a review that looked into some file counts an open card as resolved
only when the card's own file is not among the scanned ones and its identity mentions
one that is. That is what a match by words can promise, and less than the comment says;
the run has such a pair of files (`core/lib.rs` and `unsafe-core/lib.rs`).

**bundle.** `ShownIsDisk`: once events and reads are delivered, the editor shows what
is on disk in the open folder, under the settings that hold, unless an older read
ended last or reading failed. `DiagnosticsInOwnFolder`: diagnostics lie over the folder
their bundle was written in. `SummaryNotOlder`: as long as the place is that of the
diagnostics shown, the summary that `Open PR summary` opens is never from an older run
than they are.

**worktree.** `TreesApart`: whatever killed processes and failing removals left, a
process reads its own base tree, and a directory or registration stays behind only of
a process that was killed or could not remove it. `SameAnchor`: unless HEAD or base
moves meanwhile, both sides start from the same commit. `IntroducedIsNew`: a subject is
called introduced only if the base has no site of it, or has it where the base analysis
does not look or under another package name: nothing else makes an old subject new,
neither caps nor second copies nor moving refs.

**review.** `AddedSeamIsShown`: every seam on a line the diff adds has a card that says
so, no other is called changed, and no two cards share a site or an identity; a
declaration is on all its lines, an operation on its first.
`AcceptedDebtPasses`: accepted debt never fails the gate however its lines move, and
a whole uncapped review fails as soon as one seam is there more often than accepted,
counted over the files that share a slug.
`SelectionKeepsTheBest`: cap and comment plan do what `KeepsTheBest` and `PlansTheBest`
say.

**Why the bounds are enough.** The LSP hazards need a handler that is overtaken
(two handlers), a third that hands work to the first, and a URI that is published
beside one that is cleared (two documents); the command hazard takes exactly four
messages: change or refresh, code action, refresh, command. `lsp_returns` has two
handlers because fairness rules out symmetry; each lock order involves two. The
receipt hazards relate one receipt to one review; two cards are needed only to take
away another's receipt, two days for expiry and for file names that would depend
on the day. A scan of two files has a first, a middle and a last event; a second
process meets the files of the first. A baseline hazard is a capture, a change
and a reading: three commands and two edits; the second card is the one that is
not captured, or lies in the file that is not scanned. Two evidences cross in two
slots, so that one rises while the other falls. Two commands that write overlap in
every order on one card. The adapter's hazards involve one read that is
overtaken by another, or by a change of folder. In `review` the window of six lines
is scaled to one, git's context of three to one, and the plan's limit of three to two,
so that five lines have something out of reach and more candidates than places; of
each pair of parameters both orders occur (a hunk that joins two changes, two hunks).
`worktree` has the histories in which a subject appears, vanishes, stays, and has a
second copy, one with a subject in a file that the base analysis passes over and one
whose manifest names no package.

**Symmetry.** The handlers and documents of `lsp_refreshes`, the folders of `bundle`
and the processes of `worktree` are symmetric: no definition tells them apart. No run
with a liveness property uses symmetry.

**Fairness.** `LspBackend!FairSpec` has weak fairness of every handler: the executor
polls each woken future, tokio mutexes are granted, git, the analysis and the client
answer. The editor has none. `RepoScan!FairSpec` has weak fairness of both threads:
the system schedules them and a write returns, if only with an error. Commands,
signals and kills have none. Only `lsp_returns` and `repo_scans` state liveness; the
other components run to their end in straight lines.

**Deadlock.** `CHECK_DEADLOCK FALSE` where the system may stop: the editor after
`MaxMessages`, the user after `MaxRuns` or `MaxCommands`, the adapter when nobody acts,
a review after its end. That nothing stops halfway is `HandlersReturn` and
`ProcessEnds`. The receipt runs check deadlock.

## Divergences

Two disagreements between the code and its documents have a run of their own, in
which TLC finds the violation.

| run | property | code | document |
| --- | --- | --- | --- |
| `receipts_subdir` | `ConfirmedImports` | `core/input/scope_git.rs:517` excludes only the store of the directory git runs in, and analysis asks in the toplevel | `scope_git.rs:500` "excluded ... at any depth" |
| `review_identity` | `PassMeansNoNewDebt` | `core/analysis/pipeline/card_identity.rs:15` counts equal seams within one run: a copy of an accepted seam that a diff adds out of its reach, or right above it, gets the accepted identity, and the gate passes. The files of the run have a slug each; a copy in a file that shares its slug with that of the accepted one, as in `review`, is a further way | SPEC-0030:301 |

Others are stated in the modules and can be seen by putting the property, and
nothing else, into a configuration with these constants and without symmetry:

| property | how to see it | what happens |
| --- | --- | --- |
| `NoStalePublish` | `lsp_refreshes.cfg`, Messages {"change", "save"} | `refresh.rs:106` publishes, one awaited send per URI, after the generation mutex is free (SPEC-0018:179 "Stale generations must not publish diagnostics.") |
| `NoNewerWiped` | `lsp_refreshes.cfg`, Messages {"change", "save"} | `refresh.rs:212`: a handler that marks diagnostics stale clears, one send at a time, URIs that a newer scan has published (SPEC-0018:176) |
| `NoOrphanedRequest` | `lsp_refreshes.cfg`, Messages {"save"} | `refresh.rs:18`: the loser of try_lock sets the flag after the winner looked; nobody scans until the next request. It needs a suspension at the uncontended lock of the flag, the cooperative budget (SPEC-0018:176) |
| `NoCommandWhilePending` | `lsp_returns.cfg`, MaxMessages 5 | `backend.rs:202`: a command runs on a snapshot older than a refresh that was acknowledged (SPEC-0018:212) |
| `EditorMatchesSnapshot`, `StalenessIsTold` | `lsp_refreshes.cfg`, MayCancel TRUE | a refresh command cancelled between install and publication leaves diagnostics nobody clears; a save handed over to a cancelled scan is lost, and nothing says so |
| `ValidateAgrees` | `receipts_sequential.cfg` | `core/analysis/receipts.rs:354` counts expired receipts as duplicates, the loader skips them (SPEC-0009:346 "rejects the same invalid receipt files as normal analysis") |
| `NoDirtyEvidence` | `receipts_sequential.cfg`, TreeHeldStill FALSE | `confirm.rs:91`: git is asked after the run; a tree that was dirty meanwhile passes as clean (`receipt.rs:69`) |
| `NextReviewImports` | `receipts_sequential.cfg` | `confirm.rs:274`: the scope of confirm's analysis is bound into the receipt, and a review of the other scope does not import it (`docs/CLI.md:991`) |
| `ImportedIsAudited` | `receipts_sequential.cfg` | `receipts.rs:564`: an expired duplicate keeps the audit from marking what the analysis imported (SPEC-0009:167) |
| `ConsumableHasReport` | `repo_scans.cfg` | `cli/execute.rs:1372` calls a scan in progress complete and consumable; a kill leaves that on disk (SPEC-0035:220) |
| `LatestSnapshotKept` | `repo_scans.cfg` | `cli/execute.rs:1714` keeps the partial report of an earlier run (`docs/CLI.md:520`) |
| `InterruptIsOnDisk` | `repo_scans.cfg` | `execute.rs:1217`: main overwrites or truncates the terminated sidecar before the process exits (SPEC-0035, start stub) |
| `ReportIsFinal` | `repo_scans.cfg` | `execute.rs:1698`: the signal thread truncates `.partial` between the final write and the rename (SPEC-0014:46) |
| `FloorHeld` | `baseline.cfg`, ReInit TRUE | `core/api.rs:1016`: a second init writes a snapshot of the newly captured cards alone; the floors of the first are gone |
| `ReachHeld` | `baseline.cfg`, Seam <- Reached | `core/domain/coverage.rs:332` looks for the words present and weak in `reach.state`, whose values are others: the reach slot is always missing and never falls |
| `ResolvedIsGone` | `baseline.cfg` | `pipeline/summary.rs:129` takes an empty list of scanned files for a scan of everything: a diff without Rust files resolves every entry (comment at `summary.rs:113`) |
| `ScannedIsGone` | `baseline.cfg` | `pipeline/summary.rs:137` looks for the slug of a scanned file anywhere in an identity, and a slug collapses `/`, `_`, `.` and `-`: a diff of `core/lib.rs` resolves the open entries of `unsafe-core/lib.rs`, which nobody scanned (comment at `summary.rs:113`) |
| `DegradedIsFlagged` | `baseline.cfg`, Flaw {"expires"} | `core/policy/mod.rs:232`: a malformed `expires` stops the strict loader and not the lenient one; the status is degraded and no entry is blamed (SPEC-0030:215) |
| `SummaryNotOlderAlways` | `bundle.cfg` | `extension.ts:545` opens the summary of the folder and settings that hold now: after a change of place, until the refresh has ended, an older summary of the new place opens beside the diagnostics of the old one |
| `SelectionGoesByFile` | `review.cfg` | `pipeline/mod.rs:434`: the rank key has no file, so that equally urgent leftover cards of two files go by line and then by discovery; the comments at :400 and :414 say file asc, then line asc. The card of file 2 in line 1 is kept and the one of file 1 in line 4 is not |
| `CleansUp` | `worktree.cfg` | `base_materialization.rs:115` and `:237` drop the error of `remove_dir_all`: a directory may outlive its run, and nobody is told (line 6 "no temp tree escapes the command run"; line 50 says best effort) |
| `IntroducedIsAbsent` | `worktree.cfg` | the base is analysed at repo scope, which passes over `vendor`, `build`, `dist`, `generated` and ignored files (`input/workspace.rs:123`, `:143`), and `movement.rs:115` takes it to cover every file: an old subject there that a diff touches is called introduced. So is every subject the diff shows when Cargo.toml has no `[package]` name, for the base's identities then begin with `worktree` (`input_loading.rs:32`, `base_materialization.rs:235`); comments at `movement.rs:21` and `:111` |
| `ShownIsDiskAlways` | `bundle.cfg` | overlapping reads end out of order, and the older text stays |
| `NothingRejected` | `bundle.cfg` | `extension.ts:190`: a refresh that ends after `deactivate` uses an adapter that is no more, an unhandled TypeError |
| `InheritedWasThere` | `worktree.cfg` | a second copy of a subject is added out of the first's reach: the diff shows one card, which is compared with the first's evidence |

Smaller ones without a property. Scans: SPEC-0035:171 and :196 promise
write-then-rename for sidecar and partial report, the code has plain `fs::write`; a
final write that fails leaves a cut-short partial report that the sidecar names; a
capped scan gets `output_bytes` although SPEC-0035 says null. Baseline: a merge
replaces an existing entry, `policy/mod.rs:519` says "existing wins"; on a diff, entries
count as worsened also where no line changed (SPEC-0030:107), and the inherited count
includes worsened and improved ones (SPEC-0030:92); an init that dies between its two
files leaves entries without a floor, which compare as unchanged; a snapshot that does
not parse makes the analysis fail before the path that reports it; in a capped scan, the
identities of dropped cards count as resolved. Adapter: without `autoRefreshOnSave` a
create event may meet the truncated file, and "parse failed" stays until somebody
refreshes. Review: `check --base` diffs `base...HEAD` (`cli/execute.rs:2203`) and scans
the working tree, so that uncommitted edits shift the lines.

Properties that hold only under a condition name it in their comment:
`EvidenceIsWitnessed` needs a tree that stands still while a command runs (see
`NoDirtyEvidence`), `ConfirmedImports` a root that is the toplevel (see
`receipts_subdir`), `ReportOnlyPromoted` that no signal arrived (see `ReportIsFinal`),
`FloorHeld` that no command overlaps or dies (`calm`), `ScannedResolved` that the
card's own file was scanned or no scanned one is mentioned (see `ScannedIsGone`),
`SummaryNotOlder` that the place is that of what is shown (see `SummaryNotOlderAlways`),
`IntroducedIsNew` that the base analysis knows the subject, by its name and its file
(`KnownToBase`, see `IntroducedIsAbsent`), `SameAnchor` and `AddedSeamIsShown`
that nothing moves meanwhile (`still`).

## Proofs

All theorems hold for every value of the constants that satisfies the assumption of
the module (`ConfigAssumption`, `ReceiptAssumption`, `ScanAssumption`,
`AdapterAssumption`, `WorktreeAssumption`, `LedgerAssumption`, `DiffAssumption`,
`ReviewAssumption` and the like: types, and
model values that differ); any number of handlers, documents, messages, commands,
cards, commits, files, folders, identities and processes. Bounds such as `MaxMessages` are arbitrary naturals there.

| theorem | says |
| --- | --- |
| `LspBackendProofs!TypeCorrect` | `Spec => []TypeOK` |
| `LspBackendProofs!OneScan` | `Spec => []SingleScan` |
| `LspBackendProofs!CurrentSnapshot` | `Spec => []CurrentIsLatest` |
| `LspBackendProofs!ImplementsCell` | `Spec => CellSpec`: the server implements the atomic cell |
| `LspBackendProofs!LatestCommand` | `Spec => CommandOnLatest` |
| `LspBackendProofs!LabelsNotNewer` | `Spec => []VersionPrecedesRead` |
| `LspBackendProofs!StalenessTold` | `~MayCancel => (Spec => []StalenessIsTold)` |
| `LspBackendProofs!EditorAgrees` | `OnlyRefreshes => (Spec => []EditorMatchesSnapshot)`: no change, close or cancellation |
| `WitnessReceiptsProofs!TypeCorrect` | `Spec => []TypeOK` |
| `WitnessReceiptsProofs!Witnessed` | `TreeHeldStill => (Spec => []EvidenceIsWitnessed)` |
| `WitnessReceiptsProofs!OwnReceipts` | with confirm's own file names, `Spec => OwnReceiptOnly` |
| `WitnessReceiptsProofs!StoreLoadable` | with confirm's own file names, one command at a time and no kills, `Spec => []ConfirmKeepsStoreLoadable` |
| `WitnessReceiptsProofs!ConfirmedApply` | with `TreeHeldStill`, a git that answers and the root at the toplevel, `Spec => []ConfirmedImports` |
| `WitnessReceiptsProofs!AuditAgrees` | with `TreeHeldStill`, a git that answers and one command at a time, `Spec => []AuditedIsImported` |
| `RepoScanProofs!TypeCorrect` | `Spec => []TypeOK` |
| `RepoScanProofs!SuccessReported` | `Spec => []SuccessHasReport` |
| `RepoScanProofs!ReportPromoted` | `Spec => ReportOnlyPromoted` |
| `RepoScanProofs!ExitOnDisk` | `Spec => []ExitIsOnDisk` |
| `RepoScanProofs!FailedFitsPartial` | `Spec => []FailedMatchesPartial` |
| `BundleAdapterProofs!TypeCorrect` | `Spec => []TypeOK` |
| `BundleAdapterProofs!OwnFolder` | `Spec => []DiagnosticsInOwnFolder` |
| `BundleAdapterProofs!SummaryFresh` | `Spec => []SummaryNotOlder` |
| `BundleAdapterProofs!ShownOnDisk` | `Spec => []ShownIsDisk` |
| `BaseWorktreeProofs!TypeCorrect` | `Spec => []TypeOK` |
| `BaseWorktreeProofs!Apart` | `Spec => []TreesApart` |
| `BaseWorktreeProofs!OneAnchor` | `Spec => []SameAnchor` |
| `BaseWorktreeProofs!Introduced` | `Spec => []IntroducedIsNew` |
| `BaselineLedgerProofs!TypeCorrect` | `Spec => []TypeOK` |
| `BaselineLedgerProofs!DebtStaysOut` | `Spec => []NoDebtSlips` |
| `BaselineLedgerProofs!HealthAgrees` | `Spec => []HealthyMeansPass` |
| `BaselineLedgerProofs!PruningSafe` | `Spec => []PrunedIsGone` |
| `BaselineLedgerProofs!AutomationSafe` | `Spec => []AutomationKeepsFloors` |
| `BaselineLedgerProofs!ResolvedGone` | `Spec => [](ScannedResolved /\ (SlugsApart => ScannedIsGone))`: where no identity mentions a file that is not its own, what such a review resolves is gone |
| `BaselineLedgerProofs!FloorsHold` | `~ReInit => (Spec => []FloorHeld)` |
| `CardSelectionProofs!PlanIsBest` | `PlansTheBest` of the comment plan of any cards, where a repetition group has one key |
| `CardSelectionProofs!SpreadKeepsTheBest` | `KeepsTheBest` of what `spread_select_cards` leaves of any distinct cards |
| `DiffReviewProofs!ReviewIsSound` | `Spec => []Inv`: the inductive invariant of a review |
| `DiffReviewProofs!KeepsTheBestCards` | `Spec => []SelectionKeepsTheBest` |
| `DiffReviewProofs!AcceptedPasses` | `Spec => []AcceptedDebtPasses` |
| `DiffReviewProofs!AddedIsShown` | `Spec => []AddedSeamIsShown` |

**LspBackend.** `CurrentIsLatest` is not inductive: an install that checks the
generation in one step and sets the snapshot three steps later relies on nobody
bumping the generation in between. `CoreInv` adds what makes it so. `GenerationLocked`:
who is between the check and the install, or between the two locks of
`begin_refresh`, holds the generation mutex, so there is at most one.
`InstallsLatest`: an installer's generation is the newest. `SingleScan`: scans do not
overlap. `AnalysisBegun`: a snapshot's analysis is of a generation that was begun.
A cancellation inside `begin_refresh` is the one step after which an older snapshot
stays current, and `abandoned` records it. Each action has a lemma; the refinement uses
`CoreInv` on both sides of a step, and every step is a `Supersede`, `Install`, `Fail`,
`Drop` or a stutter of the cell. `CommandOnLatest` follows from `CoreInv` too.

Three more invariants rest on it. `VersionInv`: a scan has captured its versions before
it reads the sources, so that what it carries to `publish` is not newer than what it
read, whatever documents do meanwhile. `TellInv`, without cancellation: where the
snapshot is not current and nobody has been told, some handler is on its way to tell
(`WillTell`) or scans for the newest generation and will install or be told of its
failure. A superseded scan says nothing itself; the bump that superseded it came with a
handler that will. A dropped future breaks this chain, which is why `StalenessIsTold`
is not claimed with cancellation. `DisplayInv`, of refreshes alone: the editor and the
last install differ only in URIs that the publishing handler still has to clear or to
send, and between `InstallUris` and the end of publication there is exactly one such
handler, by the guard.

**WitnessReceipts.** `EvidenceIsWitnessed` speaks of a finished review, and the fact
it needs was established by another command. `WitnessInv` carries it along:
`ReceiptsHonest` (a stored receipt that says clean at a commit ran on that commit
without edits), `DraftsHonest` (the same of what a confirm has put together, for each
of its steps; here the tree that stands still is used), `BundlesHonest` (what a review
knows of git agrees with the tree it scans). A failed probe is never equal to
anything, which `Applies` guarantees. `PlaceInv` (a receipt is in the file of its
tool and card) gives `OwnReceipts` and, with `OnlyBeingWritten` (the only damaged
file is the one being written), `StoreLoadable`.

`ConfirmedApply` needs the converse of honesty: that what is true was also written
down. `RecordInv` says that the receipt of a command that has run tells the whole truth
about the tree it ran on (a probe that never fails and never counts the store as an
edit), for a draft as much as it has found out by the step it is at, and that a review
has loaded such receipts; `BundlesKnow`, that what a review has learnt from git by the
step it is at is what git says, and that its cards carry what follows from it. The root
at the toplevel is used for `ProbeDirty` and `CurrentDirty` asking git about the same
directory; without it the `receipts_subdir` run is a counterexample. `AuditAgrees`
takes `Proc` to be a singleton: `AuditInv` says that between the analysis and the audit
of one `first-pr` neither store nor tree has moved, so that the second read of both
finds what the first found. It does not need the root at the toplevel, for the audit
and the analysis ask in the same place.

**RepoScan.** The signal thread may write `.partial` at any time, so that the report
is final where no signal arrived has to be shown from who has which file open.
`ScanInv` = `TypeInv` and `Progress` and `SuccessHasReport`. In `TypeInv`,
`MainWrites` and `SignalWrites` say that a thread has a file open exactly at the step
that writes it, and main never the report; `Alive` and `Told` tie the process and its
exit code together. `Progress` says what is already on disk at each point of main's
path: after the final write a whole report of all files is in `.partial`, after the
rename it is in `<out>`, and it stays until main returns.

`ExitIsOnDisk` and `FailedMatchesPartial` compare files that main wrote at different
times. `AloneInv` says what main knows while no signal was received: a file it has
open is empty until it writes (`Written`), a partial report of this run has scanned
what the last status counted, and is there if the failed sidecar will name it
(`Retained`), and, if no write failed, a run ends either with a report, its sidecar
and its manifest or with a failed sidecar and no report (`Ending`). `Counted` relates
last status and last output to the event being recorded, the one time at which they
differ. `NotAhead` keeps what earlier processes left on disk apart: it has a smaller
process number. `Timely`: a timeout is set only by an event that did not end the scan,
which stays the last one, and no sidecar of this run says timeout without it.

**BundleAdapter.** What is shown was read earlier, by a refresh that may have begun
before the folder changed. `AdapterInv` follows a text from the run that writes it to
the editor: a bundle on disk (`DiskBacked`), in a read under way (`ReadsBacked`) and on
display (`ViewBacked`) was written by a run into the very place it is resolved against,
and the summary there is at least as new. `Home` says that the run that writes is at
most at one artifact, and has written the summary when it comes to the bundle; this is
where the order of the artifacts is used.

`ShownIsDisk` speaks of a moment at which nothing is under way, and what makes it true
happened earlier. `ShowInv` accounts for every way to it: while the watcher has an event
to deliver, the last of them leads to a read or says that the bundle is gone; otherwise,
while reads are under way, the last one that nobody overtook will find what is on disk
(`Fresh`); otherwise the display is `Settled`. For this, the watcher belongs to the
place and the settings that hold (`Wired`), and who has overtaken one read has overtaken
every read begun before it (`LateFirst`), so that the reads still in order are a suffix.

**BaseWorktree.** `WorktreeInv` says of each process, by the step it is at, that the
base commit is known (`Resolved`), that what is in its directory after the checkout is
that commit (`Own`; the directory is named after the process number, which one process
has at a time), that there was nothing before the checkout (`Tidy`), and, as long as
nothing moves, that what it resolved is still what the refs say (`Anchored`). A step
that removes either takes all of the directory away or records it as abandoned
(`RemovalLeaves`). `IntroducedIsNew` also needs lemmas about `MovementOf`: it says
introduced only where the base was analysed without a cap and had no card of the
identity, which is that of the subject under the base's package name
(`JoinedIntroduced`).

**BaselineLedger.** A report speaks of the past: the files may have changed since, so
that each report is shown right (`Sound`) in the step that makes it and stays as it is.
For that step `DebtInv` knows two things. What the ledger lists, what a command takes
for known and the rows it is about to write were put there by a developer once
(`Backed`): a merge keeps what it read, a torn file counts as empty, a capture adds
what a developer asked for. And a `baseline status` whose files kept still has read what
is in them (`Seen`), step by step from the lenient rows to the floors, although it opens
the ledger twice. `ResolvedGone` is about any slugs: what counts as resolved
mentions a scanned file and has no card (`ResolvedMentioned`), and where its own file is
among the scanned ones, no card means that it is gone. `SlugsApart` makes the mentioned
file its own; without it `ScannedIsGone` fails in the run itself.

`FloorHeld` speaks of `calm` behaviours, and `FloorInv` says nothing of others. In a
calm one at most one command is under way (`Alone`), no file is torn, and what the
snapshot has for a listed card is the coverage at its last capture (`Floored`), except
while a command writes: then it is what that command is about to write (`Follows`, by
the step it is at). A review compares with `snapshot.floors`, which it read after the
ledger with nobody in between. `SameCoverage` closes the gap between the class a card
had when it was captured and the one it has as a known card. Without `~ReInit` a second
init overwrites the snapshot, the `FloorHeld` divergence.

**CardSelection.** The two selections compute with folds and with sorted positions, and
so do the proofs. `Least` (a set of naturals has a least member) gives `Climb`, the
induction all the others use. `Before` on tuples of one length is a linear order
(`LinearOrder`), so that the rank of a position is a number of its own below the size
of the set (`RankGrows`, `RankOnto`), which is what `Sorted` needs to list every
position once and in order (`SortedProperties`). A fold of the library is the last of a
sequence of steps, one for each element (`SetRecursion`, `FoldTrace`): it is found by
taking apart the definition, for which the library has no theorem. With these,
`SpreadKeeps` says that swapping the chosen cards to the front, the smallest position
first, never moves a card that is still to be swapped, which is what the mutant
`SpreadInRankOrder` gets wrong; `BreadthIsBest` and `DepthIsNext` say which positions
are chosen. `ConsiderTrace` follows the plan through the candidates: what it leaves out
has met a card of its key or a full plan, and those came first in the order.

**DiffReview.** `Inv` says what the cards of a review are: one for every site in scope of
every file scanned so far, and none else (`Finding`, as long as the tree is that of the
diff), files once each (`Once`), and the equal seams of a slug numbered from one without
a gap (`Numbered`); what is accepted is closed in the same way (`Closed`: with a number
all smaller ones). That makes identities distinct (`NumberedAreDistinct`), whatever is
edited and committed meanwhile. `AcceptedPasses` counts: identities of a seam and its
copies are numbered alike from one, so that all cards are known where there are no more
copies than accepted (`CardsHaveLines`), and where there are more and nothing is out of
scope, one card has a number nobody accepted (`LinesHaveCards`).

`AddedIsShown` follows the text of a diff into the index. `FlattenSeq` puts parts one
behind the other (`FlattenParts`), parsing is a fold that can be read part by part
(`ParseReads`, `ReadsParts`), and a script of a file counts the lines of the new text,
with the removed ones in between, whatever git kept (`ScriptCounts`). `HunkPartRead` is
the induction along a hunk: the parser's counter stands at the next line as long as what
came before was shown, and where it was not the next header sets it. So the index has for
every file that differs the lines not kept, and no lines for the others (`DiffRead`);
`IndexInv` says that of a review in progress, and TLC has found no state that violates
it. Of `Alignments` nothing is needed but that it keeps every line of equal texts: the
proof holds for any diff algorithm. The rest is `Finding`, and that what
`site_on_added_lines` finds `site_in_scope` finds too.

**Model-checked only.** Liveness (`HandlersReturn`, `ProcessEnds`): the prover does not
reason about `ENABLED` and fairness. Every other property of the passing runs is stated
by a theorem, under the conditions the table names. The library's induction theorems,
whose parameter is an operator, are out of the prover's reach too; where a proof needs
induction it takes the least number for which the claim fails. The modules with proofs
contain no recursive operator.

## Plan

Done: the components where processes, threads, handlers or callbacks interleave, the
ledgers, the worktree, and a review from the diff to the gate; the proofs of
every safety property the passing runs check.
What could come next, the most important first:

1. The impact closure and the aperture, as operators over the model's diff; outcome
   comparison over two saved card sets.
2. Suppressions that do not load, and `--max-cards` in `BaselineLedger`.

### Not modelled

*Seam scanner, hazards, obligations and evidence detectors* recognise text and syntax
of Rust sources: a model would restate their string tests, and their result is a
constant or a choice here (`Profile`, `Seam`, the URIs an analysis finds). *Witness
routing* is a table (`Routes`). *Outputs* render, and so does most of *first-pr*.
*cfg evaluation* is a three-valued recursion over predicate text for a projection
that no decision reads. *Manual candidates* are read and checked one at a time.
*Command line, init and latency* parse, scaffold and measure. *xtask, fuzz targets and
CI scripts* maintain the repository. Together these are most of the repository's
lines, and none keeps state that a later step depends on: which is why the modules
cover a small part of the text and most of the behaviour over time.
