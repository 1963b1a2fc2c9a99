# Verification of gentle-ai: review authority, runtime ledger, installer

TLA+ models of the parts of this repository that keep state on disk and may be
interrupted, raced or repeated: the bounded review transaction under
`internal/reviewtransaction` with its `review` commands under `internal/cli`,
the SDD runtime ledger under `internal/sddstatus`, and what installs, changes
and restores the user's files, with the screens that start it. TLC checks the
models on small instances, TLAPS proves the theorems for every value of the
constants.

## 1. The system

`gentle-ai` installs and configures coding agents (install, sync, upgrade,
backup) and gives them two protocols: a *bounded review* of a candidate change,
whose receipt the delivery gates require, and *SDD*, a spec-driven workflow
with a runtime ledger. All of it is short-lived processes that share nothing but
files, so order, crashes and stale reads are what matters.

### 1.1 Components, their state and operations

| Component | State | Operations | Interacts through |
|---|---|---|---|
| Compact authority (v2), `compact.go` | one value per lineage: state, lens results, forecast, correction, current snapshot, evidence, reopens | complete review, begin fix, complete or escalate correction verification, complete verification, invalidate, reopen, dispose | is the content of the compact store |
| Compact store, `compact_store.go` | `state.json` chain head and `receipt.json` of each lineage, advisory lock | `ReplaceContext` (compare-and-swap on the revision), `WriteReceipt`, START, recover, import | lock; read unlocked by everybody |
| Finalize attempt journal, `finalize_attempt_journal.go` | the requests of a lineage, their planned transitions, published and completed flags | reconcile, plan, mark published, complete | FINALIZE only, under the store lock, one lock per call |
| FINALIZE, `cli/review_facade.go` | a process: what it loaded, its plan | load, plan, journal, commit, publish, complete | reads store and journal unlocked, writes through both |
| Evidence capture, `verification_evidence.go`, `cli/review_artifact.go` | per target: payload, then record | capture, read | binds an authority revision; no store lock |
| Reviewer capture, `compact_reviewer_capture.go` | per lens a slot of two files; an archive of condemned results | capture, archive, read | store lock; the record is not written |
| Reopen, dispose, invalidate, `compact_result_*.go`, `compact_approved_invalidation.go` | none of their own | one compare-and-swap; revocation also removes the receipt | store lock |
| Delivery gate, `compact_gate.go` | none | evaluate unlocked, confirm under the lock | receipt, authority, git |
| Authority graph, `compact_store.go`, `cli/review_facade.go` | all lineages and their predecessor edges | START, RECOVER | store and maintenance locks |
| Batch reconcile, `compact_batch_reconcile_{plan,guard,journal}.go` | the global marker, one audit record and one quarantine directory per request | prepare, apply, replay | both locks; renames whole lineage directories |
| Store lock, `store_lock.go` | two advisory locks | acquire at once, poll within a bound, release; refuse while a batch is prepared | everything above |
| New-lineage (v3) authority, `authority_store.go`, `review_core*.go`, `cli/review_governing_authority.go` | one record and one receipt per lineage | START, `Mutate`, `WriteReceipt`, the gate of a named lineage | one lock for all v3 lineages |
| Kill switch, `rdd_mode.go`, `cli/review_mode.go` | the user's global mode; generations of this clone's override | enable and disable under compare-and-set, repair | asked once by each review command |
| SDD runtime ledger, `sddstatus/runtime_ledger.go`, `runtime_compact.go`, `review_binding.go` | immutable records, HEAD | begin, advance, finish, remediate, reset, bind; acquire and settle | lock; read unlocked; the review of a lineage |
| Pipeline, `pipeline`, `cli/run.go`, `cli/sync.go` | executed steps and their results | run stages, roll back | snapshot, the user's files, installation state |
| Backup, `backup` | archives and manifests, one directory each | snapshot, dedup, annotate, prune, restore; pin, rename, delete | no lock |
| Mutation journal and plugin uninstall, `components/mutationjournal`, `components/opencodeplugin` | before-images; staged directories | capture, write, remove, restore; layers | the user's files |
| Pi CodeGraph integration, `components/communitytool/pi_codegraph.go` | a manifest with before-images and hashes; a journal in memory | reconcile, refresh, uninstall | Pi's configuration and child agents |
| Installation state, `state` | one JSON file | read, change, replace, in ten commands | no lock |
| Planner, `planner` | none | expand, order, move soft pairs | install |
| Terminal UI, `tui` | the screen, the selection, the plan, the jobs | keys, answers of jobs | everything above |
| Update and upgrade, adapters, assets, legacy v1 transactions, recovery trace, SDD status | none that an operation here decides on, or read-only | | files, network |

### 1.2 What is hard

* Every review command reads the authority without a lock and writes under it.
  What it planned may be stale when it commits; the compare-and-swap on a
  *content* digest must catch it even after the lineage returned to an earlier
  phase.
* A FINALIZE is a dozen durable writes under as many critical sections. It may
  stop between any two, and the operator's next command must find out what was
  done, by whom, and finish it once.
* Two operators, or two agents, may finalize one lineage with different inputs,
  start two lineages for one candidate, or recover one lineage twice.
* Evidence and reviewer results are two files each; a reopening condemns them in
  the record only.
* Revoking an approval is two writes; the gate looks at both files before and
  only at one after taking the lock.
* Locks are bounded polls; a maintenance batch holds one lock across many
  directories and must be replayable from every crash point, beside evidence
  captures that hold no lock at all.
* The ledger checks its rules twice, when it writes and when it replays; requests
  are sent again while the first one is on its way.
* The installation state and the backup directory have no lock, and the commands
  that use them run for minutes.
* What installs changes files the user edits: a rollback has to tell its own
  writes from those of others, file by file, while steps of it fail too.
* The screens keep selection, plan, summary and overrides in one model, computed
  on some of the ways through; jobs answer when their screen may be gone.

### 1.3 What makes each component correct

* Authority: approved only on passed evidence for the candidate it approves,
  bound to the revision it replaced; one correction attempt, within budget;
  no content ever recurs.
* Store: a refused write changes nothing; a receipt is the committed decision's.
* Journal: one unresolved attempt; written ahead of what it explains; completed
  only when what it promised is on disk.
* FINALIZE: what it planned is what the store admits; a decided lineage ends up
  with its receipt.
* Captures: a record describes the payload beside it; a verdict rests on results
  that are there and not condemned; a condemned result is archived before it
  leaves; wherever a capture stops the next can go on.
* Revocation and gate: nothing is allowed on a receipt whose approval is gone.
* Graph: no fork, no two roots for one candidate, and START is answered with what
  holds when the answer is given.
* Batch: all of the closure of the invalid edges leaves the authority, or
  nothing; a prepared batch freezes the authority, is the only one, and ends.
* v3: a receipt is that of its record for ever; a terminal record stays; the gate
  allows only what was approved; a finalize leaves its receipt.
* Switch: no choice is replaced unseen; a review passes only if it asked at a
  time when reviews were on; damage can be repaired.
* Ledger: what is written can be read; a request takes effect once; what is told
  done stays; a pass is covered by the review; the token names the attempt.
* Uninstall, integration, pipeline: what is reported as rolled back is as it was,
  what is reported as done is done, nobody else's edit is lost.
* Backup: a snapshot of what the newest one holds is left out, and no other; a
  rollback that is reported as done is done.
* Installation state: a command that merges keeps what is not its own and never
  replaces what it could not read; an upgraded binary is synced in the end.
* Planner: dependencies first, soft pairs in order, refused only if impossible.
* Screens: what is confirmed and installed is what was picked last; both ways
  back are one; one job at a time, which the user waits for.

## 2. The modules

| Module | Models | Uses |
|---|---|---|
| `CompactState` | the authority as a value: operations, `Validate`, `validateCompactSuccessor`; no variables | |
| `ReviewAuthority` | the abstract promise: decide once, one receipt, revoke before withdrawing | |
| `FinalizeAttempt` | FINALIZE with the journal, the store, capture, reopen, dispose, invalidate, revoke, gate and edits of the tree, as one state machine | `CompactState`, `ReviewAuthority` (refinement) |
| `RecoveryGraph` | recovery edges, their defects, the plan of a batch; no variables | |
| `AtomicReconcile` | the abstract promise of a batch: one step | `RecoveryGraph` |
| `BatchReconcile` | the batch, the maintenance and the store lock, writers, captures, crashes and power losses | `RecoveryGraph`, `AtomicReconcile` (refinement) |
| `AuthorityGraph` | START, RECOVER and what advances a lineage, on several lineages | |
| `ReviewerCapture` | capture of reviewer results beside FINALIZE, reopening and disposition | |
| `NewLineage` | the v3 record and receipt, START, finalize, the gate | |
| `ReviewMode` | the kill switch and a review command that asks it | |
| `LedgerReplay` | what a chain of records says; no variables | |
| `RequestLog` | the abstract promise of the ledger to its callers | |
| `RuntimeLedger` | the ledger's operations, publication, crashes and power failures | `LedgerReplay`, `RequestLog` (refinement) |
| `UserState` | the installation state and every command that writes it | |
| `MutationJournal` | before-images and restoration; no variables | |
| `PluginUninstall` | the uninstall of an OpenCode plugin beside an editor | `MutationJournal` |
| `PiCodeGraph` | reconcile, refresh, uninstall of the Pi integration | |
| `InstallPipeline` | the stage plans of install and sync, runner and rollback | |
| `BackupStore` | snapshots, pruning, restores, the backup screen | |
| `Planner` | the order of the selected components | |
| `InstallWizard` | the screens that lead to an installation | |
| `TerminalJobs` | the jobs that run beside the screens | |
| `MCFinalizeAttempt`, `MCBatchReconcile`, `MCRuntimeLedger`, `MCAuthority`, `MCInstaller` | the instances TLC checks | |
| `FinalizeAttemptProofs`, `BatchReconcileProofs`, `AuthorityGraphProofs`, `ReviewerCaptureProofs` | lemmas and theorems about the component of that name | the component, `TLAPS` and its libraries |
| `LedgerProofs` | theorems about `RuntimeLedger` for all constants, and the properties of the run `ledger` | `MCRuntimeLedger`, `TLAPS` and its libraries |
| `AuthorityProofs` | theorems about `UserState`, `ReviewMode` and `NewLineage`, and the properties of the run `authority` from those of its components | `MCAuthority`, the proof modules of its two other components |
| `BackupProofs` | theorems about `BackupStore` | `MCInstaller`, `TLAPS` and its libraries |
| `InstallerProofs` | theorems about `PluginUninstall`, `InstallPipeline`, `TerminalJobs` and `InstallWizard`, and those invariants of the run `installer` that speak of these and of `BackupStore` | `BackupProofs` |

### 2.1 State and code

`authority` is the head of the lineage's `state.json` chain, `journal` its
`finalize-attempts.json`, `receipt` its `receipt.json`, `captured` the evidence
directory, `live` the working tree as a candidate, `revoking` the revoker's hold
on the store lock between its two writes. The variables of a finalizer are the
locals of `runReviewFacadeFinalize`: `payload` the flags, `seen` the record it
loaded, `inputs` the evidence it read, `entry` the pending attempt and the index
of its revision in it, `request` the reconciled request, `plan` the transitions
`prepareFacadeFinalizePlan` returned, `done` how far it is, `pc` where.

In `BatchReconcile`, `v2` is the directory of that name, `vault` the
`quarantine/batch-*/entries` directories, `unsynced` the renames no directory
sync followed, `marker` the global `CompactBatchReconcileJournal`, `audit` its
copies beside the entries, `shared` and `exclusive` the holders of
`REVIEW-MAINTENANCE.lock`, `local` of `v2/LOCK`. `request` is the file a
maintainer keeps between prepare, apply and replay; `journal` and `todo` are
locals of `ReconcileInvalidRecoveryEdges`.

In `FinalizeAttempt`, a revision is the SHA-256 of the state, so the models use the state itself
wherever the code compares revisions. That is exact, and makes "this digest came
back" a real question (`RevisionsNeverRecur`).

In `AuthorityGraph`, `rec` is every lineage's head, with its predecessor, the
predecessor's revision and its generation; `receipt` the revision a receipt was
written for; `proc` a command between its reads and its writes. In
`ReviewerCapture`, `payloads` and `digests` are the two files of each slot,
`archive` what was moved out of them, `auth` the record. In `NewLineage`, `rec`
and `receipt` are `review-state.json` and `review-receipt.json`, `dirs` the
lineage directories that make `DetectNewLineage` answer yes, `legacy` the
candidates a v2 receipt approves. In `ReviewMode`, `slots` is the row of
generations of the override, `global` the mode in the installation state.

In `RuntimeLedger`, `records` is every content ever built and a revision its
index (the code: the hash of the content, predecessor included), `present` and
`durable` the files there and those a power failure keeps, `head` and `synced`
the same of HEAD, `cand` the candidate tree, `leaf` and `approved` the review
authority. `replay` remembers the state after each record so that TLC computes
it once; `LedgerReplay` defines it.

A setting of `MCRuntimeLedger` is a record of values for the constants, and `L(k)`
the ledger in the setting `k`, so that a theorem about `L(k)` is one about every
setting there could be. So are the components of `MCInstaller` (`Uninstall(k)`,
`Integration(k)`, `Pipeline(k)`, `Backups(k)`, `Wizard(k)`, `Jobs(k)`) and, of
`MCAuthority`, `Mode(k)` and `V3(k)`.

In `UserState`, `file` is the record, `binary` the installed release, `assets`
the release whose sync last wrote the managed files. In `PluginUninstall`,
`file` the contents, `editor` who wrote last, `journal` the before-images,
`staged` the renamed directories, `pending` those the report names. In
`PiCodeGraph`, `disk` the files, `manifest` what Gentle AI owns with before-image
and hash, `mine` and `edited` what the user wrote last and where (history), `run`
the operation with its journal. In `InstallPipeline`, `disk` is the set of files
that hold what a command writes, `run` the plan, its results and the snapshot.
In `BackupStore`, `world` is the user's files and `backups` the directories with
archive and manifest. `InstallWizard` and `TerminalJobs` name the fields of
`tui.Model` they stand for.

### 2.2 Actions and code

| Action | Code |
|---|---|
| `Load` | discovery and the unlocked load; a terminal lineage takes only an empty request |
| `Inspect` | terminal entry: pending attempt and receipt |
| `Enter` | evidence flags or captured evidence, pending attempt, transition index |
| `Prepare` | `prepareFacadeFinalizePlan` and the live-tree check |
| `Reconcile` | `ReconcileFinalizeAttempt` |
| `WriteAhead` | `PlanFinalizeAttemptTransition`, one transition per lock |
| `Commit` | `ReplaceContext`, one transition per lock |
| `Publish`, `Confirm` | `WriteReceipt` and reading it back |
| `MarkPublished`, `Complete` | the two completion flags, each under its own lock |
| `Abort` | a crash, a cancelled context or a refused lock at any point |
| `BeginCapture`, `CapturePayload`, `CaptureRecord`, `AbortCapture` | `review capture-evidence`: unlocked read, two immutable publications |
| `ReopenResults`, `DisposeResult`, `InvalidatePristine` | one compare-and-swap each |
| `Revoke`, `RemoveReceipt`, `AbortRevoke`, `ReplayRevoke` | the two writes of `InvalidateApprovedCompactAuthority`, a crash between them, and the repeat that finishes |
| `GateEvaluate`, `GateAllow`, `GateDeny` | unlocked evaluation, confirmation under the lock |
| `Edit` | somebody edits the tree |

| Action of `BatchReconcile` | Code |
|---|---|
| `Begin` | the unlocked look for the marker and the read of the lineage under the shared lock |
| `WaitShared`, `CheckMarker`, `LockStore` | `acquireStoreLock`: poll the maintenance lock, look for the marker, try `v2/LOCK` once |
| `Write` | `replaceContextGuarded`: a START or an advance |
| `BeginCapture`, `Capture` | `review capture-evidence` as the batch sees it |
| `Prepare`, `Submit` | `--prepare`; the apply, or its repetition |
| `WaitExclusive`, `LockStore` | `acquireCompactBatchReconcileLocks` |
| `Resume`, `Bind`, `Refuse` | the branches of `ReconcileInvalidRecoveryEdges` on marker, audit and plan |
| `Mark`, `AuditPrepared`, `AuditCommitted` | publishing marker and audit; the audit an earlier run committed |
| `Move`, `Sync`, `VerifyMoved` | `executeCompactBatchReconcileMove` |
| `Commit`, `Clear`, `Fail` | final verification and commit; marker removal; every refusal half way |
| `Stop`, `PowerLoss` | a process ends with its locks; the machine does, and unsynced renames may be undone |

| Actions of the other modules | Code |
|---|---|
| `AuthorityGraph`: `BeginStart`, `StartLock`, `Inspect`, `Create`, `Return` | `review start`: candidate, lock, discovery and claim on the graph, the new lineage, the answer |
| `BeginRecover`, `Recover` | `review recover`: inspection without the lock, the successor under it |
| `BeginAdvance`, `Advance`, `WriteReceipt`, `Revoke` | FINALIZE, reopening and revocation, which looked at the graph (if at all) before the lock |
| `ReviewerCapture`: `BeginCapture`, `TakeLock`, `Prepare`, `Seal`, `Clear`, `Publish`, `PublishDigest`, `Answer` | `review capture-result`: subject, lock, archive of a condemned result, its removal, the two files |
| `BeginFinalize`, `ReadSlot`, `CompleteReview`; `BeginReopen`, `CommitReopen`; `BeginDispose`, `CommitDispose`; `Approve` | the other commands on that record |
| `NewLineage`: `Start`, `StartLegacy`, `Finalize`, `Acquire`, `Mutate`, `Rename`, `Load`, `WriteReceipt`, `Publish` | `AuthorityStore.Mutate` and `WriteReceipt`, each under the lock, from START and finalize |
| `GateUnmarked`, `Gate`, `Live`, `Relation`, `Decide` | `resolveGoverningAuthority`, read by read |
| `ReviewMode`: `SetGlobal`, `Resolve`, `Acquire`, `Compare`, `Publish`, `Damage` | `review mode`, `SetCloneLocalRDDMode` |
| `AskGlobal`, `AskOverride`, `Advance` | the kill switch as a review command asks it, and what it does later |
| `RuntimeLedger`: `Begin`, `Reset`, `FinishPlain`, `FinishRemediation`, `Bind`, `Acquire`, `Settle`, `SettleAgain` | a request, from the reads before the lock to its answer |
| `PublishRecord`, `PublishHead`, `SyncHead`, `Crash`, `PowerLoss` | publication under the lock, and where it stops |
| `Edit`, `Approve`, `Recover` | the candidate and the review move |
| `UserState`: `Begin`, `Open`, `SyncRead`, `Work`, `Migrate`, `Replace`, `ReadBack`, `Write` | a command's reads, its work and its writes of `state.json` |
| `PluginUninstall`: `CaptureFile`, `ReadFile`, `Verify`, `Replace`, `Record`, `Stage`, `Clean`, `Unstage`, `Restore` | one file system call each; `Edit`, `MakeDir`: somebody else |
| `PiCodeGraph`: `Start`, `ReconcileMCP`, `ReconcileChild`, `RestoreMissing`, `Verify`, `Commit`, `Capture`, `Undo`, `RemoveManifest`, `Restore`, `Refresh` | reconcile and uninstall, a file at a time, with what the journal takes back |
| `InstallPipeline`: `Prepare`, `InstallAgent`, `InstallPlugin`, `Configure`, `InstallTool`, `RefreshGuidance`, `SyncPi`, `ReconcilePi`, `Undo…`, `Finish` | the steps of a plan, their rollbacks, the save of the selection |
| `BackupStore`: `Begin`, `Copy`, `Create`, `Seal`, `Annotate`, `ListManifests`, `Prune`, `Apply`, `Extract`, `Restore`; `Open`, `TogglePin`, `Rename`, `DeleteBackup`, `RestoreBackup` | a run; the screen |
| `Planner`: `Resolve`, made of `Expand`, `TopologicalSort`, `SoftOrder` | `dependencyResolver.Resolve`, `TopologicalSort`, `applySoftOrdering` |
| `InstallWizard`: `On…`, `Toggle…`, `PressBack`, `PressEsc` | `confirmSelection` and the toggles screen by screen; the rows "Back"; `goBack` |
| `TerminalJobs`: `Enter…`, `Confirm`, `Generate`, `Esc`, `PressQ`; `UpgradeDone`, `SyncDone`, `OneShotDone`, `PipelineDone`, `Generated`, `InstallDone` | keys; the messages `Update` takes |

### 2.3 Abstractions

* Reviewer results, findings, refuter outcomes and classification are one
  verdict (`clean`, `fix`, `inconclusive`): what `CompleteReview` makes of them.
* A correction is named by the candidate it produces; its size is `FixSize`.
* A targeted validation document binds the candidate, both checks passed (a
  failed document is refused before anything is read).
* An evidence payload is its outcome: two payloads of one outcome are the same
  bytes. Results are passed to FINALIZE as flags; the route that reads captured
  reviewer results needs `ReviewerCapture`.
* A critical section is one action except the revocation. A finalizer that is
  refused the lock stops: that is `Abort`. Live re-validation is atomic with
  planning.
* Left out: the automatic evidence of a zero-lens review, the kill switch,
  `--next-transition`, submission descriptors, the `review/complete-fix` route
  (no command produces it any more), quarantine files and the
  authorization texts of reopen and dispose.

In `BatchReconcile`:

* A record is what an edge's validity depends on: revision, predecessor and its
  revision, and whether the rest of the edge re-derives. Revisions are numbers,
  fresh for every write. Cycles of predecessors are left out: a record binds the
  digest of its predecessor.
* An entry is its record and whether captured evidence is in it. An evidence
  capture in flight may change the residue of a bound entry or recreate a moved
  directory; the batch then fails, and so does every replay until somebody
  removes the file. `BatchCompletes` is therefore checked without captures.
* A file write whose sync fails counts as written or not written: both are
  crash points of the model. Cancellation, a lock timeout and an I/O error
  before a write are `Stop`. Both locks are released in one step. The branch in
  which a batch finds `v2/LOCK` taken is there, but no holder can be left once
  the maintenance lock is exclusive.
* Planned entries move in any order (the code: chain order). Writers advance any
  lineage, also a recovered predecessor, which the store would mostly refuse:
  more interleavings than the code has. After `Refuse` the operator starts over.

In `AuthorityGraph`, `ReviewerCapture`, `NewLineage`, `ReviewMode`:

* One projection and one base: a candidate is the set of paths it changes, and
  relations between candidates are those of these sets. Staged, rebased and
  release-scope recoveries, recovered evidence, the retry of a final
  verification, quarantined lineages, abandoning and reclaiming are left out. A
  lineage that was itself recovered never matches a START without `--lineage`:
  the answer is `blocked`, as in the code. The "unsafe" scope changes are the
  candidates that are not the current one.
* FINALIZE, a reopening and a revocation are one advance each, with the read of
  the graph they make before the lock; what they do in detail is in
  `FinalizeAttempt`.
* A reviewer result is its body and the revision it was issued for; whether a
  body is admitted is left out, `preserve-result` and results given by path too.
  The answer of `capture-result` is read again after the lock is released
  (`review_artifact.go`, about line 398) and may name another artifact's digest;
  the model answers with its own.
* Of the relations between a v3 candidate and the live tree, `unrelated` (with
  its deny), `compatible_base_advance` and `provable_contraction` cannot be
  reached from the gate as production code calls it, and no production code
  writes the states `correcting` and `validating`. They are left out.
* The consent question, its latch and a declined candidate are left out of
  `ReviewMode`. `"unset"` stands for the empty `rdd_mode`.

In `RuntimeLedger`: a work unit stands for the whole scope of an objective, a
tree for a candidate, `Lines` for the diff between two. The import of a legacy
binding, receipt references and the shape checks of a record are left out.

In the installer modules:

* `UserState` has one field for the model assignments and one for the tools; the
  pipelines of install and sync succeed or fail as a whole. `InstallPipeline` has
  a file for all that a component writes, present or not.
* Path containment, symlinks, permissions and the text of what is written are
  left out; a content is who wrote it and what the code can tell apart in it.
* A child of Pi that cannot be read is reported as unavailable and passed over
  (`pi_codegraph.go:199-203`); `PiCodeGraph` has no such child.
* `BackupStore` has backups of the plain format only as backups of no files.
* `InstallWizard` leaves out what the pickers contain and what the two optional
  screens, of tools and plugins, collect. The direct ways from the pickers to the
  dependency screen need `InstallFlowActive` to be false, which it is not again
  after the first installation screen; they are not reached.
* `TerminalJobs` makes one screen of those of `InstallWizard`. No strategy sets
  `ExitRequested`, and `UpgradeFn`, `SyncFn` and `RestoreFn` are nil only in
  tests: these branches are left out. A job that fails answers like one that
  succeeds unless what follows differs.

## 3. The runs

A run is one question, or several of components that share an MC module. In
`MCRuntimeLedger`, `MCAuthority` and `MCInstaller` a behaviour is one of one
component under one set of bounds: `part` names it, `Init` starts it, `Next` is
the `Next` of its instance, and the variables that only other components have
keep the value `Off`. The state space is the sum of those of the parts, not
their product. The properties of these runs gather, part by part, those the
component's module states and names under *Properties*: `GraphSound`, for
instance, is `NeverForks` and `NoTwins` of three instances of `AuthorityGraph`,
and an action property such as `AuthoritySteps` takes one `Keeps…` of each part.

`CHECK_DEADLOCK FALSE` because every system here may stop for good: an authority
is decided or awaits an operator, a store's edges are all valid, a command has
ended and the bounds on commands, edits and faults are used up.

| Run | Instance | Shows |
|---|---|---|
| `finalize_crash` | one finalizer, every request, one reopening, one crash anywhere, capture, revocation, gate, a tree that moves to the fix or off the base | `TypeOK`, `ApprovalEarned`, `PlanAdmissible`, `CompletedIsPublished`, `RecordDescribesPayload`, `GateAllowSound`, `RevisionsNeverRecur`, refinement of `ReviewAuthority` |
| `review_race` | two finalizers: clean against defective verdict, then verification; one crash | `OnePendingAttempt`, `AuthorityJournaled`, `ReceiptBound`; under `FairSpec` `ReceiptEventuallyPublished`, `AttemptEventuallyCompleted` |
| `completed_early` | two finalizers: a clean review and the verification in requests of their own, given twice; one crash | violated: section 5.4 |
| `loser_retry` | two finalizers with different forecasts | violated: section 5.1 |
| `batch` | a writer, two maintainers, two stops; three histories: a suffix, two chains, a non-contiguous closure that has no plan; `FairSpec` | `TypeOK`, `PreparedFreezes`, refinement of `AtomicReconcile`, `BatchCompletes` |
| `batch_power_loss` | two maintainers, a writer, a capture, two stops or power losses | `OnePreparedBatch`, `QuarantineIsBound` |
| `batch_durable` | one short chain, one stop | violated: section 5.2 |
| `ledger` | `plain`, `race`, `crash`, `bound`, `compact`, `remedy` | `LedgerSound`, `PassIsReviewed`, refinement of `RequestLog` |
| `token_resent` | the same | violated in `compact`: section 5.5 |
| `authority` | `merge`, `damage`, `defer`; `clone`, `global`, `repair`; `race`; `graph`, `pair`, `fork`; `capture`, `cut`, `recapture`; `FairSpec` | `RecordSound`, `SwitchSound`, `LineageSound`, `GraphSound`, `CaptureSound`, `AuthoritySteps`, `AssetsCatchUp`, `DamageIsRepairable`, `Finalized` |
| `installer` | `npm`, `logo`, `late`; `pi`, `break`; `known`, `any`; `quiet`, `stale`, `mixed`; `order`; `models`, `code`, `alone`; `jobs`, `hasty` | `UninstallSound`, `IntegrationSound`, `PipelineSound`, `BackupsSound`, `PlanSound`, `ScreensSound`, `InstallerSteps` |
| `superseded_frozen` | `graph` | violated: section 5.3 |

The largest run, `installer`, has 3.8 million distinct states; `authority` has
644 thousand.

### 3.1 Bounds, and why they are enough

* `Finalizers`: two. Every conflict the store and the journal can see is between
  the committed value and one stale process; a third could only repeat either
  role. All but the liveness properties is also proved, for any number of them but
  for `CompletedIsPublished`, which is for one.
* `MaxReopens = 1`: one reopen is the only way back to `reviewing`, so it is
  what a stale writer or stale evidence needs; the audit counter it adds makes
  each further round a fresh copy of the first.
* `MaxAborts = 1`: one crash at any of the writes of a FINALIZE, a capture or a
  revocation, and the command given again.
* `Fixes`: one, at the budget; a forecast of two is over it.
* `Strays`: one tree that no fix is. `NoEdits` (an action constraint of
  `review_race` and `completed_early`) leaves gate, capture, revocation and a
  moving tree to `finalize_crash`.
* `LookedAt` and `GateOrCapture` (action constraints of `finalize_crash`) leave out
  orders of steps that commute. A finalizer compares the tree when it plans and
  not again before it has committed, and an edit commutes with the steps between,
  so the tree moves before or after them; off every fix it moves only where
  somebody tells that apart, at an open correction and after the approval. The
  gate and a capture share no variable, so one may wait for the other to end.
  What is proved is proved without either.
* Batch: four lineages hold every shape the planner tells apart (an invalid edge
  with a valid descendant, two chains, an invalid edge below a valid one);
  `MaxRev = 5` leaves one write, which is what a stale plan, a stale writer or
  a START beside the batch needs; `MaxFaults = 2` is a stop and a stop of the
  replay. The refinement, the freeze, `OnePreparedBatch` and
  `QuarantineIsBound` are also proved for any of them.
* Ledger: `MaxRecords` of 3 to 5 is a begin, its finish and what may follow (a
  second attempt, a reset, a remediation); two attempts and one line are the
  limits at which an objective is refused; two callers as above. In `compact` a
  request is sent again while the first one is on its way.
* Authority graph: three candidates that expand, contract and leave each other
  (one command at a time); two of one scope with two commands at a time; two
  recoveries of one lineage at a time (`fork`, which starts at the correction
  that left its scope). `MaxRev` of 2 or 3 is what a lineage reaches with a receipt
  or a correction, and a step past it.
* Captures: two lenses tell "all captured" from "one captured"; two bodies, one
  with a blocking finding; `MaxRev = 6` is a second reopening, after which a slot
  holds what an earlier one condemned. With two commands at a time (`capture`,
  `cut`) it is 4, one reopening and the capture after it, with both bodies or with
  a crash.
* New lineage: three commands, two of them at a time, which are a START and two
  finalizes, or one and a gate.
* Switch: three generations with two users and a review, five for repairs.
* Installation state: three releases, so that an upgrade may follow one whose
  sync is still owed. Commands follow each other, see 3.3.
* Installer: up to three failing calls, so that a step, a restoration and a
  second restoration may fail; two commands, four for Pi, because an uninstall
  after an edit needs two reconciles before it, of which the second one writes
  again what the first one wrote.
* Backups: four, three where nothing is upgraded, with one kept and four uses: a
  pinned one, a pruned one and a twin. `stale` has four and six uses and no faults:
  as many as it takes to prune a backup the screen still lists, to have the screen
  write its manifest again, and to make a run that finds it. In `mixed` the
  comparison with the newest backup may fail, after which a snapshot is taken.
* Planner: every graph of three components with cycles and unknown names, every
  one of four with two dependencies each; the real graph is one of these.
* Screens: the agents that have screens of their own, in three sets of two or
  three. Jobs: at most two generations, one to be cancelled and one after it.
* Symmetry on finalizers is used only in `loser_retry` and `completed_early`,
  which check no liveness.

### 3.2 Fairness

`FairSpec` of `FinalizeAttempt` asks for three things. A started finalizer runs
on (`WF(Run(p))`): it is a process with bounded lock waits, and `Abort` can still
stop it. The revoker, which holds the lock for two writes, releases it
(`WF(RemoveReceipt)`). The operator repeats the empty FINALIZE of a terminal
lineage (`WF(Terminal /\ Load)`): every error of an interrupted FINALIZE names
that command as the next step, and it is the only thing left to do. Nothing is
assumed of crashes except their bound, nor of the edits of the tree.

`FairSpec` of `BatchReconcile` asks that a writer which has begun runs on
(`WF(WriterStep(w))`: its polls see a lock that stays free, and it releases
both locks whatever the answer), and that a maintainer runs on and its operator
submits the request again (`WF(Submit(m) \/ BatchStep(m))`): while the batch is
prepared every other command is refused with `ErrCompactBatchReconcilePrepared`,
and exact replay is the only way out. Weak fairness is enough because no new
writer begins while the marker is there, so the maintenance lock does become
free and stay so.

`FairSpec` of `MCAuthority`, whose every part belongs to one behaviour, so that one
fairness condition may name an action of several: in `defer` a process runs on, the
screen is opened again and again (`SF`, for other commands may come first), and a
deferred sync that is tried again and again succeeds at some time
(`SF(LaunchSyncs)`): the flag is left set after a failure so that the next launch
tries again. In `repair` a command runs on and the user gives the command the
refusal names (`SF`). In `race` a command that has begun runs on.

### 3.3 What the instances leave out on purpose

Some properties fail when a constant is set otherwise, or in a case that a formula of
the MC module excludes. They are stated for the case the code is written for, and the
disagreement is in section 5:

* `Overlap = FALSE` (`UserState`, `BackupStore`): two commands at one time lose each
  other's fields, a backup may be of files that changed while it was made.
* `LateSyncFails` is on in `late`, where `RollbackRestores` is not asked for;
  `RacyEdits` in `logo`, where `KeepsEdits` is not.
* `RestoredExactly` and `DriftIsEdited` are asked for in `pi` and, before a crash, in
  `break`; both write a child again after an edit (`Reworks`). `DriftIsEdited`
  compares with what the user ever edited, not with what the user edited last, and
  `FailsForCause` is asked for without projects.
* `NoTwins` is asked for where nothing is upgraded and the comparison does not fail
  (`CheckFails`).
* `Fresh`, `Plugins` are `FALSE` in the instance `known`: files outside the
  snapshot.
* `Walked = {"full", "minimal"}` (`InstallWizard`): `Returns` says nothing of a custom
  preset. `Reconsiders` is on in `models`, where `SkillsAsChosen` is not asked for: another
  preset after the skills.
* `Patient` is `FALSE` in `hasty`, where `GeneratedAsAsked` is not asked for: asking
  for an agent again while a cancelled generation has not answered.
* `"upgrade"` is not among the commands of `merge` and `defer`, `"install"` only
  in `damage`.

## 4. The theorems

Every theorem is about the specification with arbitrary constants, or about the
settings of an MC module and then from one that is. What they
assume of the constants is one named formula per module: `Bounds` or `Distinct`
(sets are finite or of naturals, numbers are naturals, `None` is no member),
`StateBounds` and `ModelValues` in `AuthorityProofs` (the model values of
`MCAuthority` differ from each other and from the literals beside them),
`InstallerValues` and one `...Bounds` for each component in `InstallerProofs`. Where a
theorem needs a constant that section 3.3 names, it says so, as a hypothesis of
what is concluded and not of the rest. TLC
evaluates the assumptions that modules state as `ASSUME` on every run.

### 4.1 FINALIZE (`FinalizeAttemptProofs`)

`TypeCorrect`: types, and that a finalizer at `ahead` or `commit` has a next
transition. Inductive with `PlanInProgress`; the work is that the plan is a
sequence of transitions (`PlanType`) and that `CHOOSE` in `Pending` and
`TransitionIndex` has a witness (`GreatestNatural`, `LeastNatural`).

`OnePending`: only `Reconcile` adds an attempt, and only when all are complete
(`JournalStep`); every other writer of the journal completes or keeps.

`ReceiptIsBound`, `GateSound`, `Implements` share `AuthorityInv`: invalidation
evidence means `invalidated`, a revoker has already revoked, the receipt is
bound, and what the gate evaluated is still the published approval or has been
invalidated. `ReceiptBound` alone is not inductive: that a compare-and-swap
never leaves a stale receipt behind needs that the store admits a successor of
an open review only (`AdmissibleSuccessor`), and that an open review has no
receipt (`OpenReview`); `GateAllowSound` needs that a receipt disappears only
below a denied authority.

`WriteAheadHolds`: `AuthorityJournaled` with `PlanJournaled` (a finalizer at
`commit` has its whole plan in the journal) and `JournalGrows` (no step takes
anything out of it).

`CaptureConsistent`: with `CaptureInv`, by the steps of the capture.

`PlansAreAdmissible`, `ApprovalIsEarned` and `NoRevisionRecurs` need what a plan
is: a chain, whose first transition starts at the authority the finalizer loaded
and each further one at the result of the one before, every one of them sound
(`Chain`, `SoundStep`, `PlanInv`). For `PlansAreAdmissible` the planner's refusals
are shown to imply the store's, a case for each operation. `NoRevisionRecurs` needs
that every step, planned or of a reopening, disposition, invalidation or
revocation, takes the authority to a higher `Rank`, which counts the reopenings
first and the stage of the review second. `ApprovalEarned` is not inductive: the
evidence a finalizer read before its lock must still be evidence *of this
reopening* when it commits. What makes it so is that the compare-and-swap found
the state the evidence was read for (`Fresh`, in `PlanInv`), and that a state on
the way to an approval is sound itself (`SoundState`, `Earned`): its correction
is not taken while it is under review.

`SolePublishes`: `CompletedIsPublished`, if there is only one finalizer (two can
violate it, section 5.4; nothing else is assumed of crashes, maintenance,
revocations, captures and the tree). It is far from inductive, for `Adopted` never
asks whether the receipt exists: it reads an index in the pending attempt's
transitions. What makes the index enough, `SoleInv`, has three parts.

* The journal (`JournalOf`): its attempts answer distinct requests; each records
  only what its request allows, each transition once, beginning with the review if
  the request was made under review (`Shaped`); and the committed state ranks at
  least as high as whatever a completed attempt starts from or records (`Reach`,
  `Passed`). So no later commit, which ranks higher, is a transition of a completed
  attempt (`PassedMisses`), and the property can only break where an attempt is
  completed.
* The finalizer (`RunningOf`): what its position in FINALIZE says of the state it
  loaded, of the pending attempt it found and of its plan; that what it found is
  still true when it takes the lock is where a second finalizer would enter.
* An attempt is completed at a decision only with the receipt on disk (`Attests`);
  at an undecided state only when its request has nothing left to do there
  (`Works`, `PlanFinishes`), and then its every transition is behind (`Finishes`).
  That a request resumed at the state its review ended in still asks the same, and
  that a plan is empty exactly when nothing is left (`PlanFits`, `Adoption`), is
  the bulk of the proof.

It needs the one assumption on `NoRequest`, that it is no request
(`NoRequestAssumption`). Before it was proved TLC found no violation of
`SoleInv` with fifteen requests under the bounds of `finalize_crash`, the gate left
out (4.9 million states).

### 4.2 The batch (`BatchReconcileProofs`)

`RetainedGraphIsValid`: what a batch removes is the least set that holds the
invalid lineages and is closed below (`QuarantinedIsLeastClosure`), so a record
that stays keeps its predecessor and meets no new fork.

`BatchTypeCorrect`: with where each process can be and what it then holds
(`InProgress`). `OneBatch` and `QuarantineBound` rest on two invariants on top of
it: `LockInv` (writers in their critical section share the maintenance lock, a
batch in its own has it alone, hence `HolderAlone`) and `MarkerInv` (what a batch
at each of its steps knows of marker and audit). `OnePreparedBatch` is not
inductive without them: `Bind` decides on a marker that `Mark` overwrites two
steps later, and only the lock keeps another batch from coming between.
`QuarantineBound` is in `VaultInv`, with the fact that only planned entries are or
will be in quarantine; that the audit record is there before the first move comes
from `MarkerInv`. It holds with power losses too, which only take entries
back.

`Frozen` and `BatchIsAtomic` assume `~PowerLosses`: by the second finding a
committed batch can lose its last rename to a power loss, and then neither
holds. `BatchIsAtomic` adds that every journal's plan comes from a graph that
could be reconciled, that a committed audit's entries are no longer counted,
and that revisions on disk are at most the last one used (`RevInv`), so that a
compare-and-swap which succeeds found the very record the writer read. Every
step but `Write` and `Commit` is a stutter of `AtomicReconcile`; `Commit` is
`Reconcile` because the final verification compares the retained graph with the
planned one.

### 4.3 The other authorities

All four have the same shape. The properties are about files, and each is lost if
a process writes what it decided on an outdated read; so beside the types the
inductive invariant says of each process, at each place between its reads and its
writes, what it *knows* of the files now: under the lock that a read still holds,
without it only what can never change again.

* `NewLineage` (in `AuthorityProofs`), `V3Inv`: what a process under the lock loaded is the
  record on disk; a receipt on its way is that of a decided record, and a decided
  record with its candidate stays, which is also what lets a gate read record,
  receipt and tree one after the other (`GateIsEarned`).
* `ReviewMode` (in `AuthorityProofs`), `ModeInv`: a user who will publish a generation was told the
  one before it, or found it damaged (`Told`). `CloneInv` and `GlobalInv` add what a
  review that asks two sources one after the other has seen of the first
  (`SeenOn`); the theorem is for histories in which users change one of the two,
  because it is false when both change (section 5.6).
* `AuthorityGraphProofs`, `GraphInv`: types, `NeverForks`, `NoTwins`, and
  `Knows(p)`: a START that will create holds the lock, its lineage is still
  unknown and its candidate still unclaimed, and what an advance read differs from
  the record only in what an advance changes.
* `ReviewerCaptureProofs`, `CaptureInv`: no result in a slot was issued for
  a later revision than the record's, and every condemned one for an earlier
  (`Past`), a disposition ends the review (`DisposedEnds`), and `Knows(p)`: what of slot and archive a capture between its
  writes may rely on, and which results a FINALIZE that read without the lock can
  still count on, because only a reopening condemns them and its revision shows.

### 4.4 The installation state and the run `authority` (`AuthorityProofs`)

For `UserState`, `StateInv` is the types and, because commands follow each
other (`~Overlap`, one process), that what the command remembers of the file is
what the file holds until it writes (`Remembers`). `SyncIsNeverForgotten` and `ChoiceIsRecorded` have the
hypotheses under which they are true: no explicit upgrade, no full install
(section 5.6). `MergesKeepTheRest` has none of the second kind.

`MCAuthority` runs thirteen instances of five components over shared variables, of
which `part` names the one that runs. `SwitchIsSound`, `LineageIsSound`,
`GraphIsSound`, `ResultsAreSound`, `RecordIsSound` and `StepsAreSound` are the
properties of that module itself, as the run checks them: a step of the
composition is a step of the instance of its part, or leaves its variables as they
are, so the invariant of each component carries over.

### 4.5 The ledger (`LedgerProofs`)

`LedgerSafe`, `LedgerRefines` and `LedgerTokens` are about `L(k)` for any `k` that
satisfies `Bounds`: limits are positive naturals, the changed lines between two
trees are a natural, and a chain of all the records there may be (the bound
`MaxRecords`) is one the reader accepts (`ChainLimit`). The last is a real
limitation: a ledger that reaches `maximumRuntimeChainRecords` can no longer be
read, and nothing in the builders looks at it (section 5.6). All bounds are
otherwise free: callers, units, trees, evidence, lineages, faults. `LedgerIsSound`,
`LedgerPassIsReviewed` and `LedgerKeepsPromise` are the properties the run `ledger`
checks, for its six settings, from the same lemmas.

Nothing here is inductive by itself. `HeadReplays` says that two copies of the
rules agree, those the builders check and those the replay checks, and what the
builders see is the replay of what other callers wrote. The invariant is in
layers, each of which the next one needs:

* `Coherent(k, s)`, of the state a chain replays to: which attempts belong to the
  objective, how `charged` and `lines` follow from them (`Near`, `Steady`, `Charged`),
  and that only the last attempt can be running. `Apply` keeps it
  (`ApplyStep`), and what a builder makes at a coherent state is accepted there
  (`BuildsBegin`, `BuildsFinish`, `BuildsReset`, `BuildsBind`): the agreement of the two
  copies. `BudgetHeld` is a consequence (`BudgetFollows`).
* `Chained`: of every record ever built, that its predecessor is an earlier one, that
  its chain replays to a coherent state, and that its request is in no record before
  it; and, while reviews are on, that a record that passes holds
  the bytes of its binding (`Reviewed`). What a chain says is a function of its last
  record, so a new record disturbs nothing that is said of the others
  (`ChainedGrows`).
* `Files`: HEAD and the HEAD that a power failure leaves are on chains whose
  records are all durable, the second a part of the first; `Told`: who was told is
  on the second. These carry `Promise`: a `Lose` of `RequestLog` is a cut of HEAD's
  chain no shorter than the durable one (`HeadsSinceIs`).
* `InHand`: what a caller at each step between the lock and its answer knows of the
  files. Only the holder of the lock is between a build and the sync of HEAD
  (`Placed`), so what it built is still right for the HEAD there is.

`LedgerTokens` needs `Tokens` beside it: requests in flight have names of their own
(`Apart`) and a caller that was told its request began an attempt holds the
revision of the record that did. Its hypothesis is `~Overlap`, that no request is
sent again while it is on its way, and that is what the token can be relied on for:
without it the property is false (section 5.5), and the setting `compact` of the
runs, in which requests are sent again, does not satisfy it.

`ModelValues` of `MCRuntimeLedger` says that `None` is not a work unit and not the word
`"proceed"`.

### 4.6 The installer (`BackupProofs`, `InstallerProofs`)

Each component has a section of its own: what it assumes of a setting `k` (its
`...Bounds`), the inductive invariant (its `...Inv`) with a lemma for every action,
and what follows; so the lemmas hold for every setting that satisfies the bounds, and
the last section puts those of `MCInstaller` in. `InstallerValues` says of the
constants of the run that no content of a file is the missing or a special one, and
that a process is not the screen, a file not the other and the missing screen none of
the screens.

* `PluginUninstall`, `UninstallInv`: the journal knows of every file it captured who
  changed it last (`Told`), what has been passed is gone (`Gone`), what is staged is to
  be removed or brought back (`Staging`), and what has been restored has its
  before-image or somebody else's text (`Restoring`). The bounds say that files come
  before directories and a file that goes as a whole last, as in the plans of the code.
  The invariant holds with edits between a check and its write and with writes that land
  and report a failure; that a rollback restores is concluded where no write does the
  latter, and that no edit is lost where no edit does the former, for otherwise both
  are false (section 5.6). That a finished uninstall leaves nothing needs neither.
* `InstallPipeline`, `PipelineInv`: the snapshot is the first step of every plan and
  of no other step (`PlanFits`, which unfolds the sequences a command concatenates);
  while a command runs, what the snapshot covers includes what its steps write
  (`Where`); a step that succeeded has had its effect, a snapshot that was restored is
  back (`OnDisk`), and without new packages and plugins nothing else changes (`Within`).
  The files of the Pi integration must not be among those components write.
* `BackupStore`, `StoreInv`: every backup is as its archive and its manifest say, or
  shows that it is not (`Kept`); what the screen shows of one is true of it or of what
  is left of it (`Shown`); and `Way` says of each process, at each of its steps, what it
  knows of its own backup, of its copy, of the victims it has chosen and of the newer
  ones that it keeps. One process at a time and one screen. `NoTwins` needs `TwinInv`
  beside it: a file that is there at the start is never removed (`Lasting`), so that no
  two snapshots in a row are both empty, and two that hold the same would have been one
  (`Differ`). `Shown` has to allow for a manifest without its archive, which the screen
  can write back after a run has pruned the backup; the setting `stale` is there
  because TLC does not get that far under the bounds of `quiet`.
* `TerminalJobs`, `JobsInv`: the screen a job in flight belongs to, and what is set
  while it is (`Flight`); the check for updates is out exactly once (`Checking`); the
  overrides are those of the screen one came from (`Asked`); a replaced binary is left
  with nothing but to write the state and to quit (`Resting`); and the one generation
  in flight is the one asked for last (`Latest`), if nobody asks for another before
  it ends (`Patient`); the rest does not depend on the user's patience.
* `InstallWizard`, `WizardInv`: an optional screen is open from the menu or from the
  flow (`WizardOpen`); a screen that depends on the selection is shown only if the
  selection, as it is, shows it (`WizardShown`); from where the plan is computed it is
  the plan of the selection (`WizardPlan`; for a custom preset that is before the
  pickers, else after them); skills belong to a custom preset only, and at the end they
  are those ticked, with their summary (`WizardChosen`). The work is the order of the
  pickers: the flow is a concatenation of eight optional screens, and `FlowPlaces` gives
  each its place, from which `PickerOrder` says which follows which; `EscMay` says where
  the key may lead. That going back leads to the screen one came from (`Returns`) is
  said of the presets `full` and `minimal` (`Walked`), and that the skills are those
  ticked last is concluded if nobody takes back a preset after picking them; section 5.6
  says why, under *Screens*.

`UninstallIsSound`, `PipelineIsSound`, `BackupsAreSound` and `ScreensAreSound` are the
properties of `MCInstaller` as the run checks them.

### 4.7 What is model-checked only

* Nothing of `CompletedIsPublished` beyond one finalizer: it is false for two
  (section 5.4).
* `PlanSound`: that the depth-first search of `Planner` and its reordering have the
  dependencies first is an induction over what a recursive function computes.
* `IntegrationSound`: an operation is a sequence of writes and of what the journal takes
  back of them, a file at a time, and an invariant would have to follow the text of
  every file through it.
* `InstallerSteps`, which gathers steps of `PiCodeGraph` too; those of the others are
  proved one by one (`UninstallsKeepEdits`, `PipelinesSaveSuccess`, `WizardsReturn`).
* The liveness properties (`ReceiptEventuallyPublished`,
  `AttemptEventuallyCompleted`, `BatchCompletes`, `AssetsCatchUp`,
  `DamageIsRepairable`, `Finalized`), and anything that needs `ENABLED`: out of the
  prover's reach.

No module declares a `RECURSIVE` operator.

## 5. Where code and documents disagree

### 5.1 A refused finalizer leaves its request behind

`ReconcileFinalizeAttempt` (`finalize_attempt_journal.go:190`) appends an attempt
for the revision the request names, without comparing it with the committed
authority. A finalizer that loses the race *before* reconciling, and only then,
journals a request whose entry revision is gone, and its compare-and-swap is
refused. The error it returns says that it published nothing and that the caller
may retry (`cli/review_operation_contract.go:633` and `:639-642`). But the
attempt stays unresolved: no later revision is its entry revision or one it
journaled, so `MayResume` refuses every following FINALIZE of the open lineage.
`LoserCanRetry` states the promise and `loser_retry` shows the trace: two
forecasts for one finding, the loser loads, the winner commits and completes,
the loser reconciles.

### 5.2 A replayed move is not made durable

`executeCompactBatchReconcileMove` syncs `v2` and the entries directory after
its rename. A replay that finds the entry already in quarantine
(`compact_batch_reconcile_journal.go:295`) verifies it and syncs nothing, and
neither does any later step. So a batch that stopped between its last rename and
the syncs, or whose sync failed, is replayed, committed and its marker removed
with a rename that a power loss may still undo: the entry is back in `v2`, the
audit says committed. The command says that it "durably journals every
whole-entry quarantine move" (`cli/review_reconcile_batch.go:43`), and
`compact_batch_reconcile_journal_test.go:213` that it retries every durability
boundary, the "post-move directory sync" (`:247`) among them; the test passes
because it does not look for the sync. `CommittedMovesDurable` states the promise
and `batch_durable` shows the trace. Whether a file system keeps an unsynced
rename is not the model's to say: `unsynced` only records that nobody asked.

### 5.3 A superseded lineage can still be advanced

A recovery writes the successor only; nothing in the predecessor says that it is
superseded. `ReopenCompactReviewerResults` (`compact_result_reopen.go:160`), and
the compare-and-swap of a FINALIZE that looked at the leaves before the RECOVER
(`cli/review_facade.go:2239`), advance it all the same. The successor's edge then
names a revision its predecessor no longer has, and every START without
`--lineage`, FINALIZE with one, RECOVER and gate of the store is refused until
the graph is reconciled. `docs/review-authority-threat-model.md:89` says that
recovery records "predecessor and operator provenance in the successor" "without
rewriting or deleting history", and `internal/cli/review_facade_test.go:1769`
asserts that FINALIZE refuses a superseded predecessor. `SupersededFrozen` and
`superseded_frozen` show it.

### 5.4 An attempt completed by another's index

`runReviewFacadeFinalize` looks for the pending attempt before it takes any lock
(`cli/review_facade.go:2407`) and computes the index of the authority it loaded in
that attempt's transitions. The index decides at `:2424` whether the request was
committed already, but there it is compared with the transitions of the attempt
which `ReconcileFinalizeAttempt` adopted in between, under the lock. So let one
operator give the verification of a lineage twice. The second process loads the
lineage at `validating` while the attempt of the verdict is still pending: index
0, the last of one transition. The first completes that attempt, journals the
same verification and commits it. The second adopts that attempt, takes its only
transition for the committed one, marks the attempt completed and reports the old
state, before the first has published the receipt. If the first stops there, the
lineage is decided, without a receipt and without a pending attempt. The journal
calls the two "the post-terminal completion flags", and a competitor at the lock
one who "is completing the same bookkeeping"
(`finalize_attempt_journal.go:250-254`), and `review_facade_test.go:672` asserts
that a decided lineage without its receipt has a pending attempt. The empty
FINALIZE of the terminal lineage still publishes the receipt
(`ReceiptEventuallyPublished`), under an attempt of its own: the attempt of the
verification stays without the receipt flag, and the retry of a final
verification asks for "exactly one completed receipt-published FINALIZE attempt
whose last transition is `review/complete-verification`"
(`docs/review-integration.md:246`). `CompletedIsPublished` states it,
`finalize_crash` checks it for one finalizer, `completed_early` shows the trace
for two.

### 5.5 A token that names no attempt

`Acquire` (`sddstatus/runtime_compact.go:62`) reads the ledger without the lock; if it
does not find its request there, it has `Begin` record it and returns the revision that
`Begin` answers with (`:99-103`). Let a caller send the same request again before the
first call has recorded it. Both calls are then past the unlocked look. The first one
records the request and its attempt is settled; the second one's `Begin` finds the
request in the ledger and answers with the status of the chain as it is by now
(`runtime_ledger.go:985-992`), so its token is the revision of the finish. No attempt
has it, and `Settle` refuses it. The comment says without a condition that "the
returned token identifies that exact begin record for Settle"
(`runtime_compact.go:60-61`), and a call sent after the record is there does answer with
the record's revision (`:73-91`). `TokenNamesAttempt` states it, `token_resent` shows
the trace. What does hold, in the same setting and for all constants, is the promise
of `RequestLog`: the request takes effect once (`LedgerRefines`); and the token is right
for a caller that waits for an answer before it repeats a request (`LedgerTokens`).

### 5.6 Further disagreements met while modelling

These have no run of their own. Where a constant is named, setting it makes TLC
show the trace; the others follow from the lines named.

*Ledger.*

* `Settle` takes the failed evidence from the ledger and records it; sent again as
  it was, the comparison with the caller's empty value answers
  `invalid_continuation`, against "reuse each operation's own request ID only for
  its idempotent replay" (`sdd-status-contract.md:141`).
* `load` refuses a chain longer than `maximumRuntimeChainRecords`; nothing refuses
  to write the record that makes it so, although "a committed reset always replays
  deterministically". `ChainLimit` below `MaxRecords`.

*Review authority.*

* v3 START freezes the authority with an empty expected revision and never asks
  `ResolveReplay`; repeated after a crash it is refused as a concurrent change,
  while `openspec/specs/rdd-review-core-transitions/spec.md` asks for replay
  detection from the record.
* A v3 finalize with `--failed` that finds the lineage approved drops the findings
  and reports `approved`, while the same document says "A lineage that has already
  finalized MUST NOT finalize again".
* A gate without `--lineage`, as hooks call it, never looks for a v3 record: "A
  legacy-only authority record MUST NEVER authorize a new-lineage candidate"
  (`rdd-new-lineage-activation/spec.md`).
* The two sources of the switch are read one after the other, with no lock over
  both; a review command asks once and may write after `review mode disable` has
  returned (`review_kill_switch.go`: "`Read-only` is only true if every verb that
  advances or consumes authority refuses while the switch is off").
* A conflict in `capture-result` tells the user to decide with
  `review dispose-result`, which refuses every slot that holds a result; a crash
  between the two files whose reviewer output is lost leaves the slot wedged.

*Installation state.*

* `gentle-ai upgrade` sets no `PendingSync`, while `selfupdate.go` says that the new
  binary "picks up PendingSync=true". `"upgrade"` among the commands.
* A full install writes a record without `rdd_mode`: reviews the user had switched
  off are on again; "empty means the user never expressed a preference"
  (`state.go`). `"install"` in `merge`.
* The record written after the deferred sync is the one read before it, so a
  migration of community tools by that sync is undone.
* The check for updates reads again before it writes "to avoid clobbering", which
  narrows the window and does not close it. `Overlap = TRUE`.

*Uninstall, pipeline, Pi.*

* A rename whose directory sync fails is not marked as changed, and the rollback
  that skips it reports that nothing changed. `RollbackRestores` in `late`.
* The journal's comparison and the write after it are two calls; an edit in between
  is lost, while `Remove` claims compare-and-swap. `KeepsEdits` in `logo`.
* A package whose overlay the snapshot does not know is configured by the CodeGraph
  step already; when a later step fails nothing takes it back. A plugin's entry in
  `tui.json` is not in the snapshot either. `Fresh`, `Plugins` with `RolledBack`.
* A child that has an entry in the manifest keeps the text and the hash of its first
  entry when it is written again, after an edit that dropped the blocks; uninstall then
  reports a file as edited by the user that the program wrote last, and leaves the blocks
  there ("uninstall removes only manifest-owned MCP and child blocks", `docs/pi.md`). What
  holds is weaker, and checked: such a file was edited at some time since the manifest
  was made (`DriftIsEdited`).
* A crash before the manifest is written makes the next reconcile adopt files with the
  blocks as their before-image. `RestoredExactly` in `break` without `crashes = 0`.
* A reconcile in a workspace takes project children into the manifest; uninstall
  may write only below the agent directory, and fails. `FailsForCause` in `break`.

*Backup.*

* `Create` archives the files and reads them again for the checksum; an edit in
  between is in the checksum only, and the next run skips its backup. `Overlap = TRUE`.
* Prune reads all manifests and deletes later (`retention.go:159`): a backup pinned in
  between goes, though "pinned backups are never automatically deleted"
  (`docs/rollback.md:42`). No property says anything of pinned backups: that a prune
  keeps those which were pinned when it looked is what its list is filtered by, and what
  the document says is false as soon as a screen and a run overlap.
* The upgrade never asks for duplicates; backups of no files are never recognised
  as such, although a sentinel checksum is stored for them.
* A pin writes the manifest of a backup that a sync of the same session pruned:
  what is kept is a manifest without its archive. A later run whose files have that
  checksum then skips its snapshot, and nothing there is holds them. `stale` is the
  setting in which it comes up; that a skipped snapshot is covered by the backup it
  relies on is therefore no property of the code.
* A failing write of a manifest leaves it unreadable and the backup is skipped for
  good ("the backup is still usable", `cli/run.go`).
* A restore stops at the first failing entry, with the earlier ones restored ("no
  partial restores", `docs/rollback.md`); a path that was a directory or a socket
  when the backup was made is removed by it.

*Screens.*

* Skills ticked in a custom preset stay in `Selection.Skills`, and another preset
  installs only those. `SkillsAsChosen` in `models`.
* "Back — in custom preset, return to the screen that preceded SkillPicker" skips
  the tools, the plugins and the Codex screen. `"custom"` in `Walked`.
* The late answer of a cancelled generation is taken by one that was started after
  it; the comment says that it is ignored. `GeneratedAsAsked` in `hasty`.
* Editing a profile leaves `Selection.ModelAssignments` set, which the screen for
  OpenCode models then shows and syncs (not modelled). A custom preset of only
  skills installs SDD as a dependency without its screens. A detection of tool
  statuses started earlier may overwrite those of an installation that ended first
  (not modelled).
* `q` during an upgrade-and-sync leaves a new binary without `PendingSync`.

## 6. Plan

Proofs: an invariant for `PiCodeGraph`, the one component with state that has none.

Of the model: the consent question and candidate decline beside `ReviewMode`; the
timers of the bounded polls in `store_lock.go`; recovery with other projections
and release scopes.

## 7. Not modelled

* Legacy v1 transactions, their quarantine and disposition: the facade produces no
  new v1 transition, and what remains is read-only compatibility and one-shot
  maintenance.
* Risk classification, admission and the projection of git trees: pure functions of
  a diff.
* `sddstatus/status.go`: derives a status from files and keeps no state.
* Recovery trace: a log nothing reads to decide.
* Update and upgrade (`update`): HTTP and package managers, one call after another;
  what an upgrade owes the next start is in `UserState`, its screens in
  `TerminalJobs`.
* Agent adapters, file merge, catalog, assets, contracts, skills: text and layout
  per agent, no state of their own. They are most of the lines of this repository,
  with the benchmark and the rendering of the screens, which is why the share of
  lines that definitions stand for is small beside the share of the state.
* Command-line parsing and wiring.

`PROJECT.json` lists each part with its sources.
